---------------------------- MODULE MC_Superblock ----------------------------
(***************************************************************************)
(* Superblock for TLC.  Three management calls and one power loss reach   *)
(* a flush that fails, a second flush, a power loss in between, and a      *)
(* load after it; two versions per segment let a second flush write data  *)
(* that differs from what the first one committed.                        *)
(***************************************************************************)
EXTENDS Superblock
=============================================================================
