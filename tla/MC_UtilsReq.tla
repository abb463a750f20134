----------------------------- MODULE MC_UtilsReq -----------------------------
(* Model-checking instance of UtilsReq: two request slots on one I/O queue *)
(* and the management queue, requests of 3 lines (allocator 2, embedded    *)
(* map) and of 200 lines (no allocator: allocator[0] and an env_zalloc     *)
(* map), discards capped at 256 lines, ref_count up to 2.                  *)
EXTENDS UtilsReq
==============================================================================
