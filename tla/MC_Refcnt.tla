----------------------------- MODULE MC_Refcnt -----------------------------
(***************************************************************************)
(* Refcnt with two users and one management thread doing two rounds of     *)
(* freeze / wait_for_zero / unfreeze: two users let one drop its reference *)
(* while the other is between its increment and its recheck, and a second  *)
(* round reuses the first round's waitqueue address.                       *)
(***************************************************************************)
EXTENDS Refcnt

CONSTANTS u1, u2, m1
=============================================================================
