--------------------------- MODULE ShardRotation ---------------------------
(***************************************************************************)
(* What the LRU iterator of src/ocf_lru.c promises about the order in      *)
(* which it visits the OCF_NUM_LRU_LISTS shard lists of a partition: the   *)
(* first visit is the start shard; every later visit goes to the next     *)
(* shard, in cyclic order after the current one, that has not been found  *)
(* exhausted; a visit that finds nothing marks the shard exhausted; the    *)
(* iteration stops when every shard is exhausted.                          *)
(***************************************************************************)
EXTENDS Naturals

CONSTANTS NumLists   \* OCF_NUM_LRU_LISTS

VARIABLES cur,    \* the shard visited last
          avail   \* the shards not yet found exhausted

Shards == 0..(NumLists - 1)

\* The first available shard strictly after s in cyclic order (s itself
\* when it is the only one).
NextAvail(s, A) ==
  LET d == CHOOSE d \in 1..NumLists : /\ (s + d) % NumLists \in A
                                      /\ \A e \in 1..(d - 1) : (s + e) % NumLists \notin A
  IN (s + d) % NumLists

\* Iteration starting at shard start: "current" is the shard before it.
Start(start) == /\ cur = (start + NumLists - 1) % NumLists
                /\ avail = Shards

Init == \E start \in Shards : Start(start)

\* One visit; found says whether the visited shard yielded a line.
Visit(found) ==
  /\ avail # {}
  /\ cur' = NextAvail(cur, avail)
  /\ avail' = IF found THEN avail ELSE avail \ {cur'}

\* A new iteration (a new request or cleaning pass) after the last ended.
Restart == /\ avail = {}
           /\ \E start \in Shards : cur' = (start + NumLists - 1) % NumLists
           /\ avail' = Shards

Next == (\E found \in BOOLEAN : Visit(found)) \/ Restart

Spec == Init /\ [][Next]_<<cur, avail>>
=============================================================================
