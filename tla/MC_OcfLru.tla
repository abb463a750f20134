----------------------------- MODULE MC_OcfLru -----------------------------
(***************************************************************************)
(* Instances of OcfLru for TLC: two shards, two hash buckets (core lines 0 *)
(* and 2 collide), at most two request contexts, one I/O context and up to *)
(* two ocf_lru_clean callers.  Each .cfg picks the lines, ranges and actors *)
(* its question needs.                                                     *)
(***************************************************************************)
EXTENDS OcfLru

CONSTANTS r1, i1, k1, k2, r2

MCClines == 0..2
\* One line per shard, for the cleaning runs.
MCClinesSmall == 0..1
MCCoreLines == 0..2
\* A request for core line 0, one for 1..2 (two buckets), one for 2 alone.
MCReqRanges == {<<0, 0>>, <<1, 2>>, <<2, 2>>}
\* Single-line requests, for the runs with more actors.
MCReqRangesSmall == {<<0, 0>>, <<1, 1>>}
\* A single-line request and one spanning both buckets, for one request
\* context with two partitions.
MCReqRangesMid == {<<0, 0>>, <<1, 2>>}
=============================================================================
