---------------------------- MODULE LruPopulate ----------------------------
(***************************************************************************)
(* ocf_lru_populate (src/src/ocf_lru.c) at cache attach or recovery: after *)
(* the metadata is loaded, every cache line whose valid bits are all clear *)
(* is put on the freelist partition.  The scan walks the collision table   *)
(* in physical order (next_phys_invalid), translating each physical index  *)
(* to the logical cache line through ocf_metadata_map_phy2lg, and puts     *)
(* the line at the head of freelist shard (line % OCF_NUM_LRU_LISTS).  The *)
(* freelist lists do not track hot lines, so balance_lru_list returns at   *)
(* once and a freelist shard is a sequence, head first; LruList checks     *)
(* the linking of add_lru_head itself.  The call runs single-threaded     *)
(* under the management lock, so it is one step.                           *)
(*                                                                         *)
(* ENV_BUG_ON is assert(!(cond)) in the functional-test environment       *)
(* (ocf_env.h): the call aborts, recorded as ret = "bug".                 *)
(***************************************************************************)
EXTENDS Integers, Sequences, FiniteSets

CONSTANTS
  Clines,      \* the logical cache lines, 0..N-1
  NumLists,    \* OCF_NUM_LRU_LISTS
  FREELIST,    \* PARTITION_FREELIST
  UserParts,   \* the partitions a loaded line may name
  NONE

VARIABLES
  valid,     \* lines metadata_test_valid_any holds for (loaded metadata)
  phy2lg,    \* ocf_metadata_map_phy2lg: physical index -> logical line
  partId,    \* ocf_metadata_get_partition_id per line
  free,      \* freelist shard -> its lines, head first
  currSize,  \* cache->free.runtime->curr_size
  ret        \* "idle" before the call, "ok" after it, "bug" on ENV_BUG_ON

vars == <<valid, phy2lg, partId, free, currSize, ret>>

\* ocf_metadata_collision_table_entries
Entries == Cardinality(Clines)
Phys == 0..(Entries - 1)
Shards == 0..(NumLists - 1)
Parts == UserParts \cup {FREELIST}

\* The collision-table layouts: phy2lg is a bijection.
Layouts == {f \in [Phys -> Clines] : \A p, q \in Phys : p # q => f[p] # f[q]}

\* next_phys_invalid testing the valid bits of the physical index instead
\* of the line ocf_metadata_map_phy2lg names (mutation).
NextPhysInvalidNoMap(phys) ==
  LET RECURSIVE Skip(_)
      Skip(p) == IF p \in valid /\ p + 1 < Entries THEN Skip(p + 1) ELSE p
  IN IF phys = Entries THEN Entries ELSE Skip(phys)

\* next_phys_invalid: from phys, the first physical index whose line is not
\* valid, but the walk stops at the last entry whether or not that line is
\* valid (the phys + 1 < collision_table_entries test of line 909).
NextPhysInvalid(phys) ==
  LET RECURSIVE Skip(_)
      Skip(p) == IF phy2lg[p] \in valid /\ p + 1 < Entries THEN Skip(p + 1) ELSE p
  IN IF phys = Entries THEN Entries ELSE Skip(phys)

\* add_lru_head on a freelist shard (balance_lru_list returns: no hot
\* tracking on the freelist) after ocf_metadata_set_partition_id.
PutFree(C, cl) ==
  [C EXCEPT !.partId[cl] = FREELIST,
            !.free[cl % NumLists] = <<cl>> \o @]

\* The loop of ocf_lru_populate: num_free_clines times find the next
\* invalid physical entry (ENV_BUG_ON if there is none), put its line on
\* the freelist and continue after it; then ENV_BUG_ON unless the scan has
\* passed the last invalid entry.
RECURSIVE Fill(_, _, _, _)
Fill(C, phys, i, num) ==
  IF i = num
  THEN [C EXCEPT !.bug = NextPhysInvalid(phys) # Entries]
  ELSE LET p == NextPhysInvalid(phys)
       IN IF p = Entries THEN [C EXCEPT !.bug = TRUE]
          ELSE Fill(PutFree(C, phy2lg[p]), p + 1, i + 1, num)

\* ocf_lru_init of the freelist: every shard empty, curr_size 0; the
\* metadata load has set the valid bits and a partition id per line.
Init ==
  /\ valid \in SUBSET Clines
  /\ phy2lg \in Layouts
  /\ partId \in {f \in [Clines -> Parts] : \A c \in valid : f[c] # FREELIST}
  /\ free = [s \in Shards |-> <<>>]
  /\ currSize = 0
  /\ ret = "idle"

\* ocf_lru_populate(cache, num_free_clines), called with the number of
\* lines that are not valid.
OcfLruPopulate ==
  /\ ret = "idle"
  /\ LET num == Cardinality(Clines \ valid)
         C == Fill([partId |-> partId, free |-> free, bug |-> FALSE], 0, 0, num)
     IN /\ partId' = C.partId
        /\ free' = C.free
        /\ currSize' = IF C.bug THEN currSize ELSE num
        /\ ret' = IF C.bug THEN "bug" ELSE "ok"
  /\ UNCHANGED <<valid, phy2lg>>

\* The cache is stopped (or the aborted process restarted) and loaded
\* again: new valid bits and partition ids, the freelist reinitialised by
\* ocf_lru_init.  The layout of the device does not change.
Reload ==
  /\ ret # "idle"
  /\ valid' \in SUBSET Clines
  /\ partId' \in {f \in [Clines -> Parts] : \A c \in valid' : f[c] # FREELIST}
  /\ free' = [s \in Shards |-> <<>>]
  /\ currSize' = 0
  /\ ret' = "idle"
  /\ UNCHANGED phy2lg

Next == OcfLruPopulate \/ Reload

Spec == Init /\ [][Next]_vars

-----------------------------------------------------------------------------
\* The lines on the freelist, with multiplicity ignored.
FreeLines == UNION {{free[s][k] : k \in DOMAIN free[s]} : s \in Shards}

\* The variables stay in their domains.
TypeOK ==
  /\ valid \subseteq Clines
  /\ phy2lg \in Layouts
  /\ partId \in [Clines -> Parts]
  /\ free \in [Shards -> Seq(Clines)]
  /\ currSize \in 0..Entries
  /\ ret \in {"idle", "ok", "bug"}

\* A populate that returns has put every line that is not valid on the
\* freelist exactly once, on shard line % OCF_NUM_LRU_LISTS, with partition
\* id PARTITION_FREELIST, no valid line among them, and curr_size counting
\* them (spec.md: after populate_freelist(K), exactly K lines are on the
\* freelist and its current_size is K): the physical-order scan of
\* next_phys_invalid through the phy2lg layout finds them all.
PopulateExact ==
  ret = "ok" =>
    /\ FreeLines = Clines \ valid
    /\ \A s \in Shards : \A k \in DOMAIN free[s] :
         /\ free[s][k] % NumLists = s
         /\ partId[free[s][k]] = FREELIST
    /\ currSize = Cardinality(Clines \ valid)
    /\ \A s \in Shards : Len(free[s]) = Cardinality({c \in Clines \ valid : c % NumLists = s})

\* Populating with the number of lines that are not valid, as attach and
\* recovery do, never trips an ENV_BUG_ON of ocf_lru_populate.
PopulateNoBug == ret # "bug"
=============================================================================
