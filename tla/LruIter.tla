------------------------------ MODULE LruIter ------------------------------
(***************************************************************************)
(* The shard rotation of struct ocf_lru_iter (src/ocf_lru.c): lru_idx, the *)
(* bitmask next_avail_lru and the counter num_avail_lrus, with             *)
(* lru_iter_init, _lru_next_lru (ffsll + rotate right), _lru_lru_is_empty, *)
(* _lru_lru_set_empty and _lru_lru_all_empty.  Bit j of next_avail_lru    *)
(* stands for shard (lru_idx + j + 1) mod NumLists, so bit NumLists-1 is   *)
(* the shard being visited.                                                *)
(***************************************************************************)
EXTENDS Naturals, FiniteSets

CONSTANTS NumLists   \* OCF_NUM_LRU_LISTS (at most 64: the mask is a u64)

ASSUME NumLists \in 1..64

VARIABLE iter

Mask == 2^NumLists - 1

Bit(x, j) == (x \div 2^j) % 2 = 1

\* __builtin_ffsll: one plus the index of the least significant set bit,
\* zero for zero.
Ffs(x) == IF x = 0 THEN 0
          ELSE 1 + (CHOOSE j \in 0..63 : Bit(x, j) /\ \A k \in 0..(j - 1) : ~Bit(x, k))

\* ocf_rotate_right(x, k, width), defined in the utils headers: rotation of a
\* width-bit word, the identity for k = 0 and k = width.
RotateRight(x, k) ==
  IF k % NumLists = 0 THEN x
  ELSE (x \div 2^k) + (x % 2^k) * 2^(NumLists - k)

\* Definitions ending in a slip (NoMod, Step1, KeepsCount) are mutations of
\* the definition after them, used to show that the properties can fail.
\* lru_iter_init without the "% OCF_NUM_LRU_LISTS" (mutation).
LruIterInitNoMod(start) ==
  [lru_idx |-> start + NumLists - 1, num_avail_lrus |-> NumLists, next_avail_lru |-> Mask]

\* lru_iter_init (shard fields): start at start_lru - 1, every shard available.
LruIterInit(start) ==
  [lru_idx |-> (start + NumLists - 1) % NumLists,
   num_avail_lrus |-> NumLists,
   next_avail_lru |-> Mask]

LruNextLru(it) ==
  LET increment == Ffs(it.next_avail_lru) IN
  [it EXCEPT !.next_avail_lru = RotateRight(@, increment),
             !.lru_idx = (@ + increment) % NumLists]

\* _lru_lru_is_empty
LruIsEmpty(it) == ~Bit(it.next_avail_lru, NumLists - 1)

\* _lru_lru_set_empty without "iter->num_avail_lrus--" (mutation).
LruSetEmptyKeepsCount(it) == [it EXCEPT !.next_avail_lru = @ - 2^(NumLists - 1)]

\* _lru_lru_set_empty
LruSetEmpty(it) ==
  [it EXCEPT !.next_avail_lru = @ - 2^(NumLists - 1),
             !.num_avail_lrus = @ - 1]

\* _lru_lru_all_empty
LruAllEmpty(it) == it.num_avail_lrus = 0

\* One pass of the do-while body of lru_iter_eviction_next,
\* lru_iter_free_next and lru_iter_cleaning_next, given whether the tail
\* walk of the visited shard found a line.
VisitShard(it, found) ==
  LET it1 == LruNextLru(it) IN
  IF ~found /\ ~LruIsEmpty(it1) THEN LruSetEmpty(it1) ELSE it1

\* The shards still available, read off the mask.
AvailShards(it) ==
  {(it.lru_idx + j + 1) % NumLists : j \in {j \in 0..(NumLists - 1) : Bit(it.next_avail_lru, j)}}

-----------------------------------------------------------------------------
Init == \E start \in 0..(NumLists - 1) : iter = LruIterInit(start)

\* The do-while loops run their body again only while a shard is left.
Visit(found) == /\ ~LruAllEmpty(iter)
                /\ iter' = VisitShard(iter, found)

Restart == /\ LruAllEmpty(iter)
           /\ \E start \in 0..(NumLists - 1) : iter' = LruIterInit(start)

Next == (\E found \in BOOLEAN : Visit(found)) \/ Restart

Spec == Init /\ [][Next]_iter

TypeOK == iter \in [lru_idx : 0..(NumLists - 1), num_avail_lrus : 0..NumLists,
                    next_avail_lru : 0..Mask]

\* The loop guard num_avail_lrus agrees with the mask, so the iterators
\* stop exactly when every shard has been found exhausted and never visit
\* a shard twice in a row without cause.
AvailCounted == iter.num_avail_lrus = Cardinality(AvailShards(iter))

\* The bitmask iterator visits shards exactly as ShardRotation says.
Rotation == INSTANCE ShardRotation WITH cur <- iter.lru_idx, avail <- AvailShards(iter)
=============================================================================
