------------------------------- MODULE OcfLru -------------------------------
(***************************************************************************)
(* The line-replacement subsystem of src/ocf_lru.c across the whole cache: *)
(* one LRU list per (partition, shard, clean|dirty), the freelist          *)
(* partition, per-partition curr_size, and the operations that move lines  *)
(* between lists (ocf_lru_populate, ocf_lru_rm_cline, ocf_lru_repart,      *)
(* ocf_lru_clean_cline, ocf_lru_dirty_cline, ocf_lru_hot_cline), victim    *)
(* supply (ocf_lru_req_clines with lru_iter_eviction_next and              *)
(* lru_iter_free_next) and the cleaning selector (ocf_lru_clean,           *)
(* ocf_lru_clean_end).                                                     *)
(*                                                                         *)
(* Every LRU list operation runs under its shard's LRU lock, so each is    *)
(* one atomic step here; what is not atomic in the code is split into     *)
(* steps: ocf_lru_hot_cline reads the hot flag and picks the list before   *)
(* taking the write lock; an eviction call visits one shard per lock       *)
(* hold; cleaning runs asynchronously after ocf_lru_clean returns.         *)
(*                                                                         *)
(* The callers (I/O engine, cleaner, management) are not under src/: they  *)
(* are modelled from spec.md sections 4-6 as the actors Io, Req and the    *)
(* cleaning callers, each taking the hash-bucket and cache-line locks the  *)
(* spec says they hold around the calls.                                   *)
(***************************************************************************)
EXTENDS Naturals, Sequences, FiniteSetsExt, Functions, Bags

CONSTANTS
  Clines,      \* cache line ids 0..K-1
  END,         \* end_marker
  RATIO,       \* OCF_LRU_HOT_RATIO
  NumLists,    \* OCF_NUM_LRU_LISTS (shards)
  UserParts,   \* user partition ids (IO classes)
  FREELIST,    \* PARTITION_FREELIST
  CoreLines,   \* core line addresses of the one core
  NONE,        \* no holder / no core mapping
  NumBuckets,  \* hash buckets of the collision table
  Reqs,        \* request contexts (one request in flight each)
  ReqRanges,   \* <<core_line_first, core_line_last>> a request may target
  Ios,         \* I/O contexts hitting mapped lines
  Callers,     \* contexts that call ocf_lru_clean
  CleanSize,   \* OCF_EVICTION_CLEAN_SIZE
  EvictLimit   \* OCF_PENDING_EVICTION_LIMIT

ASSUME /\ Clines = 0..(Cardinality(Clines) - 1)
       /\ NumLists \in Nat \ {0}
       /\ FREELIST \notin UserParts /\ UserParts # {}
       /\ NONE \notin CoreLines \cup Clines
       /\ \A rg \in ReqRanges : rg[1] <= rg[2] /\ rg[1]..rg[2] \subseteq CoreLines
       /\ CleanSize \in Nat \ {0}

Shards == 0..(NumLists - 1)
AllParts == UserParts \cup {FREELIST}

\* ocf_lru_get_list: the freelist has clean lists only.
ListIds == (UserParts \X Shards \X BOOLEAN) \cup ({FREELIST} \X Shards \X {TRUE})
GetList(p, i, clean) == <<p, i, clean>>

\* The hash bucket guarding a core line.
Bucket(x) == x % NumBuckets
Buckets == 0..(NumBuckets - 1)

CleanCtx(p) == <<"clean", p>>   \* lock holder: the partition's cleaning pass
Holders == Reqs \cup Ios \cup {CleanCtx(p) : p \in UserParts}

VARIABLES
  lru,       \* ocf_metadata_get_lru: [hot, prev, next] per line
  lists,     \* part->runtime->lru[i].clean / .dirty headers
  partId,    \* ocf_metadata_get_partition_id
  dirty,     \* metadata_test_dirty
  coreLine,  \* ocf_metadata_get_core_info (NONE: not mapped / invalid)
  currSize,  \* part->runtime->curr_size
  evIdx,     \* io_queue->eviction_idx modulo NumLists
  lk,        \* cache-line locks: [wr, rd, waiters]
  hb,        \* hash-bucket locks: [wr, rd]
  io,        \* Io contexts: [pc, line, x, write, list]
  req,       \* Req contexts: [pc, src, n, i, it, slots]
  caller,    \* ocf_lru_clean callers: [pc, part, cnt, count, batch, flushed]
  cleaning   \* per user partition: [cnt (ocf_refcnt counter), cline (ctx->cline)]

LL == INSTANCE LruList WITH TrackHot <- TRUE, lru <- lru, list <- lists
IT == INSTANCE LruIter WITH iter <- evIdx

vars == <<lru, lists, partId, dirty, coreLine, currSize, evIdx, lk, hb, io, req,
          caller, cleaning>>

-----------------------------------------------------------------------------
(***************************************************************************)
(* The LRU state as one record, and the list primitives of LruList lifted *)
(* to a list id.                                                           *)
(***************************************************************************)
Cache == [lru |-> lru, lists |-> lists, partId |-> partId, currSize |-> currSize]

\* (C is bound once so that ENABLED, in the fairness conditions, evaluates
\* the composed list operations once.)
SetCache(C) == \E D \in {C} : /\ lru' = D.lru /\ lists' = D.lists
                              /\ partId' = D.partId /\ currSize' = D.currSize

Lift(C, id, r) == [C EXCEPT !.lru = r.lru, !.lists[id] = r.list]
On(C, id) == [lru |-> C.lru, list |-> C.lists[id]]

AddHead(C, id, c) == Lift(C, id, LL!AddLruHead(On(C, id), c))
RemoveL(C, id, c) == Lift(C, id, LL!RemoveLruList(On(C, id), c))
Balance(C, id)    == Lift(C, id, LL!BalanceLruList(On(C, id)))

\* lru_get_cline_list
LruGetClineList(C, c) == GetList(C.partId[c], c % NumLists, ~dirty[c])

(***************************************************************************)
(* Definitions named after a slip (...NoSrcBalance, ...NoSetPart,        *)
(* ...NoMod, ...ToCleanList, ...Keeps..., ...NoAdvance) are mutations of the *)
(* definition after them, used to show that the properties can fail.      *)
(***************************************************************************)
\* ocf_lru_move without the balance of the source list (mutation).
OcfLruMoveNoSrcBalance(C, c, srcPart, srcList, dstPart, dstList) ==
  LET C2 == Balance(AddHead(RemoveL(C, srcList, c), dstList, c), dstList)
  IN [C2 EXCEPT !.currSize[srcPart] = @ - 1, !.currSize[dstPart] = @ + 1,
                !.partId[c] = dstPart]

\* ocf_lru_move without ocf_metadata_set_partition_id (mutation).
OcfLruMoveNoSetPart(C, c, srcPart, srcList, dstPart, dstList) ==
  LET C2 == Balance(AddHead(Balance(RemoveL(C, srcList, c), srcList), dstList, c), dstList)
  IN [C2 EXCEPT !.currSize[srcPart] = @ - 1, !.currSize[dstPart] = @ + 1]

\* ocf_lru_move
OcfLruMove(C, c, srcPart, srcList, dstPart, dstList) ==
  LET C1 == Balance(RemoveL(C, srcList, c), srcList)
      C2 == Balance(AddHead(C1, dstList, c), dstList)
  IN [C2 EXCEPT !.currSize[srcPart] = @ - 1, !.currSize[dstPart] = @ + 1,
                !.partId[c] = dstPart]

\* ocf_lru_repart_locked: the line keeps its clean/dirty class.
OcfLruRepartLocked(C, c, srcPart, dstPart) ==
  LET clean == ~dirty[c] IN
  OcfLruMove(C, c, srcPart, GetList(srcPart, c % NumLists, clean),
                   dstPart, GetList(dstPart, c % NumLists, clean))

\* ocf_lru_rm_cline: to the clean freelist list of the line's shard.
OcfLruRmCline(C, c) ==
  OcfLruMove(C, c, C.partId[c], LruGetClineList(C, c),
                   FREELIST, GetList(FREELIST, c % NumLists, TRUE))

\* ocf_lru_dirty_cline adding the line back to clean_list (mutation).
OcfLruSwitchToCleanList(C, p, c, toClean) ==
  LET from == GetList(p, c % NumLists, ~toClean)
      to   == GetList(p, c % NumLists, TRUE)
  IN Balance(AddHead(Balance(RemoveL(C, from, c), from), to, c), to)

\* ocf_lru_clean_cline / ocf_lru_dirty_cline: between the two lists of part.
OcfLruSwitch(C, p, c, toClean) ==
  LET from == GetList(p, c % NumLists, ~toClean)
      to   == GetList(p, c % NumLists, toClean)
  IN Balance(AddHead(Balance(RemoveL(C, from, c), from), to, c), to)

\* ocf_lru_init for every partition, then ocf_lru_populate of every line
\* (all lines are invalid on a fresh attach), in physical order.
RECURSIVE PopulateFrom(_, _)
PopulateFrom(C, k) ==
  IF k = Cardinality(Clines) THEN C
  ELSE LET id == GetList(FREELIST, k % NumLists, TRUE)
           C1 == [C EXCEPT !.partId[k] = FREELIST]
       IN PopulateFrom(Balance(AddHead(C1, id, k), id), k + 1)

OcfLruPopulate ==
  LET C0 == [lru |-> [c \in Clines |-> LL!UnlinkedNode],
             lists |-> [id \in ListIds |-> LL!EmptyList(id[1] # FREELIST)],
             partId |-> [c \in Clines |-> FREELIST],
             currSize |-> [p \in AllParts |-> 0]]
      C1 == PopulateFrom(C0, 0)
  IN [C1 EXCEPT !.currSize[FREELIST] = Cardinality(Clines)]

-----------------------------------------------------------------------------
(***************************************************************************)
(* Lock helpers (the contracts of spec.md section 6).                      *)
(***************************************************************************)
\* Read holders are counted (a bag), as the locks count their readers.
NoLock == [wr |-> NONE, rd |-> EmptyBag, waiters |-> {}]
LineIdle(c) == lk[c].wr = NONE /\ lk[c].rd = EmptyBag
CanLock(c, write) == IF write THEN LineIdle(c) ELSE lk[c].wr = NONE
Take(L, h, write) == IF write THEN [L EXCEPT !.wr = h] ELSE [L EXCEPT !.rd = @ (+) SetToBag({h})]
Drop(L, h) == [L EXCEPT !.wr = IF @ = h THEN NONE ELSE @, !.rd = @ (-) SetToBag({h})]

BucketIdle(b) == hb[b].wr = NONE /\ hb[b].rd = EmptyBag
BucketFor(b, write) == IF write THEN BucketIdle(b) ELSE hb[b].wr = NONE

Mapped(c) == partId[c] \in UserParts

-----------------------------------------------------------------------------
(***************************************************************************)
(* Io: a request hitting a mapped line (engine, spec.md 4.3 and 4.6).  It  *)
(* holds the line's hash bucket (read, or write for a write) while it     *)
(* calls ocf_lru_hot_cline and asks for the line lock, then for a write    *)
(* marks the line dirty, reclassifies it, or invalidates it under the      *)
(* bucket write lock, and finally unlocks the line.                        *)
(***************************************************************************)
IoIdle == [pc |-> "idle", line |-> END, x |-> NONE, write |-> FALSE, list |-> NONE]

IoStart(i, x, write) ==
  LET b == Bucket(x) IN
  /\ io[i].pc = "idle"
  /\ BucketFor(b, write)
  /\ \E c \in Clines :
       /\ Mapped(c) /\ coreLine[c] = x
       /\ io' = [io EXCEPT ![i] = [IoIdle EXCEPT !.pc = "hot", !.line = c,
                                                 !.x = x, !.write = write]]
  /\ hb' = [hb EXCEPT ![b] = Take(@, i, write)]
  /\ UNCHANGED <<lru, lists, partId, dirty, coreLine, currSize, evIdx, lk, req,
                 caller, cleaning>>

\* ocf_lru_hot_cline, up to OCF_METADATA_LRU_WR_LOCK: read hot under the read
\* lock; when cold, pick the line's list (outside any LRU lock).
HotClineRead(i) ==
  LET c == io[i].line IN
  /\ io[i].pc = "hot"
  /\ io' = [io EXCEPT ![i].pc = IF lru[c].hot THEN "lock" ELSE "hot_wr",
                      ![i].list = IF lru[c].hot THEN NONE ELSE LruGetClineList(Cache, c)]
  /\ UNCHANGED <<lru, lists, partId, dirty, coreLine, currSize, evIdx, lk, hb, req,
                 caller, cleaning>>

\* ocf_lru_hot_cline, under the write lock, on the list picked before.
HotClineWrite(i) ==
  LET c == io[i].line
      id == io[i].list
      linked == lru[c].next # END \/ lru[c].prev # END
                \/ lists[id].head = c \/ lists[id].tail = c
      C1 == IF linked THEN RemoveL(Cache, id, c) ELSE Cache
  IN /\ io[i].pc = "hot_wr"
     /\ SetCache(Balance(AddHead(C1, id, c), id))
     /\ io' = [io EXCEPT ![i].pc = "lock", ![i].list = NONE]
     /\ UNCHANGED <<dirty, coreLine, evIdx, lk, hb, req, caller, cleaning>>

\* Ask for the line lock (granted, or queued as a waiter); the hash bucket
\* is released after the request is issued.
IoLock(i) ==
  LET c == io[i].line
      w == io[i].write
      b == Bucket(io[i].x)
  IN /\ io[i].pc = "lock"
     /\ lk' = [lk EXCEPT ![c] = IF CanLock(c, w) THEN Take(@, i, w)
                                 ELSE [@ EXCEPT !.waiters = @ \cup {i}]]
     /\ hb' = [hb EXCEPT ![b] = Drop(@, i)]
     /\ io' = [io EXCEPT ![i].pc = IF CanLock(c, w) THEN "locked" ELSE "wait"]
     /\ UNCHANGED <<lru, lists, partId, dirty, coreLine, currSize, evIdx, req,
                    caller, cleaning>>

\* A waiter is granted the line once it is free.
IoGranted(i) ==
  LET c == io[i].line IN
  /\ io[i].pc = "wait"
  /\ CanLock(c, io[i].write)
  /\ lk' = [lk EXCEPT ![c] = [Take(@, i, io[i].write) EXCEPT !.waiters = @ \ {i}]]
  /\ io' = [io EXCEPT ![i].pc = "locked"]
  /\ UNCHANGED <<lru, lists, partId, dirty, coreLine, currSize, evIdx, hb, req,
                 caller, cleaning>>

\* Write completion (set_cache_line_dirty): under the bucket write lock set
\* the dirty bit and, when the line was clean, ocf_lru_dirty_cline.
IoDirty(i) ==
  LET c == io[i].line
      b == Bucket(io[i].x)
  IN /\ io[i].pc = "locked" /\ io[i].write
     /\ BucketIdle(b)
     /\ dirty' = [dirty EXCEPT ![c] = TRUE]
     /\ IF dirty[c] THEN UNCHANGED <<lru, lists, partId, currSize>>
        ELSE SetCache(OcfLruSwitch(Cache, partId[c], c, FALSE))
     /\ io' = [io EXCEPT ![i].pc = "done"]
     /\ UNCHANGED <<coreLine, evIdx, lk, hb, req, caller, cleaning>>

\* Reclassification of a written line (QoS): ocf_lru_repart.
IoRepart(i, dst) ==
  LET c == io[i].line
      b == Bucket(io[i].x)
  IN /\ io[i].pc = "locked" /\ io[i].write
     /\ dst # partId[c]
     /\ BucketIdle(b)
     /\ SetCache(OcfLruRepartLocked(Cache, c, partId[c], dst))
     /\ io' = [io EXCEPT ![i].pc = "done"]
     /\ UNCHANGED <<dirty, coreLine, evIdx, lk, hb, req, caller, cleaning>>

\* OCF_METADATA_LOCK_WR: the global metadata write lock is free once no
\* context is inside a lookup or a mapping, each of which holds the metadata
\* read lock exactly while it holds hash buckets.
MetadataWrLockable == \A b \in Buckets : BucketIdle(b)

\* Invalidation of a written line (_ocf_invalidate_do): under the metadata
\* write lock ocf_purge_map_info takes the line out of the collision table,
\* moves it to the freelist by ocf_lru_rm_cline and clears its dirty bits.
IoPurge(i) ==
  LET c == io[i].line IN
  /\ io[i].pc = "locked" /\ io[i].write
  /\ MetadataWrLockable
  /\ SetCache(OcfLruRmCline(Cache, c))
  /\ coreLine' = [coreLine EXCEPT ![c] = NONE]
  /\ dirty' = [dirty EXCEPT ![c] = FALSE]
  /\ io' = [io EXCEPT ![i].pc = "done", ![i].x = NONE]
  /\ UNCHANGED <<evIdx, lk, hb, req, caller, cleaning>>

IoReadDone(i) ==
  /\ io[i].pc = "locked" /\ ~io[i].write
  /\ io' = [io EXCEPT ![i].pc = "done"]
  /\ UNCHANGED <<lru, lists, partId, dirty, coreLine, currSize, evIdx, lk, hb, req,
                 caller, cleaning>>

IoUnlock(i) ==
  /\ io[i].pc = "done"
  /\ lk' = [lk EXCEPT ![io[i].line] = Drop(@, i)]
  /\ io' = [io EXCEPT ![i] = IoIdle]
  /\ UNCHANGED <<lru, lists, partId, dirty, coreLine, currSize, evIdx, hb, req,
                 caller, cleaning>>

IoNext(i) ==
  \/ \E x \in CoreLines, w \in BOOLEAN : IoStart(i, x, w)
  \/ HotClineRead(i) \/ HotClineWrite(i) \/ IoLock(i) \/ IoGranted(i)
  \/ IoDirty(i) \/ \E p \in UserParts : IoRepart(i, p)
  \/ IoPurge(i) \/ IoReadDone(i) \/ IoUnlock(i)

-----------------------------------------------------------------------------
(***************************************************************************)
(* Req: a request with misses (engine, spec.md 4.5).  It write-locks the   *)
(* hash buckets of its whole range, looks its core lines up (HIT when a    *)
(* user line maps it, MISS otherwise), calls ocf_lru_req_clines for every  *)
(* miss from a source partition, and on completion releases its bucket and *)
(* line locks.  ocf_lru_req_clines is split at the points where it drops   *)
(* the shard lock: one step per do-while pass of the iterator, and one for *)
(* the invalidate-and-map tail of each loop iteration.                     *)
(***************************************************************************)
CoreRange(r) == req[r].range[1]..req[r].range[2]
SlotX(r, k) == req[r].range[1] + k - 1
NumSlots(r) == req[r].range[2] - req[r].range[1] + 1

ReqIdle == [pc |-> "idle", range |-> <<0, 0>>, part |-> FREELIST,
            src |-> FREELIST, n |-> 0, i |-> 0, idx |-> 1,
            it |-> IT!LruIterInit(0), victim |-> END, vx |-> NONE, slots |-> <<>>]

\* Lines remapped by requests still in flight: pending_eviction_clines.
PendingEviction ==
  LET Rm(r) == {k \in DOMAIN req[r].slots : req[r].slots[k].status = "remapped"}
  IN MapThenSumSet(LAMBDA r : Cardinality(Rm(r)), Reqs)

\* ocf_lru_can_evict
OcfLruCanEvict == PendingEviction < EvictLimit

\* ocf_req_hash_in_range: the bucket is one the request holds.
HashInRange(r, x) == \E y \in CoreRange(r) : Bucket(y) = Bucket(x)

\* _lru_iter_evition_lock without the ocf_req_hash_in_range /
\* hash trylock probe (mutation).
EvictionLockNoHashLock(r, c) ==
  LineIdle(c) /\ coreLine[c] \notin CoreRange(r) /\ lk[c].waiters = {}

\* _lru_iter_evition_lock without the check that the line is not one of
\* the request's own core lines (mutation).
EvictionLockNoSelfCheck(r, c) ==
  LET x == coreLine[c] IN
  LineIdle(c) /\ (HashInRange(r, x) \/ BucketIdle(Bucket(x))) /\ lk[c].waiters = {}

\* _lru_iter_evition_lock without the "no waiters" test (mutation).
EvictionLockNoWaiters(r, c) ==
  LET x == coreLine[c] IN
  LineIdle(c) /\ x \notin CoreRange(r) /\ (HashInRange(r, x) \/ BucketIdle(Bucket(x)))

\* _lru_iter_evition_lock: every probe of the tail walk, each releasing what
\* it took when it rejects the line.
EvictionLock(r, c) ==
  LET x == coreLine[c] IN
  /\ LineIdle(c)
  /\ x \notin CoreRange(r)
  /\ HashInRange(r, x) \/ BucketIdle(Bucket(x))
  /\ lk[c].waiters = {}

\* The while loop of lru_iter_free_next: only the write trylock.
FreeLock(r, c) == LineIdle(c)

\* The tail walk: the first line from c toward the head in the set ok.
RECURSIVE TailWalk(_, _, _)
TailWalk(c, ok, fuel) ==
  IF c = END \/ fuel = 0 THEN END
  ELSE IF c \in ok THEN c ELSE TailWalk(lru[c].prev, ok, fuel - 1)

ReqStart(r, rg, part) ==
  LET Bs == {Bucket(x) : x \in rg[1]..rg[2]}
      HitLine(x) == {c \in Clines : Mapped(c) /\ coreLine[c] = x}
      Slot(x) == IF HitLine(x) = {} THEN [status |-> "miss", line |-> END]
                 ELSE [status |-> "hit", line |-> CHOOSE c \in HitLine(x) : TRUE]
  IN /\ req[r].pc = "idle"
     /\ \A b \in Bs : BucketIdle(b)
     /\ hb' = [b \in Buckets |-> IF b \in Bs THEN Take(hb[b], r, TRUE) ELSE hb[b]]
     /\ req' = [req EXCEPT ![r].pc = "start", ![r].range = rg, ![r].part = part,
                           ![r].slots = [k \in 1..(rg[2] - rg[1] + 1) |-> Slot(rg[1] + k - 1)]]
     /\ UNCHANGED <<lru, lists, partId, dirty, coreLine, currSize, evIdx, lk, io,
                    caller, cleaning>>

\* ocf_lru_req_clines entry without the "% OCF_NUM_LRU_LISTS" on the
\* queue's eviction index (mutation).
ReqClinesNoMod(r, src) ==
  LET misses == {k \in DOMAIN req[r].slots : req[r].slots[k].status = "miss"} IN
  /\ req[r].pc = "start" /\ misses # {}
  /\ evIdx' = evIdx + 1
  /\ req' = [req EXCEPT ![r].pc = "loop", ![r].src = src, ![r].n = Cardinality(misses),
                        ![r].i = 0, ![r].idx = 1, ![r].it = IT!LruIterInit(evIdx)]
  /\ UNCHANGED <<lru, lists, partId, dirty, coreLine, currSize, lk, hb, io, caller,
                 cleaning>>

\* ocf_lru_req_clines entry, for every miss of the request, from src.
ReqClines(r, src) ==
  LET misses == {k \in DOMAIN req[r].slots : req[r].slots[k].status = "miss"} IN
  /\ req[r].pc = "start"
  /\ misses # {}
  /\ evIdx' = (evIdx + 1) % NumLists
  /\ req' = [req EXCEPT ![r].pc = "loop", ![r].src = src, ![r].n = Cardinality(misses),
                        ![r].i = 0, ![r].idx = 1, ![r].it = IT!LruIterInit(evIdx)]
  /\ UNCHANGED <<lru, lists, partId, dirty, coreLine, currSize, lk, hb, io, caller,
                 cleaning>>

\* Top of the while loop: stop at cline_no lines or under eviction pressure.
ReqLoop(r) ==
  /\ req[r].pc = "loop"
  /\ req' = [req EXCEPT ![r].pc = IF req[r].i < req[r].n /\ OcfLruCanEvict
                                  THEN "visit" ELSE "done"]
  /\ UNCHANGED <<lru, lists, partId, dirty, coreLine, currSize, evIdx, lk, hb, io,
                 caller, cleaning>>

\* lru_iter_eviction_next / lru_iter_free_next when the tail walk of list id
\* stops at c: the victim moves to the destination partition (or to the
\* head of its own list) and stays write-locked, with its bucket.
VictimTaken(r, c, id, it1) ==
  LET R == req[r]
      x == coreLine[c]
  IN /\ SetCache(IF R.src # FREELIST /\ R.src = R.part
                 THEN Balance(AddHead(RemoveL(Cache, id, c), id, c), id)
                 ELSE OcfLruRepartLocked(Cache, c, R.src, R.part))
     /\ lk' = [lk EXCEPT ![c].wr = r]
     /\ hb' = IF R.src # FREELIST /\ ~HashInRange(r, x)
              THEN [hb EXCEPT ![Bucket(x)].wr = r] ELSE hb
     /\ req' = [req EXCEPT ![r].it = it1, ![r].pc = "remap", ![r].victim = c,
                           ![r].vx = IF R.src = FREELIST THEN NONE ELSE x]

\* ... without _lru_lru_set_empty on an exhausted shard (mutation).
ShardExhaustedKeepsShard(r, it1) ==
  /\ req' = [req EXCEPT ![r].it = it1,
                        ![r].pc = IF IT!LruAllEmpty(it1) THEN "done" ELSE "visit"]
  /\ UNCHANGED <<lru, lists, partId, currSize, lk, hb>>

\* ... when the walk reaches END: the shard is marked empty, and the loop
\* ends when no shard is left.
ShardExhausted(r, it1) ==
  LET it2 == IF ~IT!LruIsEmpty(it1) THEN IT!LruSetEmpty(it1) ELSE it1 IN
  /\ req' = [req EXCEPT ![r].it = it2,
                        ![r].pc = IF IT!LruAllEmpty(it2) THEN "done" ELSE "visit"]
  /\ UNCHANGED <<lru, lists, partId, currSize, lk, hb>>

\* The tail walk of lru_iter_free_next / lru_iter_eviction_next: the first
\* line from c toward the head that request r can lock.
RECURSIVE VictimWalk(_, _, _)
VictimWalk(r, c, fuel) ==
  IF c = END \/ fuel = 0 THEN END
  ELSE IF IF req[r].src = FREELIST THEN FreeLock(r, c) ELSE EvictionLock(r, c)
       THEN c ELSE VictimWalk(r, lru[c].prev, fuel - 1)

\* One pass of the do-while body of lru_iter_eviction_next (user source) or
\* lru_iter_free_next (freelist source), under the shard's LRU lock.
ReqVisit(r) ==
  LET R == req[r]
      it1 == IT!LruNextLru(R.it)
      id == GetList(R.src, it1.lru_idx, TRUE)
  IN /\ R.pc = "visit"
     /\ \E c \in {VictimWalk(r, lists[id].tail, Cardinality(Clines))} :
          IF c # END THEN VictimTaken(r, c, id, it1) ELSE ShardExhausted(r, it1)
     /\ UNCHANGED <<dirty, coreLine, evIdx, io, caller, cleaning>>

\* The loop body after a victim is returned: find the next LOOKUP_MISS slot,
\* invalidate the victim's old mapping and drop the bucket taken for it
\* (user source), map it, mark it LOOKUP_REMAPPED and write-locked by the
\* request.  An ENV_BUG_ON stops the request in "bug".
ReqRemap(r) ==
  LET R == req[r]
      c == R.victim
      S == R.slots
      RECURSIVE NextMiss(_)
      NextMiss(k) == IF k + 1 <= NumSlots(r) /\ S[k].status # "miss"
                     THEN NextMiss(k + 1) ELSE k
      k == NextMiss(R.idx)
      bug == dirty[c] \/ S[k].status # "miss"
      i1 == R.i + 1
  IN /\ R.pc = "remap"
     /\ IF bug
        THEN /\ req' = [req EXCEPT ![r].pc = "bug"]
             /\ UNCHANGED <<coreLine, hb>>
        ELSE /\ coreLine' = [coreLine EXCEPT ![c] = SlotX(r, k)]
             /\ hb' = IF R.src # FREELIST /\ ~HashInRange(r, R.vx)
                      THEN [hb EXCEPT ![Bucket(R.vx)].wr = NONE] ELSE hb
             /\ req' = [req EXCEPT ![r].slots[k] = [status |-> "remapped", line |-> c],
                                   ![r].idx = k + 1, ![r].i = i1, ![r].victim = END,
                                   ![r].vx = NONE,
                                   ![r].pc = IF k = NumSlots(r) /\ i1 # R.n
                                             THEN "bug" ELSE "loop"]
     /\ UNCHANGED <<lru, lists, partId, dirty, currSize, evIdx, lk, io, caller, cleaning>>

\* The request completes: it releases the line locks of its remapped lines
\* and the hash buckets of its range.
ReqDone(r) ==
  LET Mine == {req[r].slots[k].line : k \in {k \in DOMAIN req[r].slots :
                                           req[r].slots[k].status = "remapped"}}
  IN /\ req[r].pc \in {"start", "done"}
     /\ req[r].pc = "start" => \A k \in DOMAIN req[r].slots : req[r].slots[k].status = "hit"
     /\ lk' = [c \in Clines |-> IF c \in Mine THEN Drop(lk[c], r) ELSE lk[c]]
     /\ hb' = [b \in Buckets |-> Drop(hb[b], r)]
     /\ req' = [req EXCEPT ![r] = ReqIdle]
     /\ UNCHANGED <<lru, lists, partId, dirty, coreLine, currSize, evIdx, io, caller,
                    cleaning>>

ReqClinesAny(r) == \E src \in AllParts : ReqClines(r, src)

ReqNext(r) ==
  \/ \E rg \in ReqRanges, p \in UserParts : ReqStart(r, rg, p)
  \/ ReqClinesAny(r) \/ ReqLoop(r) \/ ReqVisit(r) \/ ReqRemap(r) \/ ReqDone(r)

-----------------------------------------------------------------------------
(***************************************************************************)
(* Cleaning.  ocf_lru_clean is split at its atomic counter operation: the  *)
(* ocf_refcnt_inc, then the decision on its result, which returns early or *)
(* (all LRU locks held) collects the batch into the partition's cleaning   *)
(* context ctx->cline with lru_iter_cleaning_next and fires the cleaner.   *)
(* The cleaner (spec.md 4.7; utils_cleaner is not under src/) takes the    *)
(* first min(count, OCF_EVICTION_CLEAN_SIZE) slots through ocf_lru_clean_get*)
(* when fired, flushes each line under its bucket lock, on success clears  *)
(* the dirty bit and calls ocf_lru_clean_cline, and at the end calls       *)
(* ocf_lru_clean_end, which unlocks whatever ctx->cline then holds.  A     *)
(* caller has at most one fired cleaner outstanding.  The early return     *)
(* when the management lock is held changes nothing and is a stutter; the  *)
(* counter is never frozen here (freezing is modelled in Refcnt).          *)
(***************************************************************************)
CallerIdle == [pc |-> "idle", part |-> NONE, cnt |-> 0, count |-> 0, batch |-> <<>>,
               flushed |-> {}]

\* lru_iter_cleaning_next without advancing the shard cursor past the line
\* it returns (mutation).
RECURSIVE CleaningNextNoAdvance(_, _)
CleaningNextNoAdvance(it, curr) ==
  LET it1 == IT!LruNextLru(it)
      c == TailWalk(curr[it1.lru_idx], {l \in Clines : lk[l].wr = NONE}, Cardinality(Clines))
      it2 == IF c = END /\ ~IT!LruIsEmpty(it1) THEN IT!LruSetEmpty(it1) ELSE it1
  IN IF c = END /\ ~IT!LruAllEmpty(it2) THEN CleaningNextNoAdvance(it2, curr)
     ELSE [it |-> it2, curr |-> curr, cline |-> c]

\* lru_iter_cleaning_next: rotate shards, walk each shard's cursor toward the
\* head to the first line that can be read-locked, advance the cursor past it.
RECURSIVE CleaningNext(_, _)
CleaningNext(it, curr) ==
  LET it1 == IT!LruNextLru(it)
      sh == it1.lru_idx
      c == TailWalk(curr[sh], {l \in Clines : lk[l].wr = NONE}, Cardinality(Clines))
      curr1 == IF c # END THEN [curr EXCEPT ![sh] = lru[c].prev] ELSE curr
      it2 == IF c = END /\ ~IT!LruIsEmpty(it1) THEN IT!LruSetEmpty(it1) ELSE it1
  IN IF c = END /\ ~IT!LruAllEmpty(it2) THEN CleaningNext(it2, curr1)
     ELSE [it |-> it2, curr |-> curr1, cline |-> c]

\* The collecting loop of ocf_lru_clean, slots past the last line END.
RECURSIVE CleanCollect(_, _, _)
CleanCollect(it, curr, batch) ==
  LET nx == CleaningNext(it, curr) IN
  IF Len(batch) = CleanSize \/ nx.cline = END
  THEN [j \in 1..CleanSize |-> IF j <= Len(batch) THEN batch[j] ELSE END]
  ELSE CleanCollect(nx.it, nx.curr, Append(batch, nx.cline))

BatchLines(B) == {B[j] : j \in DOMAIN B} \ {END}

\* ocf_lru_clean up to and including ocf_refcnt_inc, which returns whether
\* it incremented (a bool: 1 here, as the counter is not frozen), not the
\* counter's value.
OcfLruCleanInc(k, p, count) ==
  /\ caller[k].pc = "idle"
  /\ cleaning' = [cleaning EXCEPT ![p].cnt = @ + 1]
  /\ caller' = [caller EXCEPT ![k] = [CallerIdle EXCEPT !.pc = "check", !.part = p,
                                                       !.cnt = 1, !.count = count]]
  /\ UNCHANGED <<lru, lists, partId, dirty, coreLine, currSize, evIdx, lk, hb, io, req>>

\* The rest of ocf_lru_clean, on the value ocf_refcnt_inc returned: give up
\* (0), undo and give up (> 1), or collect into ctx->cline, read-locking
\* each line, and fire the cleaner, which reads its slots at once.
OcfLruCleanRun(k) ==
  LET p == caller[k].part
      it0 == IT!LruIterInit(evIdx)
      curr0 == [sh \in Shards |-> lists[GetList(p, sh, FALSE)].tail]
  IN /\ caller[k].pc = "check"
     /\ CASE caller[k].cnt = 0 ->
               caller' = [caller EXCEPT ![k] = CallerIdle] /\ UNCHANGED <<evIdx, lk, cleaning>>
          [] caller[k].cnt > 1 ->
               /\ caller' = [caller EXCEPT ![k] = CallerIdle]
               /\ cleaning' = [cleaning EXCEPT ![p].cnt = @ - 1]
               /\ UNCHANGED <<evIdx, lk>>
          [] OTHER ->
               \E B \in {CleanCollect(it0, curr0, <<>>)} :
               /\ evIdx' = (evIdx + 1) % NumLists
               /\ lk' = [c \in Clines |-> IF c \in BatchLines(B)
                                          THEN Take(lk[c], CleanCtx(p), FALSE) ELSE lk[c]]
               /\ cleaning' = [cleaning EXCEPT ![p].cline = B]
               /\ caller' = [caller EXCEPT ![k].pc = "fired", ![k].batch = B]
     /\ UNCHANGED <<lru, lists, partId, dirty, coreLine, currSize, hb, io, req>>

\* The cleaner of caller k flushes slot j, one ocf_lru_clean_get gave it.
\* The cleaner is not under src/: its flush is modelled from spec.md.
CleanerFlush(k, j, ok) ==
  LET c == caller[k].batch[j] IN
  /\ caller[k].pc = "fired"
  /\ j <= caller[k].count /\ j \notin caller[k].flushed /\ c # END
  /\ BucketIdle(Bucket(coreLine[c]))
  /\ IF ok
     THEN /\ dirty' = [dirty EXCEPT ![c] = FALSE]
          /\ SetCache(OcfLruSwitch(Cache, partId[c], c, TRUE))
     ELSE UNCHANGED <<dirty, lru, lists, partId, currSize>>
  /\ caller' = [caller EXCEPT ![k].flushed = @ \cup {j}]
  /\ UNCHANGED <<coreLine, evIdx, lk, hb, io, req, cleaning>>

\* ocf_lru_clean_end without the read unlocks (mutation).
OcfLruCleanEndNoUnlock(k) ==
  LET p == caller[k].part IN
  /\ caller[k].pc = "fired"
  /\ \A j \in 1..caller[k].count : j \in caller[k].flushed \/ caller[k].batch[j] = END
  /\ cleaning' = [cleaning EXCEPT ![p].cnt = @ - 1]
  /\ caller' = [caller EXCEPT ![k] = CallerIdle]
  /\ UNCHANGED <<lru, lists, partId, dirty, coreLine, currSize, evIdx, lk, hb, io, req>>

\* ocf_lru_clean_end, called by caller k's cleaner once every slot it took
\* is done: it read-unlocks the lines ctx->cline holds now, and
\* ocf_refcnt_dec.
OcfLruCleanEnd(k) ==
  LET p == caller[k].part
      B == cleaning[p].cline
  IN /\ caller[k].pc = "fired"
     /\ \A j \in 1..caller[k].count : j \in caller[k].flushed \/ caller[k].batch[j] = END
     /\ lk' = [c \in Clines |-> IF c \in BatchLines(B) THEN Drop(lk[c], CleanCtx(p))
                                                      ELSE lk[c]]
     /\ cleaning' = [cleaning EXCEPT ![p].cnt = @ - 1]
     /\ caller' = [caller EXCEPT ![k] = CallerIdle]
     /\ UNCHANGED <<lru, lists, partId, dirty, coreLine, currSize, evIdx, hb, io, req>>

-----------------------------------------------------------------------------
Init ==
  /\ LET C == OcfLruPopulate IN
       lru = C.lru /\ lists = C.lists /\ partId = C.partId /\ currSize = C.currSize
  /\ dirty = [c \in Clines |-> FALSE]
  /\ coreLine = [c \in Clines |-> NONE]
  /\ evIdx = 0
  /\ lk = [c \in Clines |-> NoLock]
  /\ hb = [b \in Buckets |-> [wr |-> NONE, rd |-> EmptyBag]]
  /\ io = [i \in Ios |-> IoIdle]
  /\ req = [r \in Reqs |-> ReqIdle]
  /\ caller = [k \in Callers |-> CallerIdle]
  /\ cleaning = [p \in UserParts |-> [cnt |-> 0, cline |-> <<>>]]

CleanNext ==
  \/ \E k \in Callers, p \in UserParts, n \in 1..CleanSize : OcfLruCleanInc(k, p, n)
  \/ \E k \in Callers : OcfLruCleanRun(k)
  \/ \E k \in Callers, j \in 1..CleanSize, ok \in BOOLEAN : CleanerFlush(k, j, ok)
  \/ \E k \in Callers : OcfLruCleanEnd(k)

Next ==
  \/ \E i \in Ios : IoNext(i)
  \/ \E r \in Reqs : ReqNext(r)
  \/ CleanNext

\* Every context is a thread that keeps running while it can: no step it
\* can take stays enabled forever without being taken (weak fairness; the
\* hash-bucket and line locks it blocks on are pthread rwlocks and
\* ocf_alock, which promise no more).  For the I/O steps and ReqVisit the
\* condition WF_vars(A) == []<>~ENABLED A \/ []<><<A>>_vars is written with
\* the state predicate that is ENABLED A (every step that rewrites the LRU
\* lists has a successor once its guard holds), so that TLC need not
\* compute the list operations to decide ENABLED.
ReqStep(r) == ReqClinesAny(r) \/ ReqLoop(r) \/ ReqRemap(r) \/ ReqDone(r)

IoStep(i) == io[i].pc # "idle" /\ IoNext(i)

IoCanStep(i) ==
  \/ io[i].pc \in {"hot", "hot_wr", "lock", "done"}
  \/ io[i].pc = "wait" /\ CanLock(io[i].line, io[i].write)
  \/ io[i].pc = "locked" /\ (~io[i].write \/ BucketIdle(Bucket(io[i].x)))

Fairness ==
  /\ \A i \in Ios : []<>~IoCanStep(i) \/ []<><<IoStep(i)>>_vars
  /\ \A r \in Reqs : WF_vars(ReqStep(r))
  /\ \A r \in Reqs : []<>(req[r].pc # "visit") \/ []<><<ReqVisit(r)>>_vars
  /\ \A k \in Callers : WF_vars(OcfLruCleanRun(k))
  /\ \A k \in Callers : WF_vars(\E j \in 1..CleanSize, ok \in BOOLEAN : CleanerFlush(k, j, ok))
  /\ \A k \in Callers : WF_vars(OcfLruCleanEnd(k))

Spec == Init /\ [][Next]_vars
FairSpec == Spec /\ Fairness

-----------------------------------------------------------------------------
(***************************************************************************)
(* Properties.                                                             *)
(***************************************************************************)
Pcs == {"idle", "hot", "hot_wr", "lock", "wait", "locked", "done"}

TypeOK ==
  /\ lru \in [Clines -> LL!NodeRec]
  /\ lists \in [ListIds -> LL!ListRec]
  /\ partId \in [Clines -> AllParts]
  /\ dirty \in [Clines -> BOOLEAN]
  /\ coreLine \in [Clines -> CoreLines \cup {NONE}]
  /\ currSize \in [AllParts -> Nat]
  /\ evIdx \in Shards
  /\ \A c \in Clines : lk[c].wr \in Holders \cup {NONE} /\ IsABag(lk[c].rd)
                      /\ BagToSet(lk[c].rd) \subseteq Holders
                      /\ lk[c].waiters \subseteq Ios
  /\ \A b \in Buckets : hb[b].wr \in Holders \cup {NONE} /\ BagToSet(hb[b].rd) \subseteq Holders
  /\ \A i \in Ios : io[i].pc \in Pcs
  /\ \A r \in Reqs : req[r].pc \in {"idle", "start", "loop", "visit", "remap", "done", "bug"}
  /\ \A k \in Callers : caller[k].pc \in {"idle", "check", "fired"}

ListsOf(p) == {id \in ListIds : id[1] = p}

\* spec.md 3 (a)-(e) across the whole cache, whatever interleaving of hits,
\* writes, reclassification, invalidation, eviction and cleaning: every list
\* is well linked with its hot run balanced; every line is on exactly one
\* list, the one lru_get_cline_list names from its partition id, its shard
\* and its dirty bit; curr_size is the number of lines on the partition's
\* lists.
LinesPartitioned ==
  /\ \A id \in ListIds :
       LET s == On(Cache, id) IN
       /\ LL!WellLinked(s) /\ LL!HotPrefix(s)
       /\ s.list.num_hot = IF s.list.track_hot THEN s.list.num_nodes \div RATIO ELSE 0
  /\ \A c \in Clines :
       {id \in ListIds : c \in LL!Members(On(Cache, id))}
         = {GetList(partId[c], c % NumLists, ~dirty[c])}
  /\ \A p \in AllParts :
       currSize[p] = MapThenSumSet(LAMBDA id : lists[id].num_nodes, ListsOf(p))

\* The collision mapping stays a partial injection from lines to core
\* lines, and a line has a mapping exactly when it is in a user partition,
\* except for a freelist victim between lru_iter_free_next and its
\* ocf_map_cache_line.
MappingConsistent ==
  /\ \A c, d \in Clines : c # d /\ coreLine[c] # NONE => coreLine[c] # coreLine[d]
  /\ \A c \in Clines :
       (Mapped(c) <=> coreLine[c] # NONE)
       \/ \E r \in Reqs : req[r].pc = "remap" /\ req[r].victim = c /\ req[r].src = FREELIST

\* No ENV_BUG_ON of ocf_lru_req_clines fires: a victim is never dirty, the
\* next slot found is always a LOOKUP_MISS, and the map is never exhausted
\* before cline_no lines are assigned.
NoBug == \A r \in Reqs : req[r].pc # "bug"

\* spec.md 8: a request's map stays right while it runs: its HIT slots keep
\* their lines (no eviction, its own included, takes a line it targets),
\* every REMAPPED slot holds a line of the request's partition, mapped to
\* the slot, write-locked by the request alone; it never gets more lines
\* than it asked for.
ReqMapSound ==
  \A r \in Reqs : req[r].pc \in {"start", "loop", "visit", "remap", "done"} =>
    LET S == req[r].slots IN
    /\ \A k \in DOMAIN S :
         /\ S[k].status = "hit" => coreLine[S[k].line] = SlotX(r, k) /\ Mapped(S[k].line)
         /\ S[k].status = "remapped" =>
              /\ coreLine[S[k].line] = SlotX(r, k) /\ partId[S[k].line] = req[r].part
              /\ lk[S[k].line] = [wr |-> r, rd |-> EmptyBag, waiters |-> {}]
    /\ Cardinality({k \in DOMAIN S : S[k].status = "remapped"}) = req[r].i
    /\ req[r].i <= req[r].n

\* spec.md 8: eviction never returns a line another context holds or waits
\* for: between lru_iter_eviction_next and the remap, the victim is locked
\* by the request alone, and so is its hash bucket.
VictimExclusive ==
  \A r \in Reqs : req[r].pc = "remap" =>
    LET c == req[r].victim IN
    /\ lk[c] = [wr |-> r, rd |-> EmptyBag, waiters |-> {}]
    /\ req[r].src # FREELIST =>
         \/ HashInRange(r, req[r].vx)
         \/ hb[Bucket(req[r].vx)] = [wr |-> r, rd |-> EmptyBag]

\* A line an I/O has hit keeps its mapping and its partition class until the
\* I/O releases it: from the lookup (bucket held) through ocf_lru_hot_cline,
\* the lock request, the wait and the locked phase, no eviction remaps it.
IoHitStable ==
  \A i \in Ios : io[i].pc \in {"hot", "hot_wr", "lock", "wait", "locked"} =>
    /\ coreLine[io[i].line] = io[i].x
    /\ Mapped(io[i].line)

\* spec.md 4.7 and 8: concurrent ocf_lru_clean calls on one partition
\* result in one cleaning pass in flight; the others return at once.
CleaningSingleFlight ==
  \A p \in UserParts : Cardinality({k \in Callers : caller[k].pc = "fired"
                                                 /\ caller[k].part = p}) <= 1

\* Every line of a cleaner's batch is distinct, stays in the partition and
\* stays dirty until the cleaner has flushed its slot: the read lock taken
\* by lru_iter_cleaning_next keeps invalidation, eviction and
\* reclassification (all of which write-lock the line) away from it.
CleanBatchPinned ==
  \A k \in Callers : caller[k].pc = "fired" =>
    LET B == caller[k].batch IN
    \A j \in DOMAIN B : B[j] # END =>
      /\ \A j2 \in DOMAIN B : j2 # j => B[j2] # B[j]
      /\ partId[B[j]] = caller[k].part
      /\ j <= caller[k].count /\ j \notin caller[k].flushed => dirty[B[j]]

\* The read locks a cleaning context holds on a line are exactly one per
\* fired cleaner whose batch holds the line, and its counter is one per
\* caller between ocf_refcnt_inc and ocf_lru_clean_end: what
\* lru_iter_cleaning_next locks, ocf_lru_clean_end unlocks, once.
CleanLocksBalanced ==
  \A p \in UserParts :
    /\ cleaning[p].cnt = Cardinality({k \in Callers : caller[k].pc # "idle"
                                                   /\ caller[k].part = p})
    /\ \A c \in Clines :
         CopiesIn(CleanCtx(p), lk[c].rd)
           = Cardinality({k \in Callers : caller[k].pc = "fired" /\ caller[k].part = p
                                          /\ c \in BatchLines(caller[k].batch)})

\* Every call of ocf_lru_req_clines returns: the shard rotation runs out.
ReqTerminates ==
  \A r \in Reqs : req[r].pc \in {"loop", "visit", "remap"} ~> req[r].pc \in {"done", "bug"}
=============================================================================
