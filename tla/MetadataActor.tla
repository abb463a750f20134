--------------------------- MODULE MetadataActor ---------------------------
(***************************************************************************)
(* ocf_metadata_actor of src/ocf_lru.c (the bulk actor): apply a caller's  *)
(* actor to every cache line of a core (any core for OCF_CORE_ID_INVALID)  *)
(* whose core line lies in [start_line, end_line], skipping the lines in   *)
(* use and returning -OCF_ERR_AGAIN when it skipped one.  Without a        *)
(* partition it scans the line ids in order; with one it walks each of the *)
(* partition's LRU lists from the tail toward the head, reading node->prev  *)
(* after the actor has run.                                                 *)
(*                                                                         *)
(* The caller holds the global metadata write lock, so no LRU operation,   *)
(* mapping or new line lock runs concurrently; the only concurrency is a   *)
(* holder of a line lock taken before the call releasing it.  The actor is *)
(* the caller's: one kind leaves the LRU lists alone, the other             *)
(* invalidates the line (ocf_purge_map_info, which calls ocf_lru_rm_cline). *)
(***************************************************************************)
EXTENDS Integers, FiniteSets

CONSTANTS
  Clines,       \* cache line ids 0..K-1 (collision_table_entries = K)
  END,          \* end_marker
  RATIO,        \* OCF_LRU_HOT_RATIO
  NumLists,     \* OCF_NUM_LRU_LISTS
  UserParts,    \* user partition ids
  FREELIST,     \* PARTITION_FREELIST
  UNSPECIFIED,  \* PARTITION_UNSPECIFIED
  Cores,        \* core ids
  INVALID,      \* OCF_CORE_ID_INVALID
  CoreLines,    \* core line addresses
  Ranges,       \* <<start_line, end_line>> a call may pass
  Actors        \* kinds of actor a caller passes: "keep" or "purge"

ASSUME /\ Clines = 0..(Cardinality(Clines) - 1)
       /\ NumLists \in Nat \ {0}
       /\ {FREELIST, UNSPECIFIED} \cap UserParts = {} /\ FREELIST # UNSPECIFIED
       /\ INVALID \notin Cores
       /\ Actors \subseteq {"keep", "purge"}

\* -OCF_ERR_AGAIN, the return value when a line was skipped (the code's
\* value is another negative number; only "negative" matters to callers).
ERR_AGAIN == -1

Shards == 0..(NumLists - 1)
AllParts == UserParts \cup {FREELIST}
ListIds == (UserParts \X Shards \X BOOLEAN) \cup ({FREELIST} \X Shards \X {TRUE})
GetList(p, i, clean) == <<p, i, clean>>

VARIABLES
  lru, lists, partId, dirty, currSize,  \* the LRU state, as in OcfLru
  coreId,    \* ocf_metadata_get_core_info: core id (INVALID: not mapped)
  coreLine,  \* ... and core line
  used,      \* lines whose lock was taken before the call (ocf_cache_line_is_used)
  pc,        \* "idle", "all" (no partition), "list" (partition walk), "done"
  arg,       \* the call: [part, core, rg, kind]
  cur,       \* the loop position: [i, clean, cline]
  ret,       \* 0 or ERR_AGAIN
  applied,   \* how often the actor ran on each line during this call
  target     \* the lines the call is about, fixed when it starts

vars == <<lru, lists, partId, dirty, currSize, coreId, coreLine, used, pc, arg, cur,
          ret, applied, target>>

LL == INSTANCE LruList WITH TrackHot <- TRUE, lru <- lru, list <- lists

Cache == [lru |-> lru, lists |-> lists, partId |-> partId, currSize |-> currSize]
Lift(C, id, r) == [C EXCEPT !.lru = r.lru, !.lists[id] = r.list]
On(C, id) == [lru |-> C.lru, list |-> C.lists[id]]
AddHead(C, id, c) == Lift(C, id, LL!AddLruHead(On(C, id), c))
RemoveL(C, id, c) == Lift(C, id, LL!RemoveLruList(On(C, id), c))
Balance(C, id) == Lift(C, id, LL!BalanceLruList(On(C, id)))

\* ocf_lru_rm_cline: ocf_lru_move from lru_get_cline_list to the clean
\* freelist list of the line's shard.
OcfLruRmCline(C, c) ==
  LET src == GetList(C.partId[c], c % NumLists, ~dirty[c])
      dst == GetList(FREELIST, c % NumLists, TRUE)
      C2 == Balance(AddHead(Balance(RemoveL(C, src, c), src), dst, c), dst)
  IN [C2 EXCEPT !.currSize[C.partId[c]] = @ - 1, !.currSize[FREELIST] = @ + 1,
                !.partId[c] = FREELIST]

\* A cache in a state the cache can be in: every line added, in id order,
\* to the list its partition and dirty bit name (ocf_lru_init,
\* ocf_lru_populate and later moves to the head).
RECURSIVE Build(_, _, _, _)
Build(C, k, P, D) ==
  IF k = Cardinality(Clines) THEN C
  ELSE LET id == GetList(P[k], k % NumLists, P[k] = FREELIST \/ ~D[k])
       IN Build(Balance(AddHead(C, id, k), id), k + 1, P, D)

-----------------------------------------------------------------------------
\* _is_cache_line_acting without the OCF_CORE_ID_INVALID test of the line's
\* own core when the call names no core (mutation).
IsCacheLineActingAnyLine(c, core, rg) ==
  \/ core # INVALID /\ coreId[c] = core /\ coreLine[c] >= rg[1] /\ coreLine[c] <= rg[2]
  \/ core = INVALID

\* _is_cache_line_acting
IsCacheLineActing(c, core, rg) ==
  \/ core # INVALID /\ coreId[c] = core /\ coreLine[c] >= rg[1] /\ coreLine[c] <= rg[2]
  \/ core = INVALID /\ coreId[c] # INVALID

\* The actor on line c: "keep" changes nothing here; "purge" invalidates
\* the mapping and moves the line to the freelist.
RunActor(kind, c) ==
  /\ applied' = [applied EXCEPT ![c] = @ + 1]
  /\ IF kind = "purge"
     THEN LET C == OcfLruRmCline(Cache, c) IN
          /\ lru' = C.lru /\ lists' = C.lists /\ partId' = C.partId
          /\ currSize' = C.currSize
          /\ coreId' = [coreId EXCEPT ![c] = INVALID]
          /\ dirty' = [dirty EXCEPT ![c] = FALSE]
     ELSE UNCHANGED <<lru, lists, partId, currSize, coreId, dirty>>

Init ==
  \E P \in [Clines -> AllParts], D \in [Clines -> BOOLEAN],
    Cid \in [Clines -> Cores], Cl \in [Clines -> CoreLines], U \in SUBSET Clines :
    LET C == Build([lru |-> [c \in Clines |-> LL!UnlinkedNode],
                    lists |-> [id \in ListIds |-> LL!EmptyList(id[1] # FREELIST)],
                    partId |-> P, currSize |-> [p \in AllParts |-> 0]], 0, P, D)
        Mapped == {c \in Clines : P[c] # FREELIST}
    IN
    \* the collision table maps a core line to at most one cache line
    /\ \A c, d \in Mapped : c # d => <<Cid[c], Cl[c]>> # <<Cid[d], Cl[d]>>
    /\ lru = C.lru /\ lists = C.lists /\ partId = P
    /\ currSize = [p \in AllParts |-> Cardinality({c \in Clines : P[c] = p})]
    /\ dirty = [c \in Clines |-> c \in Mapped /\ D[c]]
    /\ coreId = [c \in Clines |-> IF c \in Mapped THEN Cid[c] ELSE INVALID]
    /\ coreLine = [c \in Clines |-> IF c \in Mapped THEN Cl[c] ELSE CHOOSE x \in CoreLines : TRUE]
    /\ used = U
    /\ pc = "idle"
    /\ arg = [part |-> UNSPECIFIED, core |-> INVALID, rg |-> <<0, 0>>, kind |-> "keep"]
    /\ cur = [i |-> 0, clean |-> FALSE, cline |-> 0]
    /\ ret = 0
    /\ applied = [c \in Clines |-> 0]
    /\ target = {}

-----------------------------------------------------------------------------
\* The lines a call is about (spec.md 4.8): mapped to the core named (any
\* mapped line for OCF_CORE_ID_INVALID) inside the range, and in the
\* partition named unless it is PARTITION_UNSPECIFIED.  Fixed at the call,
\* to state what the call must do; not part of the code.
Matches(c, a) ==
  /\ coreId[c] # INVALID
  /\ a.core # INVALID => coreId[c] = a.core /\ coreLine[c] \in a.rg[1]..a.rg[2]
  /\ a.part # UNSPECIFIED => partId[c] = a.part

\* The call.  With a partition: ENV_BUG_ON(part_id == PARTITION_FREELIST)
\* rules the freelist out, and the walk starts at the tail of the dirty list
\* (clean = 0) of shard 0.
Call(part, core, rg, kind) ==
  LET a == [part |-> part, core |-> core, rg |-> rg, kind |-> kind] IN
  /\ pc = "idle"
  /\ arg' = a
  /\ target' = {c \in Clines : Matches(c, a)}
  /\ pc' = IF part = UNSPECIFIED THEN "all" ELSE "list"
  /\ cur' = [i |-> 0, clean |-> FALSE,
             cline |-> IF part = UNSPECIFIED THEN 0 ELSE lists[GetList(part, 0, FALSE)].tail]
  /\ ret' = 0
  /\ applied' = [c \in Clines |-> 0]
  /\ UNCHANGED <<lru, lists, partId, dirty, currSize, coreId, coreLine, used>>

\* The PARTITION_UNSPECIFIED loop skipping a line in use without setting
\* ret (mutation).
ScanAllNoAgain ==
  LET c == cur.cline IN
  /\ pc = "all"
  /\ IF c = Cardinality(Clines)
     THEN /\ pc' = "done"
          /\ UNCHANGED <<lru, lists, partId, dirty, currSize, coreId, applied, ret, cur>>
     ELSE /\ cur' = [cur EXCEPT !.cline = c + 1]
          /\ UNCHANGED <<pc, ret>>
          /\ IF IsCacheLineActing(c, arg.core, arg.rg) /\ c \notin used
             THEN RunActor(arg.kind, c)
             ELSE UNCHANGED <<lru, lists, partId, dirty, currSize, coreId, applied>>
  /\ UNCHANGED <<coreLine, used, arg, target>>

\* One iteration of the PARTITION_UNSPECIFIED for loop over the line ids.
ScanAll ==
  LET c == cur.cline IN
  /\ pc = "all"
  /\ IF c = Cardinality(Clines)
     THEN /\ pc' = "done"
          /\ UNCHANGED <<lru, lists, partId, dirty, currSize, coreId, applied, ret, cur>>
     ELSE /\ cur' = [cur EXCEPT !.cline = c + 1]
          /\ UNCHANGED pc
          /\ IF IsCacheLineActing(c, arg.core, arg.rg) /\ c \notin used
             THEN RunActor(arg.kind, c) /\ UNCHANGED ret
             ELSE /\ ret' = IF IsCacheLineActing(c, arg.core, arg.rg) THEN ERR_AGAIN ELSE ret
                  /\ UNCHANGED <<lru, lists, partId, dirty, currSize, coreId, applied>>
  /\ UNCHANGED <<coreLine, used, arg, target>>

\* The end of one list of the partition walk: the next list (dirty, then
\* clean, of each shard in turn), or the return.
NextList ==
  /\ pc = "list" /\ cur.cline = END
  /\ LET last == cur.clean /\ cur.i = NumLists - 1
         i1 == IF cur.clean THEN cur.i + 1 ELSE cur.i
         cl1 == ~cur.clean
     IN IF last THEN pc' = "done" /\ UNCHANGED cur
        ELSE /\ cur' = [i |-> i1, clean |-> cl1,
                        cline |-> lists[GetList(arg.part, i1, cl1)].tail]
             /\ UNCHANGED pc
  /\ UNCHANGED <<lru, lists, partId, dirty, currSize, coreId, coreLine, used, arg, ret,
                 applied, target>>

\* One iteration of the while loop over a list, from the tail: skip a line
\* that does not act, record a line in use, or run the actor; then
\* cline = node->prev, read after the actor has run.
WalkStep ==
  LET c == cur.cline
      acting == IsCacheLineActing(c, arg.core, arg.rg)
  IN /\ pc = "list" /\ c # END
     /\ IF acting /\ c \notin used
        THEN /\ RunActor(arg.kind, c)
             /\ UNCHANGED ret
             /\ cur' = [cur EXCEPT !.cline = lru'[c].prev]
        ELSE /\ ret' = IF acting THEN ERR_AGAIN ELSE ret
             /\ cur' = [cur EXCEPT !.cline = lru[c].prev]
             /\ UNCHANGED <<lru, lists, partId, dirty, currSize, coreId, applied>>
     /\ UNCHANGED <<pc, coreLine, used, arg, target>>

\* The call returns to its caller, which may call again.
Return ==
  /\ pc = "done"
  /\ pc' = "idle"
  /\ UNCHANGED <<lru, lists, partId, dirty, currSize, coreId, coreLine, used, arg, cur,
                 ret, applied, target>>

\* A context that locked a line before the call unlocks it.
Unlock(c) ==
  /\ c \in used
  /\ used' = used \ {c}
  /\ UNCHANGED <<lru, lists, partId, dirty, currSize, coreId, coreLine, pc, arg, cur,
                 ret, applied, target>>

Next ==
  \/ \E p \in UserParts \cup {UNSPECIFIED}, core \in Cores \cup {INVALID},
        rg \in Ranges, kind \in Actors : Call(p, core, rg, kind)
  \/ ScanAll \/ NextList \/ WalkStep \/ Return
  \/ \E c \in Clines : Unlock(c)

Spec == Init /\ [][Next]_vars

-----------------------------------------------------------------------------
TypeOK ==
  /\ lru \in [Clines -> LL!NodeRec] /\ lists \in [ListIds -> LL!ListRec]
  /\ partId \in [Clines -> AllParts] /\ coreId \in [Clines -> Cores \cup {INVALID}]
  /\ used \subseteq Clines /\ pc \in {"idle", "all", "list", "done"}
  /\ ret \in {0, ERR_AGAIN} /\ applied \in [Clines -> Nat] /\ target \subseteq Clines

\* spec.md 4.8: when the call returns 0, the actor has run on every line
\* the call is about; a line it skipped (in use) makes it return
\* -OCF_ERR_AGAIN, so the caller knows to retry.
ActorComplete ==
  pc = "done" /\ ret = 0 => \A c \in target : applied[c] > 0

\* The actor runs only on lines the call is about, and at most once on
\* each: the scan neither strays outside the core and range nor visits a
\* line twice.
ActorExact ==
  \A c \in Clines : applied[c] > 0 => c \in target /\ applied[c] = 1
=============================================================================
