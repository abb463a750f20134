------------------------------ MODULE MC_Units ------------------------------
(***************************************************************************)
(* One run for eight components that share no state: one LRU shard list  *)
(* (LruList), the shard rotation iterator (LruIter), the reference        *)
(* counter (Refcnt), the bulk actor (MetadataActor), request allocation   *)
(* (UtilsReq), the data object layer with the superblock read (VolumeIo), *)
(* the freelist population at attach or recovery (LruPopulate) and the    *)
(* invalidate engine's completion count (EngineInv).  A behaviour runs    *)
(* one of them, chosen in the initial state among Units; the checked      *)
(* state space is the union of the eight, and                             *)
(* each property is the component's own, checked on its behaviours.  In  *)
(* ocf_lru.c list operations and the iterator's shard choice run under    *)
(* different locks, so the list and the iterator are checked apart.      *)
(*                                                                         *)
(* Bounds, as in each component's comments: LruList with six lines on one *)
(* list and hot ratio 2, the densest hot run the code allows, so that     *)
(* every remove_lru_list case occurs with the removed node hot and cold,  *)
(* at and away from last_hot; LruIter over five shards; Refcnt with two users and a  *)
(* manager doing two rounds; MetadataActor over three lines in two shards *)
(* (lines 0 and 2 share shard 0), one core with three core lines and      *)
(* every initial placement and lock set; UtilsReq with two request slots  *)
(* on an I/O queue and the management queue; VolumeIo with one created   *)
(* and one embedded object and two I/O slots; LruPopulate over three     *)
(* lines in two shards with every valid set, layout and loaded partition  *)
(* id, so that the last physical entry is both valid and not; EngineInv   *)
(* with two request slots and flushes of one or two pages.                *)
(***************************************************************************)
EXTENDS Integers, FiniteSets

CONSTANTS
  Units,                                                    \* the components run
  ShardLists,                                               \* LruIter: OCF_NUM_LRU_LISTS
  Users, Mgmts, MaxRounds, NONE,                            \* Refcnt
  Clines, END, RATIO, NumLists, UserParts, FREELIST,        \* MetadataActor
  UNSPECIFIED, Cores, INVALID, CoreLines, Ranges, Actors,
  Reqs, Queues, MNGT, NoMemQueues, LineCounts, TrimLines,   \* UtilsReq
  MaxRef, MaxCount,
  Props, Objs, Embedded, Ios, VolSbs, Faults, Modes,        \* VolumeIo
  MaxPages                                                  \* EngineInv

CONSTANTS u1, u2, m1, END_, UNSPEC_, INVALID_, o1, e1, i1, i2

VARIABLES
  unit,                                                      \* the component this behaviour runs
  llLru, llList, iter,                                       \* LruList, LruIter
  counter, freeze, callback, priv, pc, round, alive, sem, stalePost,  \* Refcnt
  lru, lists, partId, dirty, currSize, coreId, coreLine, used, maPc, arg, cur, \* MetadataActor
  maRet, applied, target,
  resources, created, rc, mgr, req, qref, objs, urHeap, urRet, urBug, \* UtilsReq
  typ, obj, io, rs, volSb, viHeap, uaf, viBug, viRet,         \* VolumeIo
  lpValid, lpMap, lpPart, lpFree, lpSize, lpRet,              \* LruPopulate
  atomic, flushMeta, eiPc, remaining, pages, issued, ended, err, \* EngineInv
  unlocks, refs, eiUaf

\* Six lines for the shard list.
ShardClines == 0..5

L == INSTANCE LruList WITH Clines <- ShardClines, TrackHot <- TRUE, lru <- llLru,
                           list <- llList
It == INSTANCE LruIter WITH NumLists <- ShardLists
R == INSTANCE Refcnt
M == INSTANCE MetadataActor WITH pc <- maPc, ret <- maRet
U == INSTANCE UtilsReq WITH heap <- urHeap, ret <- urRet, bug <- urBug
V == INSTANCE VolumeIo WITH heap <- viHeap, ret <- viRet, bug <- viBug
P == INSTANCE LruPopulate WITH valid <- lpValid, phy2lg <- lpMap, partId <- lpPart,
                               free <- lpFree, currSize <- lpSize, ret <- lpRet
E == INSTANCE EngineInv WITH pc <- eiPc, uaf <- eiUaf

lVars == <<llLru, llList>>
rVars == <<counter, freeze, callback, priv, pc, round, alive, sem, stalePost>>
mVars == <<lru, lists, partId, dirty, currSize, coreId, coreLine, used, maPc, arg, cur,
           maRet, applied, target>>
uVars == <<resources, created, rc, mgr, req, qref, objs, urHeap, urRet, urBug>>
vVars == <<typ, obj, io, rs, volSb, viHeap, uaf, viBug, viRet>>
pVars == <<lpValid, lpMap, lpPart, lpFree, lpSize, lpRet>>
eVars == <<atomic, flushMeta, eiPc, remaining, pages, issued, ended, err, unlocks, refs, eiUaf>>
unitVars == <<unit, lVars, iter, rVars, mVars, uVars, vVars, pVars, eVars>>

\* Model values of the bounds.
MCClines == 0..2
MCCoreLines == 0..2
MCRanges == {<<0, 1>>, <<0, 2>>}

\* VolumeIo's type tables: a full one; one without submit_discard (the
\* fallback end); one that claims atomic writes without submit_metadata
\* (rejected); the table of example/simple/src/dobj.c, which sets no
\* new_io (rejected); and, for the flush run, one without submit_flush,
\* which ocf_data_obj_type_init accepts.
FullOps == {"new_io", "submit_io", "submit_flush", "submit_discard", "open", "close",
            "get_max_io_size", "get_length"}
ExampleOps == {"open", "close", "submit_io", "submit_flush", "submit_discard",
               "get_max_io_size", "get_length"}
MCProps == {[ops |-> FullOps, atomic |-> FALSE],
            [ops |-> FullOps \ {"submit_discard"}, atomic |-> FALSE],
            [ops |-> FullOps, atomic |-> TRUE],
            [ops |-> ExampleOps, atomic |-> FALSE]}
MCPropsNoFlush == MCProps \cup {[ops |-> FullOps \ {"submit_flush"}, atomic |-> FALSE]}

\* A valid superblock, a blank device, and metadata of another version.
\* (Written out: a constant's value may not go through the instance V.)
SbFieldSet == {"magic", "version", "line_size", "layout", "cache_mode", "shutdown",
               "dirty_flushed"}
MCVolSbs == {[f \in SbFieldSet |-> TRUE],
             [f \in SbFieldSet |-> f \notin {"magic", "version", "line_size"}],
             [f \in SbFieldSet |-> f # "version"]}

\* The variables of a component the behaviour does not run.
LOff == llLru = NONE /\ llList = NONE
ROff == counter = NONE /\ freeze = NONE /\ callback = NONE /\ priv = NONE
        /\ pc = [t \in Users \cup Mgmts |-> "off"] /\ round = NONE /\ alive = NONE /\ sem = NONE
        /\ stalePost = NONE
MOff == lru = NONE /\ lists = NONE /\ partId = NONE /\ dirty = NONE
        /\ currSize = NONE /\ coreId = NONE /\ coreLine = NONE /\ used = NONE
        /\ maPc = NONE /\ arg = NONE /\ cur = NONE /\ maRet = NONE
        /\ applied = NONE /\ target = NONE
UOff == resources = NONE /\ created = NONE /\ rc = NONE /\ mgr = NONE
        /\ req = NONE /\ qref = NONE /\ objs = NONE /\ urHeap = NONE
        /\ urRet = NONE /\ urBug = NONE
VOff == typ = NONE /\ obj = NONE /\ io = NONE /\ rs = NONE
        /\ volSb = NONE /\ viHeap = NONE /\ uaf = NONE /\ viBug = NONE
        /\ viRet = NONE
POff == lpValid = NONE /\ lpMap = NONE /\ lpPart = NONE /\ lpFree = NONE
        /\ lpSize = NONE /\ lpRet = NONE
EOff == atomic = NONE /\ flushMeta = NONE /\ eiPc = NONE /\ remaining = NONE
        /\ pages = NONE /\ issued = NONE /\ ended = NONE /\ err = NONE
        /\ unlocks = NONE /\ refs = NONE /\ eiUaf = NONE

UnitsInit == /\ unit \in Units
             /\ IF unit = "list" THEN L!Init ELSE LOff
             /\ IF unit = "iter" THEN It!Init ELSE iter = NONE
             /\ IF unit = "refcnt" THEN R!Init ELSE ROff
             /\ IF unit = "actor" THEN M!Init ELSE MOff
             /\ IF unit = "req" THEN U!Init ELSE UOff
             /\ IF unit = "volume" THEN V!Init ELSE VOff
             /\ IF unit = "populate" THEN P!Init ELSE POff
             /\ IF unit = "inv" THEN E!Init ELSE EOff

\* A step of the behaviour's component, the others unchanged.
LStep(A) == unit = "list" /\ A /\ UNCHANGED <<unit, iter, rVars, mVars, uVars, vVars, pVars, eVars>>
IStep(A) == unit = "iter" /\ A /\ UNCHANGED <<unit, lVars, rVars, mVars, uVars, vVars, pVars, eVars>>
RStep(A) == unit = "refcnt" /\ A /\ UNCHANGED <<unit, lVars, iter, mVars, uVars, vVars, pVars, eVars>>
MStep(A) == unit = "actor" /\ A /\ UNCHANGED <<unit, lVars, iter, rVars, uVars, vVars, pVars, eVars>>
UStep(A) == unit = "req" /\ A /\ UNCHANGED <<unit, lVars, iter, rVars, mVars, vVars, pVars, eVars>>
VStep(A) == unit = "volume" /\ A /\ UNCHANGED <<unit, lVars, iter, rVars, mVars, uVars, pVars, eVars>>
PStep(A) == unit = "populate" /\ A /\ UNCHANGED <<unit, lVars, iter, rVars, mVars, uVars, vVars, eVars>>
EStep(A) == unit = "inv" /\ A /\ UNCHANGED <<unit, lVars, iter, rVars, mVars, uVars, vVars, pVars>>

UnitsNext == \/ LStep(L!Next) \/ IStep(It!Next) \/ RStep(R!Next) \/ MStep(M!Next)
             \/ UStep(U!Next) \/ VStep(V!Next) \/ PStep(P!Next)
             \/ EStep(E!Next)

\* Refcnt's fairness (threads scheduled fairly, a reference held for a
\* finite time, a started round finished), and EngineInv's (the queue
\* thread runs what is pushed, the device ends every I/O), for their
\* behaviours.
UnitsFairness ==
  /\ \A u \in Users : WF_unitVars(RStep(R!IncAdd(u) \/ R!IncRecheck(u) \/ R!Release(u)))
  /\ \A t \in Users \cup Mgmts : WF_unitVars(RStep(R!ThreadStep(t)))
  /\ \A m \in Mgmts : WF_unitVars(RStep(R!RegisterInc(m) \/ R!SetCb(m) \/ R!SetFlag(m)
                                        \/ R!Wait(m) \/ R!Wake(m) \/ R!Unfreeze(m)))
  /\ \A r \in Reqs : /\ WF_unitVars(EStep(E!InvalidateDo(r))) /\ WF_unitVars(EStep(E!FlushIssue(r)))
                    /\ WF_unitVars(EStep(E!InvalidateTail(r))) /\ WF_unitVars(EStep(E!FlushEnd(r)))

UnitsSpec == UnitsInit /\ [][UnitsNext]_unitVars /\ UnitsFairness

-----------------------------------------------------------------------------
(* The components' properties; each comment names the code it is about.  *)

\* After any sequence of add_lru_head, remove_lru_list and balance_lru_list
\* the list is a proper doubly linked list counted by num_nodes, and a line
\* on no list is fully unlinked (LruList!ListWellFormed).
ListWellFormed == unit = "list" => L!ListWellFormed

\* The hot lines are a run at the head ending at last_hot, num_nodes / RATIO
\* of them after every operation (LruList!HotBalanced).
HotBalanced == unit = "list" => L!HotBalanced

\* The iterator's fields stay in range (LruIter!TypeOK, over lru_iter_init
\* and lru_iter_next).
IterTypeOK == unit = "iter" => It!TypeOK

\* num_avail_lrus counts exactly the shards lru_iter_next may still visit
\* (LruIter!AvailCounted, over _lru_set_empty).
AvailCounted == unit = "iter" => It!AvailCounted

RefsCounted == unit = "refcnt" => R!RefsCounted

\* Every ocf_refcnt_wait_for_zero returns (Refcnt!WaitReturns).
WaitReturns == unit = "refcnt" => R!WaitReturns

\* ocf_metadata_actor returning 0 has run the actor on every line the call
\* is about (MetadataActor!ActorComplete).
ActorComplete == unit = "actor" => M!ActorComplete

\* ... and on no other line, and at most once on each
\* (MetadataActor!ActorExact).
ActorExact == unit = "actor" => M!ActorExact

\* UtilsReq's fields stay in range (ocf_req_new ... ocf_req_put).
ReqTypeOK == unit = "req" => U!TypeOK

\* A drained io_req or metadata counter has no request holding it
\* (UtilsReq!Quiesced: ocf_req_new, ocf_req_put, ocf_refcnt_wait_for_zero).
Quiesced == unit = "req" => U!Quiesced

\* Every allocator object, map and queue reference a request took is given
\* back when it is freed (UtilsReq!ReqMemoryBalanced).
ReqMemoryBalanced == unit = "req" => U!ReqMemoryBalanced

\* ocf_req_new picks the size class _ocf_req_get_allocator names
\* (UtilsReq!AllocatorClassOK).
AllocatorClassOK == unit = "req" => U!AllocatorClassOK

\* VolumeIo's fields stay in range.
VolumeTypeOK == unit = "volume" => V!TypeOK

\* Nothing ocf_data_obj.c or ocf_metadata_read_sb allocates leaks, on any
\* error path (VolumeIo!VolumeMemoryBalanced).
VolumeMemoryBalanced == unit = "volume" => V!VolumeMemoryBalanced

\* Nothing is used or freed after its free, whether the adapter completes
\* inside submit or later (VolumeIo!VolumeMemorySafe).
VolumeMemorySafe == unit = "volume" => V!VolumeMemorySafe

\* ocf_metadata_read_sb calls back exactly when it returned 0, once, with
\* the volume's superblock or, after a read error, the zeroed one
\* (VolumeIo!ReadSbSound).
ReadSbSound == unit = "volume" => V!ReadSbSound

\* No ENV_BUG_ON fires for a type ocf_data_obj_type_init accepted
\* (VolumeIo!NoBugOn: ocf_dobj_submit_flush).
NoBugOn == unit = "volume" => V!NoBugOn

\* A populate at attach or recovery that returns has put exactly the lines
\* that are not valid on the freelist, each once, on its shard, counted by
\* curr_size (LruPopulate!PopulateExact: ocf_lru_populate,
\* next_phys_invalid).
PopulateExact == unit = "populate" => P!PopulateExact

\* ocf_lru_populate called with the number of lines that are not valid
\* never trips its ENV_BUG_ON (LruPopulate!PopulateNoBug).
PopulateNoBug == unit = "populate" => P!PopulateNoBug

\* An invalidate request is unlocked and put once, after the queue thread
\* left _ocf_invalidate_do and every metadata flush I/O ended, and is not
\* touched after its put (EngineInv!InvCompleteOnce: engine_inv.c).
InvCompleteOnce == unit = "inv" => E!InvCompleteOnce

\* Every invalidate pushed to the queue is unlocked and put
\* (EngineInv!InvCompletes, with each state predicate guarded by the unit,
\* as the other units' variables are not functions).
InvCompletes == \A r \in Reqs : (unit = "inv" /\ eiPc[r] = "queued") ~> (unit = "inv" /\ refs[r] = 0)
=============================================================================
