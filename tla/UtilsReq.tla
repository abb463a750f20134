------------------------------ MODULE UtilsReq ------------------------------
(***************************************************************************)
(* Request allocation and reference counting (src/utils/utils_req.c).      *)
(*                                                                         *)
(* Callers on I/O queues and on the management queue allocate requests    *)
(* with ocf_req_new (and its _extended and _discard wrappers), take        *)
(* references with ocf_req_get and drop them with ocf_req_put, whose last  *)
(* put releases the request.  A request pins three things: the cache's     *)
(* io_req counter (I/O queues only), its metadata counter (unless the      *)
(* request runs d2c because metadata was frozen) and its queue.  A         *)
(* management thread per counter freezes it, waits for zero with           *)
(* ocf_refcnt_wait_for_zero and unfreezes it.                              *)
(*                                                                         *)
(* Each call of utils_req.c is one atomic action: the caller runs it to    *)
(* its return on one thread.  The counters are ocf_refcnt's operations as  *)
(* atomic steps; their internal races are the subject of Refcnt.          *)
(* Addresses and byte counts are abstracted to the core-line count they   *)
(* give (ocf_bytes_2_lines), taken from LineCounts.                       *)
(***************************************************************************)
EXTENDS Integers, FiniteSets

CONSTANTS
  Reqs,         \* request slots, one per caller holding at most one request
  Queues,       \* the cache's queues
  MNGT,         \* cache->mngt_queue, a member of Queues
  NoMemQueues,  \* queues whose callers may see env_allocator_new fail
  LineCounts,   \* core_line_count values of the requests callers make
  TrimLines,    \* MAX_TRIM_RQ_SIZE in core lines
  MaxRef,       \* bound on a request's ref_count
  MaxCount,     \* counts up to which _ocf_req_get_allocator is checked
  NONE

ASSUME MNGT \in Queues /\ NoMemQueues \subseteq Queues

Counters == {"io_req", "metadata"}
SizeMax == 8                      \* ocf_req_size_max
Sizes == 0..(SizeMax - 1)
EBUSY == 16
ENOMEM == 12

VARIABLES
  resources, \* ocf_ctx->resources.req allocated
  created,   \* indices i with req->allocator[i] created
  rc,        \* cache->refcnt.io_req and .metadata: counter, freeze, callback
  mgr,       \* per counter, where its management thread is
  req,       \* per slot, the request it holds
  qref,      \* per queue, ocf_queue_get references taken by requests
  objs,      \* per allocator, objects allocated and not yet deleted
  heap,      \* maps allocated with env_zalloc and not yet freed
  ret,       \* per slot, what its last allocation call returned
  bug        \* an ENV_BUG_ON fired

vars == <<resources, created, rc, mgr, req, qref, objs, heap, ret, bug>>

NoReq == [live |-> FALSE, queue |-> MNGT, d2c |-> FALSE, ref |-> 0, lines |-> 1,
          map |-> "none"]

Init == /\ resources = FALSE /\ created = {}
        /\ rc = [c \in Counters |-> [counter |-> 0, freeze |-> 0, callback |-> 0]]
        /\ mgr = [c \in Counters |-> "idle"]
        /\ req = [r \in Reqs |-> NoReq]
        /\ qref = [q \in Queues |-> 0]
        /\ objs = [i \in Sizes |-> 0] /\ heap = 0
        /\ ret = [r \in Reqs |-> 0] /\ bug = FALSE

-----------------------------------------------------------------------------
(* _ocf_req_get_allocator: the smallest power-of-two allocator that holds  *)
(* count lines, or none above 128.                                         *)
RECURSIVE Log2Floor(_)
\* 31 - __builtin_clz(count)
Log2Floor(n) == IF n < 2 THEN 0 ELSE 1 + Log2Floor(n \div 2)

RECURSIVE Ffs(_)
\* __builtin_ffs(count), count > 0
Ffs(n) == IF n % 2 = 1 THEN 1 ELSE 1 + Ffs(n \div 2)

\* Without the round-up for counts that are not powers of two (mutation).
GetAllocatorNoRound(count) ==
  LET idx == Log2Floor(count) IN IF idx >= SizeMax THEN NONE ELSE idx

GetAllocator(count) ==
  LET idx0 == Log2Floor(count)
      idx == IF Ffs(count) <= idx0 THEN idx0 + 1 ELSE idx0
  IN IF idx >= SizeMax THEN NONE ELSE idx

\* The reference: the least i with 2^i >= count, none from ocf_req_size_max.
RefAllocator(count) ==
  LET i == CHOOSE k \in 0..31 : 2^k >= count /\ (k = 0 \/ 2^(k - 1) < count)
  IN IF i >= SizeMax THEN NONE ELSE i

-----------------------------------------------------------------------------
(* utils_refcnt.c, each operation one atomic step.                         *)
\* ocf_refcnt_inc: take a reference unless frozen.
RcInc(rcs, c) == IF rcs[c].freeze = 0 THEN [rcs EXCEPT ![c].counter = @ + 1] ELSE rcs

\* ocf_refcnt_dec: drop a reference; on zero, a registered callback fires
\* (cmpxchg callback 1 -> 0 and wake the waiter).
RcDec(rcs, c) ==
  LET v == rcs[c].counter - 1 IN
  [rcs EXCEPT ![c].counter = v, ![c].callback = IF v = 0 THEN 0 ELSE @]

\* ENV_BUG_ON(val < 0) in ocf_refcnt_dec.
DecUnderflows(rcs, c) == rcs[c].counter - 1 < 0
-----------------------------------------------------------------------------
(* The calls of utils_req.c as functions of the state W, composed in the  *)
(* order the code runs them; an action applies one call's result.         *)
W == [rc |-> rc, req |-> req, qref |-> qref, objs |-> objs, heap |-> heap, ret |-> ret,
      bug |-> bug]

Apply(w) == /\ rc' = w.rc /\ req' = w.req /\ qref' = w.qref /\ objs' = w.objs
            /\ heap' = w.heap /\ ret' = w.ret /\ bug' = w.bug

Dec(w, c) == [w EXCEPT !.rc = RcDec(@, c), !.bug = @ \/ DecUnderflows(w.rc, c)]

\* The allocator a request of n lines lives in: its own, else allocator[0].
PoolOf(n) == IF GetAllocator(n) = NONE THEN 0 ELSE GetAllocator(n)

\* start_cache_req with "d2c = ocf_refcnt_inc(...)" (mutation).
StartCacheReqNoNot(w, r) ==
  [w EXCEPT !.req[r].d2c = w.rc.metadata.freeze = 0, !.rc = RcInc(@, "metadata")]

\* start_cache_req: the request runs d2c when it cannot pin metadata.
StartCacheReq(w, r) ==
  [w EXCEPT !.req[r].d2c = w.rc.metadata.freeze # 0, !.rc = RcInc(@, "metadata")]

\* ocf_req_new: pin io_req (I/O queues only; frozen: -EBUSY), allocate from
\* the size-class allocator or allocator[0] (-ENOMEM drops io_req again),
\* use the embedded map when the class fits, ocf_queue_get,
\* start_cache_req, ref_count = 1.
ReqNewW(w, r, q, n, nomem) ==
  LET w1 == IF q # MNGT THEN [w EXCEPT !.rc = RcInc(@, "io_req")] ELSE w IN
  IF q # MNGT /\ w.rc.io_req.freeze # 0 THEN [w EXCEPT !.ret[r] = EBUSY]
  ELSE IF nomem THEN [Dec(w1, "io_req") EXCEPT !.ret[r] = ENOMEM]
  ELSE StartCacheReq(
         [w1 EXCEPT !.objs[PoolOf(n)] = @ + 1, !.qref[q] = @ + 1, !.ret[r] = 0,
                    !.req[r] = [live |-> TRUE, queue |-> q, d2c |-> FALSE, ref |-> 1,
                                lines |-> n,
                                map |-> IF GetAllocator(n) = NONE THEN "none"
                                        ELSE "embedded"]], r)

\* The release of ocf_req_put without "if (req->io_queue != mngt_queue)"
\* (mutation).
ReqReleaseDecAll(w, r) ==
  LET x == w.req[r]
      w1 == IF ~x.d2c THEN Dec([w EXCEPT !.qref[x.queue] = @ - 1], "metadata")
            ELSE [w EXCEPT !.qref[x.queue] = @ - 1]
  IN [Dec(w1, "io_req") EXCEPT !.objs[PoolOf(x.lines)] = @ - 1,
        !.heap = IF GetAllocator(x.lines) = NONE /\ x.map = "heap" THEN @ - 1 ELSE @,
        !.req[r] = NoReq]

\* The release of ocf_req_put without env_free(req->map) (mutation).
ReqReleaseNoMapFree(w, r) ==
  LET x == w.req[r]
      w1 == IF ~x.d2c THEN Dec([w EXCEPT !.qref[x.queue] = @ - 1], "metadata")
            ELSE [w EXCEPT !.qref[x.queue] = @ - 1]
      w2 == IF x.queue # MNGT THEN Dec(w1, "io_req") ELSE w1
  IN [w2 EXCEPT !.objs[PoolOf(x.lines)] = @ - 1, !.req[r] = NoReq]

\* The release at the last ocf_req_put: ocf_queue_put, unpin metadata
\* (unless d2c) and io_req (unless on the management queue), free the map
\* of an oversized request and return the request to the allocator its
\* alloc_core_line_count selects.
ReqRelease(w, r) ==
  LET x == w.req[r]
      w1 == IF ~x.d2c THEN Dec([w EXCEPT !.qref[x.queue] = @ - 1], "metadata")
            ELSE [w EXCEPT !.qref[x.queue] = @ - 1]
      w2 == IF x.queue # MNGT THEN Dec(w1, "io_req") ELSE w1
  IN [w2 EXCEPT !.objs[PoolOf(x.lines)] = @ - 1,
        !.heap = IF GetAllocator(x.lines) = NONE /\ x.map = "heap" THEN @ - 1 ELSE @,
        !.req[r] = NoReq]

\* ocf_req_put: drop a reference; the last one releases the request.
ReqPutW(w, r) ==
  IF w.req[r].ref > 1 THEN [w EXCEPT !.req[r].ref = @ - 1] ELSE ReqRelease(w, r)

\* ocf_req_alloc_map: a request without its embedded map gets one from
\* env_zalloc; failure sets req->error and returns -ENOMEM.
ReqAllocMap(w, r, fail) ==
  IF w.req[r].map # "none" THEN w
  ELSE IF fail THEN [w EXCEPT !.ret[r] = ENOMEM]
  ELSE [w EXCEPT !.req[r].map = "heap", !.heap = @ + 1]

\* ocf_req_new_extended: ocf_req_new, then ocf_req_alloc_map; on a map
\* failure the request is put and -ENOMEM returned.
ReqNewExtendedW(w, r, q, n, nomem, mapfail) ==
  LET w1 == ReqNewW(w, r, q, n, nomem) IN
  IF w1.ret[r] # 0 THEN w1
  ELSE LET w2 == ReqAllocMap(w1, r, mapfail) IN
       IF w2.ret[r] # 0 THEN [ReqPutW(w2, r) EXCEPT !.ret[r] = ENOMEM] ELSE w2

-----------------------------------------------------------------------------
(* Callers.  A call on an I/O queue or the management queue, with          *)
(* allocation failure possible on the queues of NoMemQueues.               *)
NoMem(q) == IF q \in NoMemQueues THEN BOOLEAN ELSE {FALSE}

CallGuard(r) == resources /\ ~req[r].live

ReqNew(r, q, n) ==
  /\ CallGuard(r)
  /\ \E nomem \in NoMem(q) : Apply(ReqNewW(W, r, q, n, nomem))
  /\ UNCHANGED <<resources, created, mgr>>

ReqNewExtended(r, q, n) ==
  /\ CallGuard(r)
  /\ \E nomem, mapfail \in NoMem(q) : Apply(ReqNewExtendedW(W, r, q, n, nomem, mapfail))
  /\ UNCHANGED <<resources, created, mgr>>

\* ocf_req_new_discard: an extended request of at most MAX_TRIM_RQ_SIZE
\* bytes (the discard sector fields are data).
ReqNewDiscard(r, q, n) ==
  /\ CallGuard(r)
  /\ \E nomem, mapfail \in NoMem(q) :
       Apply(ReqNewExtendedW(W, r, q, IF n < TrimLines THEN n ELSE TrimLines,
                             nomem, mapfail))
  /\ UNCHANGED <<resources, created, mgr>>

\* ocf_req_get.
ReqGet(r) ==
  /\ req[r].live /\ req[r].ref < MaxRef
  /\ req' = [req EXCEPT ![r].ref = @ + 1]
  /\ UNCHANGED <<resources, created, rc, mgr, qref, objs, heap, ret, bug>>

ReqPut(r) ==
  /\ req[r].live
  /\ Apply(ReqPutW(W, r))
  /\ UNCHANGED <<resources, created, mgr>>

-----------------------------------------------------------------------------
(* The management thread of counter c: ocf_refcnt_freeze,                 *)
(* ocf_refcnt_wait_for_zero (register_zero_cb, then the wait returns once  *)
(* the callback has fired), ocf_refcnt_unfreeze.                           *)
RefcntFreeze(c) ==
  /\ mgr[c] = "idle"
  /\ mgr' = [mgr EXCEPT ![c] = "frozen"]
  /\ rc' = [rc EXCEPT ![c].freeze = @ + 1]
  /\ UNCHANGED <<resources, created, req, qref, objs, heap, ret, bug>>

\* ocf_refcnt_register_zero_cb: take a reference, arm the callback, drop
\* the reference (which fires the callback at once if nobody else holds one).
RefcntRegisterZeroCb(c) ==
  /\ mgr[c] = "frozen"
  /\ mgr' = [mgr EXCEPT ![c] = "waiting"]
  /\ rc' = RcDec([rc EXCEPT ![c].counter = @ + 1, ![c].callback = 1], c)
  /\ UNCHANGED <<resources, created, req, qref, objs, heap, ret, bug>>

\* env_waitqueue_wait(wq, !callback) returns.
RefcntWaitForZero(c) ==
  /\ mgr[c] = "waiting" /\ rc[c].callback = 0
  /\ mgr' = [mgr EXCEPT ![c] = "drained"]
  /\ UNCHANGED <<resources, created, rc, req, qref, objs, heap, ret, bug>>

RefcntUnfreeze(c) ==
  /\ mgr[c] = "drained"
  /\ mgr' = [mgr EXCEPT ![c] = "idle"]
  /\ rc' = [rc EXCEPT ![c].freeze = @ - 1]
  /\ UNCHANGED <<resources, created, req, qref, objs, heap, ret, bug>>

-----------------------------------------------------------------------------
(* The context's allocators.                                               *)
\* ocf_req_allocator_deinit: destroy every allocator created, free the
\* resources.
AllocatorDeinit(cr) == {i \in cr : FALSE}

\* ocf_req_allocator_init: env_zalloc the resources, then create the
\* allocators 0..7 in order.  f is where it stops: -1 when env_zalloc
\* fails, i < 8 when allocator i cannot be created (both go to
\* ocf_req_allocator_deinit), 8 when all are created.  The context is set
\* up before any cache issues requests.
ReqAllocatorInit ==
  /\ ~resources /\ \A r \in Reqs : ~req[r].live
  /\ \E f \in -1..SizeMax :
       IF f = SizeMax THEN resources' = TRUE /\ created' = Sizes
       ELSE resources' = FALSE /\ created' = AllocatorDeinit(0..(f - 1))
  /\ UNCHANGED <<rc, mgr, req, qref, objs, heap, ret, bug>>

\* ocf_req_allocator_deinit at context teardown, once no request is left.
ReqAllocatorDeinit ==
  /\ resources /\ \A r \in Reqs : ~req[r].live
  /\ resources' = FALSE /\ created' = AllocatorDeinit(created)
  /\ UNCHANGED <<rc, mgr, req, qref, objs, heap, ret, bug>>

Next ==
  \/ \E r \in Reqs, q \in Queues, n \in LineCounts :
       ReqNew(r, q, n) \/ ReqNewExtended(r, q, n) \/ ReqNewDiscard(r, q, n)
  \/ \E r \in Reqs : ReqGet(r) \/ ReqPut(r)
  \/ \E c \in Counters : \/ RefcntFreeze(c) \/ RefcntRegisterZeroCb(c)
                         \/ RefcntWaitForZero(c) \/ RefcntUnfreeze(c)
  \/ ReqAllocatorInit \/ ReqAllocatorDeinit

Spec == Init /\ [][Next]_vars

-----------------------------------------------------------------------------
Live == {r \in Reqs : req[r].live}

\* Who holds a reference on counter c.
Holders(c) == IF c = "io_req" THEN {r \in Live : req[r].queue # MNGT}
              ELSE {r \in Live : ~req[r].d2c}

TypeOK ==
  /\ resources \in BOOLEAN /\ created \subseteq Sizes
  /\ \A c \in Counters : /\ rc[c].counter \in 0..Cardinality(Reqs)
                         /\ rc[c].freeze \in {0, 1} /\ rc[c].callback \in {0, 1}
  /\ mgr \in [Counters -> {"idle", "frozen", "waiting", "drained"}]
  /\ \A r \in Reqs : /\ req[r].ref \in 0..MaxRef /\ req[r].queue \in Queues
                     /\ req[r].map \in {"none", "embedded", "heap"}
  /\ ret \in [Reqs -> {0, EBUSY, ENOMEM}] /\ bug \in BOOLEAN

\* When ocf_refcnt_wait_for_zero has returned to the management thread of
\* a counter, no request pins it: no I/O-queue request is alive after an
\* io_req drain, no request outside d2c after a metadata drain.
Quiesced == \A c \in Counters : mgr[c] = "drained" => Holders(c) = {}

\* Every object taken from a request allocator, every map taken from
\* env_zalloc and every queue reference is held by exactly the live
\* requests that took it (ocf_req_put returns each to where ocf_req_new and
\* ocf_req_alloc_map took it), and only created allocators hold objects.
ReqMemoryBalanced ==
  /\ \A i \in Sizes : /\ objs[i] = Cardinality({r \in Live : PoolOf(req[r].lines) = i})
                      /\ objs[i] > 0 => i \in created
  /\ heap = Cardinality({r \in Live : req[r].map = "heap"})
  /\ \A q \in Queues : qref[q] = Cardinality({r \in Live : req[r].queue = q})

AllocatorsAgree == \A n \in 1..MaxCount : GetAllocator(n) = RefAllocator(n)

\* Once the context's allocators exist, _ocf_req_get_allocator picks, for
\* every count up to MaxCount, the smallest power-of-two allocator that
\* holds it, and none above 128 lines.
AllocatorClassOK == resources => AllocatorsAgree
=============================================================================
