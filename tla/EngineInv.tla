----------------------------- MODULE EngineInv -----------------------------
(***************************************************************************)
(* The completion of the invalidate engine (src/src/engine/engine_inv.c).  *)
(* ocf_engine_invalidate pushes the request to the front of its queue; the *)
(* queue thread runs _ocf_invalidate_do, which purges the mapping (OcfLru  *)
(* checks that part as IoPurge), raises req_remaining to 1, on an atomic   *)
(* cache device with flush_metadata set starts the asynchronous metadata   *)
(* flush, and then drops its own count with _ocf_invalidate_req(req, 0).   *)
(* Whoever drops req_remaining to 0 unlocks the request's lines and puts   *)
(* the request.                                                            *)
(*                                                                         *)
(* ocf_metadata_flush_do_asynch is not under src/.  It is modelled by the *)
(* contract the caller relies on: for each metadata page it raises         *)
(* req_remaining before submitting the page's I/O, and each I/O calls      *)
(* _ocf_invalidate_req(req, error) once when it ends, on the device's     *)
(* completion thread, possibly before the submission loop returns.        *)
(***************************************************************************)
EXTENDS Integers

CONSTANTS
  Reqs,      \* request slots
  MaxPages   \* metadata pages one flush submits at most

VARIABLES
  atomic,     \* ocf_data_obj_is_atomic(&cache->device->obj)
  flushMeta,  \* req->info.flush_metadata, per request
  pc,         \* the queue thread: "idle", "queued", "flush", "done"
  remaining,  \* req->req_remaining
  pages,      \* pages the flush submits
  issued,     \* flush I/Os submitted
  ended,      \* flush I/Os ended
  err,        \* req->error set
  unlocks,    \* ocf_req_unlock calls
  refs,       \* req->ref_count
  uaf         \* req touched after its last put

vars == <<atomic, flushMeta, pc, remaining, pages, issued, ended, err, unlocks, refs, uaf>>

\* The fields the request touches, with uaf set when it has been put.
Touch(r) == uaf' = [uaf EXCEPT ![r] = @ \/ refs[r] = 0]

\* _ocf_invalidate_req without the "dec_return != 0 => return" test
\* (mutation).
InvalidateReqNoTest(r, e, n) ==
  /\ err' = [err EXCEPT ![r] = @ \/ e]
  /\ remaining' = [remaining EXCEPT ![r] = n - 1]
  /\ unlocks' = [unlocks EXCEPT ![r] = @ + 1]
  /\ refs' = [refs EXCEPT ![r] = @ - 1]
  /\ Touch(r)

\* _ocf_invalidate_req(req, error) with req_remaining at n: record the
\* error, drop req_remaining; the caller that drops it to 0 unlocks and
\* puts the request.
InvalidateReq(r, e, n) ==
  /\ err' = [err EXCEPT ![r] = @ \/ e]
  /\ remaining' = [remaining EXCEPT ![r] = n - 1]
  /\ IF n - 1 # 0
     THEN UNCHANGED <<unlocks, refs>>
     ELSE /\ unlocks' = [unlocks EXCEPT ![r] = @ + 1]
          /\ refs' = [refs EXCEPT ![r] = @ - 1]
  /\ Touch(r)

\* ocf_req_new: a zeroed request from the allocator, ref_count 1; the
\* device's atomicity is fixed for the run.
NewReq(r) ==
  /\ pc' = [pc EXCEPT ![r] = "idle"]
  /\ \E b \in BOOLEAN : flushMeta' = [flushMeta EXCEPT ![r] = b]
  /\ remaining' = [remaining EXCEPT ![r] = 0]
  /\ pages' = [pages EXCEPT ![r] = 0]
  /\ issued' = [issued EXCEPT ![r] = 0]
  /\ ended' = [ended EXCEPT ![r] = 0]
  /\ err' = [err EXCEPT ![r] = FALSE]
  /\ unlocks' = [unlocks EXCEPT ![r] = 0]
  /\ refs' = [refs EXCEPT ![r] = 1]
  /\ uaf' = [uaf EXCEPT ![r] = FALSE]

Init ==
  /\ atomic \in BOOLEAN
  /\ flushMeta \in [Reqs -> BOOLEAN]
  /\ pc = [r \in Reqs |-> "idle"]
  /\ remaining = [r \in Reqs |-> 0]
  /\ pages = [r \in Reqs |-> 0]
  /\ issued = [r \in Reqs |-> 0]
  /\ ended = [r \in Reqs |-> 0]
  /\ err = [r \in Reqs |-> FALSE]
  /\ unlocks = [r \in Reqs |-> 0]
  /\ refs = [r \in Reqs |-> 1]
  /\ uaf = [r \in Reqs |-> FALSE]

\* ocf_engine_invalidate: push to the front of the request's queue.
OcfEngineInvalidate(r) ==
  /\ pc[r] = "idle" /\ refs[r] = 1
  /\ pc' = [pc EXCEPT ![r] = "queued"]
  /\ UNCHANGED <<atomic, flushMeta, remaining, pages, issued, ended, err, unlocks, refs, uaf>>

\* _ocf_invalidate_do without env_atomic_inc(&req->req_remaining) before
\* the flush (mutation).
InvalidateDoNoInc(r) ==
  /\ pc[r] = "queued"
  /\ IF atomic /\ flushMeta[r]
     THEN /\ pc' = [pc EXCEPT ![r] = "flush"]
          /\ \E n \in 1..MaxPages : pages' = [pages EXCEPT ![r] = n]
          /\ UNCHANGED <<remaining, err, unlocks, refs, uaf>>
     ELSE /\ pc' = [pc EXCEPT ![r] = "done"]
          /\ UNCHANGED pages
          /\ InvalidateReq(r, FALSE, remaining[r])
  /\ UNCHANGED <<atomic, flushMeta, issued, ended>>

\* _ocf_invalidate_do up to the flush: ENV_BUG_ON(req_remaining) holds for
\* a fresh request; purge, then raise req_remaining.  Without the flush it
\* goes on to _ocf_invalidate_req(req, 0) in the same step.
InvalidateDo(r) ==
  /\ pc[r] = "queued"
  /\ IF atomic /\ flushMeta[r]
     THEN /\ pc' = [pc EXCEPT ![r] = "flush"]
          /\ \E n \in 1..MaxPages : pages' = [pages EXCEPT ![r] = n]
          /\ remaining' = [remaining EXCEPT ![r] = @ + 1]
          /\ Touch(r)
          /\ UNCHANGED <<err, unlocks, refs>>
     ELSE /\ pc' = [pc EXCEPT ![r] = "done"]
          /\ UNCHANGED pages
          /\ InvalidateReq(r, FALSE, remaining[r] + 1)
  /\ UNCHANGED <<atomic, flushMeta, issued, ended>>

\* ocf_metadata_flush_do_asynch submits one page: req_remaining first.
FlushIssue(r) ==
  /\ pc[r] = "flush" /\ issued[r] < pages[r]
  /\ remaining' = [remaining EXCEPT ![r] = @ + 1]
  /\ issued' = [issued EXCEPT ![r] = @ + 1]
  /\ Touch(r)
  /\ UNCHANGED <<atomic, flushMeta, pc, pages, ended, err, unlocks, refs>>

\* A page's I/O ends: _ocf_invalidate_req(req, error) on the device thread.
FlushEnd(r) ==
  /\ ended[r] < issued[r]
  /\ ended' = [ended EXCEPT ![r] = @ + 1]
  /\ \E e \in BOOLEAN : InvalidateReq(r, e, remaining[r])
  /\ UNCHANGED <<atomic, flushMeta, pc, pages, issued>>

\* The flush has submitted every page and returned: _ocf_invalidate_req(req, 0).
InvalidateTail(r) ==
  /\ pc[r] = "flush" /\ issued[r] = pages[r]
  /\ pc' = [pc EXCEPT ![r] = "done"]
  /\ InvalidateReq(r, FALSE, remaining[r])
  /\ UNCHANGED <<atomic, flushMeta, pages, issued, ended>>

\* The slot's request was freed by its last put; a new one is allocated.
Reuse(r) ==
  /\ refs[r] = 0 /\ pc[r] = "done" /\ ended[r] = issued[r]
  /\ NewReq(r)
  /\ UNCHANGED atomic

Next == \E r \in Reqs :
          \/ OcfEngineInvalidate(r) \/ InvalidateDo(r) \/ FlushIssue(r)
          \/ FlushEnd(r) \/ InvalidateTail(r) \/ Reuse(r)

\* The queue thread runs what is pushed to it; the device ends every I/O.
Fairness == \A r \in Reqs : /\ WF_vars(InvalidateDo(r)) /\ WF_vars(FlushIssue(r))
                            /\ WF_vars(InvalidateTail(r)) /\ WF_vars(FlushEnd(r))

Spec == Init /\ [][Next]_vars /\ Fairness

-----------------------------------------------------------------------------
\* The request is unlocked and put at most once, only after the queue
\* thread has left _ocf_invalidate_do and every metadata flush I/O has
\* ended, and nothing touches it after that put (_ocf_invalidate_do's
\* env_atomic_inc before the flush, _ocf_invalidate_req's dec_return test).
InvCompleteOnce ==
  \A r \in Reqs :
    /\ unlocks[r] <= 1
    /\ unlocks[r] = 1 => pc[r] = "done" /\ ended[r] = issued[r]
    /\ ~uaf[r]

\* Every invalidate pushed to the queue is eventually unlocked and put.
InvCompletes == \A r \in Reqs : pc[r] = "queued" ~> refs[r] = 0
=============================================================================
