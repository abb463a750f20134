------------------------------- MODULE Refcnt -------------------------------
(***************************************************************************)
(* struct ocf_refcnt of src/utils/utils_refcnt.c: a reference counter     *)
(* (counter) that management can freeze (freeze, a nesting count) and     *)
(* wait on until it drains (callback, cb, priv).  Users call               *)
(* ocf_refcnt_inc and, when it returned true, ocf_refcnt_dec later;        *)
(* management calls ocf_refcnt_freeze, ocf_refcnt_wait_for_zero and        *)
(* ocf_refcnt_unfreeze.  Each env_atomic operation is one step, so every  *)
(* interleaving of the threads' atomic operations is explored.            *)
(*                                                                         *)
(* ocf_refcnt_wait_for_zero keeps its env_waitqueue (a semaphore, see the  *)
(* env header) on its own stack and registers its address as priv.  The    *)
(* callback rc->cb(rc->priv) posts it.  A post that reaches a waitqueue    *)
(* whose wait_for_zero has already returned is undefined behaviour: the    *)
(* post is lost, or lands in the waitqueue the same thread's next          *)
(* wait_for_zero has put at the same address; both are modelled.           *)
(***************************************************************************)
EXTENDS Integers, FiniteSets

CONSTANTS
  Users,      \* threads taking references (ocf_refcnt_inc / ocf_refcnt_dec)
  Mgmts,      \* management threads (freeze, wait_for_zero, unfreeze)
  MaxRounds,  \* freeze/wait/unfreeze rounds per management thread
  NONE

ASSUME Users \cap Mgmts = {} /\ MaxRounds \in Nat \ {0}

Threads == Users \cup Mgmts

VARIABLES
  counter,   \* rc->counter
  freeze,    \* rc->freeze
  callback,  \* rc->callback
  priv,      \* rc->priv: the waitqueue registered, <<thread, round>>, or NONE
  pc,        \* program counter of every thread
  round,     \* the wait_for_zero call a management thread is in (its frame)
  alive,     \* that call's stack frame (and its env_waitqueue) still exists
  sem,       \* the semaphore of that env_waitqueue
  stalePost  \* a callback has posted a waitqueue whose call had returned

vars == <<counter, freeze, callback, priv, pc, round, alive, sem, stalePost>>

\* Where a thread goes when its ocf_refcnt_dec returns.
Ret(t) == IF t \in Users THEN "u_idle" ELSE "m_wait"

Init == /\ counter = 0 /\ freeze = 0 /\ callback = 0 /\ priv = NONE
        /\ pc = [t \in Threads |-> IF t \in Users THEN "u_idle" ELSE "m_idle"]
        /\ round = [m \in Mgmts |-> 0]
        /\ alive = [m \in Mgmts |-> FALSE]
        /\ sem = [m \in Mgmts |-> 0]
        /\ stalePost = FALSE

Goto(t, l) == pc' = [pc EXCEPT ![t] = l]

-----------------------------------------------------------------------------
(* ocf_refcnt_inc: read freeze, increment, read freeze again.             *)
IncRead(u) == /\ pc[u] = "u_idle"
              /\ Goto(u, IF freeze = 0 THEN "u_inc" ELSE "u_idle")
              /\ UNCHANGED <<counter, freeze, callback, priv, round, alive, sem, stalePost>>

IncAdd(u) == /\ pc[u] = "u_inc"
             /\ counter' = counter + 1
             /\ Goto(u, "u_recheck")
             /\ UNCHANGED <<freeze, callback, priv, round, alive, sem, stalePost>>

\* ... frozen in between: undo with ocf_refcnt_dec and return false
\* (mutation: return without the undo).
IncRecheckNoUndo(u) ==
  /\ pc[u] = "u_recheck"
  /\ Goto(u, IF freeze = 0 THEN "u_held" ELSE "u_idle")
  /\ UNCHANGED <<counter, freeze, callback, priv, round, alive, sem, stalePost>>

IncRecheck(u) == /\ pc[u] = "u_recheck"
                 /\ Goto(u, IF freeze = 0 THEN "u_held" ELSE "dec")
                 /\ UNCHANGED <<counter, freeze, callback, priv, round, alive, sem, stalePost>>

\* A user that got its reference drops it with ocf_refcnt_dec.
Release(u) == /\ pc[u] = "u_held"
              /\ Goto(u, "dec")
              /\ UNCHANGED <<counter, freeze, callback, priv, round, alive, sem, stalePost>>

-----------------------------------------------------------------------------
(* ocf_refcnt_dec, run by users and by register_zero_cb: dec_return,      *)
(* ENV_BUG_ON(val < 0), on zero cmpxchg(callback, 1, 0) and on success     *)
(* rc->cb(rc->priv).                                                       *)
\* ocf_refcnt_dec without the zero test that fires the callback (mutation).
DecNoZeroCheck(t) ==
  /\ pc[t] = "dec"
  /\ counter' = counter - 1
  /\ Goto(t, IF counter - 1 < 0 THEN "bug" ELSE Ret(t))
  /\ UNCHANGED <<freeze, callback, priv, round, alive, sem, stalePost>>

Dec(t) == /\ pc[t] = "dec"
          /\ counter' = counter - 1
          /\ Goto(t, CASE counter - 1 < 0 -> "bug"
                       [] counter - 1 = 0 -> "cas"
                       [] OTHER -> Ret(t))
          /\ UNCHANGED <<freeze, callback, priv, round, alive, sem, stalePost>>

Cas(t) == /\ pc[t] = "cas"
          /\ callback' = 0
          /\ Goto(t, IF callback = 1 THEN "cb" ELSE Ret(t))
          /\ UNCHANGED <<counter, freeze, priv, round, alive, sem, stalePost>>

\* _ocf_refcnt_sync_wait_cb(priv): env_waitqueue_wake_up, a sem_post.
PostTo(w) ==
  LET m == w[1] IN
  IF alive[m] /\ round[m] = w[2]
  THEN sem' = [sem EXCEPT ![m] = @ + 1] /\ UNCHANGED stalePost
  ELSE /\ stalePost' = TRUE
       /\ \/ UNCHANGED sem
          \/ alive[m] /\ sem' = [sem EXCEPT ![m] = @ + 1]

Callback(t) == /\ pc[t] = "cb"
               /\ PostTo(priv)
               /\ Goto(t, Ret(t))
               /\ UNCHANGED <<counter, freeze, callback, priv, round, alive>>

-----------------------------------------------------------------------------
(* Management: ocf_refcnt_freeze, ocf_refcnt_wait_for_zero (waitqueue     *)
(* init, ocf_refcnt_register_zero_cb, env_waitqueue_wait),                *)
(* ocf_refcnt_unfreeze.                                                    *)
Freeze(m) == /\ pc[m] = "m_idle" /\ round[m] < MaxRounds
             /\ freeze' = freeze + 1
             /\ Goto(m, "m_wfz")
             /\ UNCHANGED <<counter, callback, priv, round, alive, sem, stalePost>>

\* env_waitqueue_init, then register_zero_cb: ENV_BUG_ON(!freeze) and
\* env_atomic_inc(&rc->counter).
RegisterInc(m) == /\ pc[m] = "m_wfz"
                  /\ round' = [round EXCEPT ![m] = @ + 1]
                  /\ alive' = [alive EXCEPT ![m] = TRUE]
                  /\ sem' = [sem EXCEPT ![m] = 0]
                  /\ IF freeze = 0 THEN Goto(m, "bug") /\ UNCHANGED counter
                     ELSE counter' = counter + 1 /\ Goto(m, "m_setcb")
                  /\ UNCHANGED <<freeze, callback, priv, stalePost>>

\* rc->cb = cb; rc->priv = priv;
SetCb(m) == /\ pc[m] = "m_setcb"
            /\ priv' = <<m, round[m]>>
            /\ Goto(m, "m_setflag")
            /\ UNCHANGED <<counter, freeze, callback, round, alive, sem, stalePost>>

\* env_atomic_set(&rc->callback, 1), then ocf_refcnt_dec.
SetFlag(m) == /\ pc[m] = "m_setflag"
              /\ callback' = 1
              /\ Goto(m, "dec")
              /\ UNCHANGED <<counter, freeze, priv, round, alive, sem, stalePost>>

\* env_waitqueue_wait(wq, !callback): sleep only if callback is still set;
\* returning ends the call's frame.
Wait(m) == /\ pc[m] = "m_wait"
           /\ IF callback = 0
              THEN alive' = [alive EXCEPT ![m] = FALSE] /\ Goto(m, "m_unfreeze")
              ELSE UNCHANGED alive /\ Goto(m, "m_sleep")
           /\ UNCHANGED <<counter, freeze, callback, priv, round, sem, stalePost>>

Wake(m) == /\ pc[m] = "m_sleep" /\ sem[m] > 0
           /\ sem' = [sem EXCEPT ![m] = @ - 1]
           /\ alive' = [alive EXCEPT ![m] = FALSE]
           /\ Goto(m, "m_unfreeze")
           /\ UNCHANGED <<counter, freeze, callback, priv, round, stalePost>>

Unfreeze(m) == /\ pc[m] = "m_unfreeze"
               /\ freeze' = freeze - 1
               /\ Goto(m, "m_idle")
               /\ UNCHANGED <<counter, callback, priv, round, alive, sem, stalePost>>

-----------------------------------------------------------------------------
UserStep(u) == IncRead(u) \/ IncAdd(u) \/ IncRecheck(u) \/ Release(u)
ThreadStep(t) == Dec(t) \/ Cas(t) \/ Callback(t)
MgmtStep(m) == Freeze(m) \/ RegisterInc(m) \/ SetCb(m) \/ SetFlag(m) \/ Wait(m)
               \/ Wake(m) \/ Unfreeze(m)

Next == \/ \E u \in Users : UserStep(u)
        \/ \E t \in Threads : ThreadStep(t)
        \/ \E m \in Mgmts : MgmtStep(m)

Spec == Init /\ [][Next]_vars

\* Threads are scheduled fairly by the OS; a user holds a reference for a
\* finite time; management finishes a round it has started (a new round is
\* its choice, so Freeze is not fair).
Fairness == /\ \A u \in Users : WF_vars(IncAdd(u) \/ IncRecheck(u) \/ Release(u))
            /\ \A t \in Threads : WF_vars(ThreadStep(t))
            /\ \A m \in Mgmts : WF_vars(RegisterInc(m) \/ SetCb(m) \/ SetFlag(m)
                                        \/ Wait(m) \/ Wake(m) \/ Unfreeze(m))

FairSpec == Spec /\ Fairness

-----------------------------------------------------------------------------
TypeOK == /\ counter \in Int /\ freeze \in Nat /\ callback \in {0, 1}
          /\ priv \in (Mgmts \X (1..MaxRounds)) \cup {NONE}
          /\ round \in [Mgmts -> 0..MaxRounds] /\ alive \in [Mgmts -> BOOLEAN]
          /\ sem \in [Mgmts -> Nat] /\ stalePost \in BOOLEAN

\* The counter is exactly the number of increments not yet undone: one per
\* user between env_atomic_inc and its ocf_refcnt_dec, and one per
\* register_zero_cb between its increment and its dec; so it never goes
\* negative (no ENV_BUG_ON(val < 0)) and reaches zero only when every
\* reference is dropped.
RefsCounted ==
  /\ counter = Cardinality({t \in Threads :
                              pc[t] \in {"u_recheck", "u_held", "m_setcb", "m_setflag", "dec"}})
  /\ \A t \in Threads : pc[t] # "bug"

\* ocf_refcnt_wait_for_zero returns only once the counter has drained:
\* from its return until ocf_refcnt_unfreeze no user holds a reference.
Quiescent ==
  \A m \in Mgmts : pc[m] = "m_unfreeze" => \A u \in Users : pc[u] # "u_held"

\* The zero callback only posts a waitqueue whose wait_for_zero is still
\* running (the waitqueue lives on that call's stack).
NoPostAfterReturn == ~stalePost

\* Every ocf_refcnt_wait_for_zero returns.
WaitReturns == \A m \in Mgmts : pc[m] \in {"m_wait", "m_sleep"} ~> pc[m] = "m_unfreeze"
=============================================================================
