----------------------------- MODULE MCThreads ------------------------------
(***************************************************************************)
(* Model checking of Kthread and of what runs on kernel threads: Async and *)
(* Workqueue.  They share no state.  A run says in Parts which of them it  *)
(* is about; in a behaviour one of these moves and the others stay.        *)
(***************************************************************************)
EXTENDS Kthread, TLC

CONSTANTS
  Parts,                              \* of {"kthread", "async", "workqueue"}
  Domains, Threads, Callers, Syncers, MAX_THREADS, MaxCookie,  \* of Async
  Works, Delayed, Tasks, N, None      \* of Workqueue

VARIABLE part

VARIABLES next_cookie, async_pending, running, entry_count, thread_count, domain, apc, called, cdom,
          th, mine, tsleepy, mpc, tc, ec, msleepy, spc, cookie, dom, full, ssleepy, limit

A == INSTANCE Async WITH cpc <- apc

VARIABLES worklist, current_work, lock, wk, sleepy, pending, data, ins, at,
          pc, kind, arg, cwq, cpu, again, owed

W == INSTANCE Workqueue

ASSUME ThreadsAssumption == A!AsyncAssumption /\ W!WqAssumption

asyncvars == <<next_cookie, async_pending, running, entry_count, thread_count, domain, apc, called, cdom,
               th, mine, tsleepy, mpc, tc, ec, msleepy, spc, cookie, dom, full, ssleepy, limit>>
wqvars == <<worklist, current_work, lock, wk, sleepy, pending, data, ins, at,
            pc, kind, arg, cwq, cpu, again, owed>>
allvars == <<part, vars, asyncvars, wqvars>>

MCInit == part \in Parts /\ Init /\ A!Init /\ W!Init

MCNext ==
  /\ UNCHANGED part
  /\ \/ part = "kthread" /\ Next /\ UNCHANGED <<asyncvars, wqvars>>
     \/ part = "async" /\ A!Next /\ UNCHANGED <<vars, wqvars>>
     \/ part = "workqueue" /\ W!Next /\ UNCHANGED <<vars, asyncvars>>

MCSpec == MCInit /\ [][MCNext]_allvars

\* Kthread: everybody who can run does; of threadfn() it is assumed only that it
\* returns once kthread_should_stop().
KthreadMoves == part = "kthread"
KthreadFairness ==
  /\ WF_vars(KthreadMoves /\ Kthreadd)
  /\ \A c \in Creators :
       /\ WF_vars(KthreadMoves /\ CreateStep(c))
       /\ WF_vars(KthreadMoves /\ StopStep(c))
       /\ WF_vars(KthreadMoves /\ ThreadStep(c))
       /\ WF_vars(KthreadMoves /\ should_stop[c] /\ FnReturns(c))

\* Workqueue: threads run, functions return and timers fire; cwq->lock is a ticket
\* lock, so whoever keeps asking for it gets it.  Nobody has to queue, flush or
\* cancel.
WorkqueueMoves == part = "workqueue"
WorkqueueFairness ==
  /\ \A c \in W!CPUs : SF_wqvars(WorkqueueMoves /\ W!Worker(c))
  /\ \A w \in Works : /\ SF_wqvars(WorkqueueMoves /\ W!Insert(w))
                       /\ WF_wqvars(WorkqueueMoves /\ \E c \in W!CPUs : W!TimerFires(w, c))
  /\ \A t \in Tasks : SF_wqvars(WorkqueueMoves /\ W!Step(t))

MCFairSpec == MCSpec /\ KthreadFairness /\ WorkqueueFairness

\* Tasks are interchangeable, and so are threads; a run gives them the same values,
\* so that one permutation serves whichever part moves.
Symmetry == Permutations(Tasks)

-----------------------------------------------------------------------------
(* The properties of Async and Workqueue.                                  *)

\* async_synchronize_cookie_domain() returns after all that is on its lists.
SyncIsDone == A!SyncIsDone

\* It returns after all that was submitted, as async.c:275-277 says.
SyncCoversAll == A!SyncCoversAll

\* A pending call is not left to sleepers.
NoCallForgotten == A!NoCallForgotten

\* A synchronizer whose wait is over is up, or about to be woken.
NoSyncForgotten == A!NoSyncForgotten

\* A canceller that has stolen the work owns its PENDING bit.
CancelOwnsBit == W!CancelOwnsBit

\* When cancel_work_sync() is done the work is neither queued nor running.
CancelMeansIdle == W!CancelMeansIdle

\* A barrier is on a list or run only while its task waits for it.
BarrierIsAlive == W!BarrierIsAlive

\* flush_workqueue() returns after everything that was there when it began.
FlushHandlesAll == W!FlushHandlesAll

\* Every flush_workqueue() and flush_work() returns.
FlushReturns == W!FlushReturns

\* A work that is on a list is taken from it.
QueuedIsTaken == W!QueuedIsTaken
=============================================================================
