------------------------------- MODULE Mutex --------------------------------
(***************************************************************************)
(* kernel/mutex.c with the fast path of include/asm-generic/mutex-dec.h,   *)
(* as the SMP MIPS build without mutex debugging compiles it.              *)
(*                                                                         *)
(* lock->count is 1 when the mutex is free, 0 when it is held and nobody   *)
(* is known to wait, negative when the holder has to take the slow path    *)
(* out.  It is changed by single atomic operations, most of them without   *)
(* lock->wait_lock, so every one of them is a step of its own here, and so *)
(* is every access to lock->owner, which is not atomic with the count.     *)
(* The mutex is not handed over: unlock makes it free and wakes the first  *)
(* waiter, and a spinner or a newcomer may take it first.                  *)
(***************************************************************************)
EXTENDS Integers, Sequences, FiniteSets, TaskWake, WaitList

CONSTANTS Tasks, None

ASSUME MutexAssumption == IsFiniteSet(Tasks) /\ None \notin Tasks

VARIABLES
  count,      \* lock->count
  lock,       \* lock->wait_lock: the task inside, or None
  wait_list,  \* lock->wait_list, named by the waiting tasks
  owner,      \* lock->owner
  seen,       \* seen[t]: the local 'owner' of t's spin loop
  tstate,     \* t->state
  sig,        \* what is pending for t
  mode,       \* the 'state' argument of __mutex_lock_common()
  pc

vars == <<count, lock, wait_list, owner, seen, tstate, sig, mode, pc>>

\* "spin": at the top of the spin loop; "spinon": in mutex_spin_on_owner();
\* "try": before the cmpxchg; "queue": spinning given up.
\* "loop": linked, wait_lock held; "sched": state set, wait_lock dropped;
\* "asleep": off the run queue; "awake": back from schedule().
\* "done": acquired, wait_lock still held; "got": acquired, owner not set yet;
\* "locked": the critical section; "unlocking": owner cleared; "slow": the
\* count did not become 1; "wake": unlocked, wait_lock held.
Queued  == {"loop", "sched", "asleep", "awake", "done"}
Holding == {"done", "got", "locked", "unlocking", "slow"}
PC == {"idle", "spin", "spinon", "try", "queue", "wake"}
        \cup Queued \cup Holding

Holders == {t \in Tasks : pc[t] \in Holding}

Init ==
  /\ count = 1
  /\ lock = None
  /\ wait_list = <<>>
  /\ owner = None
  /\ seen = [t \in Tasks |-> None]
  /\ tstate = [t \in Tasks |-> "RUNNING"]
  /\ sig = [t \in Tasks |-> "none"]
  /\ mode = [t \in Tasks |-> "UNINTERRUPTIBLE"]
  /\ pc = [t \in Tasks |-> "idle"]

Goto(t, where) == pc' = [pc EXCEPT ![t] = where]

-----------------------------------------------------------------------------
(* Acquiring without wait_lock.                                            *)

\* __mutex_lock_common(md) begins.
Slowpath(t, md) == Goto(t, "spin") /\ mode' = [mode EXCEPT ![t] = md]

\* The fast path: atomic_dec_return(count) < 0 leads to the slow path.
LockFast(t, md) ==
  /\ pc[t] = "idle"
  /\ count' = count - 1
  /\ \/ count - 1 >= 0 /\ Goto(t, "got") /\ UNCHANGED mode
     \/ count - 1 < 0 /\ Slowpath(t, md)
  /\ UNCHANGED <<lock, wait_list, owner, seen, tstate, sig>>

MutexLock(t) == LockFast(t, "UNINTERRUPTIBLE")

MutexLockInterruptible(t) == LockFast(t, "INTERRUPTIBLE")

MutexLockKillable(t) == LockFast(t, "KILLABLE")

\* cmpxchg(count, 1, 0) succeeds.
fastpath_trylock(t) == count = 1 /\ count' = 0 /\ Goto(t, "got")

\* mutex_trylock(), when it succeeds.
MutexTrylock(t) ==
  /\ pc[t] = "idle"
  /\ fastpath_trylock(t)
  /\ UNCHANGED <<lock, wait_list, owner, seen, tstate, sig, mode>>

mutex_set_owner(t) == owner' = t

mutex_clear_owner == owner' = None

\* Whatever acquired the mutex has returned.
SetOwner(t) ==
  /\ pc[t] = "got"
  /\ mutex_set_owner(t)
  /\ mode' = [mode EXCEPT ![t] = "UNINTERRUPTIBLE"]   \* out of scope
  /\ Goto(t, "locked")
  /\ UNCHANGED <<count, lock, wait_list, seen, tstate, sig>>

\* owner = ACCESS_ONCE(lock->owner).
SpinRead(t) ==
  /\ pc[t] = "spin"
  /\ seen' = [seen EXCEPT ![t] = owner]
  /\ Goto(t, IF owner = None THEN "try" ELSE "spinon")
  /\ UNCHANGED <<count, lock, wait_list, owner, tstate, sig, mode>>

\* mutex_spin_on_owner(): 1 when the owner has changed; 0 when the owner is not
\* running or somebody needs this CPU, which can be the case at any time.
SpinOnOwner(t) ==
  /\ pc[t] = "spinon"
  /\ \/ owner # seen[t] /\ Goto(t, "try") /\ UNCHANGED seen
     \/ Goto(t, "queue") /\ seen' = [seen EXCEPT ![t] = None]
  /\ UNCHANGED <<count, lock, wait_list, owner, tstate, sig, mode>>

\* The spinner's cmpxchg(count, 1, 0).  When it fails and there was no owner
\* to watch, need_resched() or an RT task gives up.
SpinTry(t) ==
  /\ pc[t] = "try"
  /\ seen' = [seen EXCEPT ![t] = None]
  /\ \/ count = 1 /\ count' = 0 /\ Goto(t, "got")
     \/ count # 1 /\ UNCHANGED count /\ Goto(t, "spin")
     \/ count # 1 /\ UNCHANGED count /\ seen[t] = None /\ Goto(t, "queue")
  /\ UNCHANGED <<lock, wait_list, owner, tstate, sig, mode>>

-----------------------------------------------------------------------------
(* Waiting.                                                                *)

\* Mutant of Enqueue: the old value is compared as if 0 meant free.
Enqueue_ZeroFree(t) ==
  /\ pc[t] = "queue" /\ lock = None
  /\ lock' = t
  /\ wait_list' = list_add_tail(wait_list, t)
  /\ count' = -1
  /\ Goto(t, IF count >= 0 THEN "done" ELSE "loop")
  /\ UNCHANGED <<owner, seen, tstate, sig, mode>>

\* Queue at the end, then xchg(count, -1).
Enqueue(t) ==
  /\ pc[t] = "queue" /\ lock = None
  /\ lock' = t
  /\ wait_list' = list_add_tail(wait_list, t)
  /\ count' = -1
  /\ Goto(t, IF count = 1 THEN "done" ELSE "loop")
  /\ UNCHANGED <<owner, seen, tstate, sig, mode>>

\* Mutant of WaitLoop: the count is only tested, as a cmpxchg would do it.
WaitLoop_NoMark(t) ==
  /\ pc[t] = "loop" \/ (pc[t] = "awake" /\ lock = None)
  /\ \/ /\ count = 1 /\ count' = 0
        /\ lock' = t /\ Goto(t, "done")
        /\ UNCHANGED <<wait_list, tstate, mode>>
     \/ /\ count # 1 /\ UNCHANGED count
        /\ tstate' = [tstate EXCEPT ![t] = mode[t]]
        /\ lock' = None /\ Goto(t, "sched")
        /\ UNCHANGED <<wait_list, mode>>
  /\ UNCHANGED <<owner, seen, sig>>

\* One turn of the wait loop with wait_lock held: xchg(count, -1) takes the
\* mutex, or tells the holder that somebody waits; then leave on a signal, or
\* set the state and drop wait_lock.
WaitLoop(t) ==
  /\ pc[t] = "loop" \/ (pc[t] = "awake" /\ lock = None)
  /\ count' = -1
  /\ \/ /\ count = 1
        /\ lock' = t /\ Goto(t, "done")
        /\ UNCHANGED <<wait_list, tstate, mode>>
     \/ /\ count # 1 /\ signal_pending_state(mode[t], sig[t])
        /\ wait_list' = list_del(wait_list, t)
        /\ mode' = [mode EXCEPT ![t] = "UNINTERRUPTIBLE"]
        /\ lock' = None /\ Goto(t, "idle")
        /\ UNCHANGED tstate
     \/ /\ count # 1 /\ ~signal_pending_state(mode[t], sig[t])
        /\ tstate' = [tstate EXCEPT ![t] = mode[t]]
        /\ lock' = None /\ Goto(t, "sched")
        /\ UNCHANGED <<wait_list, mode>>
  /\ UNCHANGED <<owner, seen, sig>>

\* schedule(): off the run queue unless woken already or a signal is pending.
Schedule(t) ==
  /\ pc[t] = "sched"
  /\ tstate' = [tstate EXCEPT ![t] = schedule_state(@, sig[t])]
  /\ Goto(t, IF tstate'[t] = "RUNNING" THEN "awake" ELSE "asleep")
  /\ UNCHANGED <<count, lock, wait_list, owner, seen, sig, mode>>

\* A task made RUNNING while off the run queue comes back from schedule().
Resume(t) ==
  /\ pc[t] = "asleep"
  /\ tstate[t] = "RUNNING"
  /\ Goto(t, "awake")
  /\ UNCHANGED <<count, lock, wait_list, owner, seen, tstate, sig, mode>>

\* done: unlink, set the owner, and nobody left to wait means count 0.
Done(t) ==
  /\ pc[t] = "done"
  /\ wait_list' = list_del(wait_list, t)
  /\ mutex_set_owner(t)
  /\ count' = IF list_empty(wait_list') THEN 0 ELSE count
  /\ lock' = None
  /\ Goto(t, "got")
  /\ UNCHANGED <<seen, tstate, sig, mode>>

-----------------------------------------------------------------------------
(* Releasing.                                                              *)

\* Mutant of ClearOwner: the owner is left in place.
ClearOwner_Not(t) ==
  /\ pc[t] = "locked"
  /\ Goto(t, "unlocking")
  /\ UNCHANGED <<count, lock, wait_list, owner, seen, tstate, sig, mode>>

\* mutex_unlock() begins.
ClearOwner(t) ==
  /\ pc[t] = "locked"
  /\ mutex_clear_owner
  /\ Goto(t, "unlocking")
  /\ UNCHANGED <<count, lock, wait_list, seen, tstate, sig, mode>>

\* Mutant of UnlockFast: the comparison is off by one.
UnlockFast_OffByOne(t) ==
  /\ pc[t] = "unlocking"
  /\ count' = count + 1
  /\ Goto(t, IF count + 1 < 0 THEN "slow" ELSE "idle")
  /\ UNCHANGED <<lock, wait_list, owner, seen, tstate, sig, mode>>

\* The fast path: atomic_inc_return(count) <= 0 leads to the slow path.
UnlockFast(t) ==
  /\ pc[t] = "unlocking"
  /\ count' = count + 1
  /\ Goto(t, IF count + 1 <= 0 THEN "slow" ELSE "idle")
  /\ UNCHANGED <<lock, wait_list, owner, seen, tstate, sig, mode>>

\* __mutex_unlock_common_slowpath(): atomic_set(count, 1) under wait_lock.
UnlockSlow(t) ==
  /\ pc[t] = "slow" /\ lock = None
  /\ lock' = t
  /\ count' = 1
  /\ Goto(t, "wake")
  /\ UNCHANGED <<wait_list, owner, seen, tstate, sig, mode>>

\* ... and the first waiter is woken; it stays on the list.
WakeFirst(t) ==
  /\ pc[t] = "wake"
  /\ tstate' = IF list_empty(wait_list) THEN tstate
               ELSE [tstate EXCEPT ![list_first_entry(wait_list)] =
                                      wake_up_process(@)]
  /\ lock' = None
  /\ Goto(t, "idle")
  /\ UNCHANGED <<count, wait_list, owner, seen, sig, mode>>

-----------------------------------------------------------------------------
(* What happens to a task from outside.                                    *)

\* A signal is sent (kernel/signal.c:516): the pending flag is set, then the
\* task is woken.
SendSignal(t, s) ==
  /\ s # "none" /\ sig[t] # s /\ sig[t] # "fatal"
  /\ sig' = [sig EXCEPT ![t] = s]
  /\ tstate' = [tstate EXCEPT ![t] = signal_wake_up(@, s)]
  /\ UNCHANGED <<count, lock, wait_list, owner, seen, mode, pc>>

\* The signal is handled on the way back to user mode.
HandleSignal(t) ==
  /\ pc[t] = "idle" /\ sig[t] # "none"
  /\ sig' = [sig EXCEPT ![t] = "none"]
  /\ UNCHANGED <<count, lock, wait_list, owner, seen, tstate, mode, pc>>

\* A wake_up_process() meant for an earlier sleep of t arrives only now.
StrayWakeup(t) ==
  /\ tstate[t] # "RUNNING"
  /\ tstate' = [tstate EXCEPT ![t] = wake_up_process(@)]
  /\ UNCHANGED <<count, lock, wait_list, owner, seen, sig, mode, pc>>

-----------------------------------------------------------------------------
TaskNext(t) ==
  \/ MutexLock(t) \/ MutexLockInterruptible(t) \/ MutexLockKillable(t)
  \/ MutexTrylock(t) \/ SetOwner(t)
  \/ SpinRead(t) \/ SpinOnOwner(t) \/ SpinTry(t)
  \/ Enqueue(t) \/ WaitLoop(t) \/ Schedule(t) \/ Resume(t) \/ Done(t)
  \/ ClearOwner(t) \/ UnlockFast(t) \/ UnlockSlow(t) \/ WakeFirst(t)

Environment(t) ==
  \/ \E s \in Signal : SendSignal(t, s)
  \/ HandleSignal(t)
  \/ StrayWakeup(t)

Next == \E t \in Tasks : TaskNext(t) \/ Environment(t)

Spec == Init /\ [][Next]_vars

\* A task that can run makes its next step, a holder leaves its critical
\* section some day, and wait_lock is a FIFO ticket lock.
Fairness ==
  \A t \in Tasks :
    /\ WF_vars(SetOwner(t) \/ SpinRead(t) \/ SpinOnOwner(t) \/ SpinTry(t))
    /\ WF_vars(pc[t] = "loop" /\ WaitLoop(t))
    /\ WF_vars(Schedule(t) \/ Resume(t) \/ Done(t))
    /\ WF_vars(ClearOwner(t) \/ UnlockFast(t) \/ WakeFirst(t))
    /\ SF_vars(Enqueue(t))
    /\ SF_vars(pc[t] = "awake" /\ WaitLoop(t))
    /\ SF_vars(UnlockSlow(t))

FairSpec == Spec /\ Fairness

-----------------------------------------------------------------------------
(* Properties.                                                             *)

\* The type of every variable; the count never falls below one decrement for
\* each task.
TypeOK ==
  /\ count \in -Cardinality(Tasks) .. 1
  /\ lock \in Tasks \cup {None}
  /\ IsWaitList(wait_list, Tasks)
  /\ owner \in Tasks \cup {None}
  /\ seen \in [Tasks -> Tasks \cup {None}]
  /\ tstate \in [Tasks -> TaskState]
  /\ sig \in [Tasks -> Signal]
  /\ mode \in [Tasks -> SleepState]
  /\ pc \in [Tasks -> PC]

\* One task at a time between any of the ways in and any of the ways out.
MutualExclusion == \A t, u \in Holders : t = u

\* lock->owner, written outside the atomic operations, is never left pointing
\* at a task that has gone on to release the mutex: a spinner that follows it
\* reads the thread_info of the holder.
OwnerIsHolder == owner # None => pc[owner] \in {"got", "locked"}

\* lock->wait_list holds exactly the waiters on a live stack frame.
QueueIsWaiters == Elems(wait_list) = {t \in Tasks : pc[t] \in Queued}

\* A queued task that will look at the count again without being woken.
Alert(t) ==
  \/ pc[t] \in {"loop", "awake", "done"}
  \/ pc[t] \in {"sched", "asleep"} /\ tstate[t] = "RUNNING"

\* Although barging sets the count to 0 with waiters queued, the waiters are
\* never forgotten: as long as there is a queue, the holder will see a negative
\* count, or somebody is on his way to wake the first waiter, or some waiter
\* is going to look at the count by itself.
NoLostWakeup ==
  ~list_empty(wait_list) =>
    \/ count < 0
    \/ \E t \in Tasks : pc[t] \in {"slow", "wake"}
    \/ \E t \in Elems(wait_list) : Alert(t)

\* The mutex is a semaphore with one unit: nothing that happens to waiters
\* makes a second unit appear or the only one disappear.
AbsSem == INSTANCE AbstractSemaphore
            WITH InitCount <- 1, MaxUnits <- 1,
                 avail <- IF count = 1 THEN 1 ELSE 0,
                 held <- Cardinality(Holders)

ImplementsSemaphore == AbsSem!Spec

\* A step that takes the mutex past the queue.
Barge ==
  ~list_empty(wait_list) /\ Holders = {} /\ (\E t \in Tasks : pc'[t] = "got")

\* A waiter is passed over for ever only if others barge in for ever.
StarvesOnlyByBarging ==
  \A t \in Tasks :
    \/ pc[t] \in Queued ~> pc[t] \notin Queued
    \/ []<><<Barge>>_vars
=============================================================================
