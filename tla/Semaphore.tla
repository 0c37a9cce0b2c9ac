----------------------------- MODULE Semaphore ------------------------------
(***************************************************************************)
(* kernel/semaphore.c: the counting semaphore.                             *)
(*                                                                         *)
(* A task that finds no unit left queues a semaphore_waiter that lives on  *)
(* its own stack and sleeps.  up() never returns a unit to the count while *)
(* somebody waits: it takes the first waiter off the list, sets its ->up   *)
(* flag and wakes it, so the unit travels inside the flag until the waiter *)
(* runs.  Meanwhile the same waiter may be woken by a signal, by its       *)
(* timeout or by a wake-up meant for an earlier sleep.                     *)
(*                                                                         *)
(* sem->lock is modelled explicitly, because __down_common() decides to    *)
(* sleep and publishes its state under it while signals and timers, which  *)
(* do not take it, run on other CPUs.  A critical section that nobody else *)
(* can observe half-way is one step.                                       *)
(***************************************************************************)
EXTENDS Naturals, Sequences, FiniteSets, TaskWake, WaitList

CONSTANTS
  Tasks,      \* tasks that call down*()
  None,       \* "no task"
  InitCount,  \* the value given to sema_init()
  MaxUnits    \* bound: units in circulation, those added by up() included

ASSUME SemAssumption ==
  /\ IsFiniteSet(Tasks)
  /\ None \notin Tasks
  /\ InitCount \in Nat
  /\ MaxUnits \in Nat

VARIABLES
  count,      \* sem->count
  lock,       \* sem->lock: the task inside, or None
  wait_list,  \* sem->wait_list, named by the waiting tasks
  up,         \* up[t]: waiter.up of t's semaphore_waiter
  tstate,     \* tstate[t]: t->state
  sig,        \* sig[t]: what is pending for t
  pc,         \* where t is in __down_common()
  mode,       \* the 'state' argument of __down_common()
  timeout,    \* the 'timeout' argument: unlimited, left or over
  held        \* history: units acquired and not yet given back

vars == <<count, lock, wait_list, up, tstate, sig, pc, mode, timeout, held>>

\* "idle": outside.  "prepare": queued, lock held, about to set its state.
\* "unlocked": state set, lock dropped, schedule() not yet reached.
\* "asleep": off the run queue.  "awake": schedule_timeout() has returned.
PC == {"idle", "prepare", "unlocked", "asleep", "awake"}

Timeout == {"max", "left", "zero"}

\* Units handed over by up() whose new owner has not run yet.
InFlight == {t \in Tasks : up[t]}

Init ==
  /\ count = InitCount
  /\ lock = None
  /\ wait_list = <<>>
  /\ up = [t \in Tasks |-> FALSE]
  /\ tstate = [t \in Tasks |-> "RUNNING"]
  /\ sig = [t \in Tasks |-> "none"]
  /\ pc = [t \in Tasks |-> "idle"]
  /\ mode = [t \in Tasks |-> "UNINTERRUPTIBLE"]
  /\ timeout = [t \in Tasks |-> "max"]
  /\ held = 0

-----------------------------------------------------------------------------
\* __down_common() returns and drops the lock; its arguments are gone.
Leave(t) ==
  /\ pc' = [pc EXCEPT ![t] = "idle"]
  /\ mode' = [mode EXCEPT ![t] = "UNINTERRUPTIBLE"]
  /\ timeout' = [timeout EXCEPT ![t] = "max"]
  /\ lock' = None

\* __down_common() goes on to its next sleep, the lock still held.
Stay(t, md, tm) ==
  /\ pc' = [pc EXCEPT ![t] = "prepare"]
  /\ mode' = [mode EXCEPT ![t] = md]
  /\ timeout' = [timeout EXCEPT ![t] = tm]
  /\ lock' = t

\* The top of __down_common()'s loop, entered with the lock held by t and t
\* queued as 'list' says: leave on a signal or when the time is over (the
\* waiter is unlinked and the lock dropped), otherwise go on to sleep.
WaitLoop(t, list, md, tm) ==
  \/ /\ signal_pending_state(md, sig[t]) \/ tm = "zero"
     /\ wait_list' = list_del(list, t)
     /\ Leave(t)
  \/ /\ ~signal_pending_state(md, sig[t]) /\ tm # "zero"
     /\ wait_list' = list
     /\ Stay(t, md, tm)

\* The uncontended half of every down*(): take a unit under sem->lock.
DownFast(t) ==
  /\ pc[t] = "idle" /\ lock = None
  /\ count > 0
  /\ count' = count - 1
  /\ held' = held + 1
  /\ UNCHANGED <<lock, wait_list, up, tstate, sig, pc, mode, timeout>>

\* The contended half: __down_common() queues the waiter and enters its loop.
DownSlow(t, md, tm) ==
  /\ pc[t] = "idle" /\ lock = None
  /\ count = 0
  /\ up' = [up EXCEPT ![t] = FALSE]
  /\ WaitLoop(t, list_add_tail(wait_list, t), md, tm)
  /\ UNCHANGED <<count, tstate, sig, held>>

\* The four ways in that may wait: what each passes to __down_common().
Down(t) == DownFast(t) \/ DownSlow(t, "UNINTERRUPTIBLE", "max")

DownInterruptible(t) == DownFast(t) \/ DownSlow(t, "INTERRUPTIBLE", "max")

DownKillable(t) == DownFast(t) \/ DownSlow(t, "KILLABLE", "max")

DownTimeout(t) ==
  \/ DownFast(t)
  \/ \E tm \in {"left", "zero"} : DownSlow(t, "UNINTERRUPTIBLE", tm)

\* down_trylock(): takes a unit if there is one, never waits.
DownTrylock(t) ==
  /\ pc[t] = "idle" /\ lock = None
  /\ count - 1 >= 0
  /\ count' = count - 1
  /\ held' = held + 1
  /\ UNCHANGED <<lock, wait_list, up, tstate, sig, pc, mode, timeout>>

\* __set_task_state(task, state); spin_unlock_irq(&sem->lock).
SetStateAndUnlock(t) ==
  /\ pc[t] = "prepare"
  /\ tstate' = [tstate EXCEPT ![t] = mode[t]]
  /\ lock' = None
  /\ pc' = [pc EXCEPT ![t] = "unlocked"]
  /\ UNCHANGED <<count, wait_list, up, sig, mode, timeout, held>>

\* schedule_timeout() reaches schedule(): the task goes off the run queue
\* unless it has been woken already or a signal is pending.
Schedule(t) ==
  /\ pc[t] = "unlocked"
  /\ tstate' = [tstate EXCEPT ![t] = schedule_state(@, sig[t])]
  /\ pc' = [pc EXCEPT ![t] = IF tstate'[t] = "RUNNING" THEN "awake"
                                                       ELSE "asleep"]
  /\ UNCHANGED <<count, lock, wait_list, up, sig, mode, timeout, held>>

\* A task made RUNNING while off the run queue comes back from schedule().
Resume(t) ==
  /\ pc[t] = "asleep"
  /\ tstate[t] = "RUNNING"
  /\ pc' = [pc EXCEPT ![t] = "awake"]
  /\ UNCHANGED <<count, lock, wait_list, up, tstate, sig, mode, timeout, held>>

\* "if (waiter.up) return 0": the unit that up() left in the flag is ours.
RecheckGranted(t) ==
  /\ pc[t] = "awake" /\ lock = None
  /\ up[t]
  /\ up' = [up EXCEPT ![t] = FALSE]      \* the waiter goes out of scope
  /\ Leave(t)
  /\ held' = held + 1
  /\ UNCHANGED <<count, wait_list, tstate, sig>>

\* Mutant of RecheckAgain: the flag is looked at only when there is neither a
\* signal nor a timeout, so a unit handed over at that moment disappears.
RecheckAgain_SignalFirst(t) ==
  /\ pc[t] = "awake" /\ lock = None
  /\ signal_pending_state(mode[t], sig[t]) \/ timeout[t] = "zero"
  /\ up' = [up EXCEPT ![t] = FALSE]
  /\ Leave(t)
  /\ wait_list' = SelectSeq(wait_list, LAMBDA u : u # t)
  /\ UNCHANGED <<count, tstate, sig, held>>

\* Woken without the flag: once more round the loop.
RecheckAgain(t) ==
  /\ pc[t] = "awake" /\ lock = None
  /\ ~up[t]
  /\ WaitLoop(t, wait_list, mode[t], timeout[t])
  /\ UNCHANGED <<count, up, tstate, sig, held>>

\* Mutant of Wake: the flag is set but the waiter is not woken.
Wake_NoWakeup(w) ==
  /\ wait_list' = list_del(wait_list, w)
  /\ up' = [up EXCEPT ![w] = TRUE]
  /\ UNCHANGED <<tstate, count>>

\* Mutant of Wake: the unit is handed over and returned to the count as well.
Wake_CountToo(w) ==
  /\ wait_list' = list_del(wait_list, w)
  /\ up' = [up EXCEPT ![w] = TRUE]
  /\ tstate' = [tstate EXCEPT ![w] = wake_up_process(@)]
  /\ count' = count + 1

\* __up(): take w off the list, set its flag, wake it.
Wake(w) ==
  /\ wait_list' = list_del(wait_list, w)
  /\ up' = [up EXCEPT ![w] = TRUE]
  /\ tstate' = [tstate EXCEPT ![w] = wake_up_process(@)]
  /\ UNCHANGED count

\* up(): hand the unit to the first waiter, or return it to the count.
Up ==
  /\ lock = None
  /\ \/ /\ list_empty(wait_list)
        /\ count' = count + 1
        /\ UNCHANGED <<wait_list, up, tstate>>
     \/ /\ ~list_empty(wait_list)
        /\ Wake(list_first_entry(wait_list))
  /\ UNCHANGED <<lock, sig, pc, mode, timeout>>

\* up() by or on behalf of a task that acquired a unit.
Release == held > 0 /\ Up /\ held' = held - 1

\* up() "by tasks which have never called down()", or by an interrupt.
Post ==
  /\ count + Cardinality(InFlight) + held < MaxUnits
  /\ Up
  /\ UNCHANGED held

-----------------------------------------------------------------------------
(* What happens to a task from outside the semaphore, without sem->lock.   *)

\* A signal is sent (kernel/signal.c:516): the pending flag is set, then the
\* task is woken.
SendSignal(t, s) ==
  /\ s # "none" /\ sig[t] # s /\ sig[t] # "fatal"
  /\ sig' = [sig EXCEPT ![t] = s]
  /\ tstate' = [tstate EXCEPT ![t] = signal_wake_up(@, s)]
  /\ UNCHANGED <<count, lock, wait_list, up, pc, mode, timeout, held>>

\* The signal is handled on the way back to user mode.
HandleSignal(t) ==
  /\ pc[t] = "idle" /\ sig[t] # "none"
  /\ sig' = [sig EXCEPT ![t] = "none"]
  /\ UNCHANGED <<count, lock, wait_list, up, tstate, pc, mode, timeout, held>>

\* process_timeout() (kernel/timer.c): the timer of schedule_timeout() expires.
TimerExpires(t) ==
  /\ pc[t] \in {"unlocked", "asleep"}
  /\ timeout[t] = "left"
  /\ timeout' = [timeout EXCEPT ![t] = "zero"]
  /\ tstate' = [tstate EXCEPT ![t] = wake_up_process(@)]
  /\ UNCHANGED <<count, lock, wait_list, up, sig, pc, mode, held>>

\* A wake_up_process() meant for an earlier sleep of t arrives only now.
StrayWakeup(t) ==
  /\ tstate[t] # "RUNNING"
  /\ tstate' = [tstate EXCEPT ![t] = wake_up_process(@)]
  /\ UNCHANGED <<count, lock, wait_list, up, sig, pc, mode, timeout, held>>

-----------------------------------------------------------------------------
TaskNext(t) ==
  \/ Down(t)
  \/ DownInterruptible(t)
  \/ DownKillable(t)
  \/ DownTimeout(t)
  \/ DownTrylock(t)
  \/ SetStateAndUnlock(t)
  \/ Schedule(t)
  \/ Resume(t)
  \/ RecheckGranted(t)
  \/ RecheckAgain(t)

Environment(t) ==
  \/ \E s \in Signal : SendSignal(t, s)
  \/ HandleSignal(t)
  \/ TimerExpires(t)
  \/ StrayWakeup(t)

Next ==
  \/ \E t \in Tasks : TaskNext(t) \/ Environment(t)
  \/ Release
  \/ Post

Spec == Init /\ [][Next]_vars

\* A task that can run makes its next step, a holder gives its unit back some
\* day, and sem->lock is a FIFO ticket lock, so a task that finds it free
\* again and again gets it.
Fairness ==
  /\ \A t \in Tasks :
       /\ WF_vars(SetStateAndUnlock(t))
       /\ WF_vars(Schedule(t))
       /\ WF_vars(Resume(t))
       /\ SF_vars(RecheckGranted(t))
       /\ SF_vars(RecheckAgain(t))
  /\ SF_vars(Release)

FairSpec == Spec /\ Fairness

-----------------------------------------------------------------------------
(* Properties.                                                             *)

\* The type of every variable.
TypeOK ==
  /\ count \in Nat
  /\ lock \in Tasks \cup {None}
  /\ IsWaitList(wait_list, Tasks)
  /\ up \in [Tasks -> BOOLEAN]
  /\ tstate \in [Tasks -> TaskState]
  /\ sig \in [Tasks -> Signal]
  /\ pc \in [Tasks -> PC]
  /\ mode \in [Tasks -> SleepState]
  /\ timeout \in [Tasks -> Timeout]
  /\ held \in Nat

\* up() never leaves a unit in the count for a newcomer to take while an older
\* task is still queued for it.
NoUnitWhileWaiting == ~list_empty(wait_list) => count = 0

\* sem->wait_list holds exactly the waiters that are still on a live stack
\* frame of __down_common() and have not been given a unit: no dangling entry
\* when a task has left on a signal, a timeout or a grant, and none missing.
QueueIsWaiters ==
  Elems(wait_list) = {t \in Tasks : pc[t] # "idle" /\ ~up[t]}

\* Whatever order up(), signals, the timer and schedule() come in, a task that
\* is off the run queue has nothing left to wake up for: no unit was handed to
\* it, no signal ends its sleep, and its time is not over.
NoLostWakeup ==
  \A t \in Tasks :
    pc[t] = "asleep" /\ tstate[t] # "RUNNING" =>
      /\ ~up[t]
      /\ ~signal_pending_state(mode[t], sig[t])
      /\ timeout[t] # "zero"

\* The queue, the flags and the sleeping implement the abstract semaphore: a
\* unit handed over by up() is not lost when its waiter is interrupted or
\* times out at the same moment, and none is created.
AbsSem == INSTANCE AbstractSemaphore
            WITH avail <- count + Cardinality(InFlight)

ImplementsSemaphore == AbsSem!Spec

\* A queued task does not wait for ever while units keep being given back.
NoStarvation ==
  \A t \in Tasks : t \in Elems(wait_list) ~> t \notin Elems(wait_list)
=============================================================================
