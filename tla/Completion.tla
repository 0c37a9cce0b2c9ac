---------------------------- MODULE Completion ------------------------------
(***************************************************************************)
(* Completions (kernel/sched.c, include/linux/completion.h).               *)
(*                                                                         *)
(* complete() adds one to x->done and wakes one waiter; it hands nothing   *)
(* over.  The waiter takes one from x->done when it gets x->wait.lock, if  *)
(* a newcomer has not taken it first, and stays on the list until then.    *)
(* The same waiter may have been woken by a signal or by its timeout, and  *)
(* then complete() has to find another one.                                *)
(***************************************************************************)
EXTENDS Naturals, Sequences, FiniteSets, TaskWake, WaitList

CONSTANTS
  Tasks,  \* tasks that wait
  None,   \* "no task"
  Modes, Signals,  \* bounds: states callers sleep in, signals that are sent
  Wrap    \* 2^32: x->done is counted modulo Wrap

CompletionAssumption ==
  /\ IsFiniteSet(Tasks) /\ None \notin Tasks /\ Wrap \in Nat \ {0, 1}
  /\ Modes \subseteq SleepState /\ Signals \subseteq Signal \ {"none"}

VARIABLES
  done,           \* x->done
  task_list,      \* x->wait.task_list
  lock,           \* x->wait.lock: the waiter inside, or None
  pc, tstate, sig,
  mode, timeout   \* arguments of do_wait_for_common()

targs == <<mode, timeout>>
vars == <<done, task_list, lock, pc, tstate, sig, targs>>

Init ==
  /\ done = 0 /\ task_list = <<>> /\ lock = None
  /\ pc = [t \in Tasks |-> "idle"]
  /\ tstate = [t \in Tasks |-> "RUNNING"] /\ sig = [t \in Tasks |-> "none"]
  /\ mode = [t \in Tasks |-> "UNINTERRUPTIBLE"] /\ timeout = [t \in Tasks |-> "max"]

-----------------------------------------------------------------------------
(* Waiting.                                                                *)

\* __remove_wait_queue()
remove_wait_queue(list, t) == list_del(list, t)

\* The way out, with the lock: the caller's entry is no longer on the list.
Leave(t, list) ==
  /\ task_list' = list
  /\ lock' = None
  /\ pc' = [pc EXCEPT ![t] = "idle"]
  /\ mode' = [mode EXCEPT ![t] = "UNINTERRUPTIBLE"] /\ timeout' = [timeout EXCEPT ![t] = "max"]
  /\ UNCHANGED <<tstate, sig>>

\* The top of the loop, with the lock and on the list: leave on a signal, or
\* go on to sleep.
Loop(t, list, md, tm) ==
  \/ signal_pending_state(md, sig[t]) /\ Leave(t, remove_wait_queue(list, t))
  \/ /\ ~signal_pending_state(md, sig[t])
     /\ task_list' = list /\ lock' = t
     /\ pc' = [pc EXCEPT ![t] = "prepare"]
     /\ mode' = [mode EXCEPT ![t] = md] /\ timeout' = [timeout EXCEPT ![t] = tm]
     /\ UNCHANGED <<tstate, sig>>

\* Somebody has completed already; try_wait_for_completion() is the same.
WaitDone(t) ==
  /\ pc[t] = "idle" /\ lock = None /\ done > 0
  /\ done' = done - 1
  /\ UNCHANGED <<task_list, lock, pc, tstate, sig, targs>>

WaitQueue(t, md, tm) ==
  /\ pc[t] = "idle" /\ lock = None /\ done = 0
  /\ Loop(t, list_add_tail(task_list, t), md, tm)
  /\ UNCHANGED done

\* wait_for_completion() and its timeout, interruptible and killable variants.
Wait(t) ==
  \/ WaitDone(t)
  \/ \E md \in Modes, tm \in {"max", "left"} : (md = "KILLABLE" => tm = "max") /\ WaitQueue(t, md, tm)

SetStateAndUnlock(t) ==
  /\ pc[t] = "prepare"
  /\ tstate' = [tstate EXCEPT ![t] = mode[t]]
  /\ lock' = None
  /\ pc' = [pc EXCEPT ![t] = "unlocked"]
  /\ UNCHANGED <<done, task_list, sig, targs>>

\* schedule_timeout() reaches schedule(); it returns once the task is runnable.
Schedule(t) ==
  /\ pc[t] = "unlocked"
  /\ tstate' = [tstate EXCEPT ![t] = schedule_state(@, sig[t])]
  /\ pc' = [pc EXCEPT ![t] = "asleep"]
  /\ UNCHANGED <<done, task_list, lock, sig, targs>>
Resume(t) ==
  /\ pc[t] = "asleep" /\ tstate[t] = "RUNNING"
  /\ pc' = [pc EXCEPT ![t] = "awake"]
  /\ UNCHANGED <<done, task_list, lock, tstate, sig, targs>>

\* Back with the lock: one is there for us, whatever woke us.
RecheckDone(t) ==
  /\ pc[t] = "awake" /\ lock = None /\ done > 0
  /\ done' = done - 1
  /\ Leave(t, remove_wait_queue(task_list, t))

\* Nothing is there: leave if the time is over, else once more round the loop.
RecheckAgain(t) ==
  /\ pc[t] = "awake" /\ lock = None /\ done = 0
  /\ IF timeout[t] = "zero" THEN Leave(t, remove_wait_queue(task_list, t))
                            ELSE Loop(t, task_list, mode[t], timeout[t])
  /\ UNCHANGED done

-----------------------------------------------------------------------------
(* Completing.                                                             *)

\* __wake_up_common(): waiters that are not in a sleeping state are passed over,
\* and the first that is asleep is woken (nr_exclusive = 1), or all (0).
Sleeping(t) == tstate[t] # "RUNNING"
Woken_First(t) == t = list_first_entry(task_list)
Woken(t) == /\ Sleeping(t)
            /\ \E i \in 1..Len(task_list) : task_list[i] = t /\ \A j \in 1..i-1 : ~Sleeping(task_list[j])

\* Counts are unsigned ints.
Plus(a, b) == (a + b) % Wrap

complete ==
  /\ lock = None
  /\ done' = Plus(done, 1)
  /\ tstate' = [t \in Tasks |-> IF task_list # <<>> /\ Woken(t) THEN "RUNNING" ELSE tstate[t]]
  /\ UNCHANGED <<task_list, lock, pc, sig, targs>>

complete_all ==
  /\ lock = None
  /\ done' = Plus(done, (Wrap - 1) \div 2)
  /\ tstate' = [t \in Tasks |-> IF t \in Elems(task_list) THEN "RUNNING" ELSE tstate[t]]
  /\ UNCHANGED <<task_list, lock, pc, sig, targs>>

\* INIT_COMPLETION(), for the next use: nobody is inside.
INIT_COMPLETION ==
  /\ \A t \in Tasks : pc[t] = "idle"
  /\ done' = 0
  /\ UNCHANGED <<task_list, lock, pc, tstate, sig, targs>>

-----------------------------------------------------------------------------
(* From outside, without the lock.                                         *)

SendSignal(t, s) ==
  /\ s # "none" /\ sig[t] # s /\ sig[t] # "fatal"
  /\ sig' = [sig EXCEPT ![t] = s]
  /\ tstate' = [tstate EXCEPT ![t] = signal_wake_up(@, s)]
  /\ UNCHANGED <<done, task_list, lock, pc, targs>>

HandleSignal(t) ==
  /\ pc[t] = "idle" /\ sig[t] # "none"
  /\ sig' = [sig EXCEPT ![t] = "none"]
  /\ UNCHANGED <<done, task_list, lock, pc, tstate, targs>>

\* process_timeout(): the sleep of schedule_timeout() is over.
TimerExpires(t) ==
  /\ pc[t] \in {"unlocked", "asleep"} /\ timeout[t] = "left"
  /\ timeout' = [timeout EXCEPT ![t] = "zero"]
  /\ tstate' = [tstate EXCEPT ![t] = wake_up_process(@)]
  /\ UNCHANGED <<done, task_list, lock, pc, sig, mode>>

StrayWakeup(t) ==
  /\ tstate[t] # "RUNNING"
  /\ tstate' = [tstate EXCEPT ![t] = wake_up_process(@)]
  /\ UNCHANGED <<done, task_list, lock, pc, sig, targs>>

Step(t) == \/ SetStateAndUnlock(t) \/ Schedule(t) \/ Resume(t)
           \/ RecheckDone(t) \/ RecheckAgain(t)

Next ==
  \/ complete \/ complete_all \/ INIT_COMPLETION
  \/ \E t \in Tasks : \/ Wait(t) \/ Step(t)
                      \/ HandleSignal(t) \/ TimerExpires(t) \/ StrayWakeup(t)
                      \/ \E s \in Signals : SendSignal(t, s)

Spec == Init /\ [][Next]_vars

-----------------------------------------------------------------------------
(* Properties.                                                             *)

\* The type of every variable.
TypeOK ==
  /\ done \in 0..Wrap-1
  /\ IsWaitList(task_list, Tasks)
  /\ lock \in Tasks \cup {None}
  /\ pc \in [Tasks -> {"idle", "prepare", "unlocked", "asleep", "awake"}]
  /\ tstate \in [Tasks -> TaskState] /\ sig \in [Tasks -> Signal]
  /\ mode \in [Tasks -> SleepState] /\ timeout \in [Tasks -> {"max", "left", "zero"}]

\* Nobody sleeps through a completion: as many waiters are on their way to take
\* one as there are completions, or all of them, whichever of them were woken
\* by something else or overtaken by a newcomer.
Awake == {t \in Elems(task_list) : ~Sleeping(t)}
NobodySleepsThrough == Awake = Elems(task_list) \/ Cardinality(Awake) >= done
=============================================================================
