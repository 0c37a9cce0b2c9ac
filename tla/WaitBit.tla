------------------------------ MODULE WaitBit -------------------------------
(***************************************************************************)
(* kernel/wait.c: wait queues, as the bit locks use them (lock_page(),     *)
(* wait_on_bit_lock(), wait_on_bit()).                                     *)
(*                                                                         *)
(* Several bits share one hashed queue.  Who wants to set a bit queues as  *)
(* an exclusive waiter: a wake-up takes one of them off the queue and      *)
(* relies on it to set the bit or to pass the wake-up on.  The waker looks *)
(* at the queue after it has cleared the bit, without the queue's lock;    *)
(* the waiter looks at the bit after it has queued.                        *)
(*                                                                         *)
(* A waker holds the queue's lock while it goes down the queue, and looks  *)
(* at one entry per step; the woken run on meanwhile, and finish_wait()    *)
(* looks at its own entry without the lock.                                *)
(***************************************************************************)
EXTENDS Naturals, Sequences, FiniteSets, TaskWake, WaitList

CONSTANTS
  Tasks,
  Keys,    \* bits whose waiters share the queue
  Modes,   \* states callers sleep in
  Signals  \* signals that are sent

ASSUME WaitBitAssumption ==
  IsFiniteSet(Tasks) /\ Modes \subseteq SleepState /\ Signals \subseteq Signal \ {"none"}

VARIABLES
  bit,         \* bit[k]: is it set
  task_list,   \* of the queue
  scan,        \* what __wake_up_common() has still to look at; its head is curr
  pc, tstate, sig,
  key, excl, mode   \* of a waiter, or of a holder: its bit

targs == <<key, excl, mode>>
vars == <<bit, task_list, scan, pc, tstate, sig, targs>>

Init ==
  /\ bit = [k \in Keys |-> FALSE] /\ task_list = <<>> /\ scan = <<>>
  /\ pc = [t \in Tasks |-> "idle"] /\ tstate = [t \in Tasks |-> "RUNNING"]
  /\ sig = [t \in Tasks |-> "none"]
  /\ key \in {[t \in Tasks |-> k] : k \in Keys}
  /\ excl = [t \in Tasks |-> FALSE] /\ mode = [t \in Tasks |-> "UNINTERRUPTIBLE"]

Goto(t, l) == pc' = [pc EXCEPT ![t] = l]
\* A wait is over: its arguments are gone.
Return(t, l) == /\ Goto(t, l) /\ UNCHANGED key /\ excl' = [excl EXCEPT ![t] = FALSE]
                /\ mode' = [mode EXCEPT ![t] = "UNINTERRUPTIBLE"]
Queued(t) == t \in Elems(task_list)
\* q->lock: a waker keeps it while it goes down the queue.
Scanning(t) == pc[t] \in {"scan", "unlink", "init"}
LockFree == \A t \in Tasks : ~Scanning(t)

-----------------------------------------------------------------------------
(* Waking.                                                                 *)

\* try_to_wake_up(): is the task in a state the waker's mode matches?
Matches(md, st) ==
  CASE md = "NORMAL"        -> st # "RUNNING"
    [] md = "INTERRUPTIBLE" -> st = "INTERRUPTIBLE"
    [] OTHER                -> st \in {"UNINTERRUPTIBLE", "KILLABLE"}

\* wake_bit_function() for key k: not for waiters of another bit, not if the bit
\* has been set again, not for tasks that are awake already.
Wakes(t, k, md) == key[t] = k /\ ~bit[k] /\ Matches(md, tstate[t])

\* unlock_page(): clear the bit ...
Unlock(t) ==
  /\ pc[t] = "hold"
  /\ bit' = [bit EXCEPT ![key[t]] = FALSE]
  /\ Goto(t, "active")
  /\ UNCHANGED <<task_list, scan, tstate, sig, targs>>

\* ... __wake_up_bit(): waitqueue_active() ...
WakeTest(t) ==
  /\ pc[t] = "active"
  /\ Goto(t, IF list_empty(task_list) THEN "idle" ELSE "wake")
  /\ UNCHANGED <<bit, task_list, scan, tstate, sig, targs>>

\* ... __wake_up(), which takes the lock.
WakeUp(t) ==
  /\ pc[t] = "wake" /\ LockFree
  /\ scan' = task_list /\ Goto(t, "scan")
  /\ UNCHANGED <<bit, task_list, tstate, sig, targs>>

\* The mode of __wake_up(), and that of abort_exclusive_wait().
WakeMode(t) == IF excl[t] THEN mode[t] ELSE "NORMAL"

\* __wake_up_common() with nr_exclusive = 1: call the next entry's function, which
\* first wakes the task; an exclusive waiter is the last one ...
ScanNext(t) ==
  LET e == Head(scan) IN
  /\ pc[t] = "scan" /\ scan # <<>>
  /\ IF Wakes(e, key[t], WakeMode(t))
     THEN /\ tstate' = [tstate EXCEPT ![e] = wake_up_process(@)]
          /\ scan' = IF excl[e] THEN <<e>> ELSE scan
          /\ Goto(t, "unlink")
     ELSE scan' = Tail(scan) /\ UNCHANGED <<tstate, pc>>
  /\ UNCHANGED <<bit, task_list, sig, targs>>

\* ... then list_del_init(): its neighbours and its next pointer ...
Unlink(t) ==
  /\ pc[t] = "unlink"
  /\ task_list' = list_del(task_list, Head(scan)) /\ Goto(t, "init")
  /\ UNCHANGED <<bit, scan, tstate, sig, targs>>

\* ... and its prev pointer.
UnlinkInit(t) ==
  /\ pc[t] = "init"
  /\ scan' = Tail(scan) /\ Goto(t, "scan")
  /\ UNCHANGED <<bit, task_list, tstate, sig, targs>>

\* The end: the lock is dropped.
ScanEnd(t) ==
  /\ pc[t] = "scan" /\ scan = <<>>
  /\ Return(t, "idle")
  /\ UNCHANGED <<bit, task_list, scan, tstate, sig>>

-----------------------------------------------------------------------------
(* Waiting.                                                                *)

Begin(t, k, ex, md, l) ==
  /\ pc[t] = "idle"
  /\ Goto(t, l)
  /\ key' = [key EXCEPT ![t] = k] /\ excl' = [excl EXCEPT ![t] = ex]
  /\ mode' = [mode EXCEPT ![t] = md]
  /\ UNCHANGED <<task_list, scan, tstate, sig>>

\* wait_on_bit_lock(), lock_page(): test_and_set_bit(), then the slow path.
Lock(t, k, md) ==
  /\ IF bit[k] THEN Begin(t, k, TRUE, md, "prepare")
               ELSE Begin(t, k, FALSE, "UNINTERRUPTIBLE", "hold")
  /\ bit' = [bit EXCEPT ![k] = TRUE]

\* wait_on_bit(): the bit is set.
Wait(t, k, md) == bit[k] /\ Begin(t, k, FALSE, md, "prepare") /\ UNCHANGED bit

\* prepare_to_wait() at the head of the queue, prepare_to_wait_exclusive() at its
\* tail; an entry that was not woken is still linked.
Prepare(t) ==
  /\ pc[t] = "prepare" /\ LockFree
  /\ task_list' = IF Queued(t) THEN task_list
                  ELSE IF excl[t] THEN list_add_tail(task_list, t) ELSE <<t>> \o task_list
  /\ tstate' = [tstate EXCEPT ![t] = mode[t]]
  /\ Goto(t, "test")
  /\ UNCHANGED <<bit, scan, sig, targs>>

\* test_bit(): call the action, or skip it.
Test(t) ==
  /\ pc[t] = "test"
  /\ Goto(t, IF bit[key[t]] THEN "action" ELSE "end")
  /\ UNCHANGED <<bit, task_list, scan, tstate, sig, targs>>

\* The action sleeps ...
Schedule(t) ==
  /\ pc[t] = "action"
  /\ tstate' = [tstate EXCEPT ![t] = schedule_state(@, sig[t])]
  /\ Goto(t, "asleep")
  /\ UNCHANGED <<bit, task_list, scan, sig, targs>>

\* ... and says whether a signal ends the wait.
Resume(t) ==
  /\ pc[t] = "asleep" /\ tstate[t] = "RUNNING"
  /\ Goto(t, IF ~signal_pending_state(mode[t], sig[t]) THEN "end"
             ELSE IF excl[t] THEN "abort" ELSE "finish")
  /\ UNCHANGED <<bit, task_list, scan, tstate, sig, targs>>

\* The end of the loop: test_and_set_bit() of __wait_on_bit_lock(), test_bit() of
\* __wait_on_bit().
LoopEnd(t) ==
  /\ pc[t] = "end"
  /\ Goto(t, IF bit[key[t]] THEN "prepare" ELSE IF excl[t] THEN "locked" ELSE "finish")
  /\ bit' = [bit EXCEPT ![key[t]] = @ \/ excl[t]]
  /\ UNCHANGED <<task_list, scan, tstate, sig, targs>>

\* finish_wait(): TASK_RUNNING, then a look at the entry without the lock.  It is
\* off the queue when both of its pointers say so.
HalfUnlinked(t) == \E u \in Tasks : pc[u] = "init" /\ Head(scan) = t
list_empty_careful_NextOnly(t) == ~Queued(t)
list_empty_careful(t) == ~Queued(t) /\ ~HalfUnlinked(t)

FinishTest(t) ==
  /\ pc[t] \in {"finish", "locked"}
  /\ tstate' = [tstate EXCEPT ![t] = "RUNNING"]
  /\ IF list_empty_careful(t) THEN Return(t, IF excl[t] THEN "hold" ELSE "idle")
                              ELSE Goto(t, "unqueue") /\ UNCHANGED targs
  /\ UNCHANGED <<bit, task_list, scan, sig>>

\* list_del_init() does nothing to an entry that is off the queue.
list_del_init(t) == IF Queued(t) THEN list_del(task_list, t) ELSE task_list

FinishUnlink(t) ==
  /\ pc[t] = "unqueue" /\ LockFree
  /\ task_list' = list_del_init(t)
  /\ Return(t, IF excl[t] THEN "hold" ELSE "idle")
  /\ UNCHANGED <<bit, scan, tstate, sig>>

\* abort_exclusive_wait(): a wake-up that was meant for us goes to the next one.
PassesOn_Not(t) == FALSE
PassesOn(t) == ~Queued(t)

Abort(t) ==
  /\ pc[t] = "abort" /\ LockFree
  /\ IF PassesOn(t)
     THEN scan' = task_list /\ Goto(t, "scan") /\ UNCHANGED <<task_list, targs>>
     ELSE task_list' = list_del_init(t) /\ Return(t, "idle") /\ UNCHANGED scan
  /\ UNCHANGED <<bit, tstate, sig>>

-----------------------------------------------------------------------------
(* From outside.                                                           *)

SendSignal(t, s) ==
  /\ sig[t] # s /\ sig[t] # "fatal"
  /\ sig' = [sig EXCEPT ![t] = s]
  /\ tstate' = [tstate EXCEPT ![t] = signal_wake_up(@, s)]
  /\ UNCHANGED <<bit, task_list, scan, pc, targs>>

HandleSignal(t) ==
  /\ pc[t] = "idle" /\ sig[t] # "none"
  /\ sig' = [sig EXCEPT ![t] = "none"]
  /\ UNCHANGED <<bit, task_list, scan, pc, tstate, targs>>

StrayWakeup(t) ==
  /\ tstate[t] # "RUNNING"
  /\ tstate' = [tstate EXCEPT ![t] = wake_up_process(@)]
  /\ UNCHANGED <<bit, task_list, scan, pc, sig, targs>>

Step(t) == \/ Unlock(t) \/ WakeTest(t) \/ WakeUp(t) \/ ScanNext(t) \/ Unlink(t)
           \/ UnlinkInit(t) \/ ScanEnd(t) \/ Prepare(t) \/ Test(t) \/ Schedule(t) \/ Resume(t)
           \/ LoopEnd(t) \/ FinishTest(t) \/ FinishUnlink(t) \/ Abort(t)

Next ==
  \E t \in Tasks :
    \/ Step(t) \/ HandleSignal(t) \/ StrayWakeup(t)
    \/ \E k \in Keys, md \in Modes : Lock(t, k, md) \/ Wait(t, k, md)
    \/ \E s \in Signals : SendSignal(t, s)

Spec == Init /\ [][Next]_vars

-----------------------------------------------------------------------------
(* Properties.                                                             *)

\* Where a task's entry on its stack is in use.
Waiting == {"prepare", "test", "action", "asleep", "end", "locked", "finish", "unqueue", "abort"}

\* The type of every variable.
TypeOK ==
  /\ bit \in [Keys -> BOOLEAN] /\ IsWaitList(task_list, Tasks) /\ IsWaitList(scan, Tasks)
  /\ pc \in [Tasks -> Waiting \cup {"idle", "hold", "active", "wake", "scan", "unlink", "init"}]
  /\ tstate \in [Tasks -> TaskState] /\ sig \in [Tasks -> Signal]
  /\ key \in [Tasks -> Keys] /\ excl \in [Tasks -> BOOLEAN] /\ mode \in [Tasks -> SleepState]

\* The queue and the sleepers agree: an entry that is on the queue, or that a waker
\* still looks at or writes to, is on a stack frame that is alive, and who is in a
\* sleeping state can be found by a waker.
QueueIsWaiters ==
  \A t \in Tasks :
    /\ Queued(t) \/ t \in Elems(scan) => pc[t] \in Waiting
    /\ tstate[t] # "RUNNING" => Queued(t)

\* abort_exclusive_wait() "prevents waiter starvation": as long as somebody sleeps
\* for a bit that is clear, a waker is on its way to the queue or to the sleeper's
\* entry, or a waiter that has taken the wake-up, or has still to look at the bit,
\* is awake.
TakesWakeup(u) == ~Queued(u) \/ \E v \in Tasks : pc[v] = "unlink" /\ Head(scan) = u
WillAct(u, t) ==
  /\ key[u] = key[t]
  /\ \/ pc[u] \in {"active", "wake"}
     \/ Scanning(u) /\ t \in Elems(scan)
     \/ excl[u] /\ pc[u] \in {"prepare", "test", "end", "locked"}
     \/ excl[u] /\ pc[u] \in {"action", "asleep", "abort"} /\ TakesWakeup(u)
NobodyForgotten ==
  \A t \in Tasks : pc[t] = "asleep" /\ tstate[t] # "RUNNING" /\ ~bit[key[t]]
                     => \E u \in Tasks : WillAct(u, t)
=============================================================================
