------------------------------- MODULE RwSem --------------------------------
(***************************************************************************)
(* lib/rwsem-spinlock.c: the reader/writer semaphore of this kernel's MIPS *)
(* build (CONFIG_RWSEM_GENERIC_SPINLOCK).                                  *)
(*                                                                         *)
(* The releaser passes the lock on: under sem->wait_lock it unlinks a      *)
(* waiter, clears waiter->task and then wakes the task.  The waiter looks  *)
(* at its own ->task without the lock, so it may see the grant, leave and  *)
(* let its stack frame die before the wake-up has been sent; and readers   *)
(* that were granted run while the releaser is still granting others.      *)
(* These steps are therefore separate here; what happens under wait_lock   *)
(* and cannot be seen from outside is one step.                            *)
(***************************************************************************)
EXTENDS Integers, Sequences, FiniteSets, TaskWake, WaitList

CONSTANTS Tasks, None

ASSUME RwAssumption == IsFiniteSet(Tasks) /\ None \notin Tasks

VARIABLES
  activity,   \* sem->activity: -1 a writer, n > 0 readers, 0 nobody
  lock,       \* sem->wait_lock: the releaser in its wake loop, or None
  wait_list,  \* sem->wait_list, named by the waiting tasks
  flags,      \* waiter.flags: "read" or "write"
  wtask,      \* wtask[t]: waiter.task of t's rwsem_waiter is not NULL
  refs,       \* references that waiters hold on t's task_struct
  tstate,     \* t->state
  pc,
  tsk, woken  \* locals of the releaser that holds wait_lock

vars == <<activity, lock, wait_list, flags, wtask, refs, tstate, pc, tsk, woken>>

\* "check": at the top of the for loop of a down; "sched": waiter.task was set,
\* about to call schedule(); "asleep": off the run queue; "set": back from
\* schedule(); "up", "downgrade": in the wake loop, wait_lock held.
Waiting == {"check", "sched", "asleep", "set"}
Waking  == {"up", "downgrade"}
PC == {"idle", "reading", "writing"} \cup Waiting \cup Waking

\* Granted the lock by a releaser, perhaps without having noticed yet.
Granted(t) == pc[t] \in Waiting /\ ~wtask[t]

Readers == {t \in Tasks : \/ pc[t] \in {"reading", "downgrade"}
                          \/ Granted(t) /\ flags[t] = "read"}
Writers == {t \in Tasks : \/ pc[t] = "writing"
                          \/ Granted(t) /\ flags[t] = "write"}

Init ==
  /\ activity = 0
  /\ lock = None
  /\ wait_list = <<>>
  /\ flags = [t \in Tasks |-> "read"]
  /\ wtask = [t \in Tasks |-> FALSE]
  /\ refs = [t \in Tasks |-> 0]
  /\ tstate = [t \in Tasks |-> "RUNNING"]
  /\ pc = [t \in Tasks |-> "idle"]
  /\ tsk = None
  /\ woken = 0

-----------------------------------------------------------------------------
(* Acquiring.                                                              *)

\* Mutant of ReadFree: a new reader overtakes the queue.
ReadFree_Overtake == activity >= 0

\* The conditions under which a newcomer gets the lock at once.
ReadFree  == activity >= 0 /\ list_empty(wait_list)
WriteFree == activity = 0 /\ list_empty(wait_list)

Take(t, act, where) ==
  /\ activity' = act
  /\ pc' = [pc EXCEPT ![t] = where]
  /\ UNCHANGED <<lock, wait_list, flags, wtask, refs, tstate, tsk, woken>>

\* Mutant of Enqueue: get_task_struct() is forgotten.
Enqueue_NoGet(t, rw) ==
  /\ tstate' = [tstate EXCEPT ![t] = "UNINTERRUPTIBLE"]
  /\ wtask' = [wtask EXCEPT ![t] = TRUE]
  /\ flags' = [flags EXCEPT ![t] = rw]
  /\ wait_list' = list_add_tail(wait_list, t)
  /\ pc' = [pc EXCEPT ![t] = "check"]
  /\ UNCHANGED <<activity, lock, refs, tsk, woken>>

\* Set the state, fill in the waiter, pin the task, queue, unlock.
Enqueue(t, rw) ==
  /\ tstate' = [tstate EXCEPT ![t] = "UNINTERRUPTIBLE"]
  /\ wtask' = [wtask EXCEPT ![t] = TRUE]
  /\ flags' = [flags EXCEPT ![t] = rw]
  /\ refs' = [refs EXCEPT ![t] = @ + 1]
  /\ wait_list' = list_add_tail(wait_list, t)
  /\ pc' = [pc EXCEPT ![t] = "check"]
  /\ UNCHANGED <<activity, lock, tsk, woken>>

\* __down_read(), up to its wait loop.
DownRead(t) ==
  /\ pc[t] = "idle" /\ lock = None
  /\ \/ ReadFree /\ Take(t, activity + 1, "reading")
     \/ ~ReadFree /\ Enqueue(t, "read")

\* __down_read_trylock(), when it succeeds.
DownReadTrylock(t) ==
  /\ pc[t] = "idle" /\ lock = None
  /\ ReadFree /\ Take(t, activity + 1, "reading")

\* __down_write_nested(), up to its wait loop.
DownWrite(t) ==
  /\ pc[t] = "idle" /\ lock = None
  /\ \/ WriteFree /\ Take(t, -1, "writing")
     \/ ~WriteFree /\ Enqueue(t, "write")

\* __down_write_trylock(), when it succeeds.
DownWriteTrylock(t) ==
  /\ pc[t] = "idle" /\ lock = None
  /\ WriteFree /\ Take(t, -1, "writing")

\* if (!waiter.task) break, read without wait_lock; then tsk->state = RUNNING.
Check(t) ==
  /\ pc[t] = "check"
  /\ \/ /\ ~wtask[t]
        /\ tstate' = [tstate EXCEPT ![t] = "RUNNING"]
        /\ pc' = [pc EXCEPT ![t] = IF flags[t] = "read" THEN "reading"
                                                        ELSE "writing"]
        /\ flags' = [flags EXCEPT ![t] = "read"]   \* out of scope
     \/ /\ wtask[t]
        /\ pc' = [pc EXCEPT ![t] = "sched"]
        /\ UNCHANGED <<tstate, flags>>
  /\ UNCHANGED <<activity, lock, wait_list, wtask, refs, tsk, woken>>

\* schedule(): off the run queue, unless woken meanwhile.
Schedule(t) ==
  /\ pc[t] = "sched"
  /\ pc' = [pc EXCEPT ![t] = IF tstate[t] = "RUNNING" THEN "set" ELSE "asleep"]
  /\ UNCHANGED <<activity, lock, wait_list, flags, wtask, refs, tstate, tsk, woken>>

\* A task made RUNNING while off the run queue comes back from schedule().
Resume(t) ==
  /\ pc[t] = "asleep"
  /\ tstate[t] = "RUNNING"
  /\ pc' = [pc EXCEPT ![t] = "set"]
  /\ UNCHANGED <<activity, lock, wait_list, flags, wtask, refs, tstate, tsk, woken>>

\* set_task_state(tsk, TASK_UNINTERRUPTIBLE) at the bottom of the loop.
SetState(t) ==
  /\ pc[t] = "set"
  /\ tstate' = [tstate EXCEPT ![t] = "UNINTERRUPTIBLE"]
  /\ pc' = [pc EXCEPT ![t] = "check"]
  /\ UNCHANGED <<activity, lock, wait_list, flags, wtask, refs, tsk, woken>>

-----------------------------------------------------------------------------
(* Releasing.                                                              *)

\* list_del(), tsk = waiter->task, waiter->task = NULL.
Grant(w) ==
  /\ wait_list' = list_del(wait_list, w)
  /\ tsk' = w
  /\ wtask' = [wtask EXCEPT ![w] = FALSE]

\* Grant to the first waiter; t goes on in its wake loop with wait_lock held.
GrantFirst(t, where, act, n) ==
  /\ Grant(list_first_entry(wait_list))
  /\ activity' = act
  /\ woken' = n
  /\ lock' = t
  /\ pc' = [pc EXCEPT ![t] = where]

\* The releaser t is done: wait_lock is dropped, its locals are gone.
Unlock(t, where, act) ==
  /\ activity' = act
  /\ pc' = [pc EXCEPT ![t] = where]
  /\ lock' = None
  /\ tsk' = None
  /\ woken' = 0

FirstWants(rw) == flags[list_first_entry(wait_list)] = rw

\* Mutant of rwsem_do_wake: wakewrite is not looked at.
rwsem_do_wake_AnyWriter(t, act, wakewrite, where, done) ==
  /\ \/ /\ FirstWants("write")
        /\ GrantFirst(t, where, -1, 0)
     \/ /\ FirstWants("read")
        /\ GrantFirst(t, where, act, 1)

\* __rwsem_do_wake(), up to its first wake_up_process(): a writer at the front
\* gets the lock if wakewrite allows it, otherwise readers at the front do.
\* sem->activity does not count the readers until the loop is over.
rwsem_do_wake(t, act, wakewrite, where, done) ==
  \/ /\ FirstWants("write") /\ ~wakewrite
     /\ Unlock(t, done, act)
     /\ UNCHANGED <<wait_list, wtask>>
  \/ /\ FirstWants("write") /\ wakewrite
     /\ GrantFirst(t, where, -1, 0)
  \/ /\ FirstWants("read")
     /\ GrantFirst(t, where, act, 1)

\* __rwsem_wake_one_writer(), up to its wake_up_process(): whoever is first
\* must be a writer, it is not asked.
rwsem_wake_one_writer(t) == GrantFirst(t, "up", -1, 0)

\* __up_read(): the last reader passes the lock on.
UpRead(t) ==
  /\ pc[t] = "reading" /\ lock = None
  /\ \/ /\ activity - 1 = 0 /\ ~list_empty(wait_list)
        /\ rwsem_wake_one_writer(t)
     \/ /\ ~(activity - 1 = 0 /\ ~list_empty(wait_list))
        /\ Unlock(t, "idle", activity - 1)
        /\ UNCHANGED <<wait_list, wtask>>
  /\ UNCHANGED <<flags, refs, tstate>>

\* __up_write().
UpWrite(t) ==
  /\ pc[t] = "writing" /\ lock = None
  /\ \/ /\ ~list_empty(wait_list)
        /\ rwsem_do_wake(t, 0, TRUE, "up", "idle")
     \/ /\ list_empty(wait_list)
        /\ Unlock(t, "idle", 0)
        /\ UNCHANGED <<wait_list, wtask>>
  /\ UNCHANGED <<flags, refs, tstate>>

\* Mutant of DowngradeWrite: the readers at the front are not let in.
DowngradeWrite_NoWake(t) ==
  /\ pc[t] = "writing" /\ lock = None
  /\ Unlock(t, "reading", 1)
  /\ UNCHANGED <<wait_list, wtask, flags, refs, tstate>>

\* __downgrade_write().
DowngradeWrite(t) ==
  /\ pc[t] = "writing" /\ lock = None
  /\ \/ /\ ~list_empty(wait_list)
        /\ rwsem_do_wake(t, 1, FALSE, "downgrade", "reading")
     \/ /\ list_empty(wait_list)
        /\ Unlock(t, "reading", 1)
        /\ UNCHANGED <<wait_list, wtask>>
  /\ UNCHANGED <<flags, refs, tstate>>

\* Mutant of WakeUp: the readers woken so far are added on every turn.
WakeUp_CountInLoop(t) ==
  /\ pc[t] \in Waking
  /\ tstate' = [tstate EXCEPT ![tsk] = wake_up_process(@)]
  /\ refs' = [refs EXCEPT ![tsk] = @ - 1]
  /\ \/ /\ woken > 0 /\ ~list_empty(wait_list) /\ FirstWants("read")
        /\ GrantFirst(t, pc[t], activity + woken, woken + 1)
     \/ /\ ~(woken > 0 /\ ~list_empty(wait_list) /\ FirstWants("read"))
        /\ Unlock(t, IF pc[t] = "up" THEN "idle" ELSE "reading",
                  activity + woken)
        /\ UNCHANGED <<wait_list, wtask>>
  /\ UNCHANGED flags

\* wake_up_process(tsk), put_task_struct(tsk), and on: in the reader loop the
\* next reader at the front is granted; at its end, or after a writer, the
\* readers are added to sem->activity and wait_lock is dropped.
WakeUp(t) ==
  /\ pc[t] \in Waking
  /\ tstate' = [tstate EXCEPT ![tsk] = wake_up_process(@)]
  /\ refs' = [refs EXCEPT ![tsk] = @ - 1]
  /\ \/ /\ woken > 0 /\ ~list_empty(wait_list) /\ FirstWants("read")
        /\ GrantFirst(t, pc[t], activity, woken + 1)
     \/ /\ ~(woken > 0 /\ ~list_empty(wait_list) /\ FirstWants("read"))
        /\ Unlock(t, IF pc[t] = "up" THEN "idle" ELSE "reading",
                  activity + woken)
        /\ UNCHANGED <<wait_list, wtask>>
  /\ UNCHANGED flags

\* A wake_up_process() meant for an earlier sleep of t arrives only now.
StrayWakeup(t) ==
  /\ tstate[t] # "RUNNING"
  /\ tstate' = [tstate EXCEPT ![t] = wake_up_process(@)]
  /\ UNCHANGED <<activity, lock, wait_list, flags, wtask, refs, pc, tsk, woken>>

-----------------------------------------------------------------------------
TaskNext(t) ==
  \/ DownRead(t) \/ DownReadTrylock(t)
  \/ DownWrite(t) \/ DownWriteTrylock(t)
  \/ Check(t) \/ Schedule(t) \/ Resume(t) \/ SetState(t)
  \/ UpRead(t) \/ UpWrite(t) \/ DowngradeWrite(t) \/ WakeUp(t)

Next == \E t \in Tasks : TaskNext(t) \/ StrayWakeup(t)

Spec == Init /\ [][Next]_vars

\* A task that can run makes its next step; a holder releases some day; and
\* wait_lock is a FIFO ticket lock, so whoever finds it free again and again
\* gets it.
Fairness ==
  \A t \in Tasks :
    /\ WF_vars(Check(t))
    /\ WF_vars(Schedule(t))
    /\ WF_vars(Resume(t))
    /\ WF_vars(SetState(t))
    /\ WF_vars(WakeUp(t))
    /\ SF_vars(UpRead(t))
    /\ SF_vars(UpWrite(t))

FairSpec == Spec /\ Fairness

-----------------------------------------------------------------------------
(* Properties.                                                             *)

\* The type of every variable.
TypeOK ==
  /\ activity \in -1 .. Cardinality(Tasks)
  /\ lock \in Tasks \cup {None}
  /\ IsWaitList(wait_list, Tasks)
  /\ flags \in [Tasks -> {"read", "write"}]
  /\ wtask \in [Tasks -> BOOLEAN]
  /\ refs \in [Tasks -> Nat]
  /\ tstate \in [Tasks -> {"RUNNING", "UNINTERRUPTIBLE"}]
  /\ pc \in [Tasks -> PC]
  /\ tsk \in Tasks \cup {None}
  /\ woken \in Nat

\* A writer, from the moment waiter->task is cleared, is alone: no reader and
\* no other writer holds or has been granted the semaphore.
Exclusion ==
  \A w \in Writers : Writers = {w} /\ Readers = {}

\* With wait_lock free, sem->activity tells who holds the semaphore, those
\* included that were granted it and have not run yet.
ActivityIsHolders ==
  lock = None =>
    activity = IF Writers # {} THEN -1 ELSE Cardinality(Readers)

\* sem->wait_list holds exactly the waiters on a live stack frame that have
\* not been granted the lock: no releaser follows a pointer into a frame that
\* was left, and nobody waits unlinked.
QueueIsWaiters ==
  Elems(wait_list) = {t \in Tasks : pc[t] \in Waiting /\ wtask[t]}

\* The semaphore is never idle, and never left to readers only, while the
\* first waiter could have it: with wait_lock free the first waiter is a
\* reader only behind a writer, and there is a holder whenever there is a queue.
NobodyForgotten ==
  lock = None /\ ~list_empty(wait_list) =>
    \/ activity = -1
    \/ activity > 0 /\ FirstWants("write")

\* A task that is off the run queue is either still linked or about to be
\* woken by the releaser that unlinked it.
NoLostWakeup ==
  \A t \in Tasks :
    pc[t] = "asleep" /\ tstate[t] # "RUNNING" => wtask[t] \/ tsk = t

\* A task_struct is pinned exactly as long as a waiter or a releaser refers to
\* it: wake_up_process() never gets a pointer whose reference was dropped.
TaskPinned ==
  \A t \in Tasks : refs[t] = IF wtask[t] \/ tsk = t THEN 1 ELSE 0

\* A queued reader or writer gets the semaphore, whatever stream of other
\* readers and writers arrives, as long as holders release it.
NoStarvation ==
  \A t \in Tasks : t \in Elems(wait_list) ~> pc[t] \in {"reading", "writing"}

\* include/linux/rwsem-spinlock.h: "if activity is 0 then there are no active
\* readers or writers", which rwsem_is_locked() relies on without wait_lock:
\* a task that has come back from down_read() or down_write() is counted.
ZeroMeansFree ==
  activity = 0 => \A t \in Tasks : pc[t] \notin {"reading", "writing"}
=============================================================================
