----------------------------- MODULE Workqueue ------------------------------
(***************************************************************************)
(* kernel/workqueue.c: per-CPU work lists, each with a worker thread.      *)
(*                                                                         *)
(* A work is queued at most once because whoever sets its PENDING bit owns *)
(* it until it is on a list; the worker clears the bit before it calls the *)
(* function, so the work may be queued again, also on another CPU, while   *)
(* it runs.  Flushing inserts a barrier, a work on the flusher's stack, at *)
(* a place in the list and waits until the worker comes to it; cancelling  *)
(* steals the work and its bit.  A list is changed under its own cwq->lock *)
(* only, but which list a work is on is found out without that lock.       *)
(*                                                                         *)
(* One workqueue.  In a list, a task stands for the barrier on its stack.  *)
(* Between setting the bit and the end of the insertion only the owner of  *)
(* the bit acts on the work, so that part is kept per work, whichever      *)
(* task, interrupt, timer or running work has called.                      *)
(***************************************************************************)
EXTENDS Naturals, Sequences, FiniteSets, WaitList

CONSTANTS
  Works,   \* work_structs
  Delayed, \* those that are part of a delayed_work
  Tasks,   \* tasks that flush and cancel
  N,       \* number of CPUs; 1 for a single-threaded workqueue
  None     \* NULL for current_work, nobody for a lock

WqAssumption ==
  /\ N \in Nat \ {0} /\ Delayed \subseteq Works
  /\ Works \cap Tasks = {} /\ None \notin Works \cup Tasks

CPUs == 1..N
NoCwq == 0   \* get_wq_data() of a work that was never queued

VARIABLES
  worklist, current_work, lock,  \* of each cwq; lock: who is inside, half-way
  wk, sleepy,                    \* worker: where it is; has it set TASK_INTERRUPTIBLE
  pending, data,                 \* of each work: the bit, the cwq
  ins, at,                       \* of each work: its way onto a list, for which CPU
  pc, kind, arg, cwq, cpu, again,  \* of each task: call, its work and its locals
  owed                           \* history: what was queued or running when a flush began

cvars == <<worklist, current_work, lock, wk, sleepy>>
wvars == <<pending, data, ins, at>>
tvars == <<pc, kind, arg, cwq, cpu, again>>
vars == <<cvars, wvars, tvars, owed>>

Init ==
  /\ worklist = [c \in CPUs |-> <<>>] /\ current_work = [c \in CPUs |-> None]
  /\ lock = [c \in CPUs |-> None]
  /\ wk = [c \in CPUs |-> "prepare"] /\ sleepy = [c \in CPUs |-> FALSE]
  /\ pending = [w \in Works |-> FALSE] /\ data = [w \in Works |-> NoCwq]
  /\ ins = [w \in Works |-> "none"] /\ at = [w \in Works |-> 1]
  /\ pc = [t \in Tasks |-> "idle"] /\ kind = [t \in Tasks |-> "none"]
  /\ arg = [t \in Tasks |-> None] /\ cwq = [t \in Tasks |-> NoCwq]
  /\ cpu = [t \in Tasks |-> 1] /\ again = [t \in Tasks |-> FALSE]
  /\ owed = [t \in Tasks |-> {}]

Listed(w) == \E c \in CPUs : w \in Elems(worklist[c])   \* !list_empty(&work->entry)

\* The executions of w that are queued or under way, each with its CPU.
Instances(w) ==
  {<<c, w, "queued">> : c \in {d \in CPUs : w \in Elems(worklist[d])}}
    \cup {<<c, w, "running">> : c \in {d \in CPUs : current_work[d] = w /\ wk[d] # "ran"}}

\* insert_work(): list_add_tail() before some entry, and the wake-up.
Awake_Not(c) == sleepy[c]
Awake(c) == FALSE
AddAt(c, list) ==
  /\ worklist' = [worklist EXCEPT ![c] = list]
  /\ sleepy' = [sleepy EXCEPT ![c] = Awake(c)]

\* b behind w.  An entry behind a work that is on no list is in no list either.
After(list, w, b) ==
  IF w \notin Elems(list) THEN list
  ELSE LET i == CHOOSE j \in 1..Len(list) : list[j] = w
       IN SubSeq(list, 1, i) \o <<b>> \o SubSeq(list, i + 1, Len(list))
Without(list, w) == IF w \in Elems(list) THEN list_del(list, w) ELSE list   \* list_del_init()

-----------------------------------------------------------------------------
(* Queueing.                                                               *)

\* queue_work_on(), queue_delayed_work_on(): with the bit set, nothing happens.
QueueAgain(w) == pending[w] /\ UNCHANGED vars

\* queue_work_on(): the bit was clear.
Queue(w, c) ==
  /\ ~pending[w]
  /\ pending' = [pending EXCEPT ![w] = TRUE]
  /\ ins' = [ins EXCEPT ![w] = "lock"] /\ at' = [at EXCEPT ![w] = c]
  /\ UNCHANGED <<cvars, data, tvars, owed>>

\* queue_delayed_work_on(): remember the cwq of this CPU and start the timer.
QueueDelayed(w, c) ==
  /\ w \in Delayed /\ ~pending[w]
  /\ pending' = [pending EXCEPT ![w] = TRUE]
  /\ data' = [data EXCEPT ![w] = c]
  /\ ins' = [ins EXCEPT ![w] = "timer"]
  /\ UNCHANGED <<cvars, at, tvars, owed>>

\* delayed_work_timer_fn(), on whichever CPU the timer is.
TimerFires(w, c) ==
  /\ ins[w] = "timer"
  /\ ins' = [ins EXCEPT ![w] = "lock"] /\ at' = [at EXCEPT ![w] = c]
  /\ UNCHANGED <<cvars, pending, data, tvars, owed>>

\* __queue_work(): take the lock, set_wq_data() ...
InsertData(w) ==
  LET c == at[w] IN
  /\ ins[w] = "lock" /\ lock[c] = None
  /\ lock' = [lock EXCEPT ![c] = w]
  /\ data' = [data EXCEPT ![w] = c]
  /\ ins' = [ins EXCEPT ![w] = "add"]
  /\ UNCHANGED <<worklist, current_work, wk, sleepy, pending, at, tvars, owed>>

\* ... list_add_tail(), wake_up(), unlock.
InsertAdd(w) ==
  LET c == at[w] IN
  /\ ins[w] = "add"
  /\ AddAt(c, list_add_tail(worklist[c], w))
  /\ lock' = [lock EXCEPT ![c] = None]
  /\ ins' = [ins EXCEPT ![w] = "none"] /\ at' = [at EXCEPT ![w] = 1]
  /\ UNCHANGED <<current_work, wk, pending, data, tvars, owed>>

-----------------------------------------------------------------------------
(* The worker of c.                                                        *)

\* prepare_to_wait()
Prepare(c) ==
  /\ wk[c] = "prepare"
  /\ wk' = [wk EXCEPT ![c] = "test"] /\ sleepy' = [sleepy EXCEPT ![c] = TRUE]
  /\ UNCHANGED <<worklist, current_work, lock, wvars, tvars, owed>>

\* list_empty() without the lock: schedule(), or on to run_workqueue().
Test(c) ==
  /\ wk[c] = "test"
  /\ wk' = [wk EXCEPT ![c] = IF list_empty(worklist[c]) THEN "schedule" ELSE "ran"]
  /\ UNCHANGED <<worklist, current_work, lock, sleepy, wvars, tvars, owed>>

\* schedule() returns when a wake-up has made the worker runnable.
Blocked(c) == sleepy[c]
Scheduled(c) ==
  /\ wk[c] = "schedule" /\ ~Blocked(c)
  /\ wk' = [wk EXCEPT ![c] = "ran"]
  /\ UNCHANGED <<worklist, current_work, lock, sleepy, wvars, tvars, owed>>

\* run_workqueue() with the lock: forget the last work, take the next or leave.
Take(c) ==
  /\ wk[c] = "ran" /\ lock[c] = None
  /\ sleepy' = [sleepy EXCEPT ![c] = FALSE]   \* finish_wait()
  /\ IF list_empty(worklist[c])
     THEN /\ current_work' = [current_work EXCEPT ![c] = None]
          /\ wk' = [wk EXCEPT ![c] = "prepare"]
          /\ UNCHANGED <<worklist, owed>>
     ELSE LET w == list_first_entry(worklist[c]) IN
          /\ current_work' = [current_work EXCEPT ![c] = w]
          /\ worklist' = [worklist EXCEPT ![c] = Tail(@)]
          /\ wk' = [wk EXCEPT ![c] = "clear"]
          /\ owed' = [t \in Tasks |-> IF <<c, w, "queued">> \in owed[t]
               THEN (owed[t] \ {<<c, w, "queued">>}) \cup {<<c, w, "running">>} ELSE owed[t]]
  /\ UNCHANGED <<lock, wvars, tvars>>

\* work_clear_pending(); a barrier's own bit is never looked at again.
ClearPending(c) ==
  /\ wk[c] = "clear"
  /\ pending' = [w \in Works |-> pending[w] /\ w # current_work[c]]
  /\ wk' = [wk EXCEPT ![c] = "run"]
  /\ UNCHANGED <<worklist, current_work, lock, sleepy, data, ins, at, tvars, owed>>

\* The function returns; a barrier's, wq_barrier_func(), completes the flusher.
RunEnds(c) ==
  /\ wk[c] = "run"
  /\ wk' = [wk EXCEPT ![c] = "ran"]
  /\ owed' = [t \in Tasks |-> owed[t] \ {<<c, current_work[c], "running">>}]
  /\ pc' = [t \in Tasks |-> IF t = current_work[c] THEN "woken" ELSE pc[t]]
  /\ UNCHANGED <<worklist, current_work, lock, sleepy, wvars, kind, arg, cwq, cpu, again>>

-----------------------------------------------------------------------------
(* Tasks.                                                                  *)

Goto(t, l) == pc' = [pc EXCEPT ![t] = l]

\* A barrier is inserted: wait for it.
Waits_Not == "woken"
Waits == "barrier"
Begin(t, k, w, l, c) ==
  /\ pc[t] = "idle"
  /\ Goto(t, l)
  /\ kind' = [kind EXCEPT ![t] = k] /\ arg' = [arg EXCEPT ![t] = w]
  /\ cwq' = [cwq EXCEPT ![t] = c] /\ cpu' = [cpu EXCEPT ![t] = 1]
  /\ again' = [again EXCEPT ![t] = FALSE]
  /\ UNCHANGED <<cvars, wvars>>

\* A call returns.
Return(t) ==
  /\ pc[t] = "return"
  /\ Goto(t, "idle")
  /\ kind' = [kind EXCEPT ![t] = "none"] /\ arg' = [arg EXCEPT ![t] = None]
  /\ cwq' = [cwq EXCEPT ![t] = NoCwq] /\ cpu' = [cpu EXCEPT ![t] = 1]
  /\ again' = [again EXCEPT ![t] = FALSE] /\ owed' = [owed EXCEPT ![t] = {}]
  /\ UNCHANGED <<cvars, wvars>>

\* cancel_work_sync(), cancel_delayed_work_sync()
Cancel(t, w, k) == Begin(t, k, w, IF k = "cancel" THEN "bit" ELSE "timer", NoCwq) /\ UNCHANGED owed

\* flush_workqueue()
FlushWorkqueue(t) ==
  /\ Begin(t, "flush", None, "each", NoCwq)
  /\ owed' = [owed EXCEPT ![t] = UNION {Instances(w) : w \in Works}]

\* flush_work(): a work that was never queued needs no waiting.
FlushWork(t, w) ==
  /\ Begin(t, "flush_work", w, IF data[w] = NoCwq THEN "return" ELSE "lock", data[w])
  /\ owed' = [owed EXCEPT ![t] = Instances(w)]

\* try_to_grab_pending() returns, with ret >= 0 or < 0.
Grabbed(t, ag) == /\ again' = [again EXCEPT ![t] = ag] /\ cpu' = [cpu EXCEPT ![t] = 1]
                  /\ cwq' = [cwq EXCEPT ![t] = NoCwq] /\ Goto(t, "each")

\* del_timer() says whether the timer was pending.
del_timer_Ignored(w) == TRUE
del_timer(w) == ins[w] = "timer"

\* The bit of a work whose timer was pending is ours.
DelTimer(t) ==
  /\ pc[t] = "timer"
  /\ IF del_timer(arg[t])
     THEN ins' = [ins EXCEPT ![arg[t]] = "none"] /\ Grabbed(t, FALSE)
     ELSE Goto(t, "bit") /\ UNCHANGED <<ins, again, cpu, cwq>>
  /\ UNCHANGED <<cvars, pending, data, at, kind, arg, owed>>

\* try_to_grab_pending(): test_and_set_bit()
TestBit(t) ==
  /\ pc[t] = "bit"
  /\ pending' = [pending EXCEPT ![arg[t]] = TRUE]
  /\ IF pending[arg[t]] THEN Goto(t, "data") /\ UNCHANGED <<again, cpu, cwq>>
                        ELSE Grabbed(t, FALSE)
  /\ UNCHANGED <<cvars, data, ins, at, kind, arg, owed>>

\* ... get_wq_data()
ReadData(t) ==
  /\ pc[t] = "data"
  /\ IF data[arg[t]] = NoCwq THEN Grabbed(t, TRUE)
     ELSE /\ cwq' = [cwq EXCEPT ![t] = data[arg[t]]]
          /\ Goto(t, "lock") /\ UNCHANGED <<again, cpu>>
  /\ UNCHANGED <<cvars, wvars, kind, arg, owed>>

\* ... the lock of that cwq and list_empty(); flush_work() does the same.
LockListed(t) ==
  /\ pc[t] = "lock" /\ lock[cwq[t]] = None /\ Listed(arg[t])
  /\ lock' = [lock EXCEPT ![cwq[t]] = t]
  /\ Goto(t, "same")
  /\ UNCHANGED <<worklist, current_work, wk, sleepy, wvars, kind, arg, cwq, cpu, again, owed>>

GrabFails(t) ==
  /\ pc[t] = "lock" /\ kind[t] # "flush_work"
  /\ lock[cwq[t]] = None /\ ~Listed(arg[t])
  /\ Grabbed(t, TRUE)
  /\ UNCHANGED <<cvars, wvars, kind, arg, owed>>

\* ... is it on the list we have locked?
SameCwq_NotAsked(t) == TRUE
SameCwq(t) == data[arg[t]] = cwq[t]

Unlock(t) == lock' = [lock EXCEPT ![cwq[t]] = None]

\* ... then take it off the list: the bit is ours, and nobody will run it.
Grab(t) ==
  LET c == cwq[t]  w == arg[t] IN
  /\ pc[t] = "same" /\ kind[t] # "flush_work" /\ Unlock(t)
  /\ Grabbed(t, ~SameCwq(t))
  /\ IF SameCwq(t)
     THEN /\ worklist' = [worklist EXCEPT ![c] = Without(@, w)]
          /\ owed' = [u \in Tasks |-> owed[u] \ {<<c, w, "queued">>}]
     ELSE UNCHANGED <<worklist, owed>>
  /\ UNCHANGED <<current_work, wk, sleepy, wvars, kind, arg>>

\* flush_work() under the lock: a barrier behind the work on its list ...
FlushQueued(t) ==
  LET c == cwq[t] IN
  /\ pc[t] = "same" /\ kind[t] = "flush_work" /\ Unlock(t)
  /\ IF SameCwq(t) THEN AddAt(c, After(worklist[c], arg[t], t)) /\ Goto(t, Waits)
                   ELSE Goto(t, "return") /\ UNCHANGED <<worklist, sleepy>>
  /\ UNCHANGED <<current_work, wk, wvars, kind, arg, cwq, cpu, again, owed>>

\* ... or in front, if it is running there; otherwise there is nothing to wait for.
FlushRunning(t) ==
  LET c == cwq[t] IN
  /\ pc[t] = "lock" /\ kind[t] = "flush_work"
  /\ lock[c] = None /\ ~Listed(arg[t])
  /\ IF current_work[c] = arg[t] THEN AddAt(c, <<t>> \o worklist[c]) /\ Goto(t, Waits)
                                 ELSE Goto(t, "return") /\ UNCHANGED <<worklist, sleepy>>
  /\ UNCHANGED <<lock, current_work, wk, wvars, kind, arg, cwq, cpu, again, owed>>

\* The loop over CPUs goes on; behind the last one a cancel whose grab failed
\* starts again.
NextRound(t) == IF kind[t] = "flush" THEN "return" ELSE IF ~again[t] THEN "clear"
                ELSE IF kind[t] = "cancel" THEN "bit" ELSE "timer"

NextCpu(t) ==
  IF cpu[t] < N THEN cpu' = [cpu EXCEPT ![t] = @ + 1] /\ Goto(t, "each")
                ELSE Goto(t, NextRound(t)) /\ UNCHANGED cpu

\* wait_on_cpu_work(): a barrier in front if the work is running on this CPU.
\* A work that was never queued is waited for nowhere.
RunningHere_Never(t, c) == FALSE
RunningHere(t, c) == current_work[c] = arg[t]
WaitOnCpu(t) ==
  LET c == cpu[t] IN
  /\ pc[t] = "each" /\ kind[t] # "flush"
  /\ IF data[arg[t]] = NoCwq THEN Goto(t, NextRound(t)) /\ UNCHANGED <<worklist, sleepy, cpu>>
     ELSE /\ lock[c] = None
          /\ IF RunningHere(t, c)
             THEN AddAt(c, <<t>> \o worklist[c]) /\ Goto(t, Waits) /\ UNCHANGED cpu
             ELSE NextCpu(t) /\ UNCHANGED <<worklist, sleepy>>
  /\ UNCHANGED <<current_work, lock, wk, wvars, kind, arg, cwq, again, owed>>

\* flush_cpu_workqueue(): a barrier at the end if there is anything to wait for.
Busy_ListOnly(c) == ~list_empty(worklist[c])
Busy(c) == ~list_empty(worklist[c]) \/ current_work[c] # None

FlushCpu(t) ==
  LET c == cpu[t] IN
  /\ pc[t] = "each" /\ kind[t] = "flush" /\ lock[c] = None
  /\ IF Busy(c) THEN AddAt(c, list_add_tail(worklist[c], t)) /\ Goto(t, Waits) /\ UNCHANGED cpu
                ELSE NextCpu(t) /\ UNCHANGED <<worklist, sleepy>>
  /\ UNCHANGED <<current_work, lock, wk, wvars, kind, arg, cwq, again, owed>>

\* wait_for_completion(&barr.done) returns.
Woken(t) ==
  /\ pc[t] = "woken"
  /\ IF kind[t] = "flush_work" THEN Goto(t, "return") /\ UNCHANGED cpu ELSE NextCpu(t)
  /\ UNCHANGED <<cvars, wvars, kind, arg, cwq, again, owed>>

\* __cancel_work_timer(): work_clear_pending()
CancelClear(t) ==
  /\ pc[t] = "clear"
  /\ pending' = [pending EXCEPT ![arg[t]] = FALSE]
  /\ Goto(t, "return")
  /\ UNCHANGED <<cvars, data, ins, at, kind, arg, cwq, cpu, again, owed>>

-----------------------------------------------------------------------------
Worker(c) == Prepare(c) \/ Test(c) \/ Scheduled(c) \/ Take(c) \/ ClearPending(c) \/ RunEnds(c)
Insert(w) == InsertData(w) \/ InsertAdd(w)
Step(t) == \/ DelTimer(t) \/ TestBit(t) \/ ReadData(t) \/ LockListed(t) \/ GrabFails(t) \/ Grab(t)
           \/ FlushQueued(t) \/ FlushRunning(t) \/ WaitOnCpu(t) \/ FlushCpu(t) \/ Woken(t)
           \/ CancelClear(t) \/ Return(t)

Next ==
  \/ \E c \in CPUs : Worker(c)
  \/ \E w \in Works : Insert(w) \/ QueueAgain(w) \/ \E c \in CPUs : Queue(w, c) \/ QueueDelayed(w, c) \/ TimerFires(w, c)
  \/ \E t \in Tasks :
       \/ Step(t) \/ FlushWorkqueue(t)
       \/ \E w \in Works : FlushWork(t, w) \/ Cancel(t, w, "cancel")
       \/ \E w \in Delayed : Cancel(t, w, "cancel_timer")

Spec == Init /\ [][Next]_vars

-----------------------------------------------------------------------------
(* Properties.                                                             *)

TaskPc == {"idle", "timer", "bit", "data", "lock", "same", "each", "barrier", "woken", "clear", "return"}

\* The type of every variable; a work or a barrier is on one list, once.
TypeOK ==
  /\ \A c \in CPUs : IsWaitList(worklist[c], Works \cup Tasks)
  /\ \A c, d \in CPUs : c # d => Elems(worklist[c]) \cap Elems(worklist[d]) = {}
  /\ current_work \in [CPUs -> Works \cup Tasks \cup {None}]
  /\ lock \in [CPUs -> Works \cup Tasks \cup {None}]
  /\ wk \in [CPUs -> {"prepare", "test", "schedule", "ran", "clear", "run"}]
  /\ sleepy \in [CPUs -> BOOLEAN] /\ pending \in [Works -> BOOLEAN]
  /\ data \in [Works -> 0..N] /\ at \in [Works -> CPUs]
  /\ ins \in [Works -> {"none", "timer", "lock", "add"}]
  /\ pc \in [Tasks -> TaskPc] /\ arg \in [Tasks -> Works \cup {None}]
  /\ cwq \in [Tasks -> 0..N] /\ cpu \in [Tasks -> CPUs] /\ again \in [Tasks -> BOOLEAN]

Owns(t) == /\ kind[t] \in {"cancel", "cancel_timer"} /\ ~again[t]
           /\ pc[t] \in {"each", "barrier", "woken", "clear"}

\* try_to_grab_pending(): "the caller owns WORK_STRUCT_PENDING bit, so this work
\* can't be re-armed in any way": no timer, list or other canceller has it.
CancelOwnsBit ==
  \A t \in Tasks : Owns(t) =>
    /\ pending[arg[t]] /\ ins[arg[t]] = "none" /\ ~Listed(arg[t])
    /\ \A u \in Tasks \ {t} : Owns(u) => arg[u] # arg[t]

\* cancel_work_sync() and cancel_delayed_work_sync() return with the work neither
\* queued nor running on any CPU, however often it was queued again meanwhile.
CancelMeansIdle ==
  \A t \in Tasks : pc[t] = "clear" => Instances(arg[t]) = {} /\ ins[arg[t]] = "none"

\* A barrier lives on a stack: as long as a worker may touch it, its task waits.
BarrierIsAlive ==
  \A t \in Tasks : \A c \in CPUs :
    t \in Elems(worklist[c]) \/ (current_work[c] = t /\ wk[c] \in {"clear", "run"})
      => pc[t] = "barrier"

\* "We sleep until all works which were queued on entry have been handled."
FlushHandlesAll == \A t \in Tasks : pc[t] = "return" /\ kind[t] = "flush" => owed[t] = {}

\* "... but we are not livelocked by new incoming ones": every flush returns.
FlushReturns == \A t \in Tasks : kind[t] \in {"flush", "flush_work"} ~> pc[t] = "idle"

\* A queued work leaves its list: the worker has not missed the wake-up.
QueuedIsTaken == \A w \in Works : Listed(w) ~> ~Listed(w)
=============================================================================
