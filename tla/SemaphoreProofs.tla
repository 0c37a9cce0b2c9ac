-------------------------- MODULE SemaphoreProofs ---------------------------
(***************************************************************************)
(* Proofs about kernel/semaphore.c, for any number of tasks and units.     *)
(***************************************************************************)
EXTENDS Semaphore, WaitListTheorems, FiniteSetTheorems

\* sem->lock is held across a step exactly by the task that has decided to
\* sleep and not yet published its state.
LockInv == \A t \in Tasks : lock = t <=> pc[t] = "prepare"

\* What up(), a signal and the timer have done to a task, at each point of
\* __down_common(), before it looks.
SleepInv(t) ==
  /\ pc[t] \in {"idle", "prepare", "awake"} => tstate[t] = "RUNNING"
  /\ tstate[t] # "RUNNING" =>
       ~up[t] /\ timeout[t] # "zero" /\ tstate[t] = mode[t]
  /\ pc[t] = "asleep" /\ tstate[t] # "RUNNING" =>
       ~signal_pending_state(mode[t], sig[t])
  /\ up[t] => pc[t] \notin {"idle", "prepare"}
  /\ pc[t] = "prepare" => timeout[t] # "zero"

\* The inductive invariant.
IInv ==
  /\ TypeOK
  /\ LockInv
  /\ QueueIsWaiters
  /\ NoUnitWhileWaiting
  /\ \A t \in Tasks : SleepInv(t)

-----------------------------------------------------------------------------
\* The initial state of sema_init() satisfies the invariant.
LEMMA InitIInv == Init => IInv
<1> SUFFICES ASSUME Init PROVE IInv
  OBVIOUS
<1>1. TypeOK
  <2>1. wait_list \in Seq(Tasks) /\ Len(wait_list) = 0
    BY DEF Init
  <2> QED
    BY <2>1, SemAssumption DEF Init, TypeOK, IsWaitList, TaskState, SleepState,
                               Signal, PC, Timeout
<1>2. LockInv
  BY SemAssumption DEF Init, LockInv
<1>3. QueueIsWaiters
  BY DEF Init, QueueIsWaiters, Elems
<1>4. NoUnitWhileWaiting
  BY DEF Init, NoUnitWhileWaiting, list_empty
<1>5. \A t \in Tasks : SleepInv(t)
  BY DEF Init, SleepInv
<1> QED
  BY <1>1, <1>2, <1>3, <1>4, <1>5 DEF IInv

\* One turn of __down_common()'s loop, entered with t queued on 'list',
\* unflagged and RUNNING.
LEMMA WaitLoopIInv ==
  ASSUME IInv, NEW t \in Tasks, lock = None, tstate[t] = "RUNNING",
         NEW list, IsWaitList(list, Tasks),
         t \in Elems(list),
         Elems(list) = Elems(wait_list) \cup {t},
         \A u \in Tasks \ {t} : u \in Elems(list) <=> pc[u] # "idle" /\ ~up[u],
         list # <<>> => count = 0,
         NEW md \in SleepState, NEW tm \in Timeout,
         ~up[t], up' = up,
         WaitLoop(t, list, md, tm),
         UNCHANGED <<count, tstate, sig, held>>
  PROVE  IInv'
<1> USE DEF IInv
<1>0. lock' \in {t, None} /\ \A u \in Tasks : u # None
  BY SemAssumption DEF WaitLoop, Leave, Stay
<1>1. CASE signal_pending_state(md, sig[t]) \/ tm = "zero"
  <2>1. /\ wait_list' = list_del(list, t)
        /\ Leave(t)
    BY <1>1 DEF WaitLoop
  <2>2. /\ IsWaitList(wait_list', Tasks)
        /\ Elems(wait_list') = Elems(list) \ {t}
    BY <2>1, Del
  <2>3. TypeOK'
    BY <2>1, <2>2 DEF TypeOK, Leave, PC, SleepState, Timeout
  <2>4. LockInv'
    BY <1>0, <2>1 DEF TypeOK, LockInv, Leave
  <2>5. QueueIsWaiters'
    <3>1. \A u \in Tasks \ {t} : pc'[u] = pc[u]
      BY <2>1 DEF TypeOK, Leave
    <3>2. pc'[t] = "idle"
      BY <2>1 DEF TypeOK, Leave
    <3>3. Elems(wait_list') \subseteq Tasks
      BY <2>2, Empty
    <3>4. \A u \in Tasks : u \in Elems(wait_list') <=> pc'[u] # "idle" /\ ~up[u]
      BY <2>2, <3>1, <3>2
    <3> QED
      BY <3>3, <3>4 DEF QueueIsWaiters
  <2>6. NoUnitWhileWaiting'
    <3>1. list # <<>>
      BY DEF Elems
    <3> QED
      BY <3>1 DEF NoUnitWhileWaiting
  <2>7. (\A u \in Tasks : SleepInv(u))'
    BY <2>1 DEF TypeOK, SleepInv, Leave
  <2> QED
    BY <2>3, <2>4, <2>5, <2>6, <2>7
<1>2. CASE ~(signal_pending_state(md, sig[t]) \/ tm = "zero")
  <2>1. /\ wait_list' = list
        /\ Stay(t, md, tm)
        /\ tm # "zero"
    BY <1>2 DEF WaitLoop
  <2>3. TypeOK'
    BY <2>1 DEF TypeOK, Stay, PC
  <2>4. LockInv'
    BY <1>0, <2>1 DEF TypeOK, LockInv, Stay
  <2>5. QueueIsWaiters'
    <3>1. \A u \in Tasks \ {t} : pc'[u] = pc[u]
      BY <2>1 DEF TypeOK, Stay
    <3>2. pc'[t] = "prepare"
      BY <2>1 DEF TypeOK, Stay
    <3>3. Elems(list) \subseteq Tasks
      BY Empty
    <3>4. \A u \in Tasks : u \in Elems(list) <=> pc'[u] # "idle" /\ ~up[u]
      BY <3>1, <3>2
    <3> QED
      BY <2>1, <3>3, <3>4 DEF QueueIsWaiters
  <2>6. NoUnitWhileWaiting'
    BY <2>1 DEF NoUnitWhileWaiting, list_empty
  <2>7. (\A u \in Tasks : SleepInv(u))'
    BY <2>1 DEF TypeOK, SleepInv, Stay
  <2> QED
    BY <2>3, <2>4, <2>5, <2>6, <2>7
<1> QED
  BY <1>1, <1>2

\* up() with somebody waiting: the first waiter is unlinked, flagged, woken.
LEMMA WakeIInv ==
  ASSUME IInv, lock = None, ~list_empty(wait_list),
         Wake(list_first_entry(wait_list)),
         held' \in Nat,
         UNCHANGED <<lock, sig, pc, mode, timeout>>
  PROVE  IInv'
<1> USE DEF IInv
<1> DEFINE w == list_first_entry(wait_list)
<1>1. w \in Elems(wait_list) /\ w \in Tasks
  BY First DEF TypeOK
<1> HIDE DEF w
<1>2. /\ wait_list' = list_del(wait_list, w)
      /\ up' = [up EXCEPT ![w] = TRUE]
      /\ tstate' = [tstate EXCEPT ![w] = "RUNNING"]
      /\ count' = count
  BY DEF w, Wake, wake_up_process
<1>3. /\ IsWaitList(wait_list', Tasks)
      /\ Elems(wait_list') = Elems(wait_list) \ {w}
  BY <1>1, <1>2, Del DEF TypeOK
<1>4. pc[w] \notin {"idle", "prepare"}
  BY <1>1, SemAssumption DEF QueueIsWaiters, LockInv
<1>5. TypeOK'
  BY <1>2, <1>3 DEF TypeOK, TaskState
<1>6. LockInv'
  BY DEF LockInv
<1>7. QueueIsWaiters'
  BY <1>1, <1>2, <1>3 DEF QueueIsWaiters, TypeOK
<1>8. NoUnitWhileWaiting'
  BY <1>2 DEF NoUnitWhileWaiting
<1>9. (\A u \in Tasks : SleepInv(u))'
  BY <1>1, <1>2, <1>4 DEF TypeOK, SleepInv
<1> QED
  BY <1>5, <1>6, <1>7, <1>8, <1>9

\* up(), whoever calls it.
LEMMA UpIInv ==
  ASSUME IInv, Up, held' \in Nat
  PROVE  IInv'
<1>1. CASE list_empty(wait_list)
  <2>1. /\ count' = count + 1
        /\ UNCHANGED <<wait_list, up, tstate, lock, sig, pc, mode, timeout>>
    BY <1>1 DEF Up
  <2>2. TypeOK'
    BY <2>1 DEF IInv, TypeOK
  <2>3. LockInv' /\ QueueIsWaiters'
    BY <2>1 DEF IInv, LockInv, QueueIsWaiters
  <2>4. NoUnitWhileWaiting'
    BY <1>1, <2>1 DEF NoUnitWhileWaiting
  <2>5. (\A u \in Tasks : SleepInv(u))'
    BY <2>1 DEF IInv, SleepInv
  <2> QED
    BY <2>2, <2>3, <2>4, <2>5 DEF IInv
<1>2. CASE ~list_empty(wait_list)
  BY <1>2, WakeIInv DEF Up
<1> QED
  BY <1>1, <1>2

\* Every way in takes a unit or queues with arguments of the right kind.
LEMMA DownCases ==
  ASSUME NEW t,
         \/ Down(t) \/ DownInterruptible(t) \/ DownKillable(t)
         \/ DownTimeout(t)
  PROVE  \/ DownFast(t)
         \/ \E md \in SleepState, tm \in Timeout : DownSlow(t, md, tm)
BY DEF Down, DownInterruptible, DownKillable, DownTimeout, SleepState, Timeout

\* Every step of a task, of up() and of the environment keeps the invariant.
LEMMA NextIInv == IInv /\ [Next]_vars => IInv'
<1> SUFFICES ASSUME IInv, [Next]_vars
             PROVE  IInv'
  OBVIOUS
<1> USE DEF IInv
<1>0. None \notin Tasks
  BY SemAssumption
<1>1. ASSUME NEW t \in Tasks, DownFast(t) \/ DownTrylock(t)
      PROVE  IInv'
  <2>1. /\ count > 0 /\ count' = count - 1 /\ held' = held + 1
        /\ UNCHANGED <<lock, wait_list, up, tstate, sig, pc, mode, timeout>>
    BY <1>1 DEF DownFast, DownTrylock, TypeOK
  <2>2. TypeOK'
    BY <2>1 DEF TypeOK
  <2>3. LockInv' /\ QueueIsWaiters'
    BY <2>1 DEF LockInv, QueueIsWaiters
  <2>4. NoUnitWhileWaiting'
    BY <2>1 DEF NoUnitWhileWaiting
  <2>5. (\A u \in Tasks : SleepInv(u))'
    BY <2>1 DEF SleepInv
  <2> QED
    BY <2>2, <2>3, <2>4, <2>5
<1>2. ASSUME NEW t \in Tasks, NEW md \in SleepState, NEW tm \in Timeout,
             DownSlow(t, md, tm)
      PROVE  IInv'
  <2> DEFINE list == list_add_tail(wait_list, t)
  <2>2. ~up[t] /\ up' = up /\ tstate[t] = "RUNNING"
    BY <1>2 DEF DownSlow, TypeOK, SleepInv
  <2>3. t \notin Elems(wait_list)
    BY <1>2 DEF DownSlow, QueueIsWaiters
  <2>4. /\ IsWaitList(list, Tasks)
        /\ Elems(list) = Elems(wait_list) \cup {t}
    BY <2>3, AddTail DEF TypeOK
  <2>5. \A u \in Tasks \ {t} : u \in Elems(list) <=> pc[u] # "idle" /\ ~up[u]
    BY <2>4 DEF QueueIsWaiters
  <2>6. /\ count = 0 /\ lock = None
        /\ WaitLoop(t, list, md, tm)
        /\ UNCHANGED <<count, tstate, sig, held>>
    BY <1>2 DEF DownSlow
  <2>7. t \in Elems(list)
    BY <2>4
  <2> HIDE DEF list
  <2> QED
    BY <2>2, <2>4, <2>5, <2>6, <2>7, WaitLoopIInv
<1>3. ASSUME NEW t \in Tasks, SetStateAndUnlock(t)
      PROVE  IInv'
  <2> USE <1>3 DEF SetStateAndUnlock
  <2>1. ~up[t]
    BY DEF SleepInv
  <2>2. TypeOK'
    BY DEF TypeOK, PC, TaskState
  <2>3. LockInv'
    BY <1>0 DEF LockInv, TypeOK
  <2>4. QueueIsWaiters'
    BY DEF QueueIsWaiters, TypeOK
  <2>5. NoUnitWhileWaiting'
    BY DEF NoUnitWhileWaiting
  <2>6. (\A u \in Tasks : SleepInv(u))'
    BY <2>1 DEF SleepInv, TypeOK, SleepState
  <2> QED
    BY <2>2, <2>3, <2>4, <2>5, <2>6
<1>4. ASSUME NEW t \in Tasks, Schedule(t)
      PROVE  IInv'
  <2> USE <1>4 DEF Schedule
  <2>1. tstate'[t] = schedule_state(tstate[t], sig[t])
    BY DEF TypeOK
  <2>2. TypeOK'
    BY DEF TypeOK, PC, TaskState, schedule_state
  <2>3. LockInv'
    BY <1>0 DEF LockInv, TypeOK
  <2>4. QueueIsWaiters'
    BY DEF QueueIsWaiters, TypeOK
  <2>5. NoUnitWhileWaiting'
    BY DEF NoUnitWhileWaiting
  <2>6. (\A u \in Tasks : SleepInv(u))'
    BY <2>1 DEF SleepInv, TypeOK, schedule_state
  <2> QED
    BY <2>2, <2>3, <2>4, <2>5, <2>6
<1>5. ASSUME NEW t \in Tasks, Resume(t)
      PROVE  IInv'
  <2> USE <1>5 DEF Resume
  <2>2. TypeOK'
    BY DEF TypeOK, PC
  <2>3. LockInv'
    BY <1>0 DEF LockInv, TypeOK
  <2>4. QueueIsWaiters'
    BY DEF QueueIsWaiters, TypeOK
  <2>5. NoUnitWhileWaiting'
    BY DEF NoUnitWhileWaiting
  <2>6. (\A u \in Tasks : SleepInv(u))'
    BY DEF SleepInv, TypeOK
  <2> QED
    BY <2>2, <2>3, <2>4, <2>5, <2>6
<1>6. ASSUME NEW t \in Tasks, RecheckGranted(t)
      PROVE  IInv'
  <2> USE <1>6 DEF RecheckGranted, Leave
  <2>2. TypeOK'
    BY DEF TypeOK, PC, SleepState, Timeout
  <2>3. LockInv'
    BY <1>0 DEF LockInv, TypeOK
  <2>4. QueueIsWaiters'
    BY DEF QueueIsWaiters, TypeOK
  <2>5. NoUnitWhileWaiting'
    BY DEF NoUnitWhileWaiting
  <2>6. (\A u \in Tasks : SleepInv(u))'
    BY DEF SleepInv, TypeOK
  <2> QED
    BY <2>2, <2>3, <2>4, <2>5, <2>6
<1>7. ASSUME NEW t \in Tasks, RecheckAgain(t)
      PROVE  IInv'
  <2>1. t \in Elems(wait_list)
    BY <1>7 DEF RecheckAgain, QueueIsWaiters
  <2>2. tstate[t] = "RUNNING"
    BY <1>7 DEF RecheckAgain, SleepInv
  <2>3. \A u \in Tasks \ {t} :
          u \in Elems(wait_list) <=> pc[u] # "idle" /\ ~up[u]
    BY DEF QueueIsWaiters
  <2>4. wait_list # <<>> => count = 0
    BY DEF NoUnitWhileWaiting, list_empty
  <2>5. mode[t] \in SleepState /\ timeout[t] \in Timeout
        /\ IsWaitList(wait_list, Tasks)
    BY DEF TypeOK
  <2>6. Elems(wait_list) = Elems(wait_list) \cup {t}
    BY <2>1
  <2> QED
    BY <1>7, <2>1, <2>2, <2>3, <2>4, <2>5, <2>6, WaitLoopIInv DEF RecheckAgain
<1>8. ASSUME Release \/ Post
      PROVE  IInv'
  <2>1. held' \in Nat
    BY <1>8 DEF Release, Post, TypeOK
  <2> QED
    BY <1>8, <2>1, UpIInv DEF Release, Post
<1>9. ASSUME NEW t \in Tasks, Environment(t)
      PROVE  IInv'
  <2>1. /\ UNCHANGED <<count, lock, wait_list, up, pc, mode, held>>
        /\ \A u \in Tasks \ {t} : /\ sig'[u] = sig[u]
                                  /\ tstate'[u] = tstate[u]
                                  /\ timeout'[u] = timeout[u]
        /\ tstate'[t] \in {tstate[t], "RUNNING"}
        /\ sig' \in [Tasks -> Signal]
        /\ tstate' \in [Tasks -> TaskState]
        /\ timeout' \in [Tasks -> Timeout]
    BY <1>9 DEF Environment, SendSignal, HandleSignal, TimerExpires, StrayWakeup,
                signal_wake_up, wake_up_process, TypeOK, Signal, TaskState, Timeout
  <2>2. TypeOK'
    BY <2>1 DEF TypeOK
  <2>3. LockInv' /\ QueueIsWaiters' /\ NoUnitWhileWaiting'
    BY <2>1 DEF LockInv, QueueIsWaiters, NoUnitWhileWaiting
  <2>4. tstate'[t] # "RUNNING" => timeout'[t] = timeout[t]
    BY <1>9 DEF Environment, SendSignal, HandleSignal, TimerExpires, StrayWakeup,
                wake_up_process, TypeOK
  <2>5. pc[t] = "prepare" => timeout'[t] = timeout[t]
    BY <1>9 DEF Environment, SendSignal, HandleSignal, TimerExpires, StrayWakeup,
                TypeOK
  <2>6. pc[t] = "asleep" /\ tstate'[t] # "RUNNING"
          => ~signal_pending_state(mode[t], sig'[t])
    <3>1. CASE \E s \in Signal : SendSignal(t, s)
      BY <3>1 DEF SendSignal, SleepInv, TypeOK, signal_wake_up,
                  signal_pending_state
    <3>2. CASE HandleSignal(t) \/ TimerExpires(t) \/ StrayWakeup(t)
      BY <3>2 DEF HandleSignal, TimerExpires, StrayWakeup, SleepInv, TypeOK,
                  wake_up_process
    <3> QED
      BY <1>9, <3>1, <3>2 DEF Environment
  <2>7. (\A u \in Tasks : SleepInv(u))'
    BY <2>1, <2>4, <2>5, <2>6 DEF SleepInv
  <2> QED
    BY <2>2, <2>3, <2>7
<1>10. CASE UNCHANGED vars
  BY <1>10 DEF vars, TypeOK, LockInv, QueueIsWaiters, NoUnitWhileWaiting,
               SleepInv
<1> QED
  BY DownCases, <1>1, <1>2, <1>3, <1>4, <1>5, <1>6, <1>7, <1>8, <1>9, <1>10
     DEF Next, TaskNext

\* The invariant holds in every reachable state.
THEOREM Invariance == Spec => []IInv
BY InitIInv, NextIInv, PTL DEF Spec

\* kernel/semaphore.c keeps every variable in its type; in particular
\* sem->count is never decremented below zero.
THEOREM TypeCorrect == Spec => []TypeOK
<1>1. IInv => TypeOK
  BY DEF IInv
<1> QED
  BY <1>1, Invariance, PTL

\* The wait list never holds the stack frame of a task that has left, and a
\* unit never sits in the count while somebody is queued for it.
THEOREM QueueCorrect == Spec => [](QueueIsWaiters /\ NoUnitWhileWaiting)
<1>1. IInv => QueueIsWaiters /\ NoUnitWhileWaiting
  BY DEF IInv
<1> QED
  BY <1>1, Invariance, PTL

\* No wake-up is lost between publishing the sleeping state and schedule().
THEOREM NoWakeupLost == Spec => []NoLostWakeup
<1>1. IInv => NoLostWakeup
  BY DEF IInv, SleepInv, NoLostWakeup
<1> QED
  BY <1>1, Invariance, PTL
-----------------------------------------------------------------------------
(* Refinement: avail is the count plus the units inside ->up flags.        *)

Avail == count + Cardinality(InFlight)

\* The flagged waiters are finitely many.
LEMMA InFlightFinite ==
  ASSUME TypeOK
  PROVE  IsFiniteSet(InFlight) /\ Cardinality(InFlight) \in Nat
<1>1. IsFiniteSet(InFlight)
  BY SemAssumption, FS_Subset DEF InFlight
<1> QED
  BY <1>1, FS_CardinalityType

\* Setting a flag that was clear puts one more unit in flight.
LEMMA FlagUp ==
  ASSUME TypeOK, NEW w \in Tasks, ~up[w], up' = [up EXCEPT ![w] = TRUE]
  PROVE  Cardinality(InFlight)' = Cardinality(InFlight) + 1
<1>1. InFlight' = InFlight \cup {w} /\ w \notin InFlight
  BY DEF InFlight, TypeOK
<1> QED
  BY <1>1, InFlightFinite, FS_AddElement

\* Clearing a flag that was set takes one unit out of flight.
LEMMA FlagDown ==
  ASSUME TypeOK, NEW w \in Tasks, up[w], up' = [up EXCEPT ![w] = FALSE]
  PROVE  Cardinality(InFlight)' = Cardinality(InFlight) - 1
<1>1. InFlight' = InFlight \ {w} /\ w \in InFlight
  BY DEF InFlight, TypeOK
<1> QED
  BY <1>1, InFlightFinite, FS_RemoveElement

\* A step that touches no flag leaves the units in flight alone.
LEMMA FlagSame ==
  ASSUME up' = up
  PROVE  Cardinality(InFlight)' = Cardinality(InFlight)
<1>1. InFlight' = InFlight
  BY DEF InFlight
<1> QED
  BY <1>1

\* up() makes one more unit available, in the count or in a flag.
LEMMA UpAvail ==
  ASSUME IInv, Up
  PROVE  Avail' = Avail + 1
<1>1. CASE list_empty(wait_list)
  <2>1. count' = count + 1 /\ up' = up
    BY <1>1 DEF Up
  <2> QED
    BY <2>1, FlagSame, InFlightFinite DEF Avail, IInv, TypeOK
<1>2. CASE ~list_empty(wait_list)
  <2> DEFINE w == list_first_entry(wait_list)
  <2>1. w \in Elems(wait_list) /\ w \in Tasks
    BY <1>2, First DEF IInv, TypeOK
  <2>2. ~up[w]
    BY <2>1 DEF IInv, QueueIsWaiters
  <2>3. count' = count /\ up' = [up EXCEPT ![w] = TRUE]
    BY <1>2 DEF Up, Wake
  <2> HIDE DEF w
  <2>4. TypeOK
    BY DEF IInv
  <2>5. Cardinality(InFlight)' = Cardinality(InFlight) + 1
    BY <2>1, <2>2, <2>3, <2>4, FlagUp
  <2>6. count \in Nat /\ Cardinality(InFlight) \in Nat
    BY <2>4, InFlightFinite DEF TypeOK
  <2> QED
    BY <2>3, <2>5, <2>6 DEF Avail
<1> QED
  BY <1>1, <1>2

\* Every step of the semaphore is a step of the abstract one, or none.
LEMMA StepRefines ==
  ASSUME IInv, [Next]_vars
  PROVE  [AbsSem!Next]_(AbsSem!vars)
<1> USE DEF IInv
<1>0. Avail \in Nat /\ held \in Nat /\ count \in Nat
      /\ Cardinality(InFlight) \in Nat
  BY InFlightFinite DEF Avail, TypeOK
<1>1. ASSUME NEW t \in Tasks, DownFast(t) \/ DownTrylock(t)
      PROVE  AbsSem!Acquire
  <2>1. count > 0 /\ count' = count - 1 /\ held' = held + 1 /\ up' = up
    BY <1>1 DEF DownFast, DownTrylock, TypeOK
  <2> QED
    BY <1>0, <2>1, FlagSame DEF AbsSem!Acquire
<1>2. ASSUME NEW t \in Tasks, RecheckGranted(t)
      PROVE  AbsSem!Acquire
  <2>1. count' = count /\ held' = held + 1
        /\ Cardinality(InFlight)' = Cardinality(InFlight) - 1
    BY <1>2, FlagDown DEF RecheckGranted
  <2>2. Cardinality(InFlight) > 0
    <3>1. t \in InFlight
      BY <1>2 DEF RecheckGranted, InFlight
    <3> QED
      BY <1>0, <3>1, InFlightFinite, FS_EmptySet
  <2> QED
    BY <1>0, <2>1, <2>2 DEF AbsSem!Acquire
<1>3. ASSUME Release
      PROVE  AbsSem!Release
  BY <1>0, <1>3, UpAvail DEF Release, Avail, AbsSem!Release
<1>4. ASSUME Post
      PROVE  AbsSem!Post
  BY <1>0, <1>4, UpAvail DEF Post, Avail, AbsSem!Post
<1>5. ASSUME count' = count, up' = up, held' = held
      PROVE  UNCHANGED AbsSem!vars
  BY <1>5, FlagSame DEF AbsSem!vars
<1>6. ASSUME NEW t \in Tasks, NEW md \in SleepState, NEW tm \in Timeout,
             DownSlow(t, md, tm)
      PROVE  UNCHANGED AbsSem!vars
  <2>1. up' = up
    BY <1>6 DEF DownSlow, SleepInv, TypeOK
  <2> QED
    BY <1>5, <1>6, <2>1 DEF DownSlow
<1>7. ASSUME NEW t \in Tasks,
             \/ SetStateAndUnlock(t) \/ Schedule(t) \/ Resume(t)
             \/ RecheckAgain(t) \/ Environment(t)
      PROVE  UNCHANGED AbsSem!vars
  BY <1>5, <1>7 DEF SetStateAndUnlock, Schedule, Resume, RecheckAgain,
       Environment, SendSignal, HandleSignal, TimerExpires, StrayWakeup
<1>8. CASE UNCHANGED vars
  BY <1>5, <1>8 DEF vars
<1> QED
  BY DownCases, <1>1, <1>2, <1>3, <1>4, <1>6, <1>7, <1>8
     DEF Next, TaskNext, AbsSem!Next

\* kernel/semaphore.c implements the counting semaphore: whatever the order of
\* up(), signals, timeouts and stray wake-ups, no unit is lost or made up.
THEOREM Refinement == Spec => ImplementsSemaphore
<1>1. Init => AbsSem!Init
  <2> SUFFICES ASSUME Init
               PROVE  count + Cardinality(InFlight) = InitCount /\ held = 0
    BY DEF AbsSem!Init
  <2>1. InFlight = {}
    BY DEF Init, InFlight
  <2> QED
    BY <2>1, FS_EmptySet, SemAssumption DEF Init
<1>2. IInv /\ [Next]_vars => [AbsSem!Next]_(AbsSem!vars)
  BY StepRefines
<1> QED
  BY <1>1, <1>2, Invariance, PTL DEF Spec, ImplementsSemaphore, AbsSem!Spec

\* No unit sits in the count while somebody is queued, so up() never leaves a
\* unit to a newcomer past the queue.
THEOREM UnitsAreHandedOver == Spec => []NoUnitWhileWaiting
BY QueueCorrect, PTL
=============================================================================
