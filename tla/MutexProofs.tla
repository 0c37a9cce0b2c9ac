---------------------------- MODULE MutexProofs -----------------------------
(***************************************************************************)
(* Proofs about kernel/mutex.c, for any number of tasks; and about the     *)
(* fsnotify groups whose reference count its atomic_dec_and_mutex_lock()   *)
(* drops, for any number of tasks, groups and marks.                       *)
(***************************************************************************)
EXTENDS MCMutex, WaitListTheorems, FiniteSetTheorems

\* The types, without the lower bound of the count.
Types ==
  /\ count \in Int
  /\ lock \in Tasks \cup {None}
  /\ IsWaitList(wait_list, Tasks)
  /\ owner \in Tasks \cup {None}
  /\ seen \in [Tasks -> Tasks \cup {None}]
  /\ tstate \in [Tasks -> TaskState]
  /\ sig \in [Tasks -> Signal]
  /\ mode \in [Tasks -> SleepState]
  /\ pc \in [Tasks -> PC]

\* wait_lock is held across a step exactly at these points.
LockInv == \A t \in Tasks : pc[t] \in {"loop", "done", "wake"} <=> lock = t

\* The count is 1 exactly when the mutex is free.
CountInv ==
  \/ count = 1 /\ Holders = {}
  \/ count <= 0 /\ \E h \in Tasks : Holders = {h}

\* Whoever acquired in the slow path left a negative count behind, and until
\* wait_lock is dropped nobody raises it.
DoneInv == \A t \in Tasks : pc[t] = "done" => count < 0

\* Tasks whose decrement of the fast path may still be in the count.
Spinners == {t \in Tasks : pc[t] \in {"spin", "spinon", "try", "queue"}}
SpinInv == count >= -1 - Cardinality(Spinners)

\* The inductive invariant.
IInv ==
  /\ Types
  /\ LockInv
  /\ CountInv
  /\ DoneInv
  /\ SpinInv
  /\ OwnerIsHolder
  /\ QueueIsWaiters
  /\ NoLostWakeup

-----------------------------------------------------------------------------
\* The spinners are finitely many, and one more or one fewer counts one.
LEMMA SpinnersFinite ==
  /\ Spinners \subseteq Tasks /\ IsFiniteSet(Spinners)
  /\ Cardinality(Spinners) \in Nat
<1>1. Spinners \subseteq Tasks
  BY DEF Spinners
<1>2. IsFiniteSet(Spinners)
  BY <1>1, MutexAssumption, FS_Subset
<1> QED
  BY <1>1, <1>2, FS_CardinalityType

\* The state __mutex_init() leaves.
LEMMA InitIInv == Init => IInv
<1> SUFFICES ASSUME Init PROVE IInv
  OBVIOUS
<1>1. wait_list \in Seq(Tasks) /\ Len(wait_list) = 0
  BY DEF Init
<1>2. Types
  BY <1>1 DEF Init, Types, IsWaitList, TaskState, SleepState, Signal, PC
<1>3. LockInv /\ DoneInv /\ OwnerIsHolder
  BY MutexAssumption DEF Init, LockInv, DoneInv, OwnerIsHolder
<1>4. CountInv
  BY DEF Init, CountInv, Holders, Holding
<1>5. SpinInv
  BY SpinnersFinite DEF Init, SpinInv
<1>6. QueueIsWaiters
  BY DEF Init, QueueIsWaiters, Elems, Queued
<1>7. NoLostWakeup
  BY DEF Init, NoLostWakeup, list_empty
<1> QED
  BY <1>2, <1>3, <1>4, <1>5, <1>6, <1>7 DEF IInv

\* Moving t joins it to the spinners, takes it from them, or neither.
LEMMA SpinnersMove ==
  ASSUME Types, NEW t \in Tasks, NEW to, pc' = [pc EXCEPT ![t] = to]
  PROVE  /\ Cardinality(Spinners)' \in Nat
         /\ to \in {"spin", "spinon", "try", "queue"}
              => Cardinality(Spinners)' >= Cardinality(Spinners)
         /\ to \in {"spin", "spinon", "try", "queue"} /\ t \notin Spinners
              => Cardinality(Spinners)' = Cardinality(Spinners) + 1
         /\ t \notin Spinners => Cardinality(Spinners)' >= Cardinality(Spinners)
<1>1. /\ pc'[t] = to
      /\ \A u \in Tasks \ {t} : pc'[u] = pc[u]
  BY DEF Types
<1>2. IsFiniteSet(Spinners') /\ Cardinality(Spinners') \in Nat
  <2>1. Spinners' \subseteq Tasks
    BY DEF Spinners
  <2> QED
    BY <2>1, MutexAssumption, FS_Subset, FS_CardinalityType
<1>3. ASSUME to \in {"spin", "spinon", "try", "queue"} \/ t \notin Spinners
      PROVE  Cardinality(Spinners) <= Cardinality(Spinners')
  <2>1. Spinners \subseteq Spinners'
    BY <1>1, <1>3 DEF Spinners
  <2> QED
    BY <1>2, <2>1, FS_Subset
<1>4. ASSUME to \in {"spin", "spinon", "try", "queue"}, t \notin Spinners
      PROVE  Cardinality(Spinners') = Cardinality(Spinners) + 1
  <2>1. Spinners' = Spinners \cup {t}
    BY <1>1, <1>4 DEF Spinners
  <2> QED
    BY <1>4, <2>1, SpinnersFinite, FS_AddElement
<1> QED
  BY <1>2, <1>3, <1>4, SpinnersFinite

\* Moving t joins it to the holders, takes it from them, or neither.
LEMMA HoldersMove ==
  ASSUME Types, NEW t \in Tasks, NEW to, pc' = [pc EXCEPT ![t] = to]
  PROVE  Holders' = IF to \in Holding THEN Holders \cup {t} ELSE Holders \ {t}
<1>1. /\ pc'[t] = to
      /\ \A u \in Tasks \ {t} : pc'[u] = pc[u]
  BY DEF Types
<1>2. \A u \in Tasks : u \in Holders' <=> \/ u = t /\ to \in Holding
                                          \/ u # t /\ u \in Holders
  BY <1>1 DEF Holders
<1>3. Holders \subseteq Tasks /\ Holders' \subseteq Tasks
  BY DEF Holders
<1> QED
  BY <1>2, <1>3

\* How far the count may fall when t moves.
Falls(t, to) ==
  /\ count' \in Int
  /\ \/ count' >= -1
     \/ /\ count' >= count
        /\ t \notin Spinners \/ to \in {"spin", "spinon", "try", "queue"}
     \/ /\ count' >= count - 1
        /\ t \notin Spinners /\ to \in {"spin", "spinon", "try", "queue"}

\* Such a fall keeps the bound.
LEMMA SpinMove ==
  ASSUME Types, SpinInv, NEW t \in Tasks, NEW to, pc' = [pc EXCEPT ![t] = to],
         Falls(t, to)
  PROVE  SpinInv'
<1> DEFINE n == Cardinality(Spinners)
           m == Cardinality(Spinners')
<1>1. /\ m \in Nat
      /\ to \in {"spin", "spinon", "try", "queue"} => m >= n
      /\ to \in {"spin", "spinon", "try", "queue"} /\ t \notin Spinners
           => m = n + 1
      /\ t \notin Spinners => m >= n
  BY SpinnersMove
<1>2. n \in Nat /\ count \in Int /\ count >= -1 - n
  BY SpinnersFinite DEF Types, SpinInv
<1> HIDE DEF n, m
<1>3. count' >= -1 - m
  BY <1>1, <1>2 DEF Falls
<1> QED
  BY <1>3 DEF SpinInv, m

\* wait_lock is taken, kept or dropped by t as it moves.
LEMMA LockMove ==
  ASSUME Types, LockInv, NEW t \in Tasks, NEW to, pc' = [pc EXCEPT ![t] = to],
         \/ /\ lock' = lock
            /\ pc[t] \in {"loop", "done", "wake"}
                 <=> to \in {"loop", "done", "wake"}
         \/ lock \in {None, t} /\ lock' = t /\ to \in {"loop", "done", "wake"}
         \/ /\ lock \in {None, t} /\ lock' = None
            /\ to \notin {"loop", "done", "wake"}
  PROVE  LockInv'
<1>1. /\ pc'[t] = to
      /\ \A u \in Tasks \ {t} : pc'[u] = pc[u]
  BY DEF Types
<1> QED
  BY <1>1, MutexAssumption DEF LockInv

\* A move of t within the queue, or outside it, leaves the queue in order.
LEMMA QueueMove ==
  ASSUME Types, QueueIsWaiters, NEW t \in Tasks, NEW to,
         pc' = [pc EXCEPT ![t] = to],
         UNCHANGED wait_list, pc[t] \in Queued <=> to \in Queued
  PROVE  QueueIsWaiters'
<1>1. /\ pc'[t] = to
      /\ \A u \in Tasks \ {t} : pc'[u] = pc[u]
  BY DEF Types
<1> QED
  BY <1>1 DEF QueueIsWaiters

\* Who may raise the count, and with what t may arrive at "done".
Raises(t, to) ==
  /\ count' \in Int
  /\ count' < 0 \/ to # "done"
  /\ count' <= count \/ count' < 0 \/ pc[t] \in Holding

\* Nobody but the task at "done" itself raises the count above a negative one
\* while it is there: the holder is that task, and it has wait_lock.
LEMMA DoneMove ==
  ASSUME Types, LockInv, CountInv, DoneInv, NEW t \in Tasks, NEW to,
         pc' = [pc EXCEPT ![t] = to],
         Raises(t, to)
  PROVE  DoneInv'
<1> SUFFICES ASSUME NEW u \in Tasks, pc'[u] = "done" PROVE count' < 0
  BY DEF DoneInv
<1>1. CASE u = t
  BY <1>1 DEF Types, Raises
<1>2. CASE u # t
  <2>1. pc[u] = "done" /\ u \in Holders /\ count < 0
    BY <1>2 DEF Types, DoneInv, Holders, Holding
  <2>2. t \notin Holders
    BY <1>2, <2>1 DEF CountInv
  <2> QED
    BY <2>1, <2>2 DEF Holders, Types, Raises
<1> QED
  BY <1>1, <1>2

\* The count t leaves behind: the holder will take the slow path out, or t is
\* on it, or t is not who the waiters rely on.
Leaves(t, to) ==
  \/ count' < 0
  \/ to \in {"slow", "wake"}
  \/ count >= 0 /\ pc[t] \notin {"slow", "wake"}

\* A move of t outside the queue that wakes nobody up keeps the promise that
\* the waiters are not forgotten.
LEMMA WakeMove ==
  ASSUME Types, QueueIsWaiters, NoLostWakeup, NEW t \in Tasks, NEW to,
         pc' = [pc EXCEPT ![t] = to],
         UNCHANGED <<wait_list, tstate>>, pc[t] \notin Queued,
         Leaves(t, to)
  PROVE  NoLostWakeup'
<1>0. /\ pc'[t] = to
      /\ \A u \in Tasks \ {t} : pc'[u] = pc[u]
  BY DEF Types
<1> SUFFICES ASSUME ~list_empty(wait_list), count >= 0,
                    pc[t] \notin {"slow", "wake"}
             PROVE  \/ \E u \in Tasks : pc'[u] \in {"slow", "wake"}
                    \/ \E u \in Elems(wait_list) : Alert(u)'
  BY <1>0 DEF NoLostWakeup, Leaves
<1>1. Elems(wait_list) = {u \in Tasks : pc[u] \in Queued}
      /\ t \notin Elems(wait_list)
  BY DEF QueueIsWaiters
<1>2. \/ \E u \in Tasks : pc[u] \in {"slow", "wake"}
      \/ \E u \in Elems(wait_list) : Alert(u)
  BY DEF NoLostWakeup, Types
<1>3. CASE \E u \in Tasks : pc[u] \in {"slow", "wake"}
  BY <1>0, <1>3
<1>4. CASE \E u \in Elems(wait_list) : Alert(u)
  BY <1>0, <1>1, <1>4 DEF Alert
<1> QED
  BY <1>2, <1>3, <1>4

-----------------------------------------------------------------------------
\* A task outside takes the free mutex: fast path, trylock or spinner.
LEMMA TakeIInv ==
  ASSUME IInv, NEW t \in Tasks, count = 1, count' = 0,
         pc[t] \in {"idle", "try"}, pc' = [pc EXCEPT ![t] = "got"],
         UNCHANGED <<lock, wait_list, owner, tstate, sig, mode>>,
         seen' \in [Tasks -> Tasks \cup {None}]
  PROVE  IInv'
<1>1. Types /\ LockInv /\ CountInv /\ DoneInv /\ SpinInv /\ OwnerIsHolder
      /\ QueueIsWaiters /\ NoLostWakeup
  BY DEF IInv
<1>2. Holders = {}
  BY <1>1 DEF CountInv
<1>3. Holders' = {t}
  BY <1>1, <1>2, HoldersMove DEF Holding
<1>4. CountInv'
  BY <1>3 DEF CountInv
<1>a. Falls(t, "got") /\ Raises(t, "got") /\ Leaves(t, "got")
  BY DEF Falls, Raises, Leaves
<1>5. SpinInv'
  BY <1>1, <1>a, SpinMove
<1>6. LockInv'
  BY <1>1, LockMove
<1>7. QueueIsWaiters'
  BY <1>1, QueueMove DEF Queued
<1>8. DoneInv'
  BY <1>1, <1>a, DoneMove
<1>9. NoLostWakeup'
  BY <1>1, <1>a, WakeMove DEF Queued
<1>10. Types' /\ OwnerIsHolder'
  BY <1>1 DEF Types, PC, Holding, OwnerIsHolder
<1> QED
  BY <1>4, <1>5, <1>6, <1>7, <1>8, <1>9, <1>10 DEF IInv

\* mutex_lock() on a held mutex: one more decrement, one more spinner.
LEMMA LockSlowIInv ==
  ASSUME IInv, NEW t \in Tasks, NEW md \in SleepState, LockFast(t, md),
         count # 1
  PROVE  IInv'
<1>1. Types /\ LockInv /\ CountInv /\ DoneInv /\ SpinInv /\ OwnerIsHolder
      /\ QueueIsWaiters /\ NoLostWakeup
  BY DEF IInv
<1>2. count <= 0 /\ count \in Int /\ \E h \in Tasks : Holders = {h}
  BY <1>1 DEF CountInv, Types
<1>3. /\ count' = count - 1 /\ pc' = [pc EXCEPT ![t] = "spin"]
      /\ pc[t] = "idle" /\ count' < 0 /\ mode' \in [Tasks -> SleepState]
      /\ UNCHANGED <<lock, wait_list, owner, seen, tstate, sig>>
  BY <1>1, <1>2 DEF LockFast, Slowpath, Goto, Types
<1>4. Holders' = Holders
  BY <1>1, <1>3, HoldersMove DEF Holders, Holding
<1>5. CountInv'
  BY <1>2, <1>3, <1>4 DEF CountInv
<1>6. t \notin Spinners
  BY <1>3 DEF Spinners
<1>a. Falls(t, "spin") /\ Raises(t, "spin") /\ Leaves(t, "spin")
  BY <1>2, <1>3, <1>6 DEF Falls, Raises, Leaves
<1>7. SpinInv'
  BY <1>1, <1>3, <1>a, SpinMove
<1>8. LockInv'
  BY <1>1, <1>3, LockMove
<1>9. QueueIsWaiters'
  BY <1>1, <1>3, QueueMove DEF Queued
<1>10. DoneInv'
  BY <1>1, <1>3, <1>a, DoneMove
<1>11. NoLostWakeup'
  BY <1>1, <1>3, <1>a, WakeMove DEF Queued
<1>12. Types' /\ OwnerIsHolder'
  BY <1>1, <1>3 DEF Types, PC, OwnerIsHolder
<1> QED
  BY <1>5, <1>7, <1>8, <1>9, <1>10, <1>11, <1>12 DEF IInv

\* A turn of the spin loop, or of the bookkeeping of the holder, that does not
\* touch the count.
LEMMA IdleMoveIInv ==
  ASSUME IInv, NEW t \in Tasks, NEW to \in PC, pc' = [pc EXCEPT ![t] = to],
         UNCHANGED <<count, lock, wait_list, tstate, sig>>,
         seen' \in [Tasks -> Tasks \cup {None}],
         mode' \in [Tasks -> SleepState],
         owner' \in Tasks \cup {None}, OwnerIsHolder',
         \/ t \in Spinners /\ to \in {"spin", "spinon", "try", "queue"}
         \/ pc[t] \in {"got", "locked"} /\ to \in {"locked", "unlocking"}
  PROVE  IInv'
<1>1. Types /\ LockInv /\ CountInv /\ DoneInv /\ SpinInv
      /\ QueueIsWaiters /\ NoLostWakeup
  BY DEF IInv
<1>2. /\ count \in Int /\ pc[t] \notin Queued /\ to \notin Queued
      /\ pc[t] \notin {"slow", "wake"}
  BY <1>1 DEF Types, Spinners, Queued
<1>3. Holders' = Holders
  BY <1>1, HoldersMove DEF Holders, Holding, Spinners
<1>4. CountInv'
  BY <1>1, <1>3 DEF CountInv
<1>a. Falls(t, to) /\ Raises(t, to) /\ Leaves(t, to)
  <2>1. t \notin Spinners \/ to \in {"spin", "spinon", "try", "queue"}
    BY DEF Spinners
  <2>2. to # "done"
    OBVIOUS
  <2> QED
    BY <1>2, <2>1, <2>2 DEF Falls, Raises, Leaves
<1>5. SpinInv'
  BY <1>1, <1>a, SpinMove
<1>6. LockInv'
  <2>1. pc[t] \notin {"loop", "done", "wake"} /\ to \notin {"loop", "done", "wake"}
    BY DEF Spinners
  <2> QED
    BY <1>1, <2>1, LockMove
<1>7. QueueIsWaiters'
  BY <1>1, <1>2, QueueMove
<1>8. DoneInv'
  BY <1>1, <1>a, DoneMove
<1>9. NoLostWakeup'
  BY <1>1, <1>2, <1>a, WakeMove
<1>10. Types'
  BY <1>1 DEF Types
<1> QED
  BY <1>4, <1>5, <1>6, <1>7, <1>8, <1>9, <1>10 DEF IInv

\* Every step of the fast path and the spin loop, and the owner field.
LEMMA LocklessIInv ==
  ASSUME IInv, NEW t \in Tasks,
         \/ \E md \in SleepState : LockFast(t, md)
         \/ MutexTrylock(t) \/ SetOwner(t)
         \/ SpinRead(t) \/ SpinOnOwner(t) \/ SpinTry(t) \/ ClearOwner(t)
  PROVE  IInv'
<1>1. Types /\ OwnerIsHolder
  BY DEF IInv
<1>2. ASSUME NEW md \in SleepState, LockFast(t, md)
      PROVE  IInv'
  <2>1. CASE count = 1
    BY <1>1, <1>2, <2>1, TakeIInv DEF LockFast, Slowpath, Goto, Types
  <2> QED
    BY <1>2, <2>1, LockSlowIInv
<1>3. CASE MutexTrylock(t)
  BY <1>1, <1>3, TakeIInv DEF MutexTrylock, fastpath_trylock, Goto, Types
<1>4. CASE SpinTry(t) /\ count = 1
  BY <1>1, <1>4, TakeIInv DEF SpinTry, Goto, Types
<1>5. CASE SpinRead(t) \/ SpinOnOwner(t) \/ (SpinTry(t) /\ count # 1)
  <2>1. /\ \E to \in {"spin", "spinon", "try", "queue"} :
              pc' = [pc EXCEPT ![t] = to]
        /\ t \in Spinners
        /\ seen' \in [Tasks -> Tasks \cup {None}]
        /\ UNCHANGED <<count, lock, wait_list, owner, tstate, sig, mode>>
    BY <1>1, <1>5 DEF SpinRead, SpinOnOwner, SpinTry, Goto, Types, Spinners
  <2>2. PICK to \in {"spin", "spinon", "try", "queue"} :
          pc' = [pc EXCEPT ![t] = to]
    BY <2>1
  <2>3. to \in PC
    BY DEF PC
  <2>4. OwnerIsHolder'
    BY <1>1, <2>1, <2>2 DEF OwnerIsHolder, Spinners, Types
  <2> QED
    BY <1>1, <2>1, <2>2, <2>3, <2>4, IdleMoveIInv DEF Types
<1>6. CASE SetOwner(t) \/ ClearOwner(t)
  <2>1. PICK to \in {"locked", "unlocking"} :
          /\ pc' = [pc EXCEPT ![t] = to]
          /\ owner' = IF to = "locked" THEN t ELSE None
          /\ pc[t] \in {"got", "locked"}
          /\ mode' \in [Tasks -> SleepState]
          /\ UNCHANGED <<count, lock, wait_list, seen, tstate, sig>>
    BY <1>1, <1>6 DEF SetOwner, ClearOwner, mutex_set_owner, mutex_clear_owner, Goto, Types, SleepState
  <2>2. to \in PC
    BY DEF PC, Holding
  <2>3. OwnerIsHolder'
    BY <1>1, <2>1 DEF OwnerIsHolder, Types
  <2> QED
    BY <1>1, <2>1, <2>2, <2>3, IdleMoveIInv DEF Types
<1> QED
  BY <1>2, <1>3, <1>4, <1>5, <1>6

-----------------------------------------------------------------------------
\* Only a task at "got" or "locked" can be the owner, so a move from anywhere
\* else does not disturb it.
LEMMA OwnerMove ==
  ASSUME Types, OwnerIsHolder, NEW t \in Tasks, NEW to,
         pc' = [pc EXCEPT ![t] = to],
         UNCHANGED owner, pc[t] \notin {"got", "locked"}
  PROVE  OwnerIsHolder'
BY DEF Types, OwnerIsHolder

\* The holder's increment of the count.
LEMMA UnlockFastIInv ==
  ASSUME IInv, NEW t \in Tasks, UnlockFast(t)
  PROVE  IInv'
<1>1. Types /\ LockInv /\ CountInv /\ DoneInv /\ SpinInv /\ OwnerIsHolder
      /\ QueueIsWaiters /\ NoLostWakeup
  BY DEF IInv
<1>2. t \in Holders /\ t \notin Spinners
  BY DEF UnlockFast, Holders, Holding, Spinners
<1>3. Holders = {t} /\ count <= 0 /\ count \in Int
  BY <1>1, <1>2 DEF CountInv, Types
<1>4. PICK to \in {"slow", "idle"} :
        /\ pc' = [pc EXCEPT ![t] = to]
        /\ count' = count + 1 /\ pc[t] = "unlocking"
        /\ IF count' <= 0 THEN to = "slow" ELSE to = "idle" /\ count = 0
        /\ UNCHANGED <<lock, wait_list, owner, seen, tstate, sig, mode>>
  <2>1. CASE count + 1 <= 0
    BY <2>1 DEF UnlockFast, Goto
  <2>2. CASE ~(count + 1 <= 0)
    <3>1. count = 0
      BY <1>3, <2>2
    <3> QED
      BY <2>2, <3>1 DEF UnlockFast, Goto
  <2> QED
    BY <2>1, <2>2
<1>5. Holders' = IF to = "slow" THEN {t} ELSE {}
  BY <1>1, <1>3, <1>4, HoldersMove DEF Holding
<1>6. CountInv'
  BY <1>3, <1>4, <1>5 DEF CountInv
<1>7. Falls(t, to) /\ Raises(t, to) /\ Leaves(t, to)
  BY <1>2, <1>3, <1>4 DEF Falls, Raises, Leaves, Holding
<1>8. SpinInv'
  BY <1>1, <1>4, <1>7, SpinMove
<1>9. LockInv'
  BY <1>1, <1>4, LockMove
<1>10. QueueIsWaiters'
  BY <1>1, <1>4, QueueMove DEF Queued
<1>11. DoneInv'
  BY <1>1, <1>4, <1>7, DoneMove
<1>12. NoLostWakeup'
  BY <1>1, <1>4, <1>7, WakeMove DEF Queued
<1>13. OwnerIsHolder'
  BY <1>1, <1>4, OwnerMove
<1>14. Types'
  BY <1>1, <1>3, <1>4 DEF Types, PC, Holding
<1> QED
  BY <1>6, <1>8, <1>9, <1>10, <1>11, <1>12, <1>13, <1>14 DEF IInv

\* The slow path out makes the mutex free ...
LEMMA UnlockSlowIInv ==
  ASSUME IInv, NEW t \in Tasks, UnlockSlow(t)
  PROVE  IInv'
<1>1. Types /\ LockInv /\ CountInv /\ DoneInv /\ SpinInv /\ OwnerIsHolder
      /\ QueueIsWaiters /\ NoLostWakeup
  BY DEF IInv
<1>2. t \in Holders
  BY DEF UnlockSlow, Holders, Holding
<1>3. Holders = {t}
  BY <1>1, <1>2 DEF CountInv
<1>4. /\ pc' = [pc EXCEPT ![t] = "wake"] /\ pc[t] = "slow" /\ count' = 1
      /\ lock = None /\ lock' = t
      /\ UNCHANGED <<wait_list, owner, seen, tstate, sig, mode>>
  BY DEF UnlockSlow, Goto
<1>5. Holders' = {}
  BY <1>1, <1>3, <1>4, HoldersMove DEF Holding
<1>6. CountInv'
  BY <1>4, <1>5 DEF CountInv
<1>7. Falls(t, "wake") /\ Raises(t, "wake") /\ Leaves(t, "wake")
  BY <1>4 DEF Falls, Raises, Leaves, Holding
<1>8. SpinInv'
  BY <1>1, <1>4, <1>7, SpinMove
<1>9. LockInv'
  BY <1>1, <1>4, LockMove
<1>10. QueueIsWaiters'
  BY <1>1, <1>4, QueueMove DEF Queued
<1>11. DoneInv'
  BY <1>1, <1>4, <1>7, DoneMove
<1>12. NoLostWakeup'
  BY <1>1, <1>4, <1>7, WakeMove DEF Queued
<1>13. OwnerIsHolder'
  BY <1>1, <1>4, OwnerMove
<1>14. Types'
  BY <1>1, <1>4 DEF Types, PC
<1> QED
  BY <1>6, <1>8, <1>9, <1>10, <1>11, <1>12, <1>13, <1>14 DEF IInv

\* ... and wakes the first waiter, who is then on the alert.
LEMMA WakeFirstIInv ==
  ASSUME IInv, NEW t \in Tasks, WakeFirst(t)
  PROVE  IInv'
<1>1. Types /\ LockInv /\ CountInv /\ DoneInv /\ SpinInv /\ OwnerIsHolder
      /\ QueueIsWaiters /\ NoLostWakeup
  BY DEF IInv
<1>2. /\ pc' = [pc EXCEPT ![t] = "idle"] /\ pc[t] = "wake" /\ lock' = None
      /\ UNCHANGED <<count, wait_list, owner, seen, sig, mode>>
      /\ t \notin Spinners /\ count \in Int
  BY <1>1 DEF WakeFirst, Goto, Spinners, Types
<1>3. lock = t
  BY <1>1, <1>2 DEF LockInv
<1>4. Holders' = Holders
  BY <1>1, <1>2, HoldersMove DEF Holders, Holding
<1>5. CountInv'
  BY <1>1, <1>2, <1>4 DEF CountInv
<1>6. Falls(t, "idle") /\ Raises(t, "idle")
  BY <1>2 DEF Falls, Raises
<1>7. SpinInv'
  BY <1>1, <1>2, <1>6, SpinMove
<1>8. LockInv'
  BY <1>1, <1>2, <1>3, LockMove
<1>9. QueueIsWaiters'
  BY <1>1, <1>2, QueueMove DEF Queued
<1>10. DoneInv'
  BY <1>1, <1>2, <1>6, DoneMove
<1>11. NoLostWakeup'
  <2> SUFFICES ASSUME ~list_empty(wait_list)
               PROVE  \E u \in Elems(wait_list) : Alert(u)'
    BY <1>2 DEF NoLostWakeup
  <2>1. /\ list_first_entry(wait_list) \in Elems(wait_list)
        /\ Elems(wait_list) \subseteq Tasks
    BY <1>1, First DEF Types
  <2>2. PICK u \in Elems(wait_list) : tstate' = [tstate EXCEPT ![u] = "RUNNING"]
    BY <2>1 DEF WakeFirst, wake_up_process
  <2>3. tstate'[u] = "RUNNING"
    BY <1>1, <2>1, <2>2 DEF Types
  <2>4. pc'[u] \in Queued
    BY <1>1, <1>2, <1>9, <2>1 DEF QueueIsWaiters
  <2>5. Alert(u)'
    BY <2>3, <2>4 DEF Alert, Queued
  <2> QED
    BY <2>2, <2>5
<1>12. OwnerIsHolder'
  BY <1>1, <1>2, OwnerMove
<1>13. tstate' \in [Tasks -> TaskState]
  BY <1>1 DEF WakeFirst, wake_up_process, Types, TaskState
<1>14. Types'
  BY <1>1, <1>2, <1>13 DEF Types, PC
<1> QED
  BY <1>5, <1>7, <1>8, <1>9, <1>10, <1>11, <1>12, <1>14 DEF IInv

-----------------------------------------------------------------------------
\* The xchg(count, -1) of a task that is queued, or queues itself, with
\* wait_lock held: it leaves "done" with the mutex it found free, or the mutex
\* with whoever holds it.
LEMMA XchgIInv ==
  ASSUME IInv, NEW t \in Tasks, NEW to \in PC, pc' = [pc EXCEPT ![t] = to],
         pc[t] \in {"queue", "loop", "awake"},
         count' = -1, UNCHANGED <<owner, seen, sig>>,
         to \in {"done", "loop", "idle", "sched"},
         count = 1 <=> to = "done",
         lock \in {None, t},
         lock' = IF to \in {"done", "loop"} THEN t ELSE None,
         IsWaitList(wait_list, Tasks)', QueueIsWaiters',
         tstate' \in [Tasks -> TaskState], mode' \in [Tasks -> SleepState]
  PROVE  IInv'
<1>1. Types /\ LockInv /\ CountInv /\ DoneInv /\ SpinInv /\ OwnerIsHolder
  BY DEF IInv
<1>2. CountInv'
  <2>1. Holders' = IF to = "done" THEN Holders \cup {t} ELSE Holders
    BY <1>1, HoldersMove DEF Holding, Holders
  <2> QED
    BY <1>1, <2>1 DEF CountInv
<1>3. Falls(t, to) /\ Raises(t, to)
  BY DEF Falls, Raises
<1>4. SpinInv'
  BY <1>1, <1>3, SpinMove
<1>5. LockInv'
  BY <1>1, LockMove
<1>6. DoneInv'
  BY <1>1, <1>3, DoneMove
<1>7. NoLostWakeup'
  BY DEF NoLostWakeup
<1>8. OwnerIsHolder'
  BY <1>1, OwnerMove
<1>9. Types'
  BY <1>1 DEF Types
<1> QED
  BY <1>2, <1>4, <1>5, <1>6, <1>7, <1>8, <1>9 DEF IInv

\* Queueing.
LEMMA EnqueueIInv ==
  ASSUME IInv, NEW t \in Tasks, Enqueue(t)
  PROVE  IInv'
<1>1. Types /\ QueueIsWaiters
  BY DEF IInv
<1>2. PICK to \in {"done", "loop"} :
        /\ pc' = [pc EXCEPT ![t] = to] /\ (count = 1 <=> to = "done")
        /\ pc[t] = "queue" /\ lock = None /\ lock' = t /\ count' = -1
        /\ wait_list' = list_add_tail(wait_list, t)
        /\ UNCHANGED <<owner, seen, tstate, sig, mode>>
  BY DEF Enqueue, Goto
<1>3. t \notin Elems(wait_list)
  BY <1>1, <1>2 DEF QueueIsWaiters, Queued
<1>4. /\ IsWaitList(wait_list, Tasks)'
      /\ Elems(wait_list') = Elems(wait_list) \cup {t}
  BY <1>1, <1>2, <1>3, AddTail DEF Types
<1>5. QueueIsWaiters'
  <2>1. \A u \in Tasks : pc'[u] = IF u = t THEN to ELSE pc[u]
    BY <1>1, <1>2 DEF Types
  <2> QED
    BY <1>1, <1>4, <2>1 DEF QueueIsWaiters, Queued
<1>6. to \in PC
  BY DEF PC, Queued
<1> QED
  BY <1>1, <1>2, <1>4, <1>5, <1>6, XchgIInv DEF Types

\* A turn of the wait loop.
LEMMA WaitLoopIInv ==
  ASSUME IInv, NEW t \in Tasks, WaitLoop(t)
  PROVE  IInv'
<1>1. Types /\ QueueIsWaiters /\ LockInv
  BY DEF IInv
<1>2. /\ pc[t] \in {"loop", "awake"} /\ lock \in {None, t} /\ count' = -1
      /\ UNCHANGED <<owner, seen, sig>>
  BY <1>1 DEF WaitLoop, LockInv
<1>3. t \in Elems(wait_list)
  BY <1>1, <1>2 DEF QueueIsWaiters, Queued
<1>4. CASE wait_list' = wait_list
  <2>1. PICK to \in {"done", "sched"} :
          /\ pc' = [pc EXCEPT ![t] = to] /\ (count = 1 <=> to = "done")
          /\ lock' = IF to = "done" THEN t ELSE None
          /\ mode' = mode
          /\ tstate' \in [Tasks -> TaskState]
    <3>1. CASE count = 1
      BY <1>1, <3>1 DEF WaitLoop, Goto, Types
    <3>2. CASE count # 1 /\ ~signal_pending_state(mode[t], sig[t])
      BY <1>1, <3>2 DEF WaitLoop, Goto, Types, TaskState
    <3>3. CASE count # 1 /\ signal_pending_state(mode[t], sig[t])
      <4>1. wait_list' = list_del(wait_list, t)
        BY <3>3 DEF WaitLoop
      <4>2. Elems(wait_list') = Elems(wait_list) \ {t}
        BY <1>1, <1>3, <4>1, Del DEF Types
      <4> QED
        BY <1>3, <1>4, <4>2
    <3> QED
      BY <3>1, <3>2, <3>3
  <2>2. QueueIsWaiters'
    BY <1>1, <1>2, <1>4, <2>1, QueueMove DEF Queued
  <2>3. to \in PC /\ IsWaitList(wait_list, Tasks)'
    BY <1>1, <1>4 DEF PC, Queued, Types
  <2> QED
    BY <1>1, <1>2, <2>1, <2>2, <2>3, XchgIInv DEF Types
<1>5. CASE wait_list' # wait_list
  <2>1. /\ pc' = [pc EXCEPT ![t] = "idle"] /\ count # 1
        /\ lock' = None
        /\ mode' \in [Tasks -> SleepState] /\ tstate' = tstate
        /\ wait_list' = list_del(wait_list, t)
    BY <1>1, <1>5 DEF WaitLoop, Goto, Types, SleepState
  <2>2. /\ IsWaitList(wait_list, Tasks)'
        /\ Elems(wait_list') = Elems(wait_list) \ {t}
    BY <1>1, <1>3, <2>1, Del DEF Types
  <2>3. QueueIsWaiters'
    <3>1. \A u \in Tasks : pc'[u] = IF u = t THEN "idle" ELSE pc[u]
      BY <1>1, <2>1 DEF Types
    <3> QED
      BY <1>1, <2>2, <3>1 DEF QueueIsWaiters, Queued
  <2>4. "idle" \in PC
    BY DEF PC
  <2> QED
    BY <1>1, <1>2, <2>1, <2>2, <2>3, <2>4, XchgIInv DEF Types
<1> QED
  BY <1>4, <1>5

\* schedule() and the way back from it: a woken waiter stays on the alert.
LEMMA SleepIInv ==
  ASSUME IInv, NEW t \in Tasks, Schedule(t) \/ Resume(t)
  PROVE  IInv'
<1>1. Types /\ LockInv /\ CountInv /\ DoneInv /\ SpinInv /\ OwnerIsHolder
      /\ QueueIsWaiters /\ NoLostWakeup
  BY DEF IInv
<1>2. PICK to \in {"awake", "asleep"} :
        /\ pc' = [pc EXCEPT ![t] = to] /\ pc[t] \in {"sched", "asleep"}
        /\ tstate[t] = "RUNNING" => to = "awake"
        /\ tstate' \in [Tasks -> TaskState]
        /\ \A u \in Tasks \ {t} : tstate'[u] = tstate[u]
        /\ UNCHANGED <<count, lock, wait_list, owner, seen, sig, mode>>
  <2>1. CASE Schedule(t)
    <3> DEFINE st == schedule_state(tstate[t], sig[t])
    <3>1. st \in TaskState /\ (tstate[t] = "RUNNING" => st = "RUNNING")
      BY <1>1 DEF schedule_state, Types, TaskState
    <3>2. tstate' = [tstate EXCEPT ![t] = st]
      BY <2>1 DEF Schedule
    <3> HIDE DEF st
    <3>3. tstate'[t] = st /\ tstate' \in [Tasks -> TaskState]
          /\ \A u \in Tasks \ {t} : tstate'[u] = tstate[u]
      BY <1>1, <3>1, <3>2 DEF Types
    <3> QED
      BY <2>1, <3>1, <3>3 DEF Schedule, Goto
  <2>2. CASE Resume(t)
    BY <1>1, <2>2 DEF Resume, Goto, Types
  <2> QED
    BY <2>1, <2>2
<1>3. Holders' = Holders
  BY <1>1, <1>2, HoldersMove DEF Holders, Holding
<1>4. CountInv'
  BY <1>1, <1>2, <1>3 DEF CountInv
<1>5. count \in Int /\ t \notin Spinners
  BY <1>1, <1>2 DEF Types, Spinners
<1>6. Falls(t, to) /\ Raises(t, to)
  BY <1>2, <1>5 DEF Falls, Raises
<1>7. SpinInv'
  BY <1>1, <1>2, <1>6, SpinMove
<1>8. LockInv'
  BY <1>1, <1>2, LockMove
<1>9. QueueIsWaiters'
  BY <1>1, <1>2, QueueMove DEF Queued
<1>10. DoneInv'
  BY <1>1, <1>2, <1>6, DoneMove
<1>11. OwnerIsHolder'
  BY <1>1, <1>2, OwnerMove
<1>12. NoLostWakeup'
  <2>1. \A u \in Tasks : pc'[u] = IF u = t THEN to ELSE pc[u]
    BY <1>1, <1>2 DEF Types
  <2>2. \A u \in Tasks : Alert(u) => Alert(u)'
    BY <1>2, <2>1 DEF Alert
  <2>3. \A u \in Tasks : pc[u] \in {"slow", "wake"} => pc'[u] \in {"slow", "wake"}
    BY <1>2, <2>1
  <2>4. Elems(wait_list) \subseteq Tasks
    BY <1>1 DEF QueueIsWaiters
  <2> QED
    BY <1>1, <1>2, <2>2, <2>3, <2>4 DEF NoLostWakeup
<1>13. Types'
  BY <1>1, <1>2 DEF Types, PC, Queued
<1> QED
  BY <1>4, <1>7, <1>8, <1>9, <1>10, <1>11, <1>12, <1>13 DEF IInv

\* The slow path in, done: the count says 0 only if nobody is left queued.
LEMMA DoneIInv ==
  ASSUME IInv, NEW t \in Tasks, Done(t)
  PROVE  IInv'
<1>1. Types /\ LockInv /\ CountInv /\ DoneInv /\ SpinInv /\ OwnerIsHolder
      /\ QueueIsWaiters /\ NoLostWakeup
  BY DEF IInv
<1>2. /\ pc' = [pc EXCEPT ![t] = "got"] /\ pc[t] = "done"
      /\ wait_list' = list_del(wait_list, t) /\ owner' = t /\ lock' = None
      /\ count' = IF list_empty(wait_list') THEN 0 ELSE count
      /\ UNCHANGED <<seen, tstate, sig, mode>>
  BY DEF Done, mutex_set_owner, Goto
<1>3. /\ t \in Elems(wait_list) /\ t \in Holders /\ t \notin Spinners
      /\ lock = t /\ count < 0 /\ count \in Int
  BY <1>1, <1>2 DEF QueueIsWaiters, Queued, Holders, Holding, Spinners,
                    LockInv, DoneInv, Types
<1>4. /\ IsWaitList(wait_list, Tasks)'
      /\ Elems(wait_list') = Elems(wait_list) \ {t}
  BY <1>1, <1>2, <1>3, Del DEF Types
<1>5. QueueIsWaiters'
  <2>1. \A u \in Tasks : pc'[u] = IF u = t THEN "got" ELSE pc[u]
    BY <1>1, <1>2 DEF Types
  <2> QED
    BY <1>1, <1>4, <2>1 DEF QueueIsWaiters, Queued
<1>6. count' \in Int /\ count' <= 0 /\ count' >= count
  BY <1>2, <1>3
<1>7. CountInv'
  <2>1. Holders' = Holders
    <3>1. Holders' = Holders \cup {t}
      BY <1>1, <1>2, HoldersMove DEF Holding
    <3> QED
      BY <1>3, <3>1
  <2> QED
    BY <1>1, <1>3, <1>6, <2>1 DEF CountInv
<1>8. Falls(t, "got") /\ Raises(t, "got")
  BY <1>2, <1>3, <1>6 DEF Falls, Raises, Holding
<1>9. SpinInv'
  BY <1>1, <1>2, <1>8, SpinMove
<1>10. LockInv'
  BY <1>1, <1>2, <1>3, LockMove
<1>11. DoneInv'
  BY <1>1, <1>2, <1>8, DoneMove
<1>12. NoLostWakeup'
  BY <1>2, <1>3 DEF NoLostWakeup
<1>13. OwnerIsHolder'
  BY <1>1, <1>2 DEF OwnerIsHolder, Types
<1>14. Types'
  BY <1>1, <1>2, <1>4, <1>6 DEF Types, PC, Holding
<1> QED
  BY <1>5, <1>7, <1>9, <1>10, <1>11, <1>12, <1>13, <1>14 DEF IInv

\* Signals and stray wake-ups change nothing but the states of tasks, and
\* never put one to sleep.
LEMMA EnvironmentIInv ==
  ASSUME IInv,
         UNCHANGED <<count, lock, wait_list, owner, seen, mode, pc>>,
         tstate' \in [Tasks -> TaskState], sig' \in [Tasks -> Signal],
         \A u \in Tasks : tstate[u] = "RUNNING" => tstate'[u] = "RUNNING"
  PROVE  IInv'
<1>1. Types /\ LockInv /\ CountInv /\ DoneInv /\ SpinInv /\ OwnerIsHolder
      /\ QueueIsWaiters /\ NoLostWakeup
  BY DEF IInv
<1>2. Holders' = Holders /\ Spinners' = Spinners
  BY DEF Holders, Spinners
<1>3. CountInv' /\ SpinInv'
  BY <1>1, <1>2 DEF CountInv, SpinInv
<1>4. LockInv' /\ DoneInv' /\ OwnerIsHolder' /\ QueueIsWaiters'
  BY <1>1 DEF LockInv, DoneInv, OwnerIsHolder, QueueIsWaiters
<1>5. NoLostWakeup'
  <2>1. Elems(wait_list) \subseteq Tasks
    BY <1>1 DEF QueueIsWaiters
  <2>2. \A u \in Tasks : Alert(u) => Alert(u)'
    BY DEF Alert
  <2> QED
    BY <1>1, <2>1, <2>2 DEF NoLostWakeup
<1>6. Types'
  BY <1>1 DEF Types
<1> QED
  BY <1>3, <1>4, <1>5, <1>6 DEF IInv

\* Every step keeps the invariant.
LEMMA NextIInv == IInv /\ [Next]_vars => IInv'
<1> SUFFICES ASSUME IInv, [Next]_vars PROVE IInv'
  OBVIOUS
<1>1. Types
  BY DEF IInv
<1>2. CASE UNCHANGED vars
  BY <1>1, <1>2, EnvironmentIInv DEF vars, Types
<1>3. ASSUME NEW t \in Tasks, TaskNext(t)
      PROVE  IInv'
  BY <1>3, LocklessIInv, EnqueueIInv, WaitLoopIInv, SleepIInv, DoneIInv,
     UnlockFastIInv, UnlockSlowIInv, WakeFirstIInv
  DEF TaskNext, MutexLock, MutexLockInterruptible, MutexLockKillable, SleepState
<1>4. ASSUME NEW t \in Tasks, Environment(t)
      PROVE  IInv'
  <2>1. ASSUME NEW s \in Signal, SendSignal(t, s)
        PROVE  IInv'
    <3> DEFINE st == signal_wake_up(tstate[t], s)
    <3>1. st \in TaskState /\ (tstate[t] = "RUNNING" => st = "RUNNING")
      BY <1>1 DEF signal_wake_up, Types, TaskState
    <3>2. tstate' = [tstate EXCEPT ![t] = st]
          /\ sig' = [sig EXCEPT ![t] = s]
          /\ UNCHANGED <<count, lock, wait_list, owner, seen, mode, pc>>
      BY <2>1 DEF SendSignal
    <3> HIDE DEF st
    <3>3. /\ tstate' \in [Tasks -> TaskState] /\ sig' \in [Tasks -> Signal]
          /\ \A u \in Tasks : tstate[u] = "RUNNING" => tstate'[u] = "RUNNING"
      BY <1>1, <3>1, <3>2 DEF Types
    <3> QED
      BY <3>2, <3>3, EnvironmentIInv
  <2>2. CASE HandleSignal(t)
    BY <1>1, <2>2, EnvironmentIInv DEF HandleSignal, Types, Signal
  <2>3. CASE StrayWakeup(t)
    <3>1. /\ tstate' \in [Tasks -> TaskState]
          /\ \A u \in Tasks : tstate[u] = "RUNNING" => tstate'[u] = "RUNNING"
          /\ UNCHANGED <<count, lock, wait_list, owner, seen, sig, mode, pc>>
      BY <1>1, <2>3 DEF StrayWakeup, wake_up_process, Types, TaskState
    <3> QED
      BY <1>1, <3>1, EnvironmentIInv DEF Types
  <2> QED
    BY <1>4, <2>1, <2>2, <2>3 DEF Environment
<1> QED
  BY <1>2, <1>3, <1>4 DEF Next

\* The inductive invariant holds in every reachable state.
THEOREM Invariance == Spec => []IInv
<1> QED
  BY InitIInv, NextIInv, PTL DEF Spec

-----------------------------------------------------------------------------
\* Whatever the fast paths, the spinners and the waiters do to the count
\* without a common lock, at most one task is inside the mutex.
THEOREM Exclusive == Spec => []MutualExclusion
<1>1. IInv => MutualExclusion
  BY DEF IInv, CountInv, MutualExclusion
<1> QED
  BY <1>1, Invariance, PTL

\* lock->owner never outlives the critical section it names, and the wait list
\* is exactly the set of tasks whose waiter is on a live stack frame.
THEOREM OwnerAndQueue == Spec => [](OwnerIsHolder /\ QueueIsWaiters)
<1>1. IInv => OwnerIsHolder /\ QueueIsWaiters
  BY DEF IInv
<1> QED
  BY <1>1, Invariance, PTL

\* No waiter is forgotten, although a barger sets the count to 0 over a queue.
THEOREM NoWaiterForgotten == Spec => []NoLostWakeup
<1>1. IInv => NoLostWakeup
  BY DEF IInv
<1> QED
  BY <1>1, Invariance, PTL

\* The count stays within one decrement for each task: the xchg(count, -1) of
\* the slow path throws away what the spinners took off.
THEOREM CountBounded == Spec => []TypeOK
<1>1. IInv => TypeOK
  <2> SUFFICES ASSUME IInv PROVE TypeOK
    OBVIOUS
  <2>1. Types /\ CountInv /\ SpinInv
    BY DEF IInv
  <2> DEFINE n == Cardinality(Spinners)
             N == Cardinality(Tasks)
  <2>2. N \in Nat /\ n \in Nat
    BY MutexAssumption, SpinnersFinite, FS_CardinalityType
  <2>3. CASE count <= 0 /\ \E h \in Tasks : Holders = {h}
    <3>1. PICK h \in Tasks : Holders = {h}
      BY <2>3
    <3>2. h \notin Spinners
      BY <3>1 DEF Holders, Holding, Spinners
    <3>3. Cardinality(Spinners \cup {h}) = n + 1
      BY <3>2, SpinnersFinite, FS_AddElement
    <3>4. Spinners \cup {h} \subseteq Tasks
      BY SpinnersFinite
    <3>5. Cardinality(Spinners \cup {h}) <= N
      BY <3>4, MutexAssumption, FS_Subset
    <3>6. count >= -1 - n /\ count \in Int
      BY <2>1 DEF SpinInv, Types
    <3> HIDE DEF n, N
    <3>7. count \in -N .. 1
      BY <2>2, <2>3, <3>3, <3>5, <3>6
    <3> QED
      BY <2>1, <3>7 DEF TypeOK, Types, N
  <2>4. CASE count = 1
    <3>1. count \in -N .. 1
      BY <2>2, <2>4
    <3> QED
      BY <2>1, <3>1 DEF TypeOK, Types
  <2> QED
    BY <2>1, <2>3, <2>4 DEF CountInv
<1> QED
  BY <1>1, Invariance, PTL

\* The only unit is either available or held.
LEMMA OneUnit ==
  ASSUME NEW c, NEW H,
         \/ c = 1 /\ H = {}
         \/ c <= 0 /\ \E h \in Tasks : H = {h}
  PROVE  \/ c = 1 /\ Cardinality(H) = 0
         \/ c # 1 /\ Cardinality(H) = 1
<1>1. CASE c = 1 /\ H = {}
  BY <1>1, FS_EmptySet
<1>2. CASE c <= 0 /\ \E h \in Tasks : H = {h}
  <2>1. c # 1
    BY <1>2
  <2> QED
    BY <1>2, <2>1, FS_Singleton
<1> QED
  BY <1>1, <1>2

\* Every step of the mutex acquires or releases the unit of a semaphore that
\* has one, or does not touch it; no step of a waiter, a spinner or a signal
\* makes a second unit or loses the only one.
THEOREM Refinement == Spec => ImplementsSemaphore
<1>1. Init => AbsSem!Init
  <2> SUFFICES ASSUME Init
               PROVE  /\ (IF count = 1 THEN 1 ELSE 0) = 1
                      /\ Cardinality(Holders) = 0
    BY DEF AbsSem!Init
  <2>1. Holders = {}
    BY DEF Init, Holders, Holding
  <2> QED
    BY <2>1, FS_EmptySet DEF Init
<1>2. IInv /\ IInv' => [AbsSem!Next]_(AbsSem!vars)
  <2> SUFFICES ASSUME CountInv, CountInv'
               PROVE  [AbsSem!Next]_(AbsSem!vars)
    BY DEF IInv
  <2> DEFINE a == IF count = 1 THEN 1 ELSE 0
             h == Cardinality(Holders)
  <2>1. (a = 1 /\ h = 0) \/ (a = 0 /\ h = 1)
    BY OneUnit DEF CountInv
  <2>2. (a' = 1 /\ h' = 0) \/ (a' = 0 /\ h' = 1)
    BY OneUnit DEF CountInv
  <2> HIDE DEF a, h
  <2>3. \/ a > 0 /\ a' = a - 1 /\ h' = h + 1
        \/ h > 0 /\ a' = a + 1 /\ h' = h - 1
        \/ a' = a /\ h' = h
    BY <2>1, <2>2
  <2> QED
    BY <2>3 DEF a, h, AbsSem!Next, AbsSem!Acquire, AbsSem!Release, AbsSem!vars
<1> QED
  BY <1>1, <1>2, Invariance, PTL DEF Spec, ImplementsSemaphore, AbsSem!Spec

\* The wait list of the mutex is exactly the live waiters.
THEOREM QueueCorrect == Spec => []QueueIsWaiters
BY OwnerAndQueue, PTL

-----------------------------------------------------------------------------
(* fsnotify groups: the client of atomic_dec_and_mutex_lock().             *)

\* Who has a reference to group x, and who is dropping one.
RefHolders(x) == {t \in Owners : hold[t] = x}
Putters(x) == {t \in Owners : g[t] = x /\ gpc[t] \in {"find", "put", "lock"}}

\* What num_marks counts: the marks of x, the tasks that have detached one and
\* are about to count it off, the task that destroys x, and the list itself.
MarksOf(x) == {m \in Marks : group[m] = x}
Droppers(x) == {t \in Owners : mg[t] = x}
Destroyers(x) == {t \in Owners : g[t] = x /\ gpc[t] \in {"sync", "clear", "marks"}}

GTypes ==
  /\ refcnt \in [Groups -> Int] /\ num_marks \in [Groups -> Int]
  /\ frees \in [Groups -> Int]
  /\ used \subseteq Groups /\ listed \subseteq used /\ fsnotify_groups \subseteq listed
  /\ gpc \in [Owners -> {"idle", "find", "put", "lock", "sync", "clear", "marks", "read"}]
  /\ hold \in [Owners -> listed \cup {None}]
  /\ g \in [Owners -> used \cup {None}]
  /\ mg \in [Owners -> listed \cup {None}]
  /\ cur \in [Owners -> listed \cup {None}]
  /\ todo \in [Owners -> SUBSET Marks] /\ wait \in [Owners -> SUBSET Owners]
  /\ group \in [Marks -> listed \cup {None}]
  /\ g_list \subseteq Marks /\ i_list \subseteq Marks

\* What a task has in hand at each point of the code.
PlaceInv ==
  \A t \in Owners :
    /\ gpc[t] \in {"find", "put", "lock", "sync"} => g[t] # None
    /\ gpc[t] = "find" => hold[t] = None
    /\ gpc[t] \in {"idle", "read"} => g[t] = None
    /\ mg[t] # None => gpc[t] = "marks"
    /\ gpc[t] = "marks" => mg[t] # None
    /\ cur[t] # None => gpc[t] = "read"
    /\ todo[t] # {} => gpc[t] \in {"clear", "marks"}

\* A group is its maker's alone until it goes on the list.
NewInv ==
  /\ \A t \in Owners : gpc[t] = "find" =>
       /\ g[t] \notin listed /\ num_marks[g[t]] = 0
       /\ \A s \in Owners : s # t => g[s] # g[t]
  /\ \A x \in Groups : x \notin used => num_marks[x] = 0

\* The reference count counts the references, and a group that was on the list
\* is on it exactly as long as there is one.
RefInv ==
  \A x \in Groups :
    /\ refcnt[x] = Cardinality(RefHolders(x)) + Cardinality(Putters(x))
    /\ x \in listed => (x \in fsnotify_groups <=> refcnt[x] > 0)

\* num_marks counts what keeps a group, and the group is freed when it gets to 0.
\* A group that never was on the list is never freed: its count starts at 0.
NumMarksInv ==
  \A x \in Groups :
    /\ x \in listed =>
         num_marks[x] = Cardinality(MarksOf(x)) + Cardinality(Droppers(x))
                          + Cardinality(Destroyers(x))
                          + (IF x \in fsnotify_groups THEN 1 ELSE 0)
    /\ x \notin listed => num_marks[x] <= 0
    /\ frees[x] = IF x \in listed /\ num_marks[x] = 0 THEN 1 ELSE 0

\* A mark that is attached is on its group's list until somebody has it on a
\* free_list, and a mark on its group's list is found by the group's end.
MarkInv ==
  \A m \in Marks :
    /\ m \in g_list =>
         /\ group[m] # None
         /\ \/ group[m] \in fsnotify_groups
            \/ \E t \in Owners : gpc[t] = "sync" /\ g[t] = group[m]
    /\ group[m] # None => m \in g_list \/ \E t \in Owners : m \in todo[t]

\* A group that an event has come to is on the list, or its end waits for the
\* event.
WalkInv ==
  \A t \in Owners : cur[t] # None =>
    \/ cur[t] \in fsnotify_groups
    \/ \E s \in Owners : gpc[s] = "sync" /\ g[s] = cur[t] /\ t \in wait[s]

GInv ==
  /\ GTypes
  /\ PlaceInv
  /\ NewInv
  /\ RefInv
  /\ NumMarksInv
  /\ MarkInv
  /\ WalkInv

-----------------------------------------------------------------------------
\* The sets that the counters count are finite; one more or fewer counts one.
LEMMA CountsAreNat ==
  ASSUME NEW x
  PROVE  /\ IsFiniteSet(RefHolders(x)) /\ Cardinality(RefHolders(x)) \in Nat
         /\ IsFiniteSet(Putters(x)) /\ Cardinality(Putters(x)) \in Nat
         /\ IsFiniteSet(MarksOf(x)) /\ Cardinality(MarksOf(x)) \in Nat
         /\ IsFiniteSet(Droppers(x)) /\ Cardinality(Droppers(x)) \in Nat
         /\ IsFiniteSet(Destroyers(x)) /\ Cardinality(Destroyers(x)) \in Nat
<1>1. /\ RefHolders(x) \subseteq Owners /\ Putters(x) \subseteq Owners
      /\ Droppers(x) \subseteq Owners /\ Destroyers(x) \subseteq Owners
      /\ MarksOf(x) \subseteq Marks
  BY DEF RefHolders, Putters, MarksOf, Droppers, Destroyers
<1>2. IsFiniteSet(Owners) /\ IsFiniteSet(Marks)
  BY FsnotifyAssumption
<1> QED
  BY <1>1, <1>2, FS_Subset, FS_CardinalityType

LEMMA OneMore ==
  ASSUME NEW A, IsFiniteSet(A), NEW e, e \notin A, NEW B, B = A \cup {e}
  PROVE  Cardinality(B) = Cardinality(A) + 1
BY FS_AddElement

LEMMA OneFewer ==
  ASSUME NEW A, IsFiniteSet(A), NEW e, e \in A, NEW B, B = A \ {e}
  PROVE  Cardinality(B) = Cardinality(A) - 1 /\ Cardinality(A) > 0
<1>1. Cardinality(B) = Cardinality(A) - 1
  BY FS_RemoveElement
<1>2. Cardinality(A) \in Nat /\ Cardinality(A) # 0
  BY FS_CardinalityType, FS_EmptySet
<1> QED
  BY <1>1, <1>2

\* No group is allocated yet.
LEMMA InitGInv == G!Init => GInv
<1> SUFFICES ASSUME G!Init PROVE GInv
  OBVIOUS
<1>1. \A x \in Groups : /\ RefHolders(x) = {} /\ Putters(x) = {}
                        /\ MarksOf(x) = {} /\ Droppers(x) = {} /\ Destroyers(x) = {}
  BY FsnotifyAssumption
  DEF G!FsnotifyAssumption, G!Init, RefHolders, Putters, MarksOf, Droppers, Destroyers
<1>2. GTypes /\ PlaceInv /\ NewInv /\ MarkInv /\ WalkInv
  BY DEF G!Init, GTypes, PlaceInv, NewInv, MarkInv, WalkInv
<1>3. RefInv
  BY <1>1, FS_EmptySet DEF G!Init, RefInv
<1>4. NumMarksInv
  BY <1>1, FS_EmptySet DEF G!Init, NumMarksInv
<1> QED
  BY <1>2, <1>3, <1>4 DEF GInv

-----------------------------------------------------------------------------
\* A new group has one reference, its maker's.
LEMMA ObtainStep ==
  ASSUME NEW t \in Owners, GInv, G!Obtain(t)
  PROVE  GInv'
<1> USE FsnotifyAssumption DEF G!FsnotifyAssumption
<1>1. PICK x \in Groups \ used :
         /\ used' = used \cup {x}
         /\ refcnt' = [refcnt EXCEPT ![x] = 1]
         /\ g' = [g EXCEPT ![t] = x]
  BY DEF G!Obtain
<1>2. /\ gpc[t] = "idle" /\ hold[t] = None /\ gpc' = [gpc EXCEPT ![t] = "find"]
      /\ UNCHANGED <<num_marks, frees, fsnotify_groups, listed, hold, mg, todo, cur, wait,
                     group, g_list, i_list>>
  BY DEF G!Obtain, G!Goto, G!mvars
<1>3. GTypes /\ PlaceInv /\ NewInv
  BY DEF GInv
<1>4. \A y \in Groups : /\ RefHolders(y)' = RefHolders(y)
                        /\ MarksOf(y)' = MarksOf(y)
                        /\ Droppers(y)' = Droppers(y)
                        /\ Destroyers(y)' = Destroyers(y)
                        /\ y # x => Putters(y)' = Putters(y)
  BY <1>1, <1>2, <1>3
  DEF GTypes, PlaceInv, RefHolders, Putters, MarksOf, Droppers, Destroyers
<1>5. RefHolders(x) = {} /\ Putters(x)' = {t}
  BY <1>1, <1>2, <1>3 DEF GTypes, RefHolders, Putters
<1>6. GTypes'
  BY <1>1, <1>2, <1>3 DEF GTypes
<1>7. PlaceInv'
  BY <1>1, <1>2, <1>3 DEF GTypes, PlaceInv
<1>8. NewInv'
  BY <1>1, <1>2, <1>3 DEF GTypes, PlaceInv, NewInv
<1>9. RefInv'
  <2> SUFFICES ASSUME NEW y \in Groups
               PROVE  /\ refcnt'[y] = Cardinality(RefHolders(y)') + Cardinality(Putters(y)')
                      /\ y \in listed' => (y \in fsnotify_groups' <=> refcnt'[y] > 0)
    BY DEF RefInv
  <2>1. CASE y = x
    <3>1. Cardinality(RefHolders(x)') = 0 /\ Cardinality(Putters(x)') = 1
      BY <1>4, <1>5, FS_EmptySet, FS_Singleton
    <3>2. refcnt'[x] = 1 /\ x \notin listed'
      BY <1>1, <1>2, <1>3 DEF GTypes
    <3> QED
      BY <2>1, <3>1, <3>2
  <2>2. CASE y # x
    BY <1>1, <1>2, <1>4, <2>2 DEF GInv, GTypes, RefInv
  <2> QED
    BY <2>1, <2>2
<1>10. NumMarksInv'
  BY <1>2, <1>4 DEF GInv, NumMarksInv
<1>11. MarkInv'
  BY <1>1, <1>2, <1>3 DEF GInv, GTypes, MarkInv
<1>12. WalkInv'
  BY <1>1, <1>2, <1>3 DEF GInv, GTypes, WalkInv
<1> QED
  BY <1>6, <1>7, <1>8, <1>9, <1>10, <1>11, <1>12 DEF GInv

\* A reference to a group that is on the list is one more.
LEMMA FindOldStep ==
  ASSUME NEW t \in Owners, GInv, G!Find(t), fsnotify_groups # {}
  PROVE  GInv'
<1> USE FsnotifyAssumption DEF G!FsnotifyAssumption
<1>1. PICK x \in fsnotify_groups :
         /\ refcnt' = [refcnt EXCEPT ![x] = @ + 1]
         /\ hold' = [hold EXCEPT ![t] = x]
         /\ gpc' = [gpc EXCEPT ![t] = "put"]
         /\ UNCHANGED <<num_marks, fsnotify_groups, listed, g>>
  BY DEF G!Find, G!Goto
<1>2. gpc[t] = "find" /\ UNCHANGED <<frees, used, mg, todo, cur, wait, group, g_list, i_list>>
  BY DEF G!Find, G!mvars
<1>3. GTypes /\ PlaceInv /\ NewInv
  BY DEF GInv
<1>4. \A y \in Groups : /\ MarksOf(y)' = MarksOf(y)
                        /\ Droppers(y)' = Droppers(y)
                        /\ Destroyers(y)' = Destroyers(y)
                        /\ Putters(y)' = Putters(y)
                        /\ y # x => RefHolders(y)' = RefHolders(y)
  BY <1>1, <1>2, <1>3
  DEF GTypes, PlaceInv, RefHolders, Putters, MarksOf, Droppers, Destroyers
<1>5. t \notin RefHolders(x) /\ RefHolders(x)' = RefHolders(x) \cup {t}
  BY <1>1, <1>2, <1>3 DEF GTypes, PlaceInv, RefHolders
<1>6. GTypes' /\ PlaceInv' /\ NewInv'
  BY <1>1, <1>2, <1>3 DEF GTypes, PlaceInv, NewInv
<1>7. RefInv'
  <2> SUFFICES ASSUME NEW y \in Groups
               PROVE  /\ refcnt'[y] = Cardinality(RefHolders(y)') + Cardinality(Putters(y)')
                      /\ y \in listed' => (y \in fsnotify_groups' <=> refcnt'[y] > 0)
    BY DEF RefInv
  <2>1. CASE y = x
    <3>1. Cardinality(RefHolders(x)') = Cardinality(RefHolders(x)) + 1
      BY <1>5, CountsAreNat, OneMore
    <3>2. refcnt'[x] = refcnt[x] + 1 /\ x \in fsnotify_groups'
      BY <1>1, <1>3 DEF GTypes
    <3>3. refcnt[x] = Cardinality(RefHolders(x)) + Cardinality(Putters(x))
      BY <2>1 DEF GInv, RefInv
    <3> QED
      BY <1>4, <2>1, <3>1, <3>2, <3>3, CountsAreNat
  <2>2. CASE y # x
    BY <1>1, <1>3, <1>4, <2>2 DEF GInv, GTypes, RefInv
  <2> QED
    BY <2>1, <2>2
<1>8. NumMarksInv'
  BY <1>1, <1>2, <1>4 DEF GInv, NumMarksInv
<1>9. MarkInv'
  BY <1>1, <1>2, <1>3 DEF GInv, GTypes, MarkInv
<1>10. WalkInv'
  BY <1>1, <1>2, <1>3 DEF GInv, GTypes, WalkInv
<1> QED
  BY <1>6, <1>7, <1>8, <1>9, <1>10 DEF GInv

\* The first reference to a group that goes on the list is its maker's, and the
\* list is the one mark it counts.
LEMMA FindNewStep ==
  ASSUME NEW t \in Owners, GInv, G!Find(t), fsnotify_groups = {}
  PROVE  GInv'
<1> USE FsnotifyAssumption DEF G!FsnotifyAssumption
<1>1. PICK x \in Groups : g[t] = x
  BY DEF GInv, GTypes, PlaceInv, G!Find
<1>2. /\ fsnotify_groups' = {x} /\ listed' = listed \cup {x}
      /\ num_marks' = [num_marks EXCEPT ![x] = @ + 1]
      /\ hold' = [hold EXCEPT ![t] = x]
      /\ g' = [g EXCEPT ![t] = None]
      /\ gpc[t] = "find" /\ gpc' = [gpc EXCEPT ![t] = "idle"]
      /\ UNCHANGED <<refcnt, frees, used, mg, todo, cur, wait, group, g_list, i_list>>
  BY <1>1 DEF G!Find, G!Goto, G!mvars
<1>3. GTypes /\ PlaceInv /\ NewInv
  BY DEF GInv
<1>4. \A y \in Groups : /\ MarksOf(y)' = MarksOf(y)
                        /\ Droppers(y)' = Droppers(y)
                        /\ Destroyers(y)' = Destroyers(y)
                        /\ y # x => /\ Putters(y)' = Putters(y)
                                    /\ RefHolders(y)' = RefHolders(y)
  BY <1>1, <1>2, <1>3
  DEF GTypes, PlaceInv, RefHolders, Putters, MarksOf, Droppers, Destroyers
<1>5. /\ t \notin RefHolders(x) /\ RefHolders(x)' = RefHolders(x) \cup {t}
      /\ t \in Putters(x) /\ Putters(x)' = Putters(x) \ {t}
  BY <1>1, <1>2, <1>3 DEF GTypes, PlaceInv, RefHolders, Putters
<1>6. GTypes'
  <2>1. x \in used
    BY <1>1, <1>3 DEF GTypes
  <2> QED
    BY <1>1, <1>2, <1>3, <2>1 DEF GTypes
<1>7. PlaceInv' /\ NewInv'
  BY <1>1, <1>2, <1>3 DEF GTypes, PlaceInv, NewInv
<1>8. RefInv'
  <2> SUFFICES ASSUME NEW y \in Groups
               PROVE  /\ refcnt'[y] = Cardinality(RefHolders(y)') + Cardinality(Putters(y)')
                      /\ y \in listed' => (y \in fsnotify_groups' <=> refcnt'[y] > 0)
    BY DEF RefInv
  <2>1. CASE y = x
    <3>1. Cardinality(RefHolders(x)') = Cardinality(RefHolders(x)) + 1
      BY <1>5, CountsAreNat, OneMore
    <3>2. Cardinality(Putters(x)') = Cardinality(Putters(x)) - 1 /\ Cardinality(Putters(x)) > 0
      BY <1>5, CountsAreNat, OneFewer
    <3>3. refcnt'[x] = Cardinality(RefHolders(x)) + Cardinality(Putters(x))
      BY <1>2, <2>1 DEF GInv, RefInv
    <3> QED
      BY <1>2, <2>1, <3>1, <3>2, <3>3, CountsAreNat
  <2>2. CASE y # x
    BY <1>2, <1>3, <1>4, <2>2 DEF GInv, GTypes, RefInv
  <2> QED
    BY <2>1, <2>2
<1>9. NumMarksInv'
  <2>1. /\ Cardinality(MarksOf(x)) = 0 /\ Cardinality(Droppers(x)) = 0
        /\ Cardinality(Destroyers(x)) = 0
    <3>1. MarksOf(x) = {} /\ Droppers(x) = {} /\ Destroyers(x) = {}
      BY <1>1, <1>2, <1>3
      DEF GTypes, PlaceInv, NewInv, MarksOf, Droppers, Destroyers
    <3> QED
      BY <3>1, FS_EmptySet
  <2>2. num_marks'[x] = 1 /\ frees'[x] = 0
    <3>1. x \notin listed /\ num_marks[x] = 0
      BY <1>1, <1>2, <1>3 DEF NewInv
    <3> QED
      BY <1>2, <1>3, <3>1 DEF GTypes, GInv, NumMarksInv
  <2>3. ASSUME NEW y \in Groups, y # x
        PROVE  /\ num_marks'[y] = num_marks[y] /\ frees'[y] = frees[y]
               /\ y \in listed' <=> y \in listed
               /\ y \notin fsnotify_groups' /\ y \notin fsnotify_groups
    BY <1>2, <1>3, <2>3 DEF GTypes
  <2> QED
    BY <1>2, <1>4, <2>1, <2>2, <2>3 DEF GInv, NumMarksInv
<1>10. MarkInv'
  BY <1>1, <1>2, <1>3 DEF GInv, GTypes, MarkInv
<1>11. WalkInv'
  BY <1>1, <1>2, <1>3 DEF GInv, GTypes, WalkInv
<1> QED
  BY <1>6, <1>7, <1>8, <1>9, <1>10, <1>11 DEF GInv

\* An owner's reference becomes the one that is dropped.
LEMMA PutStep ==
  ASSUME NEW t \in Owners, GInv, G!Put(t)
  PROVE  GInv'
<1> USE FsnotifyAssumption DEF G!FsnotifyAssumption
<1>1. PICK x \in Groups : hold[t] = x
  BY DEF GInv, GTypes, G!Put
<1>2. /\ g' = [g EXCEPT ![t] = x]
      /\ hold' = [hold EXCEPT ![t] = None]
      /\ gpc[t] = "idle" /\ gpc' = [gpc EXCEPT ![t] = "put"]
      /\ UNCHANGED <<refcnt, num_marks, frees, fsnotify_groups, used, listed, mg, todo, cur,
                     wait, group, g_list, i_list>>
  BY <1>1 DEF G!Put, G!Goto, G!gvars, G!mvars
<1>3. GTypes /\ PlaceInv /\ NewInv
  BY DEF GInv
<1>4. \A y \in Groups : /\ MarksOf(y)' = MarksOf(y)
                        /\ Droppers(y)' = Droppers(y)
                        /\ Destroyers(y)' = Destroyers(y)
                        /\ y # x => /\ Putters(y)' = Putters(y)
                                    /\ RefHolders(y)' = RefHolders(y)
  BY <1>1, <1>2, <1>3
  DEF GTypes, PlaceInv, RefHolders, Putters, MarksOf, Droppers, Destroyers
<1>5. /\ t \in RefHolders(x) /\ RefHolders(x)' = RefHolders(x) \ {t}
      /\ t \notin Putters(x) /\ Putters(x)' = Putters(x) \cup {t}
  BY <1>1, <1>2, <1>3 DEF GTypes, PlaceInv, RefHolders, Putters
<1>6. GTypes' /\ PlaceInv' /\ NewInv'
  BY <1>1, <1>2, <1>3 DEF GTypes, PlaceInv, NewInv
<1>7. RefInv'
  <2>1. Cardinality(RefHolders(x)') = Cardinality(RefHolders(x)) - 1
    BY <1>5, CountsAreNat, OneFewer
  <2>2. Cardinality(Putters(x)') = Cardinality(Putters(x)) + 1
    BY <1>5, CountsAreNat, OneMore
  <2>3. \A y \in Groups : Cardinality(RefHolders(y)') + Cardinality(Putters(y)')
                            = Cardinality(RefHolders(y)) + Cardinality(Putters(y))
    BY <1>4, <2>1, <2>2, CountsAreNat
  <2> QED
    BY <1>2, <2>3 DEF GInv, RefInv
<1>8. NumMarksInv'
  BY <1>2, <1>4 DEF GInv, NumMarksInv
<1>9. MarkInv' /\ WalkInv'
  BY <1>2, <1>3 DEF GInv, GTypes, MarkInv, WalkInv
<1> QED
  BY <1>6, <1>7, <1>8, <1>9 DEF GInv

\* A reference that is not the last is dropped, with or without the mutex.
LEMMA DropStep ==
  ASSUME NEW t \in Owners, NEW x \in Groups, GInv,
         gpc[t] \in {"put", "lock"}, g[t] = x, refcnt[x] # 1,
         refcnt' = [refcnt EXCEPT ![x] = @ - 1],
         g' = [g EXCEPT ![t] = None],
         gpc' = [gpc EXCEPT ![t] = "idle"],
         UNCHANGED <<num_marks, frees, fsnotify_groups, used, listed, hold, mg, todo, cur, wait,
                     group, g_list, i_list>>
  PROVE  GInv'
<1> USE FsnotifyAssumption DEF G!FsnotifyAssumption
<1>3. GTypes /\ PlaceInv /\ NewInv
  BY DEF GInv
<1>4. \A y \in Groups : /\ RefHolders(y)' = RefHolders(y)
                        /\ MarksOf(y)' = MarksOf(y)
                        /\ Droppers(y)' = Droppers(y)
                        /\ Destroyers(y)' = Destroyers(y)
                        /\ y # x => Putters(y)' = Putters(y)
  BY <1>3 DEF GTypes, PlaceInv, RefHolders, Putters, MarksOf, Droppers, Destroyers
<1>5. t \in Putters(x) /\ Putters(x)' = Putters(x) \ {t}
  BY <1>3 DEF GTypes, PlaceInv, Putters
<1>6. GTypes' /\ PlaceInv' /\ NewInv'
  BY <1>3 DEF GTypes, PlaceInv, NewInv
<1>7. RefInv'
  <2>1. Cardinality(Putters(x)') = Cardinality(Putters(x)) - 1 /\ Cardinality(Putters(x)) > 0
    BY <1>5, CountsAreNat, OneFewer
  <2>2. refcnt[x] = Cardinality(RefHolders(x)) + Cardinality(Putters(x))
    BY DEF GInv, RefInv
  <2>3. refcnt'[x] = refcnt[x] - 1 /\ refcnt'[x] > 0
    BY <1>3, <2>1, <2>2, CountsAreNat DEF GTypes
  <2> SUFFICES ASSUME NEW y \in Groups
               PROVE  /\ refcnt'[y] = Cardinality(RefHolders(y)') + Cardinality(Putters(y)')
                      /\ y \in listed' => (y \in fsnotify_groups' <=> refcnt'[y] > 0)
    BY DEF RefInv
  <2>4. CASE y = x
    <3>1. x \in listed => x \in fsnotify_groups
      BY <2>1, <2>2, CountsAreNat DEF GInv, RefInv
    <3> QED
      BY <1>4, <2>1, <2>2, <2>3, <2>4, <3>1, CountsAreNat
  <2>5. CASE y # x
    BY <1>3, <1>4, <2>5 DEF GInv, GTypes, RefInv
  <2> QED
    BY <2>4, <2>5
<1>8. NumMarksInv'
  BY <1>4 DEF GInv, NumMarksInv
<1>9. MarkInv' /\ WalkInv'
  BY <1>3 DEF GInv, GTypes, MarkInv, WalkInv
<1> QED
  BY <1>6, <1>7, <1>8, <1>9 DEF GInv

\* atomic_add_unless() drops what is not the last reference.
LEMMA FastDecStep ==
  ASSUME NEW t \in Owners, GInv, G!FastDec(t)
  PROVE  GInv'
<1> USE FsnotifyAssumption DEF G!FsnotifyAssumption
<1>1. PICK x \in Groups : g[t] = x
  BY DEF GInv, GTypes, PlaceInv, G!FastDec
<1>2. /\ gpc[t] = "put"
      /\ UNCHANGED <<num_marks, frees, fsnotify_groups, used, listed, hold, mg, todo, cur, wait,
                     group, g_list, i_list>>
  BY DEF G!FastDec, G!mvars
<1>3. CASE refcnt[x] # 1
  <2>1. /\ refcnt' = [refcnt EXCEPT ![x] = @ - 1]
        /\ g' = [g EXCEPT ![t] = None] /\ gpc' = [gpc EXCEPT ![t] = "idle"]
    BY <1>1, <1>3 DEF G!FastDec, G!Goto, GInv, GTypes
  <2> QED
    BY <1>1, <1>2, <1>3, <2>1, DropStep
<1>4. CASE refcnt[x] = 1
  <2>1. g' = g /\ gpc' = [gpc EXCEPT ![t] = "lock"] /\ refcnt' = refcnt
    BY <1>1, <1>4 DEF G!FastDec, G!Goto, GInv, GTypes
  <2>2. GTypes /\ PlaceInv /\ NewInv
    BY DEF GInv
  <2>3. \A y \in Groups : /\ RefHolders(y)' = RefHolders(y)
                          /\ Putters(y)' = Putters(y)
                          /\ MarksOf(y)' = MarksOf(y)
                          /\ Droppers(y)' = Droppers(y)
                          /\ Destroyers(y)' = Destroyers(y)
    BY <1>2, <2>1, <2>2
    DEF GTypes, RefHolders, Putters, MarksOf, Droppers, Destroyers
  <2>4. GTypes' /\ PlaceInv' /\ NewInv'
    BY <1>2, <2>1, <2>2 DEF GTypes, PlaceInv, NewInv
  <2>5. RefInv' /\ NumMarksInv'
    BY <1>2, <2>1, <2>3 DEF GInv, RefInv, NumMarksInv
  <2>6. MarkInv' /\ WalkInv'
    BY <1>2, <2>1, <2>2 DEF GInv, GTypes, MarkInv, WalkInv
  <2> QED
    BY <2>4, <2>5, <2>6 DEF GInv
<1> QED
  BY <1>3, <1>4

\* The decrement under the mutex: the last reference takes the group off the
\* list, waits for every event that walks it, and keeps its num_marks.
LEMMA SlowDecStep ==
  ASSUME NEW t \in Owners, GInv, G!SlowDec(t)
  PROVE  GInv'
<1> USE FsnotifyAssumption DEF G!FsnotifyAssumption
<1>1. PICK x \in Groups : g[t] = x
  BY DEF GInv, GTypes, PlaceInv, G!SlowDec
<1>2. /\ gpc[t] = "lock" /\ refcnt' = [refcnt EXCEPT ![x] = @ - 1]
      /\ UNCHANGED <<num_marks, frees, used, listed, hold, mg, todo, cur, group, g_list, i_list>>
  BY <1>1 DEF G!SlowDec, G!mvars
<1>3. GTypes /\ PlaceInv /\ NewInv
  BY DEF GInv
<1>4. refcnt'[x] = refcnt[x] - 1
  BY <1>2, <1>3 DEF GTypes
<1>5. CASE refcnt'[x] # 0
  <2>1. /\ g' = [g EXCEPT ![t] = None] /\ gpc' = [gpc EXCEPT ![t] = "idle"]
        /\ UNCHANGED <<fsnotify_groups, wait>>
    BY <1>1, <1>5 DEF G!SlowDec, G!HitZero, G!Goto
  <2>2. refcnt[x] # 1
    BY <1>4, <1>5
  <2> QED
    BY <1>1, <1>2, <2>1, <2>2, DropStep
<1>6. CASE refcnt'[x] = 0
  <2>1. /\ fsnotify_groups' = fsnotify_groups \ {x}
        /\ wait' = [wait EXCEPT ![t] = G!Readers]
        /\ g' = g /\ gpc' = [gpc EXCEPT ![t] = "sync"]
    BY <1>1, <1>6 DEF G!SlowDec, G!HitZero, G!Goto
  <2>2. \A y \in Groups : /\ RefHolders(y)' = RefHolders(y)
                          /\ MarksOf(y)' = MarksOf(y)
                          /\ Droppers(y)' = Droppers(y)
                          /\ y # x => /\ Putters(y)' = Putters(y)
                                      /\ Destroyers(y)' = Destroyers(y)
    BY <1>1, <1>2, <1>3, <2>1
    DEF GTypes, RefHolders, Putters, MarksOf, Droppers, Destroyers
  <2>3. /\ t \in Putters(x) /\ Putters(x)' = Putters(x) \ {t}
        /\ t \notin Destroyers(x) /\ Destroyers(x)' = Destroyers(x) \cup {t}
    BY <1>1, <1>2, <1>3, <2>1 DEF GTypes, Putters, Destroyers
  <2>4. G!Readers \subseteq Owners /\ \A s \in Owners : gpc[s] = "read" => s \in G!Readers
    BY DEF G!Readers
  <2>5. GTypes'
    BY <1>2, <1>3, <2>1, <2>4 DEF GTypes
  <2>6. PlaceInv' /\ NewInv'
    BY <1>1, <1>2, <1>3, <2>1 DEF GTypes, PlaceInv, NewInv
  <2>7. Cardinality(Putters(x)') = Cardinality(Putters(x)) - 1
    BY <2>3, CountsAreNat, OneFewer
  <2>8. Cardinality(Destroyers(x)') = Cardinality(Destroyers(x)) + 1
    BY <2>3, CountsAreNat, OneMore
  <2>9. refcnt[x] = 1 /\ (x \in listed => x \in fsnotify_groups)
    BY <1>3, <1>4, <1>6 DEF GTypes, GInv, RefInv
  <2>10. RefInv'
    <3>1. refcnt'[x] = Cardinality(RefHolders(x)') + Cardinality(Putters(x)')
      BY <1>4, <2>2, <2>7, CountsAreNat DEF GInv, RefInv
    <3>2. x \notin fsnotify_groups'
      BY <2>1
    <3>3. ASSUME NEW y \in Groups, y # x
          PROVE  /\ refcnt'[y] = Cardinality(RefHolders(y)') + Cardinality(Putters(y)')
                 /\ y \in listed' => (y \in fsnotify_groups' <=> refcnt'[y] > 0)
      BY <1>2, <1>3, <2>1, <2>2, <3>3 DEF GInv, GTypes, RefInv
    <3> QED
      BY <1>6, <3>1, <3>2, <3>3 DEF RefInv
  <2>11. NumMarksInv'
    <3>1. x \in listed =>
            num_marks[x] = Cardinality(MarksOf(x)) + Cardinality(Droppers(x))
                             + Cardinality(Destroyers(x)) + 1
      BY <2>9 DEF GInv, NumMarksInv
    <3>2. x \in listed' =>
            num_marks'[x] = Cardinality(MarksOf(x)') + Cardinality(Droppers(x)')
                              + Cardinality(Destroyers(x)')
      BY <1>2, <2>2, <2>8, <3>1, CountsAreNat
    <3>3. x \notin fsnotify_groups'
      BY <2>1
    <3>4. ASSUME NEW y \in Groups, y # x
          PROVE  y \in fsnotify_groups' <=> y \in fsnotify_groups
      BY <2>1, <3>4
    <3> QED
      BY <1>2, <2>2, <3>2, <3>3, <3>4, CountsAreNat DEF GInv, NumMarksInv
  <2>12. MarkInv'
    <3>1. gpc'[t] = "sync" /\ g'[t] = x
      BY <1>1, <1>3, <2>1 DEF GTypes
    <3>2. \A s \in Owners : gpc[s] = "sync" => gpc'[s] = "sync"
      BY <1>3, <2>1 DEF GTypes
    <3> QED
      BY <1>2, <2>1, <3>1, <3>2 DEF GInv, MarkInv
  <2>13. WalkInv'
    <3>1. gpc'[t] = "sync" /\ g'[t] = x /\ \A s \in Owners : gpc[s] = "read" => s \in wait'[t]
      BY <1>1, <1>3, <2>1, <2>4 DEF GTypes
    <3>2. \A s \in Owners : gpc[s] = "sync" => gpc'[s] = "sync" /\ wait'[s] = wait[s]
      BY <1>2, <1>3, <2>1 DEF GTypes
    <3> QED
      BY <1>2, <1>3, <2>1, <3>1, <3>2 DEF GInv, PlaceInv, WalkInv
  <2> QED
    BY <2>5, <2>6, <2>10, <2>11, <2>12, <2>13 DEF GInv
<1> QED
  BY <1>5, <1>6

\* The end of a group begins when no event that came to it is left, and takes
\* every mark of its list.
LEMMA SyncStep ==
  ASSUME NEW t \in Owners, GInv, G!Sync(t)
  PROVE  GInv'
<1> USE FsnotifyAssumption DEF G!FsnotifyAssumption
<1>1. PICK x \in Groups : g[t] = x
  BY DEF GInv, GTypes, PlaceInv, G!Sync
<1>2. /\ gpc[t] = "sync" /\ wait[t] = {} /\ gpc' = [gpc EXCEPT ![t] = "clear"]
      /\ todo' = [todo EXCEPT ![t] = G!GroupMarks(x)]
      /\ g_list' = g_list \ todo'[t]
      /\ UNCHANGED <<refcnt, num_marks, frees, fsnotify_groups, used, listed, hold, g, mg, cur,
                     wait, group, i_list>>
  BY <1>1 DEF G!Sync, G!Goto, G!gvars
<1>3. GTypes /\ PlaceInv /\ NewInv
  BY DEF GInv
<1>4. \A y \in Groups : /\ RefHolders(y)' = RefHolders(y)
                        /\ Putters(y)' = Putters(y)
                        /\ MarksOf(y)' = MarksOf(y)
                        /\ Droppers(y)' = Droppers(y)
                        /\ Destroyers(y)' = Destroyers(y)
  BY <1>2, <1>3 DEF GTypes, RefHolders, Putters, MarksOf, Droppers, Destroyers
<1>5. /\ G!GroupMarks(x) \subseteq Marks
      /\ \A m \in Marks : m \in G!GroupMarks(x) <=> m \in g_list /\ group[m] = x
  BY <1>3 DEF GTypes, G!GroupMarks
<1>6. GTypes'
  BY <1>2, <1>3, <1>5 DEF GTypes
<1>7. PlaceInv' /\ NewInv'
  BY <1>2, <1>3 DEF GTypes, PlaceInv, NewInv
<1>8. RefInv' /\ NumMarksInv'
  BY <1>2, <1>4 DEF GInv, RefInv, NumMarksInv
<1>9. MarkInv'
  <2>1. /\ todo'[t] = G!GroupMarks(x) /\ todo[t] = {}
        /\ \A s \in Owners : s # t => todo'[s] = todo[s] /\ gpc'[s] = gpc[s]
    BY <1>2, <1>3 DEF GTypes, PlaceInv
  <2> SUFFICES ASSUME NEW m \in Marks
               PROVE  /\ m \in g_list' =>
                           /\ group[m] # None
                           /\ \/ group[m] \in fsnotify_groups
                              \/ \E s \in Owners : gpc'[s] = "sync" /\ g[s] = group[m]
                      /\ group[m] # None => m \in g_list' \/ \E s \in Owners : m \in todo'[s]
    BY <1>2 DEF MarkInv
  <2>2. CASE m \in g_list /\ group[m] = x
    BY <1>2, <1>5, <2>1, <2>2
  <2>3. CASE m \in g_list /\ group[m] # x
    BY <1>1, <1>2, <1>5, <2>1, <2>3 DEF GInv, MarkInv
  <2>4. CASE m \notin g_list
    BY <1>2, <2>1, <2>4 DEF GInv, MarkInv
  <2> QED
    BY <2>2, <2>3, <2>4
<1>10. WalkInv'
  BY <1>2, <1>3 DEF GInv, GTypes, WalkInv
<1> QED
  BY <1>6, <1>7, <1>8, <1>9, <1>10 DEF GInv

\* Whoever was counted in num_marks and leaves frees the group if nothing else
\* is counted, and only then.
LEMMA CountDown ==
  ASSUME NEW x \in used, GInv, G!DecMarks(x),
         \A y \in Groups : MarksOf(y)' = MarksOf(y),
         \A y \in Groups : y # x => Droppers(y)' = Droppers(y) /\ Destroyers(y)' = Destroyers(y),
         /\ Cardinality(Droppers(x)') \in Nat /\ Cardinality(Destroyers(x)') \in Nat
         /\ Cardinality(Droppers(x)') + Cardinality(Destroyers(x)')
              = Cardinality(Droppers(x)) + Cardinality(Destroyers(x)) - 1
  PROVE  NumMarksInv'
<1>1. /\ num_marks' = [num_marks EXCEPT ![x] = @ - 1]
      /\ frees' = IF num_marks'[x] = 0 THEN [frees EXCEPT ![x] = @ + 1] ELSE frees
      /\ UNCHANGED <<fsnotify_groups, listed>>
  BY DEF G!DecMarks
<1>2. GTypes /\ x \in Groups
  BY DEF GInv, GTypes
<1>3. /\ num_marks'[x] = num_marks[x] - 1
      /\ frees'[x] = IF num_marks'[x] = 0 THEN frees[x] + 1 ELSE frees[x]
      /\ \A y \in Groups : y # x => num_marks'[y] = num_marks[y] /\ frees'[y] = frees[y]
  BY <1>1, <1>2 DEF GTypes
<1>4. CASE x \in listed
  <2>1. num_marks[x] = Cardinality(MarksOf(x)) + Cardinality(Droppers(x))
                         + Cardinality(Destroyers(x))
                         + (IF x \in fsnotify_groups THEN 1 ELSE 0)
    BY <1>2, <1>4 DEF GInv, NumMarksInv
  <2>2. num_marks[x] > 0
    BY <2>1, CountsAreNat
  <2>3. frees[x] = 0
    BY <1>2, <2>2 DEF GInv, NumMarksInv
  <2>4. num_marks'[x] = Cardinality(MarksOf(x)') + Cardinality(Droppers(x)')
                          + Cardinality(Destroyers(x)')
                          + (IF x \in fsnotify_groups' THEN 1 ELSE 0)
    BY <1>1, <1>2, <1>3, <2>1, CountsAreNat
  <2> QED
    BY <1>1, <1>3, <1>4, <2>3, <2>4 DEF GInv, NumMarksInv
<1>5. CASE x \notin listed
  <2>1. num_marks[x] <= 0 /\ num_marks[x] \in Int /\ frees[x] = 0
    BY <1>2, <1>5 DEF GInv, GTypes, NumMarksInv
  <2>2. num_marks'[x] <= 0 /\ frees'[x] = 0
    BY <1>3, <2>1
  <2> QED
    BY <1>1, <1>3, <1>5, <2>2 DEF GInv, NumMarksInv
<1> QED
  BY <1>4, <1>5

\* The end of a free_list.
LEMMA ClearedStep ==
  ASSUME NEW t \in Owners, GInv, G!Cleared(t)
  PROVE  GInv'
<1> USE FsnotifyAssumption DEF G!FsnotifyAssumption
<1>1. /\ gpc[t] = "clear" /\ todo[t] = {} /\ gpc' = [gpc EXCEPT ![t] = "idle"]
      /\ g' = [g EXCEPT ![t] = None]
      /\ UNCHANGED <<refcnt, fsnotify_groups, used, listed, hold, mg, todo, cur, wait, group,
                     g_list, i_list>>
  BY DEF G!Cleared, G!Goto, G!DecMarks, G!gvars, G!mvars
<1>2. GTypes /\ PlaceInv /\ NewInv
  BY DEF GInv
<1>3. \A y \in Groups : /\ RefHolders(y)' = RefHolders(y)
                        /\ Putters(y)' = Putters(y)
                        /\ MarksOf(y)' = MarksOf(y)
                        /\ Droppers(y)' = Droppers(y)
                        /\ y # g[t] => Destroyers(y)' = Destroyers(y)
  BY <1>1, <1>2 DEF GTypes, RefHolders, Putters, MarksOf, Droppers, Destroyers
<1>4. /\ num_marks' \in [Groups -> Int] /\ frees' \in [Groups -> Int]
      /\ \A y \in Groups : y # g[t] => num_marks'[y] = num_marks[y]
  <2>1. CASE g[t] = None
    BY <1>2, <2>1 DEF G!Cleared, G!gvars, GTypes
  <2>2. CASE g[t] # None
    BY <1>2, <2>2 DEF G!Cleared, G!DecMarks, GTypes
  <2> QED
    BY <2>1, <2>2
<1>5. GTypes'
  BY <1>1, <1>2, <1>4 DEF GTypes
<1>6. PlaceInv'
  BY <1>1, <1>2 DEF GTypes, PlaceInv
<1>7. NewInv'
  <2>1. \A s \in Owners : gpc'[s] = "find" => s # t /\ gpc[s] = "find" /\ g'[s] = g[s] /\ g[s] # g[t]
    BY <1>1, <1>2 DEF GTypes, NewInv
  <2>2. \A y \in Groups : y \notin used => y # g[t]
    BY <1>2 DEF GTypes
  <2> QED
    BY <1>1, <1>2, <1>4, <2>1, <2>2 DEF GTypes, PlaceInv, NewInv
<1>8. RefInv'
  BY <1>1, <1>3 DEF GInv, RefInv
<1>9. NumMarksInv'
  <2>1. CASE g[t] = None
    BY <1>1, <1>3, <2>1 DEF GInv, NumMarksInv, G!Cleared, G!gvars
  <2>2. CASE g[t] # None
    <3>1. PICK x \in used : g[t] = x
      BY <1>2, <2>2 DEF GTypes
    <3>2. x \in Groups /\ G!DecMarks(x)
      BY <1>2, <2>2, <3>1 DEF GTypes, G!Cleared
    <3>3. t \in Destroyers(x) /\ Destroyers(x)' = Destroyers(x) \ {t}
      BY <1>1, <1>2, <3>1 DEF GTypes, Destroyers
    <3>4. Cardinality(Destroyers(x)') = Cardinality(Destroyers(x)) - 1
            /\ Cardinality(Destroyers(x)) > 0
      BY <3>3, CountsAreNat, OneFewer
    <3>5. Droppers(x)' = Droppers(x)
      BY <1>3, <3>2
    <3>6. /\ Cardinality(Droppers(x)') \in Nat /\ Cardinality(Destroyers(x)') \in Nat
          /\ Cardinality(Droppers(x)') + Cardinality(Destroyers(x)')
               = Cardinality(Droppers(x)) + Cardinality(Destroyers(x)) - 1
      BY <3>4, <3>5, CountsAreNat
    <3> QED
      BY <1>3, <3>1, <3>2, <3>6, CountDown
  <2> QED
    BY <2>1, <2>2
<1>10. MarkInv' /\ WalkInv'
  BY <1>1, <1>2 DEF GInv, GTypes, MarkInv, WalkInv
<1> QED
  BY <1>5, <1>6, <1>7, <1>8, <1>9, <1>10 DEF GInv

\* A mark that was detached is counted off.
LEMMA DropMarkStep ==
  ASSUME NEW t \in Owners, GInv, G!DropMark(t)
  PROVE  GInv'
<1> USE FsnotifyAssumption DEF G!FsnotifyAssumption
<1>1. PICK x \in listed : mg[t] = x
  BY DEF GInv, GTypes, PlaceInv, G!DropMark
<1>2. /\ gpc[t] = "marks" /\ gpc' = [gpc EXCEPT ![t] = "clear"]
      /\ mg' = [mg EXCEPT ![t] = None] /\ G!DecMarks(x)
      /\ UNCHANGED <<refcnt, fsnotify_groups, used, listed, hold, g, todo, cur, wait, group,
                     g_list, i_list>>
  BY <1>1 DEF G!DropMark, G!Goto, G!DecMarks, G!mvars
<1>3. GTypes /\ PlaceInv /\ NewInv /\ x \in used /\ x \in Groups
  BY <1>1 DEF GInv, GTypes
<1>4. \A y \in Groups : /\ RefHolders(y)' = RefHolders(y)
                        /\ Putters(y)' = Putters(y)
                        /\ MarksOf(y)' = MarksOf(y)
                        /\ Destroyers(y)' = Destroyers(y)
                        /\ y # x => Droppers(y)' = Droppers(y)
  BY <1>1, <1>2, <1>3 DEF GTypes, RefHolders, Putters, MarksOf, Droppers, Destroyers
<1>5. t \in Droppers(x) /\ Droppers(x)' = Droppers(x) \ {t}
  BY <1>1, <1>2, <1>3 DEF GTypes, Droppers
<1>6. /\ num_marks' \in [Groups -> Int] /\ frees' \in [Groups -> Int]
      /\ \A y \in Groups : y # x => num_marks'[y] = num_marks[y]
  BY <1>2, <1>3 DEF G!DecMarks, GTypes
<1>7. GTypes'
  BY <1>2, <1>3, <1>6 DEF GTypes
<1>8. PlaceInv' /\ NewInv'
  BY <1>1, <1>2, <1>3, <1>6 DEF GTypes, PlaceInv, NewInv
<1>9. RefInv'
  BY <1>2, <1>4 DEF GInv, RefInv
<1>10. NumMarksInv'
  <2>1. Cardinality(Droppers(x)') = Cardinality(Droppers(x)) - 1 /\ Cardinality(Droppers(x)) > 0
    BY <1>5, CountsAreNat, OneFewer
  <2>2. /\ Cardinality(Droppers(x)') \in Nat /\ Cardinality(Destroyers(x)') \in Nat
        /\ Cardinality(Droppers(x)') + Cardinality(Destroyers(x)')
             = Cardinality(Droppers(x)) + Cardinality(Destroyers(x)) - 1
    BY <1>3, <1>4, <2>1, CountsAreNat
  <2> QED
    BY <1>2, <1>3, <1>4, <2>2, CountDown
<1>11. MarkInv' /\ WalkInv'
  BY <1>2, <1>3 DEF GInv, GTypes, MarkInv, WalkInv
<1> QED
  BY <1>7, <1>8, <1>9, <1>10, <1>11 DEF GInv

\* A mark is added to a group by one who has a reference, so the group is on the
\* list and counts one more.
LEMMA AddMarkStep ==
  ASSUME NEW t \in Owners, GInv, G!AddMark(t)
  PROVE  GInv'
<1> USE FsnotifyAssumption DEF G!FsnotifyAssumption
<1>1. PICK x \in listed : hold[t] = x
  BY DEF GInv, GTypes, G!AddMark
<1>2. PICK m \in Marks : /\ group[m] = None
                         /\ group' = [group EXCEPT ![m] = x]
                         /\ g_list' = g_list \cup {m} /\ i_list' = i_list \cup {m}
  BY <1>1 DEF G!AddMark
<1>3. /\ num_marks' = [num_marks EXCEPT ![x] = @ + 1]
      /\ UNCHANGED <<refcnt, frees, fsnotify_groups, used, listed, gpc, hold, g, mg, todo, cur,
                     wait>>
  BY <1>1 DEF G!AddMark, G!tvars
<1>4. GTypes /\ PlaceInv /\ NewInv /\ x \in used /\ x \in Groups
  BY <1>1 DEF GInv, GTypes
<1>5. \A y \in Groups : /\ RefHolders(y)' = RefHolders(y)
                        /\ Putters(y)' = Putters(y)
                        /\ Droppers(y)' = Droppers(y)
                        /\ Destroyers(y)' = Destroyers(y)
                        /\ y # x => MarksOf(y)' = MarksOf(y)
  BY <1>2, <1>3, <1>4 DEF GTypes, RefHolders, Putters, MarksOf, Droppers, Destroyers
<1>6. m \notin MarksOf(x) /\ MarksOf(x)' = MarksOf(x) \cup {m}
  BY <1>2, <1>4 DEF GTypes, MarksOf
<1>7. x \in fsnotify_groups
  <2>1. t \in RefHolders(x)
    BY <1>1 DEF RefHolders
  <2>2. Cardinality(RefHolders(x)) # 0
    BY <2>1, CountsAreNat, FS_EmptySet
  <2> QED
    BY <1>1, <1>4, <2>2, CountsAreNat DEF GInv, RefInv
<1>8. GTypes'
  BY <1>1, <1>2, <1>3, <1>4 DEF GTypes
<1>9. PlaceInv' /\ NewInv'
  BY <1>1, <1>3, <1>4 DEF GTypes, PlaceInv, NewInv
<1>10. RefInv'
  BY <1>3, <1>5 DEF GInv, RefInv
<1>11. NumMarksInv'
  <2>1. Cardinality(MarksOf(x)') = Cardinality(MarksOf(x)) + 1
    BY <1>6, CountsAreNat, OneMore
  <2>2. num_marks'[x] = num_marks[x] + 1 /\ \A y \in Groups : y # x => num_marks'[y] = num_marks[y]
    BY <1>3, <1>4 DEF GTypes
  <2>3. num_marks[x] = Cardinality(MarksOf(x)) + Cardinality(Droppers(x))
                         + Cardinality(Destroyers(x)) + 1
    BY <1>1, <1>4, <1>7 DEF GInv, NumMarksInv
  <2>4. /\ num_marks'[x] = Cardinality(MarksOf(x)') + Cardinality(Droppers(x)')
                             + Cardinality(Destroyers(x)') + 1
        /\ num_marks'[x] # 0 /\ frees[x] = 0
    BY <1>4, <1>5, <2>1, <2>2, <2>3, CountsAreNat DEF GInv, NumMarksInv
  <2> QED
    BY <1>1, <1>3, <1>5, <1>7, <2>2, <2>4 DEF GInv, NumMarksInv
<1>12. MarkInv'
  BY <1>1, <1>2, <1>3, <1>4, <1>7 DEF GInv, GTypes, MarkInv
<1>13. WalkInv'
  BY <1>3 DEF GInv, WalkInv
<1> QED
  BY <1>8, <1>9, <1>10, <1>11, <1>12, <1>13 DEF GInv

\* A free_list begins: nothing is counted, and no mark is lost.
LEMMA FreeListStep ==
  ASSUME NEW t \in Owners, GInv, G!RemoveMark(t) \/ G!ClearByInode(t)
  PROVE  GInv'
<1> USE FsnotifyAssumption DEF G!FsnotifyAssumption
<1>1. PICK l \in SUBSET Marks : todo' = [todo EXCEPT ![t] = l]
  BY DEF G!RemoveMark, G!ClearByInode, GInv, GTypes
<1>2. /\ gpc[t] = "idle" /\ gpc' = [gpc EXCEPT ![t] = "clear"]
      /\ i_list' \subseteq Marks
      /\ UNCHANGED <<refcnt, num_marks, frees, fsnotify_groups, used, listed, hold, g, mg, cur,
                     wait, group, g_list>>
  BY DEF G!RemoveMark, G!ClearByInode, G!Goto, G!gvars, G!mvars, GInv, GTypes
<1>3. GTypes /\ PlaceInv /\ NewInv
  BY DEF GInv
<1>4. \A y \in Groups : /\ RefHolders(y)' = RefHolders(y)
                        /\ Putters(y)' = Putters(y)
                        /\ MarksOf(y)' = MarksOf(y)
                        /\ Droppers(y)' = Droppers(y)
                        /\ Destroyers(y)' = Destroyers(y)
  BY <1>2, <1>3
  DEF GTypes, PlaceInv, RefHolders, Putters, MarksOf, Droppers, Destroyers
<1>5. GTypes' /\ PlaceInv' /\ NewInv'
  BY <1>1, <1>2, <1>3 DEF GTypes, PlaceInv, NewInv
<1>6. RefInv' /\ NumMarksInv'
  BY <1>2, <1>4 DEF GInv, RefInv, NumMarksInv
<1>7. MarkInv' /\ WalkInv'
  <2>1. todo[t] = {} /\ \A s \in Owners : s # t => todo'[s] = todo[s] /\ gpc'[s] = gpc[s]
    BY <1>1, <1>2, <1>3 DEF GTypes, PlaceInv
  <2> QED
    BY <1>2, <1>3, <2>1 DEF GInv, MarkInv, WalkInv
<1> QED
  BY <1>5, <1>6, <1>7 DEF GInv

\* A mark is detached: whoever does it is counted in its place.
LEMMA DestroyMarkStep ==
  ASSUME NEW t \in Owners, GInv, G!DestroyMark(t)
  PROVE  GInv'
<1> USE FsnotifyAssumption DEF G!FsnotifyAssumption
<1>1. PICK m \in todo[t] :
         /\ todo' = [todo EXCEPT ![t] = @ \ {m}]
         /\ \/ G!AlreadyDead(m) /\ UNCHANGED <<gpc, mg, G!mvars>>
            \/ /\ ~G!AlreadyDead(m)
               /\ mg' = [mg EXCEPT ![t] = group[m]]
               /\ group' = [group EXCEPT ![m] = None]
               /\ g_list' = g_list \ {m} /\ i_list' = i_list \ {m}
               /\ gpc' = [gpc EXCEPT ![t] = "marks"]
  BY DEF G!DestroyMark, G!Goto
<1>2. /\ gpc[t] = "clear"
      /\ UNCHANGED <<refcnt, num_marks, frees, fsnotify_groups, used, listed, hold, g, cur, wait>>
  BY DEF G!DestroyMark, G!gvars
<1>3. GTypes /\ PlaceInv /\ NewInv /\ m \in Marks
  BY DEF GInv, GTypes
<1>4. /\ todo'[t] = todo[t] \ {m}
      /\ \A s \in Owners : s # t => todo'[s] = todo[s]
  BY <1>1, <1>3 DEF GTypes
<1>5. CASE group[m] = None
  <2>1. UNCHANGED <<gpc, mg, group, g_list, i_list>>
    BY <1>1, <1>5 DEF G!AlreadyDead, G!mvars
  <2>2. \A y \in Groups : /\ RefHolders(y)' = RefHolders(y)
                          /\ Putters(y)' = Putters(y)
                          /\ MarksOf(y)' = MarksOf(y)
                          /\ Droppers(y)' = Droppers(y)
                          /\ Destroyers(y)' = Destroyers(y)
    BY <1>2, <2>1 DEF RefHolders, Putters, MarksOf, Droppers, Destroyers
  <2>3. GTypes' /\ PlaceInv' /\ NewInv'
    BY <1>1, <1>2, <1>3, <2>1 DEF GTypes, PlaceInv, NewInv
  <2>4. RefInv' /\ NumMarksInv'
    BY <1>2, <2>2 DEF GInv, RefInv, NumMarksInv
  <2>5. MarkInv'
    BY <1>2, <1>4, <1>5, <2>1 DEF GInv, MarkInv
  <2>6. WalkInv'
    BY <1>2, <2>1 DEF GInv, WalkInv
  <2> QED
    BY <2>3, <2>4, <2>5, <2>6 DEF GInv
<1>6. CASE group[m] # None
  <2>1. PICK x \in listed : group[m] = x
    BY <1>3, <1>6 DEF GTypes
  <2>2. /\ mg' = [mg EXCEPT ![t] = x]
        /\ group' = [group EXCEPT ![m] = None]
        /\ g_list' = g_list \ {m} /\ i_list' = i_list \ {m}
        /\ gpc' = [gpc EXCEPT ![t] = "marks"]
    BY <1>1, <1>6, <2>1 DEF G!AlreadyDead
  <2>3. x \in used /\ x \in Groups /\ x # None
    BY <1>3, <2>1 DEF GTypes
  <2>4. \A y \in Groups : /\ RefHolders(y)' = RefHolders(y)
                          /\ Putters(y)' = Putters(y)
                          /\ Destroyers(y)' = Destroyers(y)
                          /\ y # x => MarksOf(y)' = MarksOf(y) /\ Droppers(y)' = Droppers(y)
    BY <1>2, <1>3, <2>1, <2>2
    DEF GTypes, PlaceInv, RefHolders, Putters, MarksOf, Droppers, Destroyers
  <2>5. /\ m \in MarksOf(x) /\ MarksOf(x)' = MarksOf(x) \ {m}
        /\ t \notin Droppers(x) /\ Droppers(x)' = Droppers(x) \cup {t}
    BY <1>2, <1>3, <2>1, <2>2, <2>3 DEF GTypes, PlaceInv, MarksOf, Droppers
  <2>6. GTypes'
    BY <1>1, <1>2, <1>3, <2>1, <2>2 DEF GTypes
  <2>7. PlaceInv' /\ NewInv'
    BY <1>1, <1>2, <1>3, <2>2, <2>3 DEF GTypes, PlaceInv, NewInv
  <2>8. RefInv'
    BY <1>2, <2>4 DEF GInv, RefInv
  <2>9. NumMarksInv'
    <3>1. Cardinality(MarksOf(x)') = Cardinality(MarksOf(x)) - 1
      BY <2>5, CountsAreNat, OneFewer
    <3>2. Cardinality(Droppers(x)') = Cardinality(Droppers(x)) + 1
      BY <2>5, CountsAreNat, OneMore
    <3>3. \A y \in Groups : Cardinality(MarksOf(y)') + Cardinality(Droppers(y)')
                              = Cardinality(MarksOf(y)) + Cardinality(Droppers(y))
      BY <2>4, <3>1, <3>2, CountsAreNat
    <3> QED
      BY <1>2, <2>4, <3>3 DEF GInv, NumMarksInv
  <2>10. MarkInv'
    <3>1. group'[m] = None /\ \A n \in Marks : n # m => group'[n] = group[n]
      BY <1>3, <2>2 DEF GTypes
    <3>2. \A s \in Owners : gpc'[s] = "sync" <=> gpc[s] = "sync"
      BY <1>2, <1>3, <2>2 DEF GTypes
    <3> QED
      BY <1>2, <1>4, <2>2, <3>1, <3>2 DEF GInv, MarkInv
  <2>11. WalkInv'
    BY <1>2, <1>3, <2>2 DEF GInv, GTypes, WalkInv
  <2> QED
    BY <2>6, <2>7, <2>8, <2>9, <2>10, <2>11 DEF GInv
<1> QED
  BY <1>5, <1>6

\* An event walks the list and touches nothing that is counted.
LEMMA EventStep ==
  ASSUME NEW t \in Owners, GInv, G!EventBegin(t) \/ G!EventVisit(t) \/ G!EventEnd(t)
  PROVE  GInv'
<1> USE FsnotifyAssumption DEF G!FsnotifyAssumption
<1>1. UNCHANGED <<refcnt, num_marks, frees, fsnotify_groups, used, listed, hold, g, mg, todo,
                  group, g_list, i_list>>
  BY DEF G!EventBegin, G!EventVisit, G!EventEnd, G!gvars, G!mvars
<1>2. GTypes /\ PlaceInv /\ NewInv
  BY DEF GInv
<1>3. /\ gpc[t] \in {"idle", "read"}
      /\ \E l \in {"idle", "read"} : gpc' = [gpc EXCEPT ![t] = l]
  <2>1. CASE G!EventBegin(t)
    BY <2>1 DEF G!EventBegin, G!Goto
  <2>2. CASE G!EventVisit(t)
    BY <1>2, <2>2 DEF G!EventVisit, GTypes
  <2>3. CASE G!EventEnd(t)
    BY <2>3 DEF G!EventEnd, G!Goto
  <2> QED
    BY <2>1, <2>2, <2>3
<1>4. \A y \in Groups : /\ RefHolders(y)' = RefHolders(y)
                        /\ Putters(y)' = Putters(y)
                        /\ MarksOf(y)' = MarksOf(y)
                        /\ Droppers(y)' = Droppers(y)
                        /\ Destroyers(y)' = Destroyers(y)
  BY <1>1, <1>2, <1>3 DEF GTypes, RefHolders, Putters, MarksOf, Droppers, Destroyers
<1>5. RefInv' /\ NumMarksInv'
  BY <1>1, <1>4 DEF GInv, RefInv, NumMarksInv
<1>6. NewInv' /\ MarkInv'
  BY <1>1, <1>2, <1>3 DEF GInv, GTypes, NewInv, MarkInv
<1>7. GTypes' /\ PlaceInv' /\ WalkInv'
  <2>1. CASE G!EventBegin(t)
    BY <1>1, <1>2, <2>1 DEF G!EventBegin, G!Goto, GInv, GTypes, PlaceInv, WalkInv
  <2>2. CASE G!EventVisit(t)
    BY <1>1, <1>2, <2>2 DEF G!EventVisit, GInv, GTypes, PlaceInv, WalkInv
  <2>3. CASE G!EventEnd(t)
    BY <1>1, <1>2, <2>3 DEF G!EventEnd, G!Goto, GInv, GTypes, PlaceInv, WalkInv
  <2> QED
    BY <2>1, <2>2, <2>3
<1> QED
  BY <1>5, <1>6, <1>7 DEF GInv

-----------------------------------------------------------------------------
LEMMA GroupInvariance == G!Spec => []GInv
<1>1. GInv /\ [G!Next]_(G!vars) => GInv'
  <2> SUFFICES ASSUME GInv, [G!Next]_(G!vars) PROVE GInv'
    OBVIOUS
  <2>1. CASE G!Next
    <3>1. PICK t \in Owners :
             \/ G!Obtain(t) \/ G!Find(t) \/ G!Put(t) \/ G!FastDec(t) \/ G!SlowDec(t)
             \/ G!Sync(t) \/ G!Cleared(t) \/ G!AddMark(t) \/ G!RemoveMark(t)
             \/ G!ClearByInode(t) \/ G!DestroyMark(t) \/ G!DropMark(t)
             \/ G!EventBegin(t) \/ G!EventVisit(t) \/ G!EventEnd(t)
      BY <2>1 DEF G!Next
    <3> QED
      BY <3>1, ObtainStep, FindOldStep, FindNewStep, PutStep, FastDecStep, SlowDecStep,
         SyncStep, ClearedStep, AddMarkStep, FreeListStep, DestroyMarkStep, DropMarkStep,
         EventStep
  <2>2. CASE UNCHANGED G!vars
    <3>1. UNCHANGED <<refcnt, num_marks, frees, fsnotify_groups, used, listed, gpc, hold, g, mg,
                      todo, cur, wait, group, g_list, i_list>>
      BY <2>2 DEF G!vars, G!gvars, G!tvars, G!mvars
    <3>2. \A y \in Groups : /\ RefHolders(y)' = RefHolders(y)
                            /\ Putters(y)' = Putters(y)
                            /\ MarksOf(y)' = MarksOf(y)
                            /\ Droppers(y)' = Droppers(y)
                            /\ Destroyers(y)' = Destroyers(y)
      BY <3>1 DEF RefHolders, Putters, MarksOf, Droppers, Destroyers
    <3>3. GTypes' /\ PlaceInv' /\ NewInv' /\ MarkInv' /\ WalkInv'
      BY <3>1 DEF GInv, GTypes, PlaceInv, NewInv, MarkInv, WalkInv
    <3>4. RefInv' /\ NumMarksInv'
      BY <3>1, <3>2 DEF GInv, RefInv, NumMarksInv
    <3> QED
      BY <3>3, <3>4 DEF GInv
  <2> QED
    BY <2>1, <2>2
<1> QED
  BY InitGInv, <1>1, PTL DEF G!Spec

\* What can reach a group keeps its count above 0.
LEMMA ReachedIsCounted ==
  ASSUME GInv, NEW x \in listed,
         \/ x \in fsnotify_groups
         \/ \E t \in Owners : x \in {hold[t], g[t], mg[t], cur[t]}
         \/ \E m \in Marks : group[m] = x
  PROVE  num_marks[x] # 0
<1> USE FsnotifyAssumption DEF G!FsnotifyAssumption
<1>1. GTypes /\ PlaceInv /\ x \in Groups /\ x # None
  BY DEF GInv, GTypes
<1>2. num_marks[x] = Cardinality(MarksOf(x)) + Cardinality(Droppers(x))
                       + Cardinality(Destroyers(x))
                       + (IF x \in fsnotify_groups THEN 1 ELSE 0)
  BY <1>1 DEF GInv, NumMarksInv
<1>3. CASE x \in fsnotify_groups
  BY <1>2, <1>3, CountsAreNat
<1>4. CASE MarksOf(x) # {} \/ Droppers(x) # {} \/ Destroyers(x) # {}
  <2>1. \/ Cardinality(MarksOf(x)) # 0
        \/ Cardinality(Droppers(x)) # 0
        \/ Cardinality(Destroyers(x)) # 0
    BY <1>4, CountsAreNat, FS_EmptySet
  <2> QED
    BY <1>2, <2>1, CountsAreNat
<1>5. CASE RefHolders(x) # {} \/ Putters(x) # {}
  <2>1. Cardinality(RefHolders(x)) # 0 \/ Cardinality(Putters(x)) # 0
    BY <1>5, CountsAreNat, FS_EmptySet
  <2>2. x \in fsnotify_groups
    BY <1>1, <2>1, CountsAreNat DEF GInv, RefInv
  <2> QED
    BY <1>3, <2>2
<1>6. ASSUME NEW t \in Owners, hold[t] = x \/ g[t] = x \/ mg[t] = x
      PROVE  \/ t \in RefHolders(x) \/ t \in Putters(x)
             \/ t \in Droppers(x) \/ t \in Destroyers(x)
  BY <1>1, <1>6 DEF GTypes, PlaceInv, RefHolders, Putters, Droppers, Destroyers
<1>7. ASSUME NEW t \in Owners, cur[t] = x
      PROVE  x \in fsnotify_groups \/ Destroyers(x) # {}
  BY <1>1, <1>7 DEF GInv, WalkInv, Destroyers
<1>8. ASSUME NEW m \in Marks, group[m] = x
      PROVE  m \in MarksOf(x)
  BY <1>8 DEF MarksOf
<1> QED
  BY <1>3, <1>4, <1>5, <1>6, <1>7, <1>8

\* No fsnotify group is freed while a task has a reference to it, walks over it
\* in an event, tears it or one of its marks down, or a mark points to it; for
\* any number of tasks, groups and marks.
THEOREM GroupsAreAlive == G!Spec => []NoUseAfterFree
<1>1. GInv => NoUseAfterFree
  <2> SUFFICES ASSUME GInv, NEW x \in Groups,
                      \/ x \in fsnotify_groups
                      \/ \E t \in Owners : x \in {hold[t], g[t], mg[t], cur[t]}
                      \/ \E m \in Marks : group[m] = x
               PROVE  frees[x] = 0
    BY DEF NoUseAfterFree, G!NoUseAfterFree
  <2> QED
    BY ReachedIsCounted DEF GInv, NumMarksInv
<1> QED
  BY <1>1, GroupInvariance, PTL

\* A group that was on the list is freed once, whoever of its owners and of the
\* inode counts the last of its marks off; it is never left over when all of
\* them are through.
THEOREM GroupFreedOnce == G!Spec => []ListedIsFreed
<1>1. GInv => ListedIsFreed
  <2> SUFFICES ASSUME GInv, NEW x \in listed
               PROVE  /\ frees[x] <= 1
                      /\ G!Idle /\ refcnt[x] = 0 => frees[x] = 1
    BY DEF ListedIsFreed, G!ListedIsFreed
  <2> USE FsnotifyAssumption DEF G!FsnotifyAssumption
  <2>1. GTypes /\ PlaceInv /\ x \in Groups
    BY DEF GInv, GTypes
  <2>2. frees[x] = IF num_marks[x] = 0 THEN 1 ELSE 0
    BY <2>1 DEF GInv, NumMarksInv
  <2>3. ASSUME G!Idle, refcnt[x] = 0
        PROVE  num_marks[x] = 0
    <3>1. x \notin fsnotify_groups
      BY <2>1, <2>3 DEF GInv, RefInv
    <3>2. \A t \in Owners : gpc[t] = "idle" /\ g[t] = None /\ mg[t] = None /\ todo[t] = {}
      BY <2>1, <2>3 DEF G!Idle, PlaceInv
    <3>3. MarksOf(x) = {}
      BY <2>1, <3>1, <3>2 DEF GInv, GTypes, MarkInv, MarksOf
    <3>4. Droppers(x) = {} /\ Destroyers(x) = {}
      BY <2>1, <3>2 DEF Droppers, Destroyers
    <3> QED
      <4>1. /\ Cardinality(MarksOf(x)) = 0 /\ Cardinality(Droppers(x)) = 0
            /\ Cardinality(Destroyers(x)) = 0
        BY <3>3, <3>4, FS_EmptySet
      <4> QED
        BY <2>1, <3>1, <4>1 DEF GInv, NumMarksInv
  <2> QED
    BY <2>2, <2>3
<1> QED
  BY <1>1, GroupInvariance, PTL
=============================================================================
