---------------------------- MODULE RwSemProofs -----------------------------
(***************************************************************************)
(* Proofs about lib/rwsem-spinlock.c, for any number of tasks.             *)
(***************************************************************************)
EXTENDS RwSem, WaitListTheorems, FiniteSetTheorems

\* The types, without the bound on the number of readers.
Types ==
  /\ activity \in Int
  /\ lock \in Tasks \cup {None}
  /\ IsWaitList(wait_list, Tasks)
  /\ flags \in [Tasks -> {"read", "write"}]
  /\ wtask \in [Tasks -> BOOLEAN]
  /\ refs \in [Tasks -> Nat]
  /\ tstate \in [Tasks -> {"RUNNING", "UNINTERRUPTIBLE"}]
  /\ pc \in [Tasks -> PC]
  /\ tsk \in Tasks \cup {None}
  /\ woken \in Nat

\* wait_lock is held across a step exactly by a releaser in its wake loop; it
\* has a task to wake that it no longer counts as waiting.
LockInv ==
  /\ \A t \in Tasks : pc[t] \in Waking <=> lock = t
  /\ lock = None <=> tsk = None
  /\ lock = None => woken = 0
  /\ lock # None /\ woken = 0 => activity = -1
  /\ tsk # None => ~wtask[tsk]

\* waiter.task is set only in a live frame.
FrameInv == \A t \in Tasks : wtask[t] => pc[t] \in Waiting

\* Either readers only, counted by the activity and the releaser's local
\* together, or one writer.
CountInv ==
  \/ Writers = {} /\ activity >= 0 /\ activity + woken = Cardinality(Readers)
  \/ \E w \in Tasks : /\ Writers = {w} /\ Readers = {}
                      /\ activity = -1 /\ woken = 0

\* A task that has found waiter.task set has its wake-up still to come.
WakeInv ==
  \A t \in Tasks :
    pc[t] \in {"sched", "asleep"} /\ tstate[t] # "RUNNING"
      => wtask[t] \/ tsk = t

\* The inductive invariant.
IInv ==
  /\ Types
  /\ LockInv
  /\ FrameInv
  /\ QueueIsWaiters
  /\ CountInv
  /\ NobodyForgotten
  /\ WakeInv
  /\ TaskPinned
-----------------------------------------------------------------------------
\* The waiters not yet granted hold nothing, and sets of tasks are finite.
LEMMA HoldersFinite ==
  /\ IsFiniteSet(Readers) /\ Readers \subseteq Tasks
  /\ Cardinality(Readers) \in Nat
  /\ Writers \subseteq Tasks
<1>1. Readers \subseteq Tasks /\ Writers \subseteq Tasks
  BY DEF Readers, Writers
<1>2. IsFiniteSet(Readers)
  BY <1>1, RwAssumption, FS_Subset
<1> QED
  BY <1>1, <1>2, FS_CardinalityType

\* The state __init_rwsem() leaves.
LEMMA InitIInv == Init => IInv
<1> SUFFICES ASSUME Init PROVE IInv
  OBVIOUS
<1>1. wait_list \in Seq(Tasks) /\ Len(wait_list) = 0
  BY DEF Init
<1>2. Types
  BY <1>1, RwAssumption DEF Init, Types, IsWaitList, PC, Waiting, Waking
<1>3. LockInv /\ FrameInv
  BY RwAssumption DEF Init, LockInv, FrameInv, Waking, Waiting
<1>4. QueueIsWaiters
  BY DEF Init, QueueIsWaiters, Elems
<1>5. CountInv
  <2>1. Readers = {} /\ Writers = {}
    BY DEF Init, Readers, Writers, Granted, Waiting
  <2> QED
    BY <2>1, FS_EmptySet DEF Init, CountInv
<1>6. NobodyForgotten /\ WakeInv /\ TaskPinned
  BY RwAssumption DEF Init, NobodyForgotten, WakeInv, TaskPinned, list_empty
<1> QED
  BY <1>2, <1>3, <1>4, <1>5, <1>6 DEF IInv

\* A step of the wait loop that touches neither the semaphore nor the waiter.
LEMMA LoopIInv ==
  ASSUME IInv, NEW t \in Tasks,
         pc[t] \in Waiting, pc'[t] \in Waiting,
         pc' = [pc EXCEPT ![t] = pc'[t]],
         tstate' \in [Tasks -> {"RUNNING", "UNINTERRUPTIBLE"}],
         \A u \in Tasks \ {t} : tstate'[u] = tstate[u],
         pc'[t] \in {"sched", "asleep"} /\ tstate'[t] # "RUNNING"
           => wtask[t] \/ tsk = t,
         UNCHANGED <<activity, lock, wait_list, flags, wtask, refs, tsk, woken>>
  PROVE  IInv'
<1> USE DEF IInv
<1>0. \A u \in Tasks \ {t} : pc'[u] = pc[u]
  BY DEF Types
<1>1. \A u \in Tasks : pc'[u] \in Waiting <=> pc[u] \in Waiting
  BY <1>0
<1>2. Types'
  BY DEF Types, PC
<1>3. LockInv' /\ FrameInv'
  BY <1>0, <1>1 DEF LockInv, FrameInv, Waiting, Waking
<1>4. QueueIsWaiters'
  BY <1>1 DEF QueueIsWaiters
<1>5. Readers' = Readers /\ Writers' = Writers
  BY <1>0, <1>1 DEF Readers, Writers, Granted, Waiting
<1>6. CountInv'
  BY <1>5 DEF CountInv
<1>7. NobodyForgotten' /\ TaskPinned'
  BY DEF NobodyForgotten, TaskPinned, FirstWants
<1>8. WakeInv'
  BY <1>0 DEF WakeInv
<1> QED
  BY <1>2, <1>3, <1>4, <1>6, <1>7, <1>8

\* The waiter finds waiter.task cleared and returns.
LEMMA ReturnIInv ==
  ASSUME IInv, NEW t \in Tasks, pc[t] = "check", Check(t), ~wtask[t]
  PROVE  IInv'
<1> USE DEF IInv
<1> DEFINE where == IF flags[t] = "read" THEN "reading" ELSE "writing"
<1>1. /\ tstate' = [tstate EXCEPT ![t] = "RUNNING"]
      /\ pc' = [pc EXCEPT ![t] = where]
      /\ flags' = [flags EXCEPT ![t] = "read"]
      /\ UNCHANGED <<activity, lock, wait_list, wtask, refs, tsk, woken>>
  BY DEF Check
<1>2. /\ pc'[t] = where
      /\ \A u \in Tasks \ {t} : pc'[u] = pc[u] /\ flags'[u] = flags[u]
                                /\ tstate'[u] = tstate[u]
  BY <1>1 DEF Types
<1>3. Types'
  BY <1>1 DEF Types, PC
<1>4. LockInv' /\ FrameInv'
  BY <1>1, <1>2 DEF LockInv, FrameInv, Waiting, Waking
<1>5. QueueIsWaiters'
  BY <1>1, <1>2 DEF QueueIsWaiters
<1>6. Readers' = Readers /\ Writers' = Writers
  <2>1. flags[t] \in {"read", "write"}
    BY DEF Types
  <2>2. \A u \in Tasks : u \in Readers' <=> u \in Readers
    BY <1>1, <1>2, <2>1 DEF Readers, Granted, Waiting
  <2>3. \A u \in Tasks : u \in Writers' <=> u \in Writers
    BY <1>1, <1>2, <2>1 DEF Writers, Granted, Waiting
  <2> QED
    BY <2>2, <2>3 DEF Readers, Writers
<1>7. CountInv'
  BY <1>1, <1>6 DEF CountInv
<1>8. NobodyForgotten'
  <2>1. ~list_empty(wait_list) => list_first_entry(wait_list) \in Elems(wait_list)
    BY First DEF Types
  <2>2. t \notin Elems(wait_list) /\ Elems(wait_list) \subseteq Tasks
    BY DEF QueueIsWaiters
  <2>3. ~list_empty(wait_list) => (FirstWants("write") <=> FirstWants("write")')
    BY <1>1, <1>2, <2>1, <2>2 DEF FirstWants
  <2> QED
    BY <1>1, <2>3 DEF NobodyForgotten
<1>9. WakeInv' /\ TaskPinned'
  BY <1>1, <1>2 DEF WakeInv, TaskPinned
<1> QED
  BY <1>3, <1>4, <1>5, <1>7, <1>8, <1>9
\* A newcomer takes the semaphore for reading.
LEMMA TakeReadIInv ==
  ASSUME IInv, NEW t \in Tasks, pc[t] = "idle", lock = None, ReadFree,
         Take(t, activity + 1, "reading")
  PROVE  IInv'
<1> USE DEF IInv
<1>1. /\ activity' = activity + 1
      /\ pc' = [pc EXCEPT ![t] = "reading"]
      /\ UNCHANGED <<lock, wait_list, flags, wtask, refs, tstate, tsk, woken>>
  BY DEF Take
<1>2. pc'[t] = "reading" /\ \A u \in Tasks \ {t} : pc'[u] = pc[u]
  BY <1>1 DEF Types
<1>3. Types'
  BY <1>1 DEF Types, PC
<1>4. LockInv' /\ FrameInv'
  BY <1>1, <1>2 DEF LockInv, FrameInv, Waiting, Waking
<1>5. QueueIsWaiters' /\ WakeInv' /\ TaskPinned' /\ NobodyForgotten'
  BY <1>1, <1>2 DEF QueueIsWaiters, WakeInv, TaskPinned, NobodyForgotten,
                    ReadFree, Waiting
<1>6. CountInv'
  <2>1. Readers' = Readers \cup {t} /\ t \notin Readers /\ Writers' = Writers
    BY <1>1, <1>2 DEF Readers, Writers, Granted, Waiting
  <2>2. Cardinality(Readers') = Cardinality(Readers) + 1
    BY <2>1, HoldersFinite, FS_AddElement
  <2>3. Writers = {} /\ activity >= 0 /\ activity + woken = Cardinality(Readers)
    BY DEF CountInv, ReadFree
  <2> QED
    BY <1>1, <2>1, <2>2, <2>3, HoldersFinite DEF CountInv, Types
<1> QED
  BY <1>3, <1>4, <1>5, <1>6

\* A newcomer takes the semaphore for writing.
LEMMA TakeWriteIInv ==
  ASSUME IInv, NEW t \in Tasks, pc[t] = "idle", lock = None, WriteFree,
         Take(t, -1, "writing")
  PROVE  IInv'
<1> USE DEF IInv
<1>1. /\ activity' = -1
      /\ pc' = [pc EXCEPT ![t] = "writing"]
      /\ UNCHANGED <<lock, wait_list, flags, wtask, refs, tstate, tsk, woken>>
  BY DEF Take
<1>2. pc'[t] = "writing" /\ \A u \in Tasks \ {t} : pc'[u] = pc[u]
  BY <1>1 DEF Types
<1>3. Types'
  BY <1>1 DEF Types, PC
<1>4. LockInv' /\ FrameInv'
  BY <1>1, <1>2 DEF LockInv, FrameInv, Waiting, Waking
<1>5. QueueIsWaiters' /\ WakeInv' /\ TaskPinned' /\ NobodyForgotten'
  BY <1>1, <1>2 DEF QueueIsWaiters, WakeInv, TaskPinned, NobodyForgotten,
                    WriteFree, Waiting
<1>6. CountInv'
  <2>1. Readers' = Readers /\ Writers' = Writers \cup {t}
    BY <1>1, <1>2 DEF Readers, Writers, Granted, Waiting
  <2>2. Writers = {} /\ woken = 0 /\ Cardinality(Readers) = 0
    BY DEF CountInv, WriteFree, LockInv
  <2>3. Readers = {}
    BY <2>2, HoldersFinite, FS_EmptySet
  <2> QED
    BY <1>1, <2>1, <2>2, <2>3 DEF CountInv
<1> QED
  BY <1>3, <1>4, <1>5, <1>6

\* A newcomer queues.
LEMMA EnqueueIInv ==
  ASSUME IInv, NEW t \in Tasks, pc[t] = "idle", lock = None,
         NEW rw \in {"read", "write"}, Enqueue(t, rw),
         rw = "read" => ~ReadFree, rw = "write" => ~WriteFree
  PROVE  IInv'
<1> USE DEF IInv
<1>1. /\ tstate' = [tstate EXCEPT ![t] = "UNINTERRUPTIBLE"]
      /\ wtask' = [wtask EXCEPT ![t] = TRUE]
      /\ flags' = [flags EXCEPT ![t] = rw]
      /\ refs' = [refs EXCEPT ![t] = @ + 1]
      /\ wait_list' = list_add_tail(wait_list, t)
      /\ pc' = [pc EXCEPT ![t] = "check"]
      /\ UNCHANGED <<activity, lock, tsk, woken>>
  BY DEF Enqueue
<1>2. /\ pc'[t] = "check" /\ wtask'[t] = TRUE /\ flags'[t] = rw
      /\ refs'[t] = refs[t] + 1
      /\ \A u \in Tasks \ {t} : /\ pc'[u] = pc[u] /\ wtask'[u] = wtask[u]
                                /\ flags'[u] = flags[u] /\ refs'[u] = refs[u]
                                /\ tstate'[u] = tstate[u]
  BY <1>1 DEF Types
<1>3. t \notin Elems(wait_list) /\ ~wtask[t] /\ tsk = None /\ woken = 0
  BY DEF QueueIsWaiters, FrameInv, LockInv, Waiting
<1>4. /\ IsWaitList(wait_list', Tasks)
      /\ Elems(wait_list') = Elems(wait_list) \cup {t}
  BY <1>1, <1>3, AddTail DEF Types
<1>5. Types'
  BY <1>1, <1>4 DEF Types, PC, Waiting
<1>6. LockInv' /\ FrameInv'
  BY <1>1, <1>2, <1>3 DEF LockInv, FrameInv, Waiting, Waking
<1>7. QueueIsWaiters'
  BY <1>2, <1>4 DEF QueueIsWaiters, Waiting
<1>8. CountInv'
  <2>1. Readers' = Readers /\ Writers' = Writers
    BY <1>2, <1>3 DEF Readers, Writers, Granted, Waiting
  <2> QED
    BY <1>1, <2>1 DEF CountInv
<1>9. NobodyForgotten'
  <2>1. CASE list_empty(wait_list)
    <3>1. list_first_entry(wait_list') = t
      BY <1>1, <2>1 DEF list_empty, list_add_tail, list_first_entry
    <3>2. activity = -1 \/ activity >= 0
      BY HoldersFinite DEF CountInv, Types
    <3>3. rw = "read" => activity = -1
      BY <2>1, <3>2 DEF ReadFree
    <3>4. rw = "write" => activity = -1 \/ activity > 0
      BY <2>1, <3>2 DEF WriteFree, Types
    <3> QED
      BY <1>1, <1>2, <3>1, <3>3, <3>4 DEF NobodyForgotten, FirstWants
  <2>2. CASE ~list_empty(wait_list)
    <3>1. list_first_entry(wait_list') = list_first_entry(wait_list)
      BY <1>1, <2>2 DEF list_empty, list_add_tail, list_first_entry, Types,
                        IsWaitList
    <3>2. list_first_entry(wait_list) \in Tasks \ {t}
      BY <1>3, <2>2, First DEF Types
    <3> QED
      BY <1>1, <1>2, <2>2, <3>1, <3>2 DEF NobodyForgotten, FirstWants
  <2> QED
    BY <2>1, <2>2
<1>10. WakeInv'
  BY <1>1, <1>2 DEF WakeInv
<1>11. TaskPinned'
  <2>1. refs[t] = 0 /\ refs'[t] = 1
    BY <1>2, <1>3, RwAssumption DEF TaskPinned
  <2> QED
    BY <1>1, <1>2, <2>1 DEF TaskPinned
<1> QED
  BY <1>5, <1>6, <1>7, <1>8, <1>9, <1>10, <1>11
-----------------------------------------------------------------------------
\* The releaser has woken the task it unlinked last, if any, and nobody else.
Sent ==
  /\ tstate' \in [Tasks -> {"RUNNING", "UNINTERRUPTIBLE"}]
  /\ refs' \in [Tasks -> Nat]
  /\ \A u \in Tasks : u # tsk => tstate'[u] = tstate[u] /\ refs'[u] = refs[u]
  /\ tsk # None => tstate'[tsk] = "RUNNING" /\ refs'[tsk] = refs[tsk] - 1

\* Granting to the first waiter: it and nobody else is unlinked, and it now
\* holds the semaphore; the releaser t does not, unless it downgrades.
LEMMA GrantHolders ==
  ASSUME IInv, NEW t \in Tasks, pc[t] \notin Waiting, ~list_empty(wait_list),
         NEW where \in Waking, NEW act, NEW n,
         GrantFirst(t, where, act, n), UNCHANGED flags,
         NEW w, w = list_first_entry(wait_list)
  PROVE  /\ w \in Tasks \ {t} /\ wtask[w] /\ pc[w] \in Waiting
         /\ w \notin Readers /\ w \notin Writers
         /\ wtask' = [wtask EXCEPT ![w] = FALSE] /\ tsk' = w
         /\ IsWaitList(wait_list', Tasks)
         /\ Elems(wait_list') = Elems(wait_list) \ {w}
         /\ pc' = [pc EXCEPT ![t] = where]
         /\ Readers' = (IF where = "up" THEN Readers \ {t} ELSE Readers \cup {t})
                         \cup (IF flags[w] = "read" THEN {w} ELSE {})
         /\ Writers' = (Writers \ {t})
                         \cup (IF flags[w] = "write" THEN {w} ELSE {})
<1> USE DEF IInv
<1>1. /\ wait_list' = list_del(wait_list, w)
      /\ tsk' = w
      /\ wtask' = [wtask EXCEPT ![w] = FALSE]
      /\ pc' = [pc EXCEPT ![t] = where]
  BY DEF GrantFirst, Grant
<1>2. w \in Elems(wait_list) /\ w \in Tasks
  BY First DEF Types
<1>3. wtask[w] /\ pc[w] \in Waiting /\ w # t
  BY <1>2 DEF QueueIsWaiters
<1>4. /\ IsWaitList(wait_list', Tasks)
      /\ Elems(wait_list') = Elems(wait_list) \ {w}
  BY <1>1, <1>2, Del DEF Types
<1>5. w \notin Readers /\ w \notin Writers
  BY <1>3 DEF Readers, Writers, Granted, Waiting
<1>6. /\ pc'[t] = where /\ ~wtask'[w]
      /\ \A u \in Tasks \ {t} : pc'[u] = pc[u]
      /\ \A u \in Tasks \ {w} : wtask'[u] = wtask[u]
      /\ flags[w] \in {"read", "write"}
  BY <1>1, <1>2 DEF Types
<1>7. \A u \in Tasks : u \in Readers' <=>
        \/ u = t /\ where # "up"
        \/ u # t /\ u \in Readers
        \/ u = w /\ flags[w] = "read"
  BY <1>3, <1>6 DEF Readers, Granted, Waiting, Waking
<1>8. \A u \in Tasks : u \in Writers' <=>
        \/ u # t /\ u \in Writers
        \/ u = w /\ flags[w] = "write"
  BY <1>3, <1>6 DEF Writers, Granted, Waiting, Waking
<1>9. Readers \subseteq Tasks /\ Writers \subseteq Tasks
      /\ Readers' \subseteq Tasks /\ Writers' \subseteq Tasks
  BY DEF Readers, Writers
<1>10. Readers' = (IF where = "up" THEN Readers \ {t} ELSE Readers \cup {t})
                         \cup (IF flags[w] = "read" THEN {w} ELSE {})
  BY <1>2, <1>3, <1>7, <1>9
<1>11. Writers' = (Writers \ {t}) \cup (IF flags[w] = "write" THEN {w} ELSE {})
  BY <1>2, <1>3, <1>8, <1>9
<1> QED
  BY <1>1, <1>2, <1>3, <1>4, <1>5, <1>10, <1>11

\* A releaser that grants keeps the invariant, if the count comes out right.
LEMMA GrantIInv ==
  ASSUME IInv, NEW t \in Tasks, pc[t] \notin Waiting, lock \in {None, t},
         ~list_empty(wait_list), NEW where \in Waking, NEW act \in Int,
         NEW n \in Nat, n = 0 => act = -1,
         GrantFirst(t, where, act, n), UNCHANGED flags, Sent, CountInv'
  PROVE  IInv'
<1> USE DEF IInv
<1> DEFINE w == list_first_entry(wait_list)
<1>1. /\ w \in Tasks \ {t} /\ wtask[w] /\ pc[w] \in Waiting
      /\ wtask' = [wtask EXCEPT ![w] = FALSE] /\ tsk' = w
      /\ IsWaitList(wait_list', Tasks)
      /\ Elems(wait_list') = Elems(wait_list) \ {w}
      /\ pc' = [pc EXCEPT ![t] = where]
  BY GrantHolders
<1> HIDE DEF w
<1>2. activity' = act /\ woken' = n /\ lock' = t
  BY DEF GrantFirst
<1>3. Types'
  BY <1>1, <1>2 DEF Types, PC, Sent
<1>4. /\ pc'[t] = where /\ ~wtask'[w]
      /\ \A u \in Tasks \ {t} : pc'[u] = pc[u]
      /\ \A u \in Tasks \ {w} : wtask'[u] = wtask[u]
  BY <1>1 DEF Types
<1>5. None \notin Tasks /\ w # tsk
  BY <1>1, RwAssumption DEF LockInv
<1>6. LockInv'
  BY <1>1, <1>2, <1>4, <1>5 DEF LockInv
<1>7. FrameInv' /\ QueueIsWaiters'
  BY <1>1, <1>4 DEF FrameInv, QueueIsWaiters, Waiting, Waking
<1>8. NobodyForgotten'
  BY <1>2, <1>5 DEF NobodyForgotten
<1>9. WakeInv'
  BY <1>1, <1>4, <1>5 DEF WakeInv, Sent, Waking
<1>10. TaskPinned'
  <2>1. \A u \in Tasks : u # w /\ u # tsk => refs'[u] = IF wtask'[u] THEN 1 ELSE 0
    BY <1>4 DEF TaskPinned, Sent
  <2>2. refs'[w] = 1
    BY <1>1, <1>5 DEF TaskPinned, Sent
  <2>3. tsk # None => refs'[tsk] = 0 /\ ~wtask'[tsk]
    BY <1>4, <1>5 DEF TaskPinned, Sent, LockInv, Types
  <2> QED
    BY <1>1, <1>5, <2>1, <2>2, <2>3 DEF TaskPinned, Types
<1> QED
  BY <1>3, <1>6, <1>7, <1>8, <1>9, <1>10

\* Dropping wait_lock: the releaser t is a reader after a downgrade and out
\* otherwise; nobody else is concerned.
LEMMA UnlockHolders ==
  ASSUME IInv, NEW t \in Tasks, pc[t] \notin Waiting,
         NEW where \in {"idle", "reading"}, NEW act,
         Unlock(t, where, act), UNCHANGED <<flags, wtask>>
  PROVE  /\ Readers' = IF where = "idle" THEN Readers \ {t} ELSE Readers \cup {t}
         /\ Writers' = Writers \ {t}
<1>1. /\ pc'[t] = where
      /\ \A u \in Tasks \ {t} : pc'[u] = pc[u]
  BY DEF IInv, Types, Unlock
<1>2. \A u \in Tasks : u \in Readers' <=> \/ u = t /\ where = "reading"
                                          \/ u # t /\ u \in Readers
  BY <1>1 DEF Readers, Granted, Waiting
<1>3. \A u \in Tasks : u \in Writers' <=> u # t /\ u \in Writers
  BY <1>1 DEF Writers, Granted, Waiting
<1>4. Readers \subseteq Tasks /\ Writers \subseteq Tasks
      /\ Readers' \subseteq Tasks /\ Writers' \subseteq Tasks
  BY DEF Readers, Writers
<1> QED
  BY <1>2, <1>3, <1>4

\* A releaser that drops wait_lock keeps the invariant, if the count comes out
\* right and the first waiter cannot have the semaphore.
LEMMA UnlockIInv ==
  ASSUME IInv, NEW t \in Tasks, pc[t] \notin Waiting, lock \in {None, t},
         NEW where \in {"idle", "reading"}, NEW act \in Int,
         Unlock(t, where, act), UNCHANGED <<flags, wait_list, wtask>>,
         Sent, CountInv', NobodyForgotten'
  PROVE  IInv'
<1> USE DEF IInv
<1>1. /\ activity' = act /\ lock' = None /\ tsk' = None /\ woken' = 0
      /\ pc' = [pc EXCEPT ![t] = where]
  BY DEF Unlock
<1>2. Types'
  BY <1>1 DEF Types, PC, Sent
<1>3. /\ pc'[t] = where
      /\ \A u \in Tasks \ {t} : pc'[u] = pc[u]
      /\ None \notin Tasks
  BY <1>1, RwAssumption DEF Types
<1>4. LockInv'
  BY <1>1, <1>3 DEF LockInv, Waking
<1>5. FrameInv' /\ QueueIsWaiters'
  BY <1>3 DEF FrameInv, QueueIsWaiters, Waiting
<1>6. WakeInv'
  BY <1>1, <1>3 DEF WakeInv, Sent
<1>7. TaskPinned'
  <2>1. \A u \in Tasks : u # tsk => refs'[u] = IF wtask[u] THEN 1 ELSE 0
    BY DEF TaskPinned, Sent
  <2>2. tsk # None => refs'[tsk] = 0 /\ ~wtask[tsk]
    BY DEF TaskPinned, Sent, LockInv, Types
  <2> QED
    BY <1>1, <1>3, <2>1, <2>2 DEF TaskPinned, Types
<1> QED
  BY <1>2, <1>4, <1>5, <1>6, <1>7
\* A release that starts with wait_lock free has nobody to wake yet.
LEMMA NothingSent ==
  ASSUME IInv, lock = None, UNCHANGED <<refs, tstate>>
  PROVE  Sent
BY DEF IInv, Types, LockInv, Sent

\* The holder t of a write lock is the only holder.
LEMMA WriterAlone ==
  ASSUME IInv, NEW t \in Tasks, pc[t] = "writing", lock = None
  PROVE  Writers = {t} /\ Readers = {} /\ woken = 0
<1>1. t \in Writers
  BY DEF Writers
<1> QED
  BY <1>1 DEF IInv, CountInv, LockInv

\* __up_read() keeps the invariant: the last reader finds a writer first.
LEMMA UpReadIInv ==
  ASSUME IInv, NEW t \in Tasks, UpRead(t)
  PROVE  IInv'
<1> USE DEF IInv
<1>1. pc[t] = "reading" /\ lock = None /\ pc[t] \notin Waiting
      /\ UNCHANGED <<flags, refs, tstate>>
  BY DEF UpRead, Waiting
<1>2. Sent /\ woken = 0
  BY <1>1, NothingSent DEF LockInv
<1>3. t \in Readers
  BY <1>1 DEF Readers
<1>4. Writers = {} /\ activity = Cardinality(Readers)
  BY <1>2, <1>3, HoldersFinite DEF CountInv, Types
<1>5. IsFiniteSet(Readers) /\ Cardinality(Readers) \in Nat
      /\ Cardinality(Readers \ {t}) = Cardinality(Readers) - 1
      /\ IsFiniteSet(Readers \ {t}) /\ Cardinality(Readers \ {t}) \in Nat
  BY <1>3, HoldersFinite, FS_RemoveElement, FS_CardinalityType
<1>6. CASE activity - 1 = 0 /\ ~list_empty(wait_list)
  <2> DEFINE w == list_first_entry(wait_list)
  <2>1. GrantFirst(t, "up", -1, 0)
    BY <1>6 DEF UpRead, rwsem_wake_one_writer
  <2>2. flags[w] = "write"
    BY <1>1, <1>6 DEF NobodyForgotten, FirstWants
  <2>3. Readers \ {t} = {}
    BY <1>4, <1>5, <1>6, FS_EmptySet DEF Types
  <2>4. w \in Tasks /\ Readers' = Readers \ {t} /\ Writers' = {w}
    BY <1>1, <1>4, <1>6, <2>1, <2>2, GrantHolders DEF Waking
  <2>5. CountInv'
    BY <2>1, <2>3, <2>4 DEF CountInv, GrantFirst
  <2> QED
    BY <1>1, <1>2, <1>6, <2>1, <2>5, GrantIInv DEF Waking
<1>7. CASE ~(activity - 1 = 0 /\ ~list_empty(wait_list))
  <2>1. Unlock(t, "idle", activity - 1) /\ UNCHANGED <<wait_list, wtask>>
    BY <1>7 DEF UpRead
  <2>2. Readers' = Readers \ {t} /\ Writers' = {}
    BY <1>1, <1>4, <2>1, UnlockHolders
  <2>3. activity' = activity - 1 /\ woken' = 0 /\ lock' = None
    BY <2>1 DEF Unlock
  <2>4. CountInv'
    BY <1>4, <1>5, <2>2, <2>3 DEF CountInv, Types
  <2>5. NobodyForgotten'
    BY <1>1, <1>4, <1>5, <1>7, <2>1, <2>3
       DEF NobodyForgotten, FirstWants, Types
  <2> QED
    BY <1>1, <1>2, <2>1, <2>4, <2>5, UnlockIInv DEF Types
<1> QED
  BY <1>6, <1>7

\* __up_write() keeps the invariant.
LEMMA UpWriteIInv ==
  ASSUME IInv, NEW t \in Tasks, UpWrite(t)
  PROVE  IInv'
<1> USE DEF IInv
<1>1. pc[t] = "writing" /\ lock = None /\ pc[t] \notin Waiting
      /\ UNCHANGED <<flags, refs, tstate>>
  BY DEF UpWrite, Waiting
<1>2. Sent
  BY <1>1, NothingSent
<1>3. Writers = {t} /\ Readers = {} /\ woken = 0
  BY <1>1, WriterAlone
<1> DEFINE w == list_first_entry(wait_list)
<1>4. CASE ~list_empty(wait_list)
  <2>1. rwsem_do_wake(t, 0, TRUE, "up", "idle")
    BY <1>4 DEF UpWrite
  <2>2. CASE flags[w] = "write"
    <3>1. GrantFirst(t, "up", -1, 0)
      BY <2>1, <2>2 DEF rwsem_do_wake, FirstWants
    <3>2. w \in Tasks /\ Readers' = {} /\ Writers' = {w}
      BY <1>1, <1>3, <1>4, <2>2, <3>1, GrantHolders DEF Waking
    <3>3. CountInv'
      BY <3>1, <3>2 DEF CountInv, GrantFirst
    <3> QED
      BY <1>1, <1>2, <1>4, <3>1, <3>3, GrantIInv DEF Waking
  <2>3. CASE flags[w] = "read"
    <3>1. GrantFirst(t, "up", 0, 1)
      BY <2>1, <2>3 DEF rwsem_do_wake, FirstWants
    <3>2. Readers' = {w} /\ Writers' = {}
      BY <1>1, <1>3, <1>4, <2>3, <3>1, GrantHolders DEF Waking
    <3>3. Cardinality(Readers') = 1
      BY <3>2, FS_Singleton
    <3>4. CountInv'
      BY <3>1, <3>2, <3>3 DEF CountInv, GrantFirst
    <3> QED
      BY <1>1, <1>2, <1>4, <3>1, <3>4, GrantIInv DEF Waking
  <2> QED
    BY <2>1, <2>2, <2>3 DEF rwsem_do_wake, FirstWants
<1>5. CASE list_empty(wait_list)
  <2>1. Unlock(t, "idle", 0) /\ UNCHANGED <<wait_list, wtask>>
    BY <1>5 DEF UpWrite
  <2>2. Readers' = {} /\ Writers' = {}
    BY <1>1, <1>3, <2>1, UnlockHolders
  <2>3. CountInv'
    BY <2>1, <2>2, FS_EmptySet DEF CountInv, Unlock
  <2>4. NobodyForgotten'
    BY <1>5, <2>1 DEF NobodyForgotten
  <2> QED
    BY <1>1, <1>2, <2>1, <2>3, <2>4, UnlockIInv
<1> QED
  BY <1>4, <1>5

\* __downgrade_write() keeps the invariant.
LEMMA DowngradeIInv ==
  ASSUME IInv, NEW t \in Tasks, DowngradeWrite(t)
  PROVE  IInv'
<1> USE DEF IInv
<1>1. pc[t] = "writing" /\ lock = None /\ pc[t] \notin Waiting
      /\ UNCHANGED <<flags, refs, tstate>>
  BY DEF DowngradeWrite, Waiting
<1>2. Sent
  BY <1>1, NothingSent
<1>3. Writers = {t} /\ Readers = {} /\ woken = 0
  BY <1>1, WriterAlone
<1> DEFINE w == list_first_entry(wait_list)
<1>4. CASE ~list_empty(wait_list) /\ FirstWants("read")
  <2>1. GrantFirst(t, "downgrade", 1, 1)
    BY <1>4 DEF DowngradeWrite, rwsem_do_wake, FirstWants
  <2>2. w # t /\ Readers' = {t, w} /\ Writers' = {}
    <3>1. flags[w] = "read"
      BY <1>4 DEF FirstWants
    <3>2. /\ w # t
          /\ Readers' = (Readers \cup {t}) \cup {w}
          /\ Writers' = (Writers \ {t}) \cup {}
      BY <1>1, <1>4, <2>1, <3>1, GrantHolders DEF Waking
    <3> QED
      BY <1>3, <3>2
  <2>3. Cardinality(Readers') = 2
    <3>1. /\ {t, w} = {t} \cup {w} /\ w \notin {t}
          /\ IsFiniteSet({t}) /\ Cardinality({t}) = 1
      BY <2>2, FS_Singleton
    <3> QED
      BY <2>2, <3>1, FS_AddElement
  <2>4. CountInv'
    BY <2>1, <2>2, <2>3 DEF CountInv, GrantFirst
  <2> QED
    BY <1>1, <1>2, <1>4, <2>1, <2>4, GrantIInv DEF Waking
<1>5. CASE list_empty(wait_list) \/ ~FirstWants("read")
  <2>1. Unlock(t, "reading", 1) /\ UNCHANGED <<wait_list, wtask>>
    BY <1>5 DEF DowngradeWrite, rwsem_do_wake
  <2>2. Readers' = {t} /\ Writers' = {}
    BY <1>1, <1>3, <2>1, UnlockHolders
  <2>3. CountInv'
    <3>1. Cardinality(Readers') = 1
      BY <2>2, FS_Singleton
    <3> QED
      BY <2>1, <2>2, <3>1 DEF CountInv, Unlock
  <2>4. NobodyForgotten'
    <3>1. activity' = 1
      BY <2>1 DEF Unlock
    <3>2. ~list_empty(wait_list) => FirstWants("write")'
      BY <1>1, <1>5, <2>1 DEF DowngradeWrite, rwsem_do_wake, FirstWants
    <3> QED
      BY <2>1, <3>1, <3>2 DEF NobodyForgotten
  <2> QED
    BY <1>1, <1>2, <2>1, <2>3, <2>4, UnlockIInv
<1> QED
  BY <1>4, <1>5

\* A turn of the wake loop keeps the invariant.
LEMMA WakeUpIInv ==
  ASSUME IInv, NEW t \in Tasks, WakeUp(t)
  PROVE  IInv'
<1> USE DEF IInv
<1>1. /\ pc[t] \in Waking /\ pc[t] \notin Waiting /\ lock = t /\ t # None
      /\ UNCHANGED flags
  BY RwAssumption DEF WakeUp, LockInv, Waiting, Waking
<1>2. tsk \in Tasks /\ ~wtask[tsk] /\ refs[tsk] = 1
  BY <1>1 DEF LockInv, Types, TaskPinned
<1>3. Sent
  BY <1>2 DEF WakeUp, wake_up_process, Sent, Types
<1>4. pc[t] = "up" => t \notin Readers
  BY DEF Readers, Granted, Waiting
<1>5. pc[t] = "downgrade" => t \in Readers
  BY DEF Readers
<1>6. t \notin Writers
  BY <1>1 DEF Writers, Granted, Waking, Waiting
<1> DEFINE w == list_first_entry(wait_list)
<1>7. CASE woken > 0 /\ ~list_empty(wait_list) /\ FirstWants("read")
  <2>1. GrantFirst(t, pc[t], activity, woken + 1)
    BY <1>7 DEF WakeUp
  <2>2. Writers = {} /\ activity >= 0 /\ activity + woken = Cardinality(Readers)
    BY <1>7 DEF CountInv, Types
  <2>3. w \notin Readers /\ Readers' = Readers \cup {w} /\ Writers' = {}
    <3>1. flags[w] = "read"
      BY <1>7 DEF FirstWants
    <3>2. /\ w \notin Readers
          /\ Readers' = (IF pc[t] = "up" THEN Readers \ {t} ELSE Readers \cup {t})
                          \cup {w}
          /\ Writers' = (Writers \ {t}) \cup {}
      BY <1>1, <1>7, <2>1, <3>1, GrantHolders
    <3> QED
      BY <1>1, <1>4, <1>5, <2>2, <3>2 DEF Waking
  <2>4. Cardinality(Readers') = Cardinality(Readers) + 1
    BY <2>3, HoldersFinite, FS_AddElement
  <2>5. CountInv'
    BY <2>1, <2>2, <2>3, <2>4, HoldersFinite DEF CountInv, GrantFirst, Types
  <2>6. woken + 1 \in Nat /\ woken + 1 # 0 /\ activity \in Int
    BY DEF Types
  <2> QED
    BY <1>1, <1>3, <1>7, <2>1, <2>5, <2>6, GrantIInv
<1>8. CASE ~(woken > 0 /\ ~list_empty(wait_list) /\ FirstWants("read"))
  <2> DEFINE where == IF pc[t] = "up" THEN "idle" ELSE "reading"
  <2>1. Unlock(t, where, activity + woken) /\ UNCHANGED <<wait_list, wtask>>
    BY <1>8 DEF WakeUp
  <2>2. Readers' = Readers /\ Writers' = Writers
    <3>1. /\ Readers' = IF where = "idle" THEN Readers \ {t} ELSE Readers \cup {t}
          /\ Writers' = Writers \ {t}
      BY <1>1, <2>1, UnlockHolders
    <3> QED
      BY <1>1, <1>4, <1>5, <1>6, <3>1 DEF Waking
  <2>3. activity' = activity + woken /\ woken' = 0 /\ lock' = None
    BY <2>1 DEF Unlock
  <2>4. CountInv'
    BY <2>2, <2>3, HoldersFinite DEF CountInv, Types
  <2>5. NobodyForgotten'
    <3>1. CASE woken = 0
      BY <1>1, <2>3, <3>1 DEF NobodyForgotten, LockInv
    <3>2. CASE woken > 0
      <4>1. activity' > 0
        BY <2>3, <3>2 DEF CountInv, Types
      <4>2. ~list_empty(wait_list) => FirstWants("write")'
        <5>1. ~list_empty(wait_list) => flags[w] \in {"read", "write"}
          BY First DEF Types
        <5> QED
          BY <1>1, <1>8, <2>1, <3>2, <5>1 DEF FirstWants
      <4> QED
        BY <2>1, <4>1, <4>2 DEF NobodyForgotten
    <3> QED
      BY <3>1, <3>2 DEF Types
  <2>6. activity + woken \in Int /\ where \in {"idle", "reading"}
    BY DEF Types
  <2> HIDE DEF where
  <2> QED
    BY <1>1, <1>3, <2>1, <2>4, <2>5, <2>6, UnlockIInv
<1> QED
  BY <1>7, <1>8
-----------------------------------------------------------------------------
\* Every step of every task keeps the invariant.
LEMMA NextIInv == IInv /\ [Next]_vars => IInv'
<1> SUFFICES ASSUME IInv, [Next]_vars
             PROVE  IInv'
  OBVIOUS
<1>1. ASSUME NEW t \in Tasks, DownRead(t) \/ DownReadTrylock(t)
      PROVE  IInv'
  BY <1>1, TakeReadIInv, EnqueueIInv DEF DownRead, DownReadTrylock
<1>2. ASSUME NEW t \in Tasks, DownWrite(t) \/ DownWriteTrylock(t)
      PROVE  IInv'
  BY <1>2, TakeWriteIInv, EnqueueIInv DEF DownWrite, DownWriteTrylock
<1>3. ASSUME NEW t \in Tasks, Check(t)
      PROVE  IInv'
  <2>1. CASE ~wtask[t]
    BY <1>3, <2>1, ReturnIInv DEF Check
  <2>2. CASE wtask[t]
    <3>1. /\ pc' = [pc EXCEPT ![t] = "sched"] /\ pc'[t] = "sched"
          /\ tstate' = tstate
      BY <1>3, <2>2 DEF Check, IInv, Types
    <3> QED
      BY <1>3, <2>2, <3>1, LoopIInv DEF Check, Waiting, IInv, Types
  <2> QED
    BY <2>1, <2>2
<1>4. ASSUME NEW t \in Tasks, Schedule(t)
      PROVE  IInv'
  <2>1. pc'[t] = IF tstate[t] = "RUNNING" THEN "set" ELSE "asleep"
    BY <1>4 DEF Schedule, IInv, Types
  <2>2. tstate[t] # "RUNNING" => wtask[t] \/ tsk = t
    BY <1>4 DEF Schedule, IInv, WakeInv
  <2> QED
    BY <1>4, <2>1, <2>2, LoopIInv DEF Schedule, Waiting, IInv, Types
<1>5. ASSUME NEW t \in Tasks, Resume(t)
      PROVE  IInv'
  <2>1. pc'[t] = "set"
    BY <1>5 DEF Resume, IInv, Types
  <2> QED
    BY <1>5, <2>1, LoopIInv DEF Resume, Waiting, IInv, Types
<1>6. ASSUME NEW t \in Tasks, SetState(t)
      PROVE  IInv'
  <2>1. pc'[t] = "check"
    BY <1>6 DEF SetState, IInv, Types
  <2> QED
    BY <1>6, <2>1, LoopIInv DEF SetState, Waiting, IInv, Types
<1>7. ASSUME NEW t \in Tasks,
             UpRead(t) \/ UpWrite(t) \/ DowngradeWrite(t) \/ WakeUp(t)
      PROVE  IInv'
  BY <1>7, UpReadIInv, UpWriteIInv, DowngradeIInv, WakeUpIInv
<1>8. ASSUME NEW t \in Tasks, StrayWakeup(t)
      PROVE  IInv'
  <2>1. tstate' = [tstate EXCEPT ![t] = "RUNNING"]
        /\ UNCHANGED <<activity, lock, wait_list, flags, wtask, refs, pc, tsk,
                       woken>>
    BY <1>8 DEF StrayWakeup, wake_up_process
  <2>2. Types' /\ WakeInv'
    BY <2>1 DEF IInv, Types, WakeInv
  <2>3. LockInv' /\ FrameInv' /\ QueueIsWaiters' /\ TaskPinned'
    BY <2>1 DEF IInv, LockInv, FrameInv, QueueIsWaiters, TaskPinned
  <2>4. Readers' = Readers /\ Writers' = Writers
    BY <2>1 DEF Readers, Writers, Granted
  <2>5. CountInv' /\ NobodyForgotten'
    BY <2>1, <2>4 DEF IInv, CountInv, NobodyForgotten, FirstWants
  <2> QED
    BY <2>2, <2>3, <2>5 DEF IInv
<1>9. CASE UNCHANGED vars
  <2>1. Readers' = Readers /\ Writers' = Writers
    BY <1>9 DEF vars, Readers, Writers, Granted
  <2>2. CountInv' /\ NobodyForgotten'
    BY <1>9, <2>1 DEF vars, IInv, CountInv, NobodyForgotten, FirstWants
  <2> QED
    BY <1>9, <2>2 DEF vars, IInv, Types, LockInv, FrameInv, QueueIsWaiters,
                      WakeInv, TaskPinned
<1> QED
  BY <1>1, <1>2, <1>3, <1>4, <1>5, <1>6, <1>7, <1>8, <1>9 DEF Next, TaskNext

\* The invariant holds in every reachable state.
THEOREM Invariance == Spec => []IInv
BY InitIInv, NextIInv, PTL DEF Spec

\* Readers and writers exclude each other, grants that their new owners have
\* not noticed yet included.
THEOREM MutualExclusion == Spec => []Exclusion
<1>1. IInv => Exclusion
  BY DEF IInv, CountInv, Exclusion
<1> QED
  BY <1>1, Invariance, PTL

\* sem->activity is right whenever wait_lock is free, and every variable has
\* its type.
THEOREM CountCorrect == Spec => [](ActivityIsHolders /\ TypeOK)
<1>1. IInv => ActivityIsHolders
  BY HoldersFinite DEF IInv, CountInv, LockInv, ActivityIsHolders, Types
<1>2. IInv => TypeOK
  <2> SUFFICES ASSUME IInv PROVE activity \in -1 .. Cardinality(Tasks)
    BY DEF IInv, Types, TypeOK
  <2>1. /\ Cardinality(Readers) \in Nat /\ Cardinality(Tasks) \in Nat
        /\ Cardinality(Readers) <= Cardinality(Tasks)
    BY HoldersFinite, RwAssumption, FS_Subset, FS_CardinalityType
  <2> QED
    BY <2>1 DEF IInv, CountInv, Types
<1> QED
  BY <1>1, <1>2, Invariance, PTL

\* The queue holds exactly the live waiters, the semaphore is never left to a
\* queue that could be served, no wake-up is lost, and no task_struct is used
\* after its last reference.
THEOREM HandOverCorrect ==
  Spec => [](QueueIsWaiters /\ NobodyForgotten /\ NoLostWakeup /\ TaskPinned)
<1>1. IInv => QueueIsWaiters /\ NobodyForgotten /\ NoLostWakeup /\ TaskPinned
  BY DEF IInv, WakeInv, NoLostWakeup
<1> QED
  BY <1>1, Invariance, PTL

\* The variables keep their types: activity stays between -1 and the number of
\* tasks, and references do not go below zero.
THEOREM TypeCorrect == Spec => []TypeOK
BY CountCorrect, PTL

\* The wait list of the semaphore is exactly the waiters that are not granted:
\* nobody on it has a dead stack frame.
THEOREM QueueCorrect == Spec => []QueueIsWaiters
BY HandOverCorrect, PTL

\* A task that was granted the semaphore is awake or about to be woken.
THEOREM NoWakeupLost == Spec => []NoLostWakeup
BY HandOverCorrect, PTL

\* Whoever may still be woken is pinned by the reference of its waiter.
THEOREM TasksArePinned == Spec => []TaskPinned
BY HandOverCorrect, PTL
=============================================================================
