--------------------------- MODULE WaitQueueProofs --------------------------
(***************************************************************************)
(* Proofs about the two kinds of waiters of MCWaitQueues, for every set of *)
(* tasks, every set of bits and every width of the count: the completions  *)
(* of Completion (its names are prefixed X!) and the bit locks of WaitBit. *)
(***************************************************************************)
EXTENDS MCWaitQueues, WaitListTheorems, FiniteSetTheorems

-----------------------------------------------------------------------------
(* Completions.                                                            *)

\* Completion's own copies of the operators it shares with WaitBit are those the
\* theorems about wait lists and finite sets speak of.
LEMMA XList ==
  ASSUME NEW l, NEW w, NEW W
  PROVE  /\ X!Elems(l) = Elems(l)
         /\ X!IsWaitList(l, W) <=> IsWaitList(l, W)
         /\ X!list_add_tail(l, w) = list_add_tail(l, w)
         /\ X!remove_wait_queue(l, w) = list_del(l, w)
BY DEF X!Elems, Elems, X!IsWaitList, IsWaitList, X!list_add_tail, list_add_tail,
       X!remove_wait_queue, X!list_del, list_del
LEMMA XSets ==
  ASSUME NEW W
  PROVE  Cardinality(W) = X!Cardinality(W)
BY Zenon DEF X!Cardinality, Cardinality
LEMMA XStates ==
  /\ X!SleepState = SleepState /\ X!TaskState = TaskState /\ X!Signal = Signal
  /\ None \notin Tasks /\ Wrap \in Nat /\ Wrap > 1
BY CompletionAssumption
   DEF X!CompletionAssumption, X!SleepState, X!TaskState, X!Signal, SleepState, TaskState, Signal

XTypeOK ==
  /\ done \in 0..Wrap-1
  /\ IsWaitList(x_list, Tasks)
  /\ lock \in Tasks \cup {None}
  /\ x_pc \in [Tasks -> {"idle", "prepare", "unlocked", "asleep", "awake"}]
  /\ x_tstate \in [Tasks -> TaskState] /\ x_sig \in [Tasks -> Signal]
  /\ x_mode \in [Tasks -> SleepState] /\ timeout \in [Tasks -> {"max", "left", "zero"}]

\* Exactly those who are inside do_wait_for_common() are on the list; the lock
\* is with the one that has found nothing and is about to sleep; who is in a
\* sleeping state has released it and has not been back.
XQueueInv ==
  /\ \A t \in Tasks : t \in Elems(x_list) <=> x_pc[t] # "idle"
  /\ \A t \in Tasks : x_tstate[t] # "RUNNING" => x_pc[t] \in {"unlocked", "asleep"}
  /\ \A t \in Tasks : x_pc[t] = "prepare" <=> lock = t
  /\ lock # None => done = 0

\* Waiters that are on their way, and the property in their terms.
XAwake == {t \in Elems(x_list) : x_tstate[t] = "RUNNING"}
XServed == XAwake = Elems(x_list) \/ Cardinality(XAwake) >= done

XInv == XTypeOK /\ XQueueInv /\ XServed

\* The waiters that are awake can be counted.
LEMMA AwakeFinite ==
  ASSUME IsWaitList(x_list, Tasks)
  PROVE  /\ Elems(x_list) \subseteq Tasks
         /\ XAwake \in SUBSET Elems(x_list)
         /\ IsFiniteSet(XAwake) /\ Cardinality(XAwake) \in Nat
<1>1. Elems(x_list) \subseteq Tasks
  BY Empty
<1>2. XAwake \in SUBSET Tasks /\ XAwake \in SUBSET Elems(x_list)
  BY <1>1 DEF XAwake
<1>3. IsFiniteSet(XAwake)
  BY <1>2, FS_Subset, WaitBitAssumption
<1> QED
  BY <1>1, <1>2, <1>3, FS_CardinalityType

\* Waking somebody, or nobody, loses nobody who is awake.
LEMMA MoreAwake ==
  ASSUME XTypeOK, XServed, x_list' = x_list, done' \in Nat, done' <= done,
         \A t \in Tasks : x_tstate[t] = "RUNNING" => x_tstate'[t] = "RUNNING"
  PROVE  XServed'
<1>1. /\ Elems(x_list) \subseteq Tasks /\ XAwake \in SUBSET Elems(x_list)
      /\ IsFiniteSet(XAwake) /\ Cardinality(XAwake) \in Nat
  BY AwakeFinite DEF XTypeOK
<1>2. /\ XAwake' \in SUBSET Elems(x_list)
      /\ IsFiniteSet(XAwake') /\ Cardinality(XAwake') \in Nat
  <2>2. XAwake' \in SUBSET Tasks /\ XAwake' \in SUBSET Elems(x_list)
    BY <1>1 DEF XAwake
  <2>3. IsFiniteSet(XAwake')
    BY <2>2, FS_Subset, WaitBitAssumption
  <2> QED
    BY <2>2, <2>3, FS_CardinalityType
<1>3. XAwake \in SUBSET XAwake'
  BY <1>1 DEF XAwake
<1>4. Cardinality(XAwake) <= Cardinality(XAwake')
  BY <1>2, <1>3, FS_Subset
<1>5. done \in Nat
  BY XStates DEF XTypeOK
<1>6. CASE XAwake = Elems(x_list)
  BY <1>2, <1>3, <1>6 DEF XServed
<1>7. CASE Cardinality(XAwake) >= done
  BY <1>1, <1>2, <1>4, <1>5, <1>7 DEF XServed
<1> QED
  BY <1>6, <1>7 DEF XServed

\* As long as nothing has been completed there is nothing to sleep through.
LEMMA NothingDone ==
  ASSUME done' = 0, IsWaitList(x_list', Tasks)
  PROVE  XServed'
<1>1. XAwake' \in SUBSET Tasks
  BY Empty DEF XAwake
<1>2. Cardinality(XAwake') \in Nat
  BY <1>1, FS_Subset, FS_CardinalityType, WaitBitAssumption
<1> QED
  BY <1>2 DEF XServed

\* The invariant holds initially.
LEMMA XInitInv == X!Init => XInv
<1> SUFFICES ASSUME X!Init PROVE XInv
  OBVIOUS
<1>1. IsWaitList(<<>>, Tasks) /\ Elems(<<>>) = {}
  BY DEF IsWaitList, Elems
<1>2. XTypeOK
  BY <1>1, XStates DEF X!Init, XTypeOK, TaskState, Signal, SleepState
<1>3. XQueueInv
  BY <1>1, XStates DEF X!Init, XQueueInv
<1>4. XServed
  BY <1>1 DEF X!Init, XServed, XAwake
<1> QED
  BY <1>2, <1>3, <1>4 DEF XInv

\* A waiter leaves, with the lock, and takes its entry with it.
LEMMA XLeave ==
  ASSUME XTypeOK, XQueueInv, NEW t \in Tasks, lock = None, x_tstate[t] = "RUNNING",
         NEW list, IsWaitList(list, Tasks), Elems(list) = Elems(x_list) \cup {t},
         X!Leave(t, list_del(list, t)), done' \in 0..Wrap-1
  PROVE  /\ XTypeOK' /\ XQueueInv' /\ x_tstate' = x_tstate
         /\ Elems(x_list') = Elems(x_list) \ {t}
<1>1. /\ x_list' = list_del(list, t) /\ lock' = None /\ UNCHANGED <<x_tstate, x_sig>>
      /\ x_pc' = [x_pc EXCEPT ![t] = "idle"]
      /\ x_mode' = [x_mode EXCEPT ![t] = "UNINTERRUPTIBLE"]
      /\ timeout' = [timeout EXCEPT ![t] = "max"]
  BY DEF X!Leave
<1>2. IsWaitList(x_list', Tasks) /\ Elems(x_list') = Elems(list) \ {t}
  BY <1>1, Del
<1>3. XTypeOK'
  BY <1>1, <1>2 DEF XTypeOK, SleepState
<1>4. XQueueInv'
  BY <1>1, <1>2, XStates DEF XTypeOK, XQueueInv
<1> QED
  BY <1>1, <1>2, <1>3, <1>4

\* The top of the loop, entered on the list with nothing completed.
LEMMA XLoop ==
  ASSUME XTypeOK, XQueueInv, NEW t \in Tasks, lock = None, x_tstate[t] = "RUNNING",
         NEW list, IsWaitList(list, Tasks), Elems(list) = Elems(x_list) \cup {t},
         NEW md \in SleepState, NEW tm \in {"max", "left", "zero"},
         done = 0, done' = done, X!Loop(t, list, md, tm)
  PROVE  XInv'
<1>1. CASE X!Leave(t, list_del(list, t))
  <2>1. XTypeOK' /\ XQueueInv'
    BY <1>1, XLeave DEF XTypeOK
  <2> QED
    BY <2>1, NothingDone DEF XInv, XTypeOK
<1>2. CASE /\ x_list' = list /\ lock' = t /\ UNCHANGED <<x_tstate, x_sig>>
           /\ x_pc' = [x_pc EXCEPT ![t] = "prepare"]
           /\ x_mode' = [x_mode EXCEPT ![t] = md]
           /\ timeout' = [timeout EXCEPT ![t] = tm]
  <2>1. XTypeOK'
    BY <1>2 DEF XTypeOK
  <2>2. XQueueInv'
    BY <1>2, XStates DEF XTypeOK, XQueueInv
  <2> QED
    BY <2>1, <2>2, NothingDone DEF XInv, XTypeOK
<1> QED
  BY <1>1, <1>2, XList DEF X!Loop

\* A caller takes what has been completed, or queues.
LEMMA XWaitInv ==
  ASSUME XInv, NEW t \in Tasks, X!Wait(t)
  PROVE  XInv'
<1>1. CASE X!WaitDone(t)
  <2>1. /\ done' = done - 1 /\ done > 0 /\ lock = None
        /\ UNCHANGED <<x_list, lock, x_pc, x_tstate, x_sig, x_mode, timeout>>
    BY <1>1 DEF X!WaitDone, X!targs
  <2>2. XTypeOK'
    BY <2>1, XStates DEF XInv, XTypeOK
  <2>3. XQueueInv'
    BY <2>1 DEF XInv, XQueueInv
  <2>4. XServed'
    BY <2>1, <2>2, MoreAwake, XStates DEF XInv, XTypeOK
  <2> QED
    BY <2>2, <2>3, <2>4 DEF XInv
<1>2. ASSUME NEW md \in Modes, NEW tm \in {"max", "left"}, X!WaitQueue(t, md, tm)
      PROVE  XInv'
  <2>1. /\ x_pc[t] = "idle" /\ lock = None /\ done = 0 /\ done' = done
        /\ X!Loop(t, list_add_tail(x_list, t), md, tm)
    BY <1>2, XList DEF X!WaitQueue
  <2>2. t \notin Elems(x_list) /\ x_tstate[t] = "RUNNING"
    BY <2>1 DEF XInv, XQueueInv
  <2>3. /\ IsWaitList(list_add_tail(x_list, t), Tasks)
        /\ Elems(list_add_tail(x_list, t)) = Elems(x_list) \cup {t}
    BY <2>2, AddTail DEF XInv, XTypeOK
  <2>4. md \in SleepState
    BY WaitBitAssumption
  <2> QED
    BY <2>1, <2>2, <2>3, <2>4, XLoop DEF XInv
<1> QED
  BY <1>1, <1>2 DEF X!Wait

\* The steps of a waiter.
LEMMA XStepInv ==
  ASSUME XInv, NEW t \in Tasks, X!Step(t)
  PROVE  XInv'
<1> USE DEF XInv
<1>0. /\ XTypeOK /\ XQueueInv /\ XServed /\ done \in Nat
      /\ x_pc[t] # "idle" => t \in Elems(x_list)
  BY XStates DEF XTypeOK, XQueueInv
<1>1. CASE X!SetStateAndUnlock(t)
  <2>1. /\ x_pc[t] = "prepare" /\ lock' = None
        /\ x_tstate' = [x_tstate EXCEPT ![t] = x_mode[t]]
        /\ x_pc' = [x_pc EXCEPT ![t] = "unlocked"]
        /\ UNCHANGED <<done, x_list, x_sig, x_mode, timeout>>
    BY <1>1 DEF X!SetStateAndUnlock, X!targs
  <2>2. XTypeOK'
    BY <1>0, <2>1 DEF XTypeOK, TaskState
  <2>3. lock = t /\ done = 0
    BY <1>0, <2>1, XStates DEF XQueueInv
  <2>4. XQueueInv'
    BY <1>0, <2>1, <2>3, XStates DEF XTypeOK, XQueueInv
  <2>5. XServed'
    BY <2>1, <2>2, <2>3, NothingDone DEF XTypeOK
  <2> QED
    BY <2>2, <2>4, <2>5
<1>2. CASE X!Schedule(t)
  <2>1. /\ x_pc[t] = "unlocked" /\ x_pc' = [x_pc EXCEPT ![t] = "asleep"]
        /\ x_tstate' = [x_tstate EXCEPT ![t] = X!schedule_state(x_tstate[t], x_sig[t])]
        /\ UNCHANGED <<done, x_list, lock, x_sig, x_mode, timeout>>
    BY <1>2 DEF X!Schedule, X!targs
  <2>2. /\ X!schedule_state(x_tstate[t], x_sig[t]) \in {x_tstate[t], "RUNNING"}
        /\ x_tstate[t] \in TaskState
    BY <1>0 DEF X!schedule_state, XTypeOK
  <2>3. XTypeOK'
    BY <1>0, <2>1, <2>2 DEF XTypeOK, TaskState
  <2>4. XQueueInv'
    BY <1>0, <2>1, <2>2 DEF XTypeOK, XQueueInv
  <2>5. XServed'
    BY <1>0, <2>1, <2>2, MoreAwake DEF XTypeOK
  <2> QED
    BY <2>3, <2>4, <2>5
<1>3. CASE X!Resume(t)
  <2>1. /\ x_pc[t] = "asleep" /\ x_tstate[t] = "RUNNING"
        /\ x_pc' = [x_pc EXCEPT ![t] = "awake"]
        /\ UNCHANGED <<done, x_list, lock, x_tstate, x_sig, x_mode, timeout>>
    BY <1>3 DEF X!Resume, X!targs
  <2>2. XTypeOK'
    BY <1>0, <2>1 DEF XTypeOK
  <2>3. XQueueInv'
    BY <1>0, <2>1 DEF XTypeOK, XQueueInv
  <2>4. XServed'
    BY <1>0, <2>1, MoreAwake
  <2> QED
    BY <2>2, <2>3, <2>4
<1>4. CASE X!RecheckDone(t)
  <2>1. /\ x_pc[t] = "awake" /\ lock = None /\ done > 0 /\ done' = done - 1
        /\ X!Leave(t, list_del(x_list, t))
    BY <1>4, XList DEF X!RecheckDone
  <2>2. t \in Elems(x_list) /\ x_tstate[t] = "RUNNING"
    BY <1>0, <2>1 DEF XQueueInv
  <2>3. done' \in 0..Wrap-1
    BY <1>0, <2>1, XStates DEF XTypeOK
  <2>4. /\ XTypeOK' /\ XQueueInv' /\ x_tstate' = x_tstate
        /\ Elems(x_list') = Elems(x_list) \ {t}
    <3>1. Elems(x_list) = Elems(x_list) \cup {t} /\ IsWaitList(x_list, Tasks)
      BY <1>0, <2>2 DEF XTypeOK
    <3> QED
      BY <1>0, <2>1, <2>2, <2>3, <3>1, XLeave
  <2>5. XAwake' = XAwake \ {t} /\ t \in XAwake
    BY <2>2, <2>4 DEF XAwake
  <2>6. /\ Cardinality(XAwake') = Cardinality(XAwake) - 1
        /\ Cardinality(XAwake) \in Nat
    BY <1>0, <2>5, AwakeFinite, FS_RemoveElement DEF XTypeOK
  <2>7. XServed'
    BY <1>0, <2>1, <2>4, <2>5, <2>6 DEF XServed
  <2> QED
    BY <2>4, <2>7
<1>5. CASE X!RecheckAgain(t)
  <2>1. /\ x_pc[t] = "awake" /\ lock = None /\ done = 0 /\ done' = done
        /\ \/ X!Leave(t, list_del(x_list, t))
           \/ X!Loop(t, x_list, x_mode[t], timeout[t])
    BY <1>5, XList DEF X!RecheckAgain
  <2>2. t \in Elems(x_list) /\ x_tstate[t] = "RUNNING" /\ done' \in 0..Wrap-1
    BY <1>0, <2>1 DEF XQueueInv, XTypeOK
  <2>3. /\ Elems(x_list) = Elems(x_list) \cup {t} /\ IsWaitList(x_list, Tasks)
        /\ x_mode[t] \in SleepState /\ timeout[t] \in {"max", "left", "zero"}
    BY <1>0, <2>2 DEF XTypeOK
  <2>4. CASE X!Leave(t, list_del(x_list, t))
    <3>1. XTypeOK' /\ XQueueInv'
      BY <1>0, <2>1, <2>2, <2>3, <2>4, XLeave
    <3> QED
      BY <2>1, <3>1, NothingDone DEF XTypeOK
  <2>5. CASE X!Loop(t, x_list, x_mode[t], timeout[t])
    BY <1>0, <2>1, <2>2, <2>3, <2>5, XLoop
  <2> QED
    BY <2>1, <2>4, <2>5
<1> QED
  BY <1>1, <1>2, <1>3, <1>4, <1>5 DEF X!Step

\* __wake_up_common() with nr_exclusive = 1 wakes somebody, if anybody sleeps.
LEMMA XFirstSleeper ==
  ASSUME XTypeOK, XAwake # Elems(x_list)
  PROVE  \E w \in Tasks : /\ X!Woken(w) /\ w \in Elems(x_list) /\ w \notin XAwake
<1> DEFINE Asleep == {i \in 1..Len(x_list) : x_tstate[x_list[i]] # "RUNNING"}
<1>1. x_list \in Seq(Tasks) /\ Len(x_list) \in Nat
  BY DEF XTypeOK, IsWaitList
<1>2. Asleep \in SUBSET Nat /\ Asleep # {}
  BY <1>1 DEF XAwake, Elems
<1>3. PICK m \in Asleep : \A k \in Asleep : m <= k
  BY <1>2, Least
<1>4. \A j \in 1..m-1 : j \in 1..Len(x_list) /\ j \notin Asleep
  BY <1>1, <1>3
<1>5. X!Woken(x_list[m])
  BY <1>1, <1>3, <1>4 DEF X!Woken, X!Sleeping
<1>6. x_list[m] \in Tasks /\ x_list[m] \in Elems(x_list) /\ x_list[m] \notin XAwake
  BY <1>1, <1>3 DEF Elems, XAwake
<1> QED
  BY <1>5, <1>6

\* Counting one more, or half of the range more, stays in the width of the count.
LEMMA XPlus ==
  ASSUME NEW a \in 0..Wrap-1, NEW b \in Nat
  PROVE  /\ X!Plus(a, b) \in 0..Wrap-1
         /\ X!Plus(a, b) <= a + b
<1>1. Wrap \in Nat /\ Wrap > 1
  BY XStates
<1>2. (a + b) % Wrap \in 0..Wrap-1 /\ (a + b) % Wrap <= a + b
  BY <1>1, SMT
<1> QED
  BY <1>2 DEF X!Plus

\* Completing.
LEMMA XCompleteInv ==
  ASSUME XInv, X!complete \/ X!complete_all \/ X!INIT_COMPLETION
  PROVE  XInv'
<1>0. /\ XTypeOK /\ XQueueInv /\ XServed /\ done \in Nat /\ done \in 0..Wrap-1
      /\ Wrap \in Nat /\ Wrap > 1
  BY XStates DEF XInv, XTypeOK
<1>1. ASSUME NEW b \in Nat, lock = None, done' = X!Plus(done, b),
             UNCHANGED <<x_list, lock, x_pc, x_sig, x_mode, timeout>>,
             x_tstate' \in [Tasks -> TaskState],
             \A u \in Tasks : x_tstate'[u] \in {x_tstate[u], "RUNNING"}
      PROVE  XTypeOK' /\ XQueueInv'
  <2>1. done' \in 0..Wrap-1
    BY <1>0, <1>1, XPlus
  <2>2. XTypeOK'
    BY <1>0, <1>1, <2>1 DEF XTypeOK
  <2>3. XQueueInv'
    BY <1>0, <1>1 DEF XQueueInv
  <2> QED
    BY <2>2, <2>3
<1>2. CASE X!complete
  <2>1. /\ lock = None /\ done' = X!Plus(done, 1)
        /\ UNCHANGED <<x_list, lock, x_pc, x_sig, x_mode, timeout>>
        /\ x_tstate' = [u \in Tasks |-> IF x_list # <<>> /\ X!Woken(u) THEN "RUNNING" ELSE x_tstate[u]]
    BY <1>2 DEF X!complete, X!targs
  <2>2. /\ x_tstate' \in [Tasks -> TaskState]
        /\ \A u \in Tasks : x_tstate'[u] \in {x_tstate[u], "RUNNING"}
    BY <1>0, <2>1 DEF XTypeOK, TaskState
  <2>3. XTypeOK' /\ XQueueInv'
    BY <1>1, <2>1, <2>2
  <2>4. done' \in Nat /\ done' <= done + 1
    BY <1>0, <2>1, XPlus
  <2>5. /\ Elems(x_list) \subseteq Tasks /\ XAwake \in SUBSET Elems(x_list)
        /\ IsFiniteSet(XAwake) /\ Cardinality(XAwake) \in Nat
    BY <1>0, AwakeFinite DEF XTypeOK
  <2>6. CASE XAwake = Elems(x_list)
    <3>1. XAwake' = Elems(x_list)
      BY <2>1, <2>2, <2>5, <2>6 DEF XAwake
    <3> QED
      BY <2>1, <2>3, <3>1 DEF XServed, XInv
  <2>7. CASE XAwake # Elems(x_list)
    <3>1. PICK w \in Tasks : X!Woken(w) /\ w \in Elems(x_list) /\ w \notin XAwake
      BY <1>0, <2>7, XFirstSleeper
    <3>2. x_list # <<>>
      BY <3>1 DEF Elems
    <3>3. x_tstate'[w] = "RUNNING"
      BY <2>1, <3>1, <3>2
    <3>4. (XAwake \cup {w}) \in SUBSET XAwake' /\ XAwake' \in SUBSET Tasks
      BY <2>1, <2>2, <2>5, <3>1, <3>3 DEF XAwake
    <3>5. Cardinality(XAwake \cup {w}) = Cardinality(XAwake) + 1
      BY <2>5, <3>1, FS_AddElement
    <3>6. IsFiniteSet(XAwake')
      BY <3>4, FS_Subset, WaitBitAssumption
    <3>7. Cardinality(XAwake) + 1 <= Cardinality(XAwake') /\ Cardinality(XAwake') \in Nat
      BY <3>4, <3>5, <3>6, FS_Subset, FS_CardinalityType
    <3>8. Cardinality(XAwake) >= done
      BY <1>0, <2>7 DEF XServed
    <3>9. Cardinality(XAwake') >= done'
      BY <1>0, <2>4, <2>5, <3>7, <3>8
    <3> QED
      BY <2>3, <3>9 DEF XServed, XInv
  <2> QED
    BY <2>6, <2>7
<1>3. CASE X!complete_all
  <2>1. /\ lock = None /\ done' = X!Plus(done, (Wrap - 1) \div 2)
        /\ UNCHANGED <<x_list, lock, x_pc, x_sig, x_mode, timeout>>
        /\ x_tstate' = [u \in Tasks |-> IF u \in Elems(x_list) THEN "RUNNING" ELSE x_tstate[u]]
    BY <1>3, XList DEF X!complete_all, X!targs
  <2>2. /\ x_tstate' \in [Tasks -> TaskState]
        /\ \A u \in Tasks : x_tstate'[u] \in {x_tstate[u], "RUNNING"}
    BY <1>0, <2>1 DEF XTypeOK, TaskState
  <2>3. (Wrap - 1) \div 2 \in Nat
    BY <1>0
  <2>4. XTypeOK' /\ XQueueInv'
    BY <1>1, <2>1, <2>2, <2>3
  <2>5. Elems(x_list) \subseteq Tasks
    BY <1>0, AwakeFinite DEF XTypeOK
  <2>6. XAwake' = Elems(x_list)
    BY <2>1, <2>5 DEF XAwake
  <2> QED
    BY <2>1, <2>4, <2>6 DEF XServed, XInv
<1>4. CASE X!INIT_COMPLETION
  <2>1. done' = 0 /\ UNCHANGED <<x_list, lock, x_pc, x_tstate, x_sig, x_mode, timeout>>
    BY <1>4 DEF X!INIT_COMPLETION, X!targs
  <2>2. XTypeOK' /\ XQueueInv'
    BY <1>0, <2>1 DEF XTypeOK, XQueueInv
  <2> QED
    BY <2>1, <2>2, NothingDone DEF XInv, XTypeOK
<1> QED
  BY <1>2, <1>3, <1>4

\* Signals, timers and stray wake-ups only make tasks runnable.
LEMMA XOutsideInv ==
  ASSUME XInv, NEW t \in Tasks,
         \/ X!HandleSignal(t) \/ X!TimerExpires(t) \/ X!StrayWakeup(t)
         \/ \E s \in Signals : X!SendSignal(t, s)
  PROVE  XInv'
<1>0. XTypeOK /\ XQueueInv /\ XServed /\ done \in Nat
  BY XStates DEF XInv, XTypeOK
<1>1. ASSUME UNCHANGED <<done, x_list, lock, x_pc, x_mode>>,
             x_sig' \in [Tasks -> Signal], timeout' \in [Tasks -> {"max", "left", "zero"}],
             NEW st \in TaskState, st \in {x_tstate[t], "RUNNING"},
             x_tstate' = [x_tstate EXCEPT ![t] = st]
      PROVE  XInv'
  <2>1. XTypeOK'
    BY <1>0, <1>1 DEF XTypeOK
  <2>2. XQueueInv'
    BY <1>0, <1>1 DEF XQueueInv, XTypeOK
  <2>3. XServed'
    BY <1>0, <1>1, MoreAwake DEF XTypeOK
  <2> QED
    BY <2>1, <2>2, <2>3 DEF XInv
<1>2. /\ x_tstate[t] \in TaskState /\ "RUNNING" \in TaskState
      /\ [x_tstate EXCEPT ![t] = x_tstate[t]] = x_tstate
      /\ x_sig \in [Tasks -> Signal] /\ timeout \in [Tasks -> {"max", "left", "zero"}]
  BY <1>0 DEF XTypeOK, TaskState
<1>3. CASE X!HandleSignal(t)
  <2>1. /\ UNCHANGED <<done, x_list, lock, x_pc, x_mode, timeout, x_tstate>>
        /\ x_sig' = [x_sig EXCEPT ![t] = "none"]
    BY <1>3 DEF X!HandleSignal, X!targs
  <2>2. x_sig' \in [Tasks -> Signal]
    BY <1>2, <2>1 DEF Signal
  <2> QED
    BY <1>1, <1>2, <2>1, <2>2
<1>4. CASE X!TimerExpires(t)
  <2>1. /\ UNCHANGED <<done, x_list, lock, x_pc, x_mode, x_sig>>
        /\ timeout' = [timeout EXCEPT ![t] = "zero"]
        /\ x_tstate' = [x_tstate EXCEPT ![t] = "RUNNING"]
    BY <1>4 DEF X!TimerExpires, X!wake_up_process
  <2>2. timeout' \in [Tasks -> {"max", "left", "zero"}]
    BY <1>2, <2>1
  <2> QED
    BY <1>1, <1>2, <2>1, <2>2
<1>5. CASE X!StrayWakeup(t)
  <2>1. /\ UNCHANGED <<done, x_list, lock, x_pc, x_mode, x_sig, timeout>>
        /\ x_tstate' = [x_tstate EXCEPT ![t] = "RUNNING"]
    BY <1>5 DEF X!StrayWakeup, X!wake_up_process, X!targs
  <2> QED
    BY <1>1, <1>2, <2>1
<1>6. ASSUME NEW s \in Signals, X!SendSignal(t, s)
      PROVE  XInv'
  <2>1. /\ UNCHANGED <<done, x_list, lock, x_pc, x_mode, timeout>>
        /\ x_sig' = [x_sig EXCEPT ![t] = s]
        /\ x_tstate' = [x_tstate EXCEPT ![t] = X!signal_wake_up(x_tstate[t], s)]
    BY <1>6 DEF X!SendSignal, X!targs
  <2>2. X!signal_wake_up(x_tstate[t], s) \in {x_tstate[t], "RUNNING"}
    BY DEF X!signal_wake_up
  <2>3. x_sig' \in [Tasks -> Signal]
    BY <1>2, <2>1, WaitBitAssumption
  <2> QED
    BY <1>1, <1>2, <2>1, <2>2, <2>3
<1> QED
  BY <1>3, <1>4, <1>5, <1>6

\* Every step keeps the invariant, and so it always holds.
LEMMA XInvariance == X!Spec => []XInv
<1>1. ASSUME XInv, [X!Next]_X!vars
      PROVE  XInv'
  <2>1. CASE X!Next
    BY <1>1, <2>1, XWaitInv, XStepInv, XCompleteInv, XOutsideInv DEF X!Next
  <2>2. CASE UNCHANGED X!vars
    <3>1. UNCHANGED <<done, x_list, lock, x_pc, x_tstate, x_sig, x_mode, timeout>>
      BY <2>2 DEF X!vars, X!targs
    <3> QED
      BY <1>1, <3>1 DEF XInv, XTypeOK, XQueueInv, XServed, XAwake
  <2> QED
    BY <1>1, <2>1, <2>2
<1> QED
  BY <1>1, XInitInv, PTL DEF X!Spec

\* Nobody sleeps through a completion: as many waiters are on their way as
\* completions are left to take, or all of them, whoever else woke a waiter that
\* complete() passed over, and whatever a newcomer took first.
THEOREM CompletionsAreTaken == X!Spec => []NobodySleepsThrough
<1>1. ASSUME XInv
      PROVE  NobodySleepsThrough
  <2>1. X!Awake = XAwake /\ X!Elems(x_list) = Elems(x_list)
    BY XList DEF X!Awake, X!Sleeping, XAwake
  <2> QED
    BY <1>1, <2>1, XSets DEF XInv, XServed, NobodySleepsThrough, X!NobodySleepsThrough
<1> QED
  BY <1>1, XInvariance, PTL

-----------------------------------------------------------------------------
(* Bit locks.                                                              *)

\* Only an exclusive waiter takes the bit or gives up with a wake-up in hand; who
\* gives up or takes its entry off the queue is running; only one that does not want
\* the bit leaves without it.
RoleInv ==
  \A t \in Tasks :
    /\ pc[t] \in {"abort", "locked"} => excl[t]
    /\ pc[t] \in {"abort", "unqueue"} => tstate[t] = "RUNNING"
    /\ pc[t] = "finish" => ~excl[t]

\* A bit that somebody has taken is set, and nobody else has taken it.
Holds(t) == pc[t] \in {"hold", "locked"} \/ (pc[t] = "unqueue" /\ excl[t])
HoldInv ==
  /\ \A t \in Tasks : Holds(t) => bit[key[t]]
  /\ \A t, u \in Tasks : Holds(t) /\ Holds(u) /\ key[t] = key[u] => t = u

\* One waker at a time is at the queue.  What it has still to look at is queued, but
\* for the entry it has just unlinked, and whom it unlinks it has woken.
ScanInv ==
  /\ \A t, u \in Tasks : Scanning(t) /\ Scanning(u) => t = u
  /\ LockFree => scan = <<>>
  /\ \A t \in Tasks :
       /\ pc[t] \in {"scan", "unlink"} => Elems(scan) \subseteq Elems(task_list)
       /\ pc[t] \in {"unlink", "init"} => scan # <<>> /\ tstate[Head(scan)] = "RUNNING"
       /\ pc[t] = "init" => Elems(scan) \ {Head(scan)} \subseteq Elems(task_list)

BInv == TypeOK /\ QueueIsWaiters /\ RoleInv /\ HoldInv /\ ScanInv

\* The entry a waker looks at is the first of those left.
LEMMA ScanHead ==
  ASSUME TypeOK
  PROVE  /\ Elems(scan) \subseteq Tasks /\ (scan = <<>> => Elems(scan) = {})
         /\ scan # <<>> => /\ Head(scan) \in Elems(scan) /\ Head(scan) \in Tasks
                           /\ IsWaitList(Tail(scan), Tasks)
                           /\ Elems(Tail(scan)) = Elems(scan) \ {Head(scan)}
<1>1. IsWaitList(scan, Tasks)
  BY DEF TypeOK
<1>2. Elems(scan) \subseteq Tasks /\ (scan = <<>> => Elems(scan) = {})
  BY <1>1, Empty DEF list_empty
<1>3. scan # <<>> => Head(scan) \in Elems(scan)
  BY <1>1, First DEF list_empty, list_first_entry
<1>4. scan # <<>> => IsWaitList(Tail(scan), Tasks) /\ Elems(Tail(scan)) = Elems(scan) \ {Head(scan)}
  BY <1>1, Pop
<1> QED
  BY <1>2, <1>3, <1>4

\* Whoever looks at its own entry with list_empty_careful() and finds it empty is
\* out of the waker's sight.
LEMMA CarefulIsEnough ==
  ASSUME TypeOK, ScanInv, NEW t \in Tasks, list_empty_careful(t)
  PROVE  ~Queued(t) /\ t \notin Elems(scan)
<1>1. ~Queued(t) /\ ~HalfUnlinked(t)
  BY DEF list_empty_careful
<1>2. CASE LockFree
  BY <1>1, <1>2, ScanHead DEF ScanInv
<1>3. ASSUME NEW u \in Tasks, pc[u] \in {"scan", "unlink"}
      PROVE  t \notin Elems(scan)
  BY <1>1, <1>3 DEF ScanInv, Queued
<1>4. ASSUME NEW u \in Tasks, pc[u] = "init"
      PROVE  t \notin Elems(scan)
  BY <1>1, <1>4 DEF ScanInv, Queued, HalfUnlinked
<1> QED
  BY <1>1, <1>2, <1>3, <1>4 DEF LockFree, Scanning

\* Steps that leave the queue and the waker alone.
LEMMA QuietStep ==
  ASSUME TypeOK, QueueIsWaiters, ScanInv, UNCHANGED <<task_list, scan>>,
         \A u \in Tasks : tstate'[u] \in {tstate[u], "RUNNING"},
         \A u \in Tasks :
           \/ pc'[u] = pc[u]
           \/ /\ ~Scanning(u) /\ pc'[u] \notin {"scan", "unlink", "init"}
              /\ pc'[u] \in Waiting \/ (~Queued(u) /\ u \notin Elems(scan))
  PROVE  QueueIsWaiters' /\ ScanInv'
<1>1. QueueIsWaiters'
  BY DEF QueueIsWaiters, Queued
<1>2. \A u \in Tasks : pc[u] \in {"scan", "unlink", "init"} \/ pc'[u] \in {"scan", "unlink", "init"}
                         => pc'[u] = pc[u]
  BY DEF Scanning
<1>3. \A t, u \in Tasks : Scanning(t)' /\ Scanning(u)' => t = u
  BY <1>2 DEF ScanInv, Scanning
<1>4. LockFree' => scan' = <<>>
  BY <1>2 DEF ScanInv, LockFree, Scanning
<1>5. ASSUME NEW t \in Tasks
      PROVE  /\ pc'[t] \in {"scan", "unlink"} => Elems(scan') \subseteq Elems(task_list')
             /\ pc'[t] \in {"unlink", "init"} => scan' # <<>> /\ tstate'[Head(scan)] = "RUNNING"
             /\ pc'[t] = "init" => Elems(scan') \ {Head(scan')} \subseteq Elems(task_list')
  <2>1. pc'[t] \in {"unlink", "init"} => scan # <<>> /\ tstate[Head(scan)] = "RUNNING"
    BY <1>2 DEF ScanInv
  <2>2. scan # <<>> => Head(scan) \in Tasks
    BY ScanHead
  <2> QED
    BY <1>2, <2>1, <2>2 DEF ScanInv
<1> QED
  BY <1>1, <1>3, <1>4, <1>5 DEF ScanInv

\* Steps that hold the lock for themselves.
LEMMA LockedStep ==
  ASSUME TypeOK, ScanInv, LockFree, scan' = scan,
         \A u \in Tasks : pc'[u] \notin {"scan", "unlink", "init"}
  PROVE  ScanInv' /\ Elems(scan) = {}
<1>1. scan = <<>> /\ Elems(scan) = {}
  BY ScanHead DEF ScanInv
<1> QED
  BY <1>1 DEF ScanInv, Scanning

\* The invariant holds initially.
LEMMA BInitInv == Init => BInv
<1> SUFFICES ASSUME Init PROVE BInv
  OBVIOUS
<1>1. IsWaitList(<<>>, Tasks) /\ Elems(<<>>) = {}
  BY DEF IsWaitList, Elems
<1>2. PICK k \in Keys : key = [t \in Tasks |-> k]
  BY DEF Init
<1>3. TypeOK
  BY <1>1, <1>2 DEF Init, TypeOK, TaskState, Signal, SleepState
<1>4. QueueIsWaiters
  BY <1>1 DEF Init, QueueIsWaiters, Queued
<1>5. RoleInv /\ HoldInv
  BY DEF Init, RoleInv, HoldInv, Holds
<1>6. ScanInv
  BY DEF Init, ScanInv, Scanning
<1> QED
  BY <1>3, <1>4, <1>5, <1>6 DEF BInv

\* list_add() of a waiter that is not on the list: it becomes the first one.
LEMMA AddHead ==
  ASSUME NEW W, NEW list, IsWaitList(list, W), NEW w \in W, w \notin Elems(list)
  PROVE  /\ IsWaitList(<<w>> \o list, W)
         /\ Elems(<<w>> \o list) = Elems(list) \cup {w}
<1> DEFINE new == <<w>> \o list
           n == Len(list)
<1>1. list \in Seq(W) /\ n \in Nat /\ <<w>> \in Seq(W) /\ Len(<<w>>) = 1 /\ <<w>>[1] = w
  BY DEF IsWaitList
<1>2. new \in Seq(W) /\ Len(new) = n + 1
  BY <1>1
<1>3. \A i \in 1..n+1 : new[i] = IF i = 1 THEN w ELSE list[i - 1]
  BY <1>1
<1>4. \A i \in 1..n+1 : i # 1 => i - 1 \in 1..n
  BY <1>1
<1>5. \A i \in 1..n : list[i] # w /\ i + 1 \in 1..n+1 /\ i + 1 # 1 /\ (i + 1) - 1 = i
  BY <1>1 DEF Elems
<1> HIDE DEF new
<1>6. \A i, j \in 1..n+1 : new[i] = new[j] => i = j
  <2> SUFFICES ASSUME NEW i \in 1..n+1, NEW j \in 1..n+1, new[i] = new[j]
               PROVE  i = j
    OBVIOUS
  <2>1. CASE i # 1 /\ j # 1
    <3>1. i - 1 = j - 1
      BY <1>3, <1>4, <2>1 DEF IsWaitList
    <3> QED
      BY <3>1
  <2>2. CASE i = 1 \/ j = 1
    BY <1>3, <1>4, <1>5, <2>2
  <2> QED
    BY <2>1, <2>2
<1>7. Elems(new) \subseteq Elems(list) \cup {w}
  BY <1>2, <1>3, <1>4 DEF Elems
<1>8. w \in Elems(new)
  <2>1. 1 \in 1..n+1
    BY <1>1
  <2> QED
    BY <1>2, <1>3, <2>1 DEF Elems
<1>9. Elems(list) \subseteq Elems(new)
  <2> SUFFICES ASSUME NEW i \in 1..n PROVE list[i] \in Elems(new)
    BY DEF Elems
  <2>1. new[i + 1] = list[i]
    BY <1>3, <1>5
  <2> QED
    BY <1>2, <1>5, <2>1 DEF Elems
<1> QED
  BY <1>2, <1>6, <1>7, <1>8, <1>9 DEF IsWaitList, new

\* A waker, or a waiter that passes its wake-up on, takes the lock.
LEMMA BTakeLock ==
  ASSUME BInv, NEW t \in Tasks, pc[t] \in {"wake", "abort"}, ~Queued(t), LockFree, scan' = task_list,
         pc' = [pc EXCEPT ![t] = "scan"], UNCHANGED <<bit, task_list, tstate, sig, key, excl, mode>>
  PROVE  BInv'
<1>0. TypeOK /\ QueueIsWaiters /\ RoleInv /\ HoldInv /\ ScanInv
  BY DEF BInv
<1>1. pc'[t] = "scan" /\ \A u \in Tasks : u # t => pc'[u] = pc[u]
  BY <1>0 DEF TypeOK
<1>2. TypeOK'
  BY <1>0 DEF TypeOK
<1>3. QueueIsWaiters'
  BY <1>0, <1>1 DEF QueueIsWaiters, Queued
<1>4. RoleInv' /\ HoldInv'
  BY <1>0, <1>1 DEF RoleInv, HoldInv, Holds
<1>5. ScanInv'
  BY <1>0, <1>1 DEF ScanInv, LockFree, Scanning
<1> QED
  BY <1>2, <1>3, <1>4, <1>5 DEF BInv

\* The waker: it clears the bit, looks at the queue, takes the lock.
LEMMA BWakerInv ==
  ASSUME BInv, NEW t \in Tasks, Unlock(t) \/ WakeTest(t) \/ WakeUp(t)
  PROVE  BInv'
<1>0. TypeOK /\ QueueIsWaiters /\ RoleInv /\ HoldInv /\ ScanInv
  BY DEF BInv
<1>1. CASE Unlock(t)
  <2>1. /\ pc[t] = "hold" /\ bit' = [bit EXCEPT ![key[t]] = FALSE]
        /\ pc' = [pc EXCEPT ![t] = "active"]
        /\ UNCHANGED <<task_list, scan, tstate, sig, key, excl, mode>>
    BY <1>1 DEF Unlock, Goto, targs
  <2>2. TypeOK'
    BY <1>0, <2>1 DEF TypeOK
  <2>3. QueueIsWaiters' /\ ScanInv'
    BY <1>0, <2>1, QuietStep DEF TypeOK, QueueIsWaiters, Scanning, Waiting
  <2>4. RoleInv'
    BY <1>0, <2>1 DEF TypeOK, RoleInv
  <2>5. HoldInv'
    BY <1>0, <2>1 DEF TypeOK, HoldInv, Holds
  <2> QED
    BY <2>2, <2>3, <2>4, <2>5 DEF BInv
<1>2. CASE WakeTest(t)
  <2>1. PICK l \in {"idle", "wake"} : pc' = [pc EXCEPT ![t] = l]
    BY <1>2 DEF WakeTest, Goto
  <2>2. pc[t] = "active" /\ UNCHANGED <<bit, task_list, scan, tstate, sig, key, excl, mode>>
    BY <1>2 DEF WakeTest, targs
  <2>3. TypeOK'
    BY <1>0, <2>1, <2>2 DEF TypeOK
  <2>4. QueueIsWaiters' /\ ScanInv'
    BY <1>0, <2>1, <2>2, QuietStep DEF TypeOK, QueueIsWaiters, Scanning, Waiting
  <2>5. RoleInv'
    BY <1>0, <2>1, <2>2 DEF TypeOK, RoleInv
  <2>6. HoldInv'
    BY <1>0, <2>1, <2>2 DEF TypeOK, HoldInv, Holds
  <2> QED
    BY <2>3, <2>4, <2>5, <2>6 DEF BInv
<1>3. CASE WakeUp(t)
  <2>1. /\ pc[t] = "wake" /\ LockFree /\ scan' = task_list
        /\ pc' = [pc EXCEPT ![t] = "scan"]
        /\ UNCHANGED <<bit, task_list, tstate, sig, key, excl, mode>>
    BY <1>3 DEF WakeUp, Goto, targs
  <2> QED
    BY <1>0, <2>1, BTakeLock DEF QueueIsWaiters, Waiting
<1> QED
  BY <1>1, <1>2, <1>3

\* The waker at the queue.
LEMMA BScanInv ==
  ASSUME BInv, NEW t \in Tasks, ScanNext(t) \/ Unlink(t) \/ UnlinkInit(t) \/ ScanEnd(t)
  PROVE  BInv'
<1>0. TypeOK /\ QueueIsWaiters /\ RoleInv /\ HoldInv /\ ScanInv
  BY DEF BInv
<1>1. ASSUME NEW e \in Tasks, e = Head(scan), pc[t] = "scan", scan # <<>>,
             tstate' = [tstate EXCEPT ![e] = "RUNNING"], scan' \in {<<e>>, scan},
             pc' = [pc EXCEPT ![t] = "unlink"], UNCHANGED <<bit, task_list, sig, key, excl, mode>>
      PROVE  BInv'
  <2>1. e \in Elems(scan) /\ Elems(scan) \subseteq Elems(task_list)
    BY <1>0, <1>1, ScanHead DEF ScanInv
  <2>2. /\ IsWaitList(scan', Tasks) /\ scan' # <<>> /\ Head(scan') = e
        /\ Elems(scan') \subseteq Elems(scan)
    <3>1. CASE scan' = <<e>>
      <4>1. IsWaitList(<<e>>, Tasks) /\ Elems(<<e>>) = {e} /\ <<e>> # <<>> /\ Head(<<e>>) = e
        BY DEF IsWaitList, Elems
      <4> QED
        BY <2>1, <3>1, <4>1
    <3>2. CASE scan' = scan
      BY <1>0, <1>1, <3>2 DEF TypeOK
    <3> QED
      BY <1>1, <3>1, <3>2
  <2>3. pc'[t] = "unlink" /\ \A u \in Tasks : u # t => pc'[u] = pc[u]
    BY <1>0, <1>1 DEF TypeOK
  <2>4. tstate'[e] = "RUNNING" /\ \A u \in Tasks : u # e => tstate'[u] = tstate[u]
    BY <1>0, <1>1 DEF TypeOK
  <2>5. TypeOK'
    BY <1>0, <1>1, <2>2 DEF TypeOK, TaskState
  <2>6. QueueIsWaiters'
    BY <1>0, <1>1, <2>2, <2>3, <2>4 DEF QueueIsWaiters, Queued, Waiting
  <2>7. RoleInv'
    BY <1>0, <1>1, <2>3, <2>4 DEF RoleInv
  <2>8. HoldInv'
    BY <1>0, <1>1, <2>3 DEF HoldInv, Holds
  <2>9. \A u \in Tasks : u # t => ~Scanning(u) /\ pc'[u] = pc[u]
    BY <1>0, <1>1, <2>3 DEF ScanInv, Scanning
  <2>10. ScanInv'
    BY <1>1, <2>1, <2>2, <2>3, <2>4, <2>9 DEF ScanInv, LockFree, Scanning
  <2> QED
    BY <2>5, <2>6, <2>7, <2>8, <2>10 DEF BInv
<1>2. ASSUME scan # <<>>, scan' = Tail(scan), pc[t] \in {"scan", "init"},
             pc' = [pc EXCEPT ![t] = "scan"],
             UNCHANGED <<bit, task_list, tstate, sig, key, excl, mode>>
      PROVE  BInv'
  <2>1. /\ IsWaitList(scan', Tasks) /\ Elems(scan') = Elems(scan) \ {Head(scan)}
        /\ Elems(scan') \subseteq Elems(task_list)
    BY <1>0, <1>2, ScanHead DEF ScanInv
  <2>2. pc'[t] = "scan" /\ \A u \in Tasks : u # t => ~Scanning(u) /\ pc'[u] = pc[u]
    BY <1>0, <1>2 DEF TypeOK, ScanInv, Scanning
  <2>3. TypeOK'
    BY <1>0, <1>2, <2>1 DEF TypeOK
  <2>4. QueueIsWaiters'
    BY <1>0, <1>2, <2>1, <2>2 DEF QueueIsWaiters, Queued, Waiting
  <2>5. RoleInv' /\ HoldInv'
    BY <1>0, <1>2, <2>2 DEF RoleInv, HoldInv, Holds
  <2>6. ScanInv'
    BY <1>2, <2>1, <2>2 DEF ScanInv, LockFree, Scanning
  <2> QED
    BY <2>3, <2>4, <2>5, <2>6 DEF BInv
<1>3. CASE ScanNext(t)
  <2>1. PICK e \in Tasks : e = Head(scan)
    BY <1>0, <1>3, ScanHead DEF ScanNext
  <2>2. /\ pc[t] = "scan" /\ scan # <<>> /\ UNCHANGED <<bit, task_list, sig, key, excl, mode>>
    BY <1>3 DEF ScanNext, targs
  <2>3. CASE Wakes(e, key[t], WakeMode(t))
    <3>1. /\ tstate' = [tstate EXCEPT ![e] = "RUNNING"] /\ scan' \in {<<e>>, scan}
          /\ pc' = [pc EXCEPT ![t] = "unlink"]
      BY <1>3, <2>1, <2>3 DEF ScanNext, Goto, wake_up_process
    <3> QED
      BY <1>1, <2>1, <2>2, <3>1
  <2>4. CASE ~Wakes(e, key[t], WakeMode(t))
    <3>1. scan' = Tail(scan) /\ UNCHANGED <<tstate, pc>>
      BY <1>3, <2>1, <2>4 DEF ScanNext
    <3>2. pc' = [pc EXCEPT ![t] = "scan"]
      BY <1>0, <2>2, <3>1 DEF TypeOK
    <3> QED
      BY <1>2, <2>2, <3>1, <3>2
  <2> QED
    BY <2>3, <2>4
<1>4. CASE Unlink(t)
  <2>1. /\ pc[t] = "unlink" /\ task_list' = list_del(task_list, Head(scan))
        /\ pc' = [pc EXCEPT ![t] = "init"]
        /\ UNCHANGED <<bit, scan, tstate, sig, key, excl, mode>>
    BY <1>4 DEF Unlink, Goto, targs
  <2>2. PICK e \in Elems(task_list) : e = Head(scan) /\ e \in Tasks /\ tstate[e] = "RUNNING"
    BY <1>0, <2>1, ScanHead DEF ScanInv
  <2>3. IsWaitList(task_list', Tasks) /\ Elems(task_list') = Elems(task_list) \ {e}
    BY <1>0, <2>1, <2>2, Del DEF TypeOK
  <2>4. pc'[t] = "init" /\ \A u \in Tasks : u # t => ~Scanning(u) /\ pc'[u] = pc[u]
    BY <1>0, <2>1 DEF TypeOK, ScanInv, Scanning
  <2>5. TypeOK'
    BY <1>0, <2>1, <2>3 DEF TypeOK
  <2>6. QueueIsWaiters'
    BY <1>0, <2>1, <2>2, <2>3, <2>4 DEF QueueIsWaiters, Queued, Waiting
  <2>7. RoleInv' /\ HoldInv'
    BY <1>0, <2>1, <2>4 DEF RoleInv, HoldInv, Holds
  <2>8. scan # <<>> /\ Elems(scan) \subseteq Elems(task_list)
    BY <1>0, <2>1 DEF ScanInv
  <2>9. ScanInv'
    BY <2>1, <2>2, <2>3, <2>4, <2>8 DEF ScanInv, LockFree, Scanning
  <2> QED
    BY <2>5, <2>6, <2>7, <2>9 DEF BInv
<1>5. CASE UnlinkInit(t)
  <2>1. scan # <<>>
    BY <1>0, <1>5 DEF ScanInv, UnlinkInit
  <2> QED
    BY <1>2, <1>5, <2>1 DEF UnlinkInit, Goto, targs
<1>6. CASE ScanEnd(t)
  <2>1. /\ pc[t] = "scan" /\ scan = <<>> /\ pc' = [pc EXCEPT ![t] = "idle"]
        /\ excl' = [excl EXCEPT ![t] = FALSE] /\ mode' = [mode EXCEPT ![t] = "UNINTERRUPTIBLE"]
        /\ UNCHANGED <<bit, task_list, scan, tstate, sig, key>>
    BY <1>6 DEF ScanEnd, Return, Goto
  <2>2. pc'[t] = "idle" /\ \A u \in Tasks : u # t => /\ ~Scanning(u) /\ pc'[u] = pc[u]
                                                     /\ excl'[u] = excl[u]
    BY <1>0, <2>1 DEF TypeOK, ScanInv, Scanning
  <2>3. TypeOK'
    <3>1. excl' \in [Tasks -> BOOLEAN]
      BY <1>0, <2>1 DEF TypeOK
    <3> QED
      BY <1>0, <2>1, <3>1 DEF TypeOK, SleepState
  <2>4. QueueIsWaiters'
    BY <1>0, <2>1, <2>2 DEF QueueIsWaiters, Queued, Waiting
  <2>5. RoleInv' /\ HoldInv'
    BY <1>0, <2>1, <2>2 DEF RoleInv, HoldInv, Holds
  <2>6. ScanInv'
    BY <2>1, <2>2 DEF ScanInv, LockFree, Scanning
  <2> QED
    BY <2>3, <2>4, <2>5, <2>6 DEF BInv
<1> QED
  BY <1>3, <1>4, <1>5, <1>6

\* A caller: it takes a clear bit, or goes to wait.
LEMMA BEnterInv ==
  ASSUME BInv, NEW t \in Tasks, NEW k \in Keys, NEW md \in Modes,
         Lock(t, k, md) \/ Wait(t, k, md)
  PROVE  BInv'
<1>0. TypeOK /\ QueueIsWaiters /\ RoleInv /\ HoldInv /\ ScanInv
  BY DEF BInv
<1>1. ASSUME NEW ex \in BOOLEAN, NEW st \in SleepState, NEW l \in {"prepare", "hold"},
             Begin(t, k, ex, st, l), bit' \in [Keys -> BOOLEAN],
             \A j \in Keys : bit[j] => bit'[j],
             l = "hold" => ~bit[k] /\ bit'[k]
      PROVE  BInv'
  <2>1. /\ pc[t] = "idle" /\ pc' = [pc EXCEPT ![t] = l]
        /\ key' = [key EXCEPT ![t] = k] /\ excl' = [excl EXCEPT ![t] = ex]
        /\ mode' = [mode EXCEPT ![t] = st] /\ UNCHANGED <<task_list, scan, tstate, sig>>
    BY <1>1 DEF Begin, Goto
  <2>2. TypeOK'
    <3>1. pc' \in [Tasks -> Waiting \cup {"idle", "hold", "active", "wake", "scan", "unlink", "init"}]
      BY <1>0, <2>1 DEF TypeOK, Waiting
    <3>2. excl' \in [Tasks -> BOOLEAN]
      BY <1>0, <1>1, <2>1, Zenon DEF TypeOK
    <3> QED
      BY <1>0, <1>1, <2>1, <3>1, <3>2 DEF TypeOK
  <2>3. QueueIsWaiters' /\ ScanInv'
    BY <1>0, <2>1, QuietStep DEF TypeOK, QueueIsWaiters, Scanning, Waiting
  <2>4. RoleInv'
    BY <1>0, <2>1 DEF TypeOK, RoleInv
  <2>5. \A u \in Tasks : u # t => pc'[u] = pc[u] /\ key'[u] = key[u] /\ key[u] \in Keys
    BY <1>0, <2>1 DEF TypeOK
  <2>6. pc'[t] = l /\ key'[t] = k
    BY <1>0, <2>1 DEF TypeOK
  <2>8. \A u \in Tasks : u # t => excl'[u] = excl[u]
    BY <1>0, <2>1 DEF TypeOK
  <2>7. HoldInv'
    BY <1>0, <1>1, <2>1, <2>5, <2>6, <2>8 DEF HoldInv, Holds
  <2> QED
    BY <2>2, <2>3, <2>4, <2>7 DEF BInv
<1>2. md \in SleepState /\ "UNINTERRUPTIBLE" \in SleepState /\ TRUE \in BOOLEAN /\ FALSE \in BOOLEAN
  BY WaitBitAssumption DEF SleepState
<1>3. CASE Lock(t, k, md)
  <2>1. bit' = [bit EXCEPT ![k] = TRUE]
    BY <1>3 DEF Lock
  <2>2. /\ bit' \in [Keys -> BOOLEAN] /\ bit'[k]
        /\ \A j \in Keys : bit[j] => bit'[j]
    BY <1>0, <2>1 DEF TypeOK
  <2>3. CASE bit[k]
    BY <1>1, <1>2, <1>3, <2>2, <2>3 DEF Lock
  <2>4. CASE ~bit[k]
    BY <1>1, <1>2, <1>3, <2>2, <2>4 DEF Lock
  <2> QED
    BY <2>3, <2>4
<1>4. CASE Wait(t, k, md)
  <2>1. /\ bit' = bit /\ Begin(t, k, FALSE, md, "prepare")
    BY <1>4 DEF Wait
  <2>2. /\ bit' \in [Keys -> BOOLEAN]
        /\ \A j \in Keys : bit[j] => bit'[j]
    BY <1>0, <2>1 DEF TypeOK
  <2> QED
    BY <1>1, <1>2, <2>1, <2>2
<1> QED
  BY <1>3, <1>4

\* A waiter before it sleeps.
LEMMA BSleepInv ==
  ASSUME BInv, NEW t \in Tasks, Prepare(t) \/ Test(t) \/ Schedule(t) \/ Resume(t)
  PROVE  BInv'
<1>0. TypeOK /\ QueueIsWaiters /\ RoleInv /\ HoldInv /\ ScanInv
  BY DEF BInv
<1>1. CASE Prepare(t)
  <2>1. /\ pc[t] = "prepare" /\ LockFree /\ pc' = [pc EXCEPT ![t] = "test"]
        /\ tstate' = [tstate EXCEPT ![t] = mode[t]]
        /\ UNCHANGED <<bit, scan, sig, key, excl, mode>>
    BY <1>1 DEF Prepare, Goto, targs
  <2>2. IsWaitList(task_list', Tasks) /\ Elems(task_list') = Elems(task_list) \cup {t}
    <3>1. CASE t \in Elems(task_list)
      BY <1>0, <1>1, <3>1 DEF Prepare, Queued, TypeOK
    <3>2. CASE t \notin Elems(task_list) /\ excl[t]
      <4>1. task_list' = list_add_tail(task_list, t)
        BY <1>1, <3>2 DEF Prepare, Queued
      <4> QED
        BY <1>0, <3>2, <4>1, AddTail DEF TypeOK
    <3>3. CASE t \notin Elems(task_list) /\ ~excl[t]
      <4>1. task_list' = <<t>> \o task_list
        BY <1>1, <3>3 DEF Prepare, Queued
      <4> QED
        BY <1>0, <3>3, <4>1, AddHead DEF TypeOK
    <3> QED
      BY <3>1, <3>2, <3>3
  <2>3. TypeOK'
    BY <1>0, <2>1, <2>2 DEF TypeOK, TaskState, Waiting
  <2>7. ScanInv' /\ Elems(scan) = {}
    BY <1>0, <2>1, LockedStep DEF TypeOK, LockFree, Scanning
  <2>4. QueueIsWaiters'
    BY <1>0, <2>1, <2>2, <2>7 DEF TypeOK, QueueIsWaiters, Queued, Waiting
  <2>5. RoleInv'
    BY <1>0, <2>1 DEF TypeOK, RoleInv
  <2>6. HoldInv'
    BY <1>0, <2>1 DEF TypeOK, HoldInv, Holds
  <2> QED
    BY <2>3, <2>4, <2>5, <2>6, <2>7 DEF BInv
<1>2. CASE Test(t)
  <2>1. PICK l \in {"action", "end"} : pc' = [pc EXCEPT ![t] = l]
    BY <1>2 DEF Test, Goto
  <2>2. pc[t] = "test" /\ UNCHANGED <<bit, task_list, scan, tstate, sig, key, excl, mode>>
    BY <1>2 DEF Test, targs
  <2>3. TypeOK'
    BY <1>0, <2>1, <2>2 DEF TypeOK, Waiting
  <2>4. QueueIsWaiters' /\ ScanInv'
    BY <1>0, <2>1, <2>2, QuietStep DEF TypeOK, Scanning, Waiting
  <2>5. RoleInv'
    BY <1>0, <2>1, <2>2 DEF TypeOK, RoleInv
  <2>6. HoldInv'
    BY <1>0, <2>1, <2>2 DEF TypeOK, HoldInv, Holds
  <2> QED
    BY <2>3, <2>4, <2>5, <2>6 DEF BInv
<1>3. CASE Schedule(t)
  <2>1. PICK st \in {tstate[t], "RUNNING"} : tstate' = [tstate EXCEPT ![t] = st]
    BY <1>3 DEF Schedule, schedule_state
  <2>2. /\ pc[t] = "action" /\ pc' = [pc EXCEPT ![t] = "asleep"]
        /\ UNCHANGED <<bit, task_list, scan, sig, key, excl, mode>>
    BY <1>3 DEF Schedule, Goto, targs
  <2>3. TypeOK'
    BY <1>0, <2>1, <2>2 DEF TypeOK, TaskState, Waiting
  <2>4. QueueIsWaiters' /\ ScanInv'
    BY <1>0, <2>1, <2>2, QuietStep DEF TypeOK, Scanning, Waiting
  <2>5. RoleInv'
    BY <1>0, <2>1, <2>2 DEF TypeOK, RoleInv
  <2>6. HoldInv'
    BY <1>0, <2>1, <2>2 DEF TypeOK, HoldInv, Holds
  <2> QED
    BY <2>3, <2>4, <2>5, <2>6 DEF BInv
<1>4. CASE Resume(t)
  <2>1. PICK l \in {"end", "abort", "finish"} :
          /\ pc' = [pc EXCEPT ![t] = l]
          /\ l = "abort" => excl[t]
          /\ l = "finish" => ~excl[t]
    BY <1>4 DEF Resume, Goto
  <2>2. /\ pc[t] = "asleep" /\ tstate[t] = "RUNNING"
        /\ UNCHANGED <<bit, task_list, scan, tstate, sig, key, excl, mode>>
    BY <1>4 DEF Resume, targs
  <2>3. TypeOK'
    BY <1>0, <2>1, <2>2 DEF TypeOK, Waiting
  <2>4. QueueIsWaiters' /\ ScanInv'
    BY <1>0, <2>1, <2>2, QuietStep DEF TypeOK, Scanning, Waiting
  <2>5. RoleInv'
    BY <1>0, <2>1, <2>2 DEF TypeOK, RoleInv
  <2>6. HoldInv'
    BY <1>0, <2>1, <2>2 DEF TypeOK, HoldInv, Holds
  <2> QED
    BY <2>3, <2>4, <2>5, <2>6 DEF BInv
<1> QED
  BY <1>1, <1>2, <1>3, <1>4

\* A waiter after it has slept.
LEMMA BLeaveInv ==
  ASSUME BInv, NEW t \in Tasks, LoopEnd(t) \/ FinishTest(t) \/ FinishUnlink(t) \/ Abort(t)
  PROVE  BInv'
<1>0. TypeOK /\ QueueIsWaiters /\ RoleInv /\ HoldInv /\ ScanInv /\ key[t] \in Keys
  BY DEF BInv, TypeOK
<1>1. CASE LoopEnd(t)
  <2>1. PICK l \in {"prepare", "locked", "finish"} :
          /\ pc' = [pc EXCEPT ![t] = l]
          /\ l = "locked" => excl[t] /\ ~bit[key[t]]
          /\ l = "finish" => ~excl[t]
    BY <1>1 DEF LoopEnd, Goto
  <2>2. /\ pc[t] = "end" /\ bit' = [bit EXCEPT ![key[t]] = bit[key[t]] \/ excl[t]]
        /\ UNCHANGED <<task_list, scan, tstate, sig, key, excl, mode>>
    BY <1>1 DEF LoopEnd, targs
  <2>3. bit' \in [Keys -> BOOLEAN]
    BY <1>0, <2>2, Zenon DEF TypeOK
  <2>4. /\ \A k \in Keys : bit[k] => bit'[k]
        /\ excl[t] => bit'[key[t]]
    BY <1>0, <2>2 DEF TypeOK
  <2>5. TypeOK'
    <3>1. pc' \in [Tasks -> Waiting \cup {"idle", "hold", "active", "wake", "scan", "unlink", "init"}]
      BY <1>0, <2>1 DEF TypeOK, Waiting
    <3> QED
      BY <1>0, <2>2, <2>3, <3>1 DEF TypeOK
  <2>6. QueueIsWaiters' /\ ScanInv'
    BY <1>0, <2>1, <2>2, QuietStep DEF TypeOK, Scanning, Waiting
  <2>7. RoleInv'
    BY <1>0, <2>1, <2>2 DEF TypeOK, RoleInv
  <2>8. \A u \in Tasks : u # t => pc'[u] = pc[u] /\ key[u] \in Keys
    BY <1>0, <2>1 DEF TypeOK
  <2>9. pc'[t] = l
    BY <1>0, <2>1 DEF TypeOK
  <2>10. HoldInv'
    BY <1>0, <2>1, <2>2, <2>4, <2>8, <2>9 DEF HoldInv, Holds
  <2> QED
    BY <2>5, <2>6, <2>7, <2>10 DEF BInv
<1>2. ASSUME NEW l \in {"hold", "idle"}, pc' = [pc EXCEPT ![t] = l], l = "hold" => Holds(t),
             excl' = [excl EXCEPT ![t] = FALSE], mode' = [mode EXCEPT ![t] = "UNINTERRUPTIBLE"],
             UNCHANGED <<bit, sig, key>>,
             IsWaitList(task_list', Tasks), IsWaitList(scan', Tasks),
             tstate' \in [Tasks -> TaskState],
             \A u \in Tasks : tstate'[u] \in {tstate[u], "RUNNING"}
      PROVE  TypeOK' /\ RoleInv' /\ HoldInv'
  <2>1. TypeOK'
    <3>1. excl' \in [Tasks -> BOOLEAN]
      BY <1>0, <1>2 DEF TypeOK
    <3> QED
      BY <1>0, <1>2, <3>1 DEF TypeOK, SleepState
  <2>2. /\ pc'[t] = l /\ ~excl'[t]
        /\ \A u \in Tasks : u # t => pc'[u] = pc[u] /\ excl'[u] = excl[u]
    BY <1>0, <1>2 DEF TypeOK
  <2>3. RoleInv'
    BY <1>0, <1>2, <2>2 DEF RoleInv
  <2>4. HoldInv'
    BY <1>0, <1>2, <2>2 DEF HoldInv, Holds
  <2> QED
    BY <2>1, <2>3, <2>4
<1>3. CASE FinishTest(t)
  <2>1. /\ pc[t] \in {"finish", "locked"} /\ tstate' = [tstate EXCEPT ![t] = "RUNNING"]
        /\ UNCHANGED <<bit, task_list, scan, sig>>
    BY <1>3 DEF FinishTest
  <2>2. tstate' \in [Tasks -> TaskState] /\ \A u \in Tasks : tstate'[u] \in {tstate[u], "RUNNING"}
    BY <1>0, <2>1 DEF TypeOK, TaskState
  <2>3. IsWaitList(task_list', Tasks) /\ IsWaitList(scan', Tasks)
    BY <1>0, <2>1 DEF TypeOK
  <2>4. CASE list_empty_careful(t)
    <3>1. ~Queued(t) /\ t \notin Elems(scan)
      BY <1>0, <2>4, CarefulIsEnough
    <3>2. PICK l \in {"hold", "idle"} : pc' = [pc EXCEPT ![t] = l] /\ (l = "hold" => excl[t])
      BY <1>3, <2>4 DEF FinishTest, Return, Goto
    <3>3. /\ excl' = [excl EXCEPT ![t] = FALSE] /\ mode' = [mode EXCEPT ![t] = "UNINTERRUPTIBLE"]
          /\ UNCHANGED <<bit, sig, key>>
      BY <1>3, <2>4 DEF FinishTest, Return
    <3>4. l = "hold" => Holds(t)
      BY <1>0, <2>1, <3>2 DEF RoleInv, Holds
    <3>5. TypeOK' /\ RoleInv' /\ HoldInv'
      BY <1>2, <2>2, <2>3, <3>2, <3>3, <3>4
    <3>6. QueueIsWaiters' /\ ScanInv'
      BY <1>0, <2>1, <2>2, <3>1, <3>2, QuietStep DEF TypeOK, Scanning
    <3> QED
      BY <3>5, <3>6 DEF BInv
  <2>5. CASE ~list_empty_careful(t)
    <3>1. pc' = [pc EXCEPT ![t] = "unqueue"] /\ UNCHANGED <<bit, sig, key, excl, mode>>
      BY <1>3, <2>5 DEF FinishTest, Goto, targs
    <3>2. TypeOK'
      BY <1>0, <2>1, <2>2, <3>1 DEF TypeOK, Waiting
    <3>3. QueueIsWaiters' /\ ScanInv'
      BY <1>0, <2>1, <2>2, <3>1, QuietStep DEF TypeOK, Scanning, Waiting
    <3>4. RoleInv'
      BY <1>0, <2>1, <3>1 DEF TypeOK, RoleInv
    <3>5. HoldInv'
      BY <1>0, <2>1, <3>1 DEF TypeOK, RoleInv, HoldInv, Holds
    <3> QED
      BY <3>2, <3>3, <3>4, <3>5 DEF BInv
  <2> QED
    BY <2>4, <2>5
<1>4. ASSUME LockFree, tstate[t] = "RUNNING", task_list' = list_del_init(t), NEW l \in {"hold", "idle"},
             pc' = [pc EXCEPT ![t] = l], l = "hold" => Holds(t),
             excl' = [excl EXCEPT ![t] = FALSE], mode' = [mode EXCEPT ![t] = "UNINTERRUPTIBLE"],
             UNCHANGED <<bit, scan, tstate, sig, key>>
      PROVE  BInv'
  <2>1. IsWaitList(task_list', Tasks) /\ Elems(task_list') = Elems(task_list) \ {t}
    <3>1. CASE Queued(t)
      BY <1>0, <1>4, <3>1, Del DEF TypeOK, list_del_init, Queued
    <3>2. CASE ~Queued(t)
      BY <1>0, <1>4, <3>2 DEF TypeOK, list_del_init, Queued
    <3> QED
      BY <3>1, <3>2
  <2>2. TypeOK' /\ RoleInv' /\ HoldInv'
    BY <1>0, <1>2, <1>4, <2>1 DEF TypeOK
  <2>3. ScanInv' /\ Elems(scan) = {}
    BY <1>0, <1>4, LockedStep DEF TypeOK, LockFree, Scanning
  <2>4. QueueIsWaiters'
    BY <1>0, <1>4, <2>1, <2>3 DEF TypeOK, QueueIsWaiters, Queued
  <2> QED
    BY <2>2, <2>3, <2>4 DEF BInv
<1>5. CASE FinishUnlink(t)
  <2>1. PICK l \in {"hold", "idle"} : pc' = [pc EXCEPT ![t] = l] /\ (l = "hold" => excl[t])
    BY <1>5 DEF FinishUnlink, Return, Goto
  <2>2. /\ pc[t] = "unqueue" /\ LockFree /\ task_list' = list_del_init(t)
        /\ excl' = [excl EXCEPT ![t] = FALSE] /\ mode' = [mode EXCEPT ![t] = "UNINTERRUPTIBLE"]
        /\ UNCHANGED <<bit, scan, tstate, sig, key>>
    BY <1>5 DEF FinishUnlink, Return
  <2>3. tstate[t] = "RUNNING" /\ (l = "hold" => Holds(t))
    BY <1>0, <2>1, <2>2 DEF RoleInv, Holds
  <2> QED
    BY <1>4, <2>1, <2>2, <2>3
<1>6. CASE Abort(t)
  <2>1. pc[t] = "abort" /\ LockFree /\ tstate[t] = "RUNNING" /\ UNCHANGED <<bit, tstate, sig>>
    BY <1>0, <1>6 DEF Abort, RoleInv
  <2>2. CASE PassesOn(t)
    <3>1. /\ scan' = task_list /\ pc' = [pc EXCEPT ![t] = "scan"] /\ ~Queued(t)
          /\ UNCHANGED <<task_list, key, excl, mode>>
      BY <1>6, <2>2 DEF Abort, PassesOn, Goto, targs
    <3> QED
      BY <2>1, <3>1, BTakeLock
  <2>3. CASE ~PassesOn(t)
    <3>1. /\ task_list' = list_del_init(t) /\ pc' = [pc EXCEPT ![t] = "idle"]
          /\ excl' = [excl EXCEPT ![t] = FALSE] /\ mode' = [mode EXCEPT ![t] = "UNINTERRUPTIBLE"]
          /\ UNCHANGED <<scan, key>>
      BY <1>6, <2>3 DEF Abort, Return, Goto
    <3> QED
      BY <1>4, <2>1, <3>1
  <2> QED
    BY <2>2, <2>3
<1> QED
  BY <1>1, <1>3, <1>5, <1>6

\* Signals and stray wake-ups only make tasks runnable.
LEMMA Outside ==
  ASSUME TypeOK, NEW t \in Tasks,
         HandleSignal(t) \/ StrayWakeup(t) \/ \E s \in Signals : SendSignal(t, s)
  PROVE  /\ UNCHANGED <<bit, task_list, scan, pc, key, excl, mode>>
         /\ sig' \in [Tasks -> Signal] /\ tstate' \in [Tasks -> TaskState]
         /\ \A u \in Tasks : tstate'[u] \in {tstate[u], "RUNNING"}
<1>1. CASE HandleSignal(t)
  BY <1>1 DEF HandleSignal, targs, TypeOK, Signal
<1>2. CASE StrayWakeup(t)
  BY <1>2 DEF StrayWakeup, wake_up_process, targs, TypeOK, TaskState
<1>3. ASSUME NEW s \in Signals, SendSignal(t, s)
      PROVE  /\ UNCHANGED <<bit, task_list, scan, pc, key, excl, mode>>
             /\ sig' \in [Tasks -> Signal] /\ tstate' \in [Tasks -> TaskState]
             /\ \A u \in Tasks : tstate'[u] \in {tstate[u], "RUNNING"}
  <2>1. s \in Signal /\ signal_wake_up(tstate[t], s) \in {tstate[t], "RUNNING"}
    BY WaitBitAssumption DEF signal_wake_up
  <2> QED
    BY <1>3, <2>1 DEF SendSignal, targs, TypeOK, TaskState
<1> QED
  BY <1>1, <1>2, <1>3

LEMMA BOutsideInv ==
  ASSUME BInv, NEW t \in Tasks,
         HandleSignal(t) \/ StrayWakeup(t) \/ \E s \in Signals : SendSignal(t, s)
  PROVE  BInv'
<1>0. TypeOK /\ QueueIsWaiters /\ RoleInv /\ HoldInv /\ ScanInv
  BY DEF BInv
<1>1. /\ UNCHANGED <<bit, task_list, scan, pc, key, excl, mode>>
      /\ sig' \in [Tasks -> Signal] /\ tstate' \in [Tasks -> TaskState]
      /\ \A u \in Tasks : tstate'[u] \in {tstate[u], "RUNNING"}
  BY <1>0, Outside
<1>2. TypeOK'
  BY <1>0, <1>1 DEF TypeOK
<1>3. QueueIsWaiters' /\ ScanInv'
  BY <1>0, <1>1, QuietStep
<1>4. RoleInv' /\ HoldInv'
  BY <1>0, <1>1 DEF RoleInv, HoldInv, Holds
<1> QED
  BY <1>2, <1>3, <1>4 DEF BInv

\* Every step keeps the invariant, and so it always holds.
LEMMA BNextInv ==
  ASSUME BInv, [Next]_vars
  PROVE  BInv'
<1>1. CASE Next
  <2>1. PICK t \in Tasks :
          \/ Step(t) \/ HandleSignal(t) \/ StrayWakeup(t)
          \/ \E k \in Keys, md \in Modes : Lock(t, k, md) \/ Wait(t, k, md)
          \/ \E s \in Signals : SendSignal(t, s)
    BY <1>1 DEF Next
  <2> QED
    BY <2>1, BWakerInv, BScanInv, BEnterInv, BSleepInv, BLeaveInv, BOutsideInv DEF Step
<1>2. CASE UNCHANGED vars
  BY <1>2 DEF vars, targs, BInv, TypeOK, QueueIsWaiters, Queued, RoleInv, HoldInv, Holds,
              ScanInv, LockFree, Scanning
<1> QED
  BY <1>1, <1>2

LEMMA BInvariance == Spec => []BInv
BY BInitInv, BNextInv, PTL DEF Spec

\* The queue and the sleepers agree: an entry that is on the queue, or that a waker
\* still looks at or writes to, is on a stack frame that is alive, although
\* finish_wait() looks at its entry without the lock; and who is in a sleeping state
\* can be found by a waker, for every number of tasks and of bits that share the
\* queue.
THEOREM EntriesAreAlive == Spec => []QueueIsWaiters
<1>1. BInv => QueueIsWaiters
  BY DEF BInv
<1> QED
  BY <1>1, BInvariance, PTL

\* What NobodyForgotten needs: it holds from the moment a waiter goes to sleep, and
\* nobody sleeps in a state that a waiter that gives up would not wake.
Sleeper(t) == pc[t] \in {"action", "asleep"} /\ tstate[t] # "RUNNING"
ModeInv == \A t \in Tasks : mode[t] # "INTERRUPTIBLE" /\ tstate[t] # "INTERRUPTIBLE"
ForgottenInv ==
  \A t \in Tasks : Sleeper(t) /\ ~bit[key[t]] => \E u \in Tasks : WillAct(u, t)

FInv == ModeInv /\ ForgottenInv

\* Steps of one task that is not at the queue, after which a new sleeper, or one
\* whose bit was cleared, has that task to act for it, and whoever would act for a
\* clear bit still will.
LEMMA StillActs ==
  ASSUME ForgottenInv, NEW t \in Tasks, scan' = scan, pc[t] = "unlink" => pc'[t] = "unlink",
         \A s \in Tasks : Sleeper(s)' /\ ~bit'[key'[s]]
            => WillAct(t, s)' \/ (Sleeper(s) /\ ~bit[key[s]] /\ key'[s] = key[s]),
         \A s \in Tasks : ~bit'[key'[s]] /\ key'[s] = key[s] /\ WillAct(t, s) => WillAct(t, s)',
         \A u \in Tasks : u # t => /\ pc'[u] = pc[u] /\ key'[u] = key[u] /\ excl'[u] = excl[u]
                                   /\ Queued(u)' => Queued(u)
  PROVE  ForgottenInv'
<1> SUFFICES ASSUME NEW s \in Tasks, Sleeper(s)', ~bit'[key'[s]]
             PROVE  \E u \in Tasks : WillAct(u, s)'
  BY DEF ForgottenInv
<1>1. CASE WillAct(t, s)'
  BY <1>1
<1>2. CASE ~WillAct(t, s)'
  <2>1. Sleeper(s) /\ ~bit[key[s]] /\ key'[s] = key[s]
    BY <1>2
  <2>2. PICK u \in Tasks : WillAct(u, s)
    BY <2>1 DEF ForgottenInv
  <2>3. u # t
    BY <1>2, <2>1, <2>2
  <2>4. pc'[u] = pc[u] /\ key'[u] = key[u] /\ excl'[u] = excl[u] /\ (Queued(u)' => Queued(u))
    BY <2>3
  <2>5. TakesWakeup(u) => TakesWakeup(u)'
    BY <2>4 DEF TakesWakeup
  <2>6. WillAct(u, s)'
    BY <2>1, <2>2, <2>4, <2>5 DEF WillAct, Scanning
  <2> QED
    BY <2>6
<1> QED
  BY <1>1, <1>2

\* Whoever takes the lock will come to all sleepers of its bit.
LEMMA TakeLockActs ==
  ASSUME BInv, ForgottenInv, NEW t \in Tasks, LockFree, pc[t] \in {"wake", "abort"},
         scan' = task_list, pc' = [pc EXCEPT ![t] = "scan"],
         UNCHANGED <<bit, task_list, tstate, key, excl>>
  PROVE  ForgottenInv'
<1>0. TypeOK /\ QueueIsWaiters
  BY DEF BInv
<1>1. pc'[t] = "scan" /\ \A u \in Tasks : u # t => pc'[u] = pc[u]
  BY <1>0 DEF TypeOK
<1> SUFFICES ASSUME NEW s \in Tasks, Sleeper(s)', ~bit[key[s]]
             PROVE  \E u \in Tasks : WillAct(u, s)'
  BY DEF ForgottenInv
<1>2. Sleeper(s) /\ s \in Elems(task_list)
  BY <1>0, <1>1 DEF Sleeper, QueueIsWaiters, Queued
<1>3. CASE key[s] = key[t]
  BY <1>1, <1>2, <1>3 DEF WillAct, Scanning
<1>4. CASE key[s] # key[t]
  <2>1. PICK u \in Tasks : WillAct(u, s)
    BY <1>2 DEF ForgottenInv
  <2>2. u # t /\ pc'[u] = pc[u]
    BY <1>1, <1>4, <2>1 DEF WillAct
  <2>3. ~Scanning(u) /\ (TakesWakeup(u) => TakesWakeup(u)')
    BY DEF LockFree, Scanning, TakesWakeup, Queued
  <2>4. WillAct(u, s)'
    BY <2>1, <2>2, <2>3 DEF WillAct
  <2> QED
    BY <2>4
<1> QED
  BY <1>3, <1>4

\* While a waker is at the queue the others who will act keep doing so; whom it
\* unlinks has taken the wake-up.
LEMMA ScannerOthers ==
  ASSUME BInv, NEW t \in Tasks, Scanning(t), NEW u \in Tasks, u # t, NEW s \in Tasks,
         WillAct(u, s), pc'[u] = pc[u], excl'[u] = excl[u], UNCHANGED key,
         Queued(u)' => Queued(u),
         pc[t] = "unlink" /\ Head(scan) = u => ~Queued(u)'
  PROVE  WillAct(u, s)'
<1>1. ~Scanning(u) /\ \A v \in Tasks : pc[v] = "unlink" => v = t
  BY DEF BInv, ScanInv, Scanning
<1>2. TakesWakeup(u) => ~Queued(u)'
  BY <1>1 DEF TakesWakeup
<1> QED
  BY <1>1, <1>2 DEF WillAct, TakesWakeup

\* A waker wakes the sleepers of its bit until it finds an exclusive one, who will
\* act for the others.
LEMMA ScannerActs ==
  ASSUME BInv, ModeInv, ForgottenInv, NEW t \in Tasks,
         ScanNext(t) \/ Unlink(t) \/ UnlinkInit(t) \/ ScanEnd(t)
  PROVE  ForgottenInv'
<1>0. TypeOK /\ QueueIsWaiters /\ RoleInv /\ ScanInv
  BY DEF BInv
<1>1. /\ Scanning(t) /\ UNCHANGED <<bit, key>>
      /\ \A u \in Tasks : u # t => pc'[u] = pc[u] /\ excl'[u] = excl[u]
      /\ pc'[t] \in {"scan", "unlink", "init", "idle"}
  BY <1>0 DEF ScanNext, Unlink, UnlinkInit, ScanEnd, Return, Goto, targs, Scanning, TypeOK
<1>2. \A u \in Tasks : tstate'[u] \in {tstate[u], "RUNNING"}
  BY <1>0 DEF ScanNext, Unlink, UnlinkInit, ScanEnd, wake_up_process, TypeOK
<1>3. \A u \in Tasks : /\ Queued(u)' => Queued(u)
                       /\ pc[t] = "unlink" /\ Head(scan) = u => ~Queued(u)'
  <2>1. CASE Unlink(t)
    <3>1. PICK e \in Elems(task_list) : e = Head(scan)
      BY <1>0, <2>1, ScanHead DEF ScanInv, Unlink
    <3>2. Elems(task_list') = Elems(task_list) \ {e}
      BY <1>0, <2>1, <3>1, Del DEF Unlink, TypeOK
    <3> QED
      BY <3>1, <3>2 DEF Queued
  <2>2. CASE ScanNext(t) \/ UnlinkInit(t) \/ ScanEnd(t)
    BY <2>2 DEF ScanNext, UnlinkInit, ScanEnd, Queued
  <2> QED
    BY <2>1, <2>2
<1> SUFFICES ASSUME NEW s \in Tasks, Sleeper(s)', ~bit[key[s]]
             PROVE  \E u \in Tasks : WillAct(u, s)'
  BY <1>1 DEF ForgottenInv
<1>4. Sleeper(s) /\ s # t
  BY <1>1, <1>2 DEF Sleeper, Scanning
<1>5. PICK u \in Tasks : WillAct(u, s)
  BY <1>4 DEF ForgottenInv
<1>6. CASE u # t
  BY <1>1, <1>3, <1>5, <1>6, ScannerOthers
<1>7. CASE u = t
  <2>1. s \in Elems(scan) /\ key[t] = key[s]
    BY <1>1, <1>5, <1>7 DEF WillAct, Scanning
  <2>2. scan # <<>>
    BY <1>0, <2>1, ScanHead
  <2>3. PICK e \in Tasks : e = Head(scan) /\ e \in Elems(scan)
    BY <1>0, <2>2, ScanHead
  <2>4. Elems(Tail(scan)) = Elems(scan) \ {e}
    BY <1>0, <2>2, <2>3, ScanHead
  <2>5. ASSUME s \in Elems(scan'), pc'[t] \in {"scan", "unlink", "init"}
        PROVE  WillAct(t, s)'
    BY <1>1, <2>1, <2>5 DEF WillAct, Scanning
  <2>6. CASE ScanNext(t) /\ Wakes(e, key[t], WakeMode(t))
    <3>1. /\ pc'[t] = "unlink" /\ scan' = IF excl[e] THEN <<e>> ELSE scan
          /\ excl' = excl
      BY <1>0, <2>3, <2>6 DEF ScanNext, Goto, targs, TypeOK
    <3>2. CASE ~excl[e]
      BY <2>1, <2>5, <3>1, <3>2
    <3>3. CASE excl[e]
      <4>1. key[e] = key[s] /\ tstate[e] # "RUNNING"
        <5>1. key[e] = key[t] /\ Matches(WakeMode(t), tstate[e])
          BY <2>6 DEF Wakes
        <5> QED
          BY <2>1, <5>1 DEF Matches
      <4>2. pc[e] \in {"prepare", "test", "end", "locked", "action", "asleep"} /\ e # t
        BY <1>0, <1>1, <2>3, <3>3, <4>1 DEF QueueIsWaiters, RoleInv, Waiting, Scanning
      <4>3. Head(scan') = e
        BY <3>1, <3>3
      <4>4. TakesWakeup(e)'
        BY <3>1, <4>3 DEF TakesWakeup
      <4>5. WillAct(e, s)'
        BY <1>1, <3>1, <3>3, <4>1, <4>2, <4>4 DEF WillAct
      <4> QED
        BY <4>5
    <3> QED
      BY <3>2, <3>3
  <2>7. CASE ScanNext(t) /\ ~Wakes(e, key[t], WakeMode(t))
    <3>1. scan' = Tail(scan) /\ pc'[t] = "scan"
      BY <2>3, <2>7 DEF ScanNext
    <3>2. s # e
      <4>1. tstate[s] \in {"UNINTERRUPTIBLE", "KILLABLE"}
        BY <1>0, <1>4 DEF Sleeper, ModeInv, TypeOK, TaskState, SleepState
      <4>2. WakeMode(t) \in {"NORMAL", "UNINTERRUPTIBLE", "KILLABLE"}
        BY <1>0 DEF WakeMode, ModeInv, TypeOK, SleepState
      <4>3. Matches(WakeMode(t), tstate[s])
        BY <4>1, <4>2 DEF Matches
      <4> QED
        BY <2>1, <2>7, <4>3 DEF Wakes
    <3> QED
      BY <2>1, <2>4, <2>5, <3>1, <3>2
  <2>8. CASE Unlink(t)
    <3>1. scan' = scan /\ pc'[t] = "init"
      BY <1>0, <2>8 DEF Unlink, Goto, TypeOK
    <3> QED
      BY <2>1, <2>5, <3>1
  <2>9. CASE UnlinkInit(t)
    <3>1. scan' = Tail(scan) /\ pc'[t] = "scan" /\ pc[t] = "init"
      BY <1>0, <2>9 DEF UnlinkInit, Goto, TypeOK
    <3>2. s # e
      BY <1>0, <1>4, <2>3, <3>1 DEF ScanInv, Sleeper
    <3> QED
      BY <2>1, <2>4, <2>5, <3>1, <3>2
  <2>10. ~ScanEnd(t)
    BY <2>2 DEF ScanEnd
  <2> QED
    BY <2>6, <2>7, <2>8, <2>9, <2>10
<1> QED
  BY <1>6, <1>7

\* Nobody sleeps interruptibly if no caller asks for it.
LEMMA ModeNext ==
  ASSUME "INTERRUPTIBLE" \notin Modes, BInv, ModeInv, Next
  PROVE  ModeInv'
<1>0. TypeOK
  BY DEF BInv
<1>1. PICK t \in Tasks :
        \/ Step(t) \/ HandleSignal(t) \/ StrayWakeup(t)
        \/ \E k \in Keys, md \in Modes : Lock(t, k, md) \/ Wait(t, k, md)
        \/ \E s \in Signals : SendSignal(t, s)
  BY DEF Next
<1>2. CASE Unlock(t) \/ WakeTest(t) \/ Test(t) \/ Resume(t) \/ LoopEnd(t)
  <2>1. UNCHANGED <<tstate, mode>>
    BY <1>2 DEF Unlock, WakeTest, Test, Resume, LoopEnd, targs
  <2> QED
    BY <2>1 DEF ModeInv
<1>3. CASE WakeUp(t) \/ ScanNext(t) \/ Unlink(t) \/ UnlinkInit(t) \/ ScanEnd(t)
  <2>1. \A u \in Tasks : tstate'[u] \in {tstate[u], "RUNNING"}
    BY <1>0, <1>3 DEF WakeUp, ScanNext, Unlink, UnlinkInit, ScanEnd, wake_up_process, TypeOK
  <2>2. mode' \in {mode, [mode EXCEPT ![t] = "UNINTERRUPTIBLE"]}
    BY <1>3 DEF WakeUp, ScanNext, Unlink, UnlinkInit, ScanEnd, Return, targs
  <2> QED
    BY <1>0, <2>1, <2>2 DEF ModeInv, TypeOK
<1>4. CASE Prepare(t)
  BY <1>0, <1>4 DEF Prepare, targs, ModeInv, TypeOK
<1>5. CASE Schedule(t)
  BY <1>0, <1>5 DEF Schedule, schedule_state, targs, ModeInv, TypeOK
<1>6. CASE FinishTest(t) \/ FinishUnlink(t)
  BY <1>0, <1>6 DEF FinishTest, FinishUnlink, Return, targs, ModeInv, TypeOK
<1>7. CASE Abort(t)
  <2>1. mode' \in {mode, [mode EXCEPT ![t] = "UNINTERRUPTIBLE"]}
    BY <1>7 DEF Abort, Return, targs
  <2>2. tstate' = tstate
    BY <1>7 DEF Abort
  <2> QED
    BY <1>0, <2>1, <2>2 DEF ModeInv, TypeOK
<1>8. CASE HandleSignal(t) \/ StrayWakeup(t) \/ \E s \in Signals : SendSignal(t, s)
  BY <1>0, <1>8, Outside DEF ModeInv
<1>9. ASSUME NEW k \in Keys, NEW md \in Modes, Lock(t, k, md) \/ Wait(t, k, md)
      PROVE  ModeInv'
  <2>1. tstate' = tstate /\ \E m \in {md, "UNINTERRUPTIBLE"} : mode' = [mode EXCEPT ![t] = m]
    BY <1>9 DEF Lock, Wait, Begin
  <2> QED
    BY <1>0, <2>1 DEF ModeInv, TypeOK
<1> QED
  BY <1>1, <1>2, <1>3, <1>4, <1>5, <1>6, <1>7, <1>8, <1>9 DEF Step

\* Every step keeps somebody who will act for the sleepers of a clear bit.
LEMMA ForgottenNext ==
  ASSUME BInv, ModeInv, ForgottenInv, Next
  PROVE  ForgottenInv'
<1>0. TypeOK /\ QueueIsWaiters /\ RoleInv /\ HoldInv /\ ScanInv
  BY DEF BInv
<1>1. PICK t \in Tasks :
        \/ Step(t) \/ HandleSignal(t) \/ StrayWakeup(t)
        \/ \E k \in Keys, md \in Modes : Lock(t, k, md) \/ Wait(t, k, md)
        \/ \E s \in Signals : SendSignal(t, s)
  BY DEF Next
<1> DEFINE KeepsOthers == \A u \in Tasks : u # t => /\ pc'[u] = pc[u] /\ key'[u] = key[u]
                                                    /\ excl'[u] = excl[u]
                                                    /\ Queued(u)' => Queued(u)
           KeepsActing == \A s \in Tasks : ~bit'[key'[s]] /\ key'[s] = key[s] /\ WillAct(t, s)
                                             => WillAct(t, s)'
           NoNewSleeper == \A s \in Tasks : Sleeper(s)' /\ ~bit'[key'[s]]
                              => WillAct(t, s)' \/ (Sleeper(s) /\ ~bit[key[s]] /\ key'[s] = key[s])
<1>2. ASSUME KeepsOthers, KeepsActing, NoNewSleeper, scan' = scan,
             pc[t] = "unlink" => pc'[t] = "unlink"
      PROVE  ForgottenInv'
  BY <1>2, StillActs
<1> HIDE DEF KeepsOthers, KeepsActing, NoNewSleeper
<1>3. CASE Unlock(t)
  <2>1. /\ pc[t] = "hold" /\ bit' = [bit EXCEPT ![key[t]] = FALSE]
        /\ pc'[t] = "active" /\ \A u \in Tasks : u # t => pc'[u] = pc[u]
        /\ UNCHANGED <<task_list, scan, tstate, key, excl>> /\ \A u \in Tasks : key[u] \in Keys
    BY <1>0, <1>3 DEF Unlock, Goto, targs, TypeOK
  <2>2. KeepsOthers
    BY <2>1 DEF KeepsOthers, Queued
  <2>3. KeepsActing
    BY <2>1 DEF KeepsActing, WillAct, Scanning
  <2>4. NoNewSleeper
    BY <1>0, <2>1 DEF NoNewSleeper, Sleeper, WillAct, TypeOK
  <2> QED
    BY <1>2, <2>1, <2>2, <2>3, <2>4
<1>4. CASE WakeTest(t)
  <2>1. /\ pc[t] = "active" /\ pc'[t] = IF list_empty(task_list) THEN "idle" ELSE "wake"
        /\ \A u \in Tasks : u # t => pc'[u] = pc[u]
        /\ UNCHANGED <<bit, task_list, scan, tstate, key, excl>>
    BY <1>0, <1>4 DEF WakeTest, Goto, targs, TypeOK
  <2>2. CASE list_empty(task_list)
    <3>1. \A s \in Tasks : tstate[s] = "RUNNING"
      BY <1>0, <2>2, Empty DEF TypeOK, QueueIsWaiters, Queued
    <3> QED
      BY <2>1, <3>1 DEF ForgottenInv, Sleeper
  <2>3. CASE ~list_empty(task_list)
    <3>1. KeepsOthers
      BY <2>1 DEF KeepsOthers, Queued
    <3>2. KeepsActing
      BY <2>1, <2>3 DEF KeepsActing, WillAct, Scanning
    <3>3. NoNewSleeper
      BY <2>1, <2>3 DEF NoNewSleeper, Sleeper
    <3> QED
      BY <1>2, <2>1, <3>1, <3>2, <3>3
  <2> QED
    BY <2>2, <2>3
<1>5. CASE WakeUp(t)
  BY <1>5, TakeLockActs DEF WakeUp, Goto, targs
<1>15. CASE ScanNext(t) \/ Unlink(t) \/ UnlinkInit(t) \/ ScanEnd(t)
  BY <1>15, ScannerActs
<1>6. CASE Prepare(t)
  <2>1. /\ pc[t] = "prepare" /\ pc'[t] = "test" /\ \A u \in Tasks : u # t => pc'[u] = pc[u]
        /\ \A u \in Tasks : u # t => tstate'[u] = tstate[u]
        /\ UNCHANGED <<bit, scan, key, excl>>
    BY <1>0, <1>6 DEF Prepare, Goto, targs, TypeOK
  <2>2. \A u \in Tasks : u # t => (u \in Elems(task_list') => u \in Elems(task_list))
    BY <1>0, <1>6, AddTail, AddHead DEF Prepare, Queued, TypeOK
  <2>3. KeepsOthers
    BY <2>1, <2>2 DEF KeepsOthers, Queued
  <2>4. KeepsActing
    BY <2>1 DEF KeepsActing, WillAct, Scanning
  <2>5. NoNewSleeper
    BY <2>1 DEF NoNewSleeper, Sleeper
  <2> QED
    BY <1>2, <2>1, <2>3, <2>4, <2>5
<1>7. CASE Test(t)
  <2>1. /\ pc[t] = "test" /\ pc'[t] = IF bit[key[t]] THEN "action" ELSE "end"
        /\ \A u \in Tasks : u # t => pc'[u] = pc[u]
        /\ UNCHANGED <<bit, task_list, scan, tstate, key, excl>>
    BY <1>0, <1>7 DEF Test, Goto, targs, TypeOK
  <2>2. KeepsOthers
    BY <2>1 DEF KeepsOthers, Queued
  <2>3. KeepsActing
    BY <2>1 DEF KeepsActing, WillAct, Scanning
  <2>4. NoNewSleeper
    BY <2>1 DEF NoNewSleeper, Sleeper
  <2> QED
    BY <1>2, <2>1, <2>2, <2>3, <2>4
<1>8. CASE Schedule(t)
  <2>1. /\ pc[t] = "action" /\ pc'[t] = "asleep" /\ \A u \in Tasks : u # t => pc'[u] = pc[u]
        /\ \A u \in Tasks : tstate'[u] \in {tstate[u], "RUNNING"}
        /\ UNCHANGED <<bit, task_list, scan, key, excl>>
    BY <1>0, <1>8 DEF Schedule, schedule_state, Goto, targs, TypeOK
  <2>2. KeepsOthers
    BY <2>1 DEF KeepsOthers, Queued
  <2>3. KeepsActing
    BY <2>1 DEF KeepsActing, WillAct, TakesWakeup, Scanning, Queued
  <2>4. NoNewSleeper
    BY <2>1 DEF NoNewSleeper, Sleeper
  <2> QED
    BY <1>2, <2>1, <2>2, <2>3, <2>4
<1>9. CASE Resume(t)
  <2>1. /\ pc[t] = "asleep" /\ pc'[t] \in {"end", "abort", "finish"}
        /\ pc'[t] = "finish" => ~excl[t]
        /\ \A u \in Tasks : u # t => pc'[u] = pc[u]
        /\ UNCHANGED <<bit, task_list, scan, tstate, key, excl>>
    BY <1>0, <1>9 DEF Resume, Goto, targs, TypeOK
  <2>2. KeepsOthers
    BY <2>1 DEF KeepsOthers, Queued
  <2>3. KeepsActing
    BY <2>1 DEF KeepsActing, WillAct, TakesWakeup, Scanning, Queued
  <2>4. NoNewSleeper
    BY <2>1 DEF NoNewSleeper, Sleeper
  <2> QED
    BY <1>2, <2>1, <2>2, <2>3, <2>4
<1>10. CASE LoopEnd(t)
  <2>1. /\ pc[t] = "end"
        /\ pc'[t] = IF bit[key[t]] THEN "prepare" ELSE IF excl[t] THEN "locked" ELSE "finish"
        /\ \A u \in Tasks : u # t => pc'[u] = pc[u]
        /\ bit' = [bit EXCEPT ![key[t]] = bit[key[t]] \/ excl[t]]
        /\ UNCHANGED <<task_list, scan, tstate, key, excl>>
    BY <1>0, <1>10 DEF LoopEnd, Goto, targs, TypeOK
  <2>2. \A u \in Tasks : key[u] \in Keys /\ (bit[key[u]] => bit'[key[u]])
    BY <1>0, <2>1 DEF TypeOK
  <2>3. KeepsOthers
    BY <2>1 DEF KeepsOthers, Queued
  <2>4. KeepsActing
    BY <2>1 DEF KeepsActing, WillAct, Scanning
  <2>5. NoNewSleeper
    BY <2>1, <2>2 DEF NoNewSleeper, Sleeper
  <2> QED
    BY <1>2, <2>1, <2>3, <2>4, <2>5
<1>11. CASE FinishTest(t)
  <2>1. /\ pc[t] \in {"finish", "locked"} /\ pc'[t] \in {"hold", "idle", "unqueue"}
        /\ \A u \in Tasks : u # t => pc'[u] = pc[u] /\ excl'[u] = excl[u]
        /\ \A u \in Tasks : tstate'[u] \in {tstate[u], "RUNNING"}
        /\ UNCHANGED <<bit, key, task_list, scan>>
    BY <1>0, <1>11 DEF FinishTest, Return, Goto, targs, TypeOK
  <2>2. pc[t] = "finish" => ~excl[t]
    BY <1>0 DEF RoleInv
  <2>3. pc[t] = "locked" => bit[key[t]]
    BY <1>0 DEF HoldInv, Holds
  <2>4. KeepsOthers
    BY <2>1 DEF KeepsOthers, Queued
  <2>5. KeepsActing
    BY <2>1, <2>2, <2>3 DEF KeepsActing, WillAct, Scanning
  <2>6. NoNewSleeper
    BY <2>1 DEF NoNewSleeper, Sleeper
  <2> QED
    BY <1>2, <2>1, <2>4, <2>5, <2>6
<1>12. ASSUME LockFree, pc[t] = "unqueue" \/ (pc[t] = "abort" /\ Queued(t)),
              task_list' = list_del_init(t), Return(t, "idle") \/ Return(t, "hold"),
              UNCHANGED <<bit, scan, tstate>>
       PROVE  ForgottenInv'
  <2>1. /\ pc'[t] \in {"idle", "hold"} /\ key' = key
        /\ \A u \in Tasks : u # t => pc'[u] = pc[u] /\ excl'[u] = excl[u]
    BY <1>0, <1>12 DEF Return, Goto, TypeOK
  <2>2. Elems(task_list') \subseteq Elems(task_list)
    BY <1>0, <1>12, Del DEF list_del_init, Queued, TypeOK
  <2>3. KeepsOthers
    BY <2>1, <2>2 DEF KeepsOthers, Queued
  <2>4. KeepsActing
    <3>1. ASSUME NEW s \in Tasks
          PROVE  ~WillAct(t, s)
      BY <1>12 DEF WillAct, TakesWakeup, LockFree, Scanning
    <3> QED
      BY <3>1 DEF KeepsActing
  <2>5. NoNewSleeper
    BY <1>12, <2>1 DEF NoNewSleeper, Sleeper
  <2> QED
    BY <1>2, <1>12, <2>3, <2>4, <2>5
<1>16. CASE FinishUnlink(t)
  BY <1>12, <1>16 DEF FinishUnlink
<1>17. CASE Abort(t)
  <2>1. CASE PassesOn(t)
    BY <1>17, <2>1, TakeLockActs DEF Abort, Goto, targs
  <2>2. CASE ~PassesOn(t)
    BY <1>12, <1>17, <2>2 DEF Abort, PassesOn
  <2> QED
    BY <2>1, <2>2
<1>13. CASE HandleSignal(t) \/ StrayWakeup(t) \/ \E s \in Signals : SendSignal(t, s)
  <2>1. /\ UNCHANGED <<bit, task_list, scan, pc, key, excl>>
        /\ \A u \in Tasks : tstate'[u] \in {tstate[u], "RUNNING"}
    BY <1>0, <1>13, Outside
  <2>2. KeepsOthers /\ KeepsActing
    BY <2>1 DEF KeepsOthers, KeepsActing, Queued, WillAct, TakesWakeup, Scanning
  <2>3. NoNewSleeper
    BY <2>1 DEF NoNewSleeper, Sleeper
  <2> QED
    BY <1>2, <2>1, <2>2, <2>3
<1>14. ASSUME NEW k \in Keys, NEW md \in Modes, Lock(t, k, md) \/ Wait(t, k, md)
       PROVE  ForgottenInv'
  <2>1. /\ pc[t] = "idle" /\ pc'[t] \in {"prepare", "hold"}
        /\ \A u \in Tasks : u # t => pc'[u] = pc[u] /\ key'[u] = key[u] /\ excl'[u] = excl[u]
        /\ UNCHANGED <<task_list, scan, tstate>>
    BY <1>0, <1>14 DEF Lock, Wait, Begin, Goto, TypeOK
  <2>2. \A u \in Tasks : key[u] \in Keys /\ (bit[key[u]] => bit'[key[u]])
    BY <1>0, <1>14 DEF Lock, Wait, TypeOK
  <2>3. KeepsOthers
    BY <2>1 DEF KeepsOthers, Queued
  <2>4. KeepsActing
    BY <2>1 DEF KeepsActing, WillAct, Scanning
  <2>5. NoNewSleeper
    BY <2>1, <2>2 DEF NoNewSleeper, Sleeper
  <2> QED
    BY <1>2, <2>1, <2>3, <2>4, <2>5
<1> QED
  BY <1>1, <1>3, <1>4, <1>5, <1>6, <1>7, <1>8, <1>9, <1>10, <1>11, <1>13, <1>14,
     <1>15, <1>16, <1>17 DEF Step

\* As long as somebody sleeps for a bit that is clear, a waker is on its way to the
\* queue, or an exclusive waiter that has taken the wake-up is awake.  A waiter that
\* gives up passes the wake-up on to waiters in its own state only, so callers must
\* not mix interruptible waits with others on a bit: those of lock_page() do not.
THEOREM ClearBitIsNoticed ==
  ASSUME "INTERRUPTIBLE" \notin Modes
  PROVE  Spec => []NobodyForgotten
<1>1. Init => FInv
  BY DEF Init, FInv, ModeInv, ForgottenInv, Sleeper
<1>2. ASSUME BInv, FInv, [Next]_vars
      PROVE  FInv'
  <2>1. CASE Next
    BY <1>2, <2>1, ModeNext, ForgottenNext DEF FInv
  <2>2. CASE UNCHANGED vars
    BY <1>2, <2>2 DEF vars, targs, FInv, ModeInv, ForgottenInv, Sleeper, WillAct,
       TakesWakeup, Scanning, Queued
  <2> QED
    BY <1>2, <2>1, <2>2
<1>3. FInv => NobodyForgotten
  BY DEF FInv, ForgottenInv, Sleeper, NobodyForgotten
<1> QED
  BY <1>1, <1>2, <1>3, BInvariance, PTL DEF Spec
=============================================================================
