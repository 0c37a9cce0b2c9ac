---------------------------- MODULE ThreadProofs ----------------------------
(***************************************************************************)
(* Proofs about kernel threads and about what runs on them.                *)
(*                                                                         *)
(* Kthread: the request on the creator's stack and the stop flag on the    *)
(* thread's stack are used only while they live, and kthread_stop() gets   *)
(* the right code, for any number of creators.                             *)
(*                                                                         *)
(* Async (its names are prefixed A!): synchronizing waits for everything   *)
(* it has to and is not forgotten, and neither is a pending call, for any  *)
(* number of calls, domains and threads.                                   *)
(*                                                                         *)
(* Workqueue (W!): a barrier is touched only while its task waits, a flush *)
(* waits for all it has to, and, where the code is right, a canceller owns *)
(* the bit and leaves the work idle, for any number of works, tasks, CPUs. *)
(***************************************************************************)
EXTENDS MCThreads, Integers, WaitListTheorems, FiniteSetTheorems, TLAPS

Asking == {"listed", "waiting"}                      \* inside kthread_create()
Having == {"created", "flag", "wake", "exit", "code"}  \* the thread exists, or did
Ended == {"do_exit", "release", "complete"}

\* A request that waits for kthreadd or is being served has no thread yet.
RequestInv ==
  /\ kpc = "fork" <=> create # Nobody
  /\ create \notin Elems(kthread_create_list)
  /\ \A c \in Creators :
       c \in Elems(kthread_create_list) \/ create = c
         => cpc[c] \in Asking /\ ~done[c] /\ tpc[c] = "dead"

\* Until kthread_create() returns the thread has gone no further than to sleep.
CreateInv ==
  \A c \in Creators :
    /\ tpc[c] \in {"born", "report"} => cpc[c] \in Asking /\ ~done[c]
    /\ cpc[c] \in Asking \cup {"idle"} => ~woken[c]
    /\ cpc[c] \in Asking =>
         /\ tpc[c] # "dead" /\ done[c] => tpc[c] = "schedule"
         /\ done[c] => result[c] \in {"task", "error"}
         /\ done[c] /\ result[c] = "task" => tpc[c] # "dead"
         /\ tpc[c] \in {"dead", "born", "report", "schedule"}
         /\ tpc[c] \in {"report", "schedule"} => ~should_stop[c] /\ sleeping[c]

\* Which fields of the thread say what of its life.
LifeInv ==
  \A c \in Creators :
    /\ vfork_done[c] <=> tpc[c] \in {"report", "schedule", "threadfn", "do_exit", "release"}
    /\ exited[c] => tpc[c] \in {"dead", "born"}
    /\ tpc[c] \in {"release", "complete"} => exit_code[c] = ret[c]
    /\ cpc[c] \in Having /\ tpc[c] = "dead" => exit_code[c] = ret[c] /\ ret[c] # "unset"
    /\ tpc[c] \in Ended => ret[c] # "unset"

\* How far kthread_stop() and a thread that was never started can be.
StopInv ==
  \A c \in Creators :
    /\ cpc[c] = "code" => tpc[c] \in {"complete", "dead"}
    /\ tpc[c] \in Ended \/ (cpc[c] \in Having /\ tpc[c] = "dead") =>
         (ret[c] = "-EINTR" => should_stop[c])
    /\ cpc[c] \in {"created", "flag", "wake"} /\ ~woken[c] => tpc[c] = "schedule" /\ sleeping[c]
    /\ cpc[c] = "wake" => should_stop[c]
    /\ cpc[c] \in {"exit", "code"} /\ ~woken[c] =>
         /\ should_stop[c]
         /\ tpc[c] = "schedule" \/ (tpc[c] \in Ended \cup {"dead"} /\ ret[c] = "-EINTR")

IInv == TypeOK /\ RequestInv /\ CreateInv /\ LifeInv /\ StopInv

-----------------------------------------------------------------------------
LEMMA InitIInv == Init => IInv
<1> SUFFICES ASSUME Init PROVE IInv
  OBVIOUS
<1>1. IsWaitList(<<>>, Creators) /\ Elems(<<>>) = {}
  BY DEF IsWaitList, Elems
<1> QED
  BY <1>1, KthreadAssumption DEF Init, IInv, TypeOK, RequestInv, CreateInv, LifeInv, StopInv,
     Asking, Having, Ended, Code

\* kthreadd takes requests from the list in order; its other steps leave the
\* list and all requests alone.
LEMMA KthreaddIInv ==
  ASSUME IInv, Kthreadd
  PROVE  IInv'
<1> USE KthreadAssumption DEF IInv, TypeOK, RequestInv, CreateInv, LifeInv, StopInv,
        Asking, Having, Ended, Code, cvars, tvars
<1>1. CASE SetState
  BY <1>1 DEF SetState
<1>2. CASE TestList
  BY <1>2 DEF TestList
<1>3. CASE Wakes
  BY <1>3 DEF Wakes
<1>4. CASE Serve
  <2>1. CASE list_empty(kthread_create_list)
    <3>1. kstate' \in BOOLEAN
      BY <1>4, Zenon DEF Serve
    <3> QED
      BY <1>4, <2>1, <3>1 DEF Serve
  <2>2. CASE ~list_empty(kthread_create_list)
    <3>1. /\ list_first_entry(kthread_create_list) \in Elems(kthread_create_list)
          /\ Elems(kthread_create_list) \subseteq Creators
      BY <2>2, First
    <3>2. /\ create' = list_first_entry(kthread_create_list)
          /\ kthread_create_list' = list_del(kthread_create_list, create')
          /\ kpc' = "fork" /\ UNCHANGED <<cvars, tvars>>
      BY <1>4, <2>2 DEF Serve
    <3>3. /\ IsWaitList(kthread_create_list', Creators)
          /\ Elems(kthread_create_list') = Elems(kthread_create_list) \ {create'}
      BY <3>1, <3>2, Del
    <3>4. kstate' \in BOOLEAN
      BY <1>4, Zenon DEF Serve
    <3> QED
      BY <3>1, <3>2, <3>3, <3>4
  <2> QED
    BY <2>1, <2>2
<1>5. CASE create_kthread
  <2>1. PICK err \in BOOLEAN :
          /\ result' = IF err THEN [result EXCEPT ![create] = "error"] ELSE result
          /\ done' = [done EXCEPT ![create] = err]
          /\ tpc' = IF err THEN tpc ELSE [tpc EXCEPT ![create] = "born"]
    BY <1>5 DEF create_kthread, CompletesHere
  <2>2. /\ kpc = "fork" /\ kpc' = "serve" /\ create' = Nobody
        /\ UNCHANGED <<kthread_create_list, kstate, cpc, woken, sleeping, should_stop,
                       exited, vfork_done, ret, exit_code>>
    BY <1>5 DEF create_kthread
  <2>3. create \in Creators /\ Elems(kthread_create_list) \subseteq Creators
    BY <2>2, Empty
  <2>4. CASE err
    <3>1. err = TRUE
      BY <2>4
    <3>2. /\ result' = [result EXCEPT ![create] = "error"]
          /\ done' = [done EXCEPT ![create] = TRUE]
          /\ tpc' = tpc
      BY <2>1, <3>1
    <3>3. TypeOK'
      BY <2>2, <2>3, <3>2
    <3>4. RequestInv'
      BY <2>2, <2>3, <3>2
    <3>5. CreateInv'
      BY <2>2, <2>3, <3>2
    <3>6. LifeInv'
      BY <2>2, <2>3, <3>2
    <3>7. StopInv'
      BY <2>2, <2>3, <3>2
    <3> QED
      BY <3>3, <3>4, <3>5, <3>6, <3>7
  <2>5. CASE ~err
    <3>1. err = FALSE
      BY <2>5
    <3>2. /\ result' = result
          /\ done' = [done EXCEPT ![create] = FALSE]
          /\ tpc' = [tpc EXCEPT ![create] = "born"]
      BY <2>1, <3>1
    <3>3. TypeOK'
      BY <2>2, <2>3, <3>2
    <3>4. RequestInv'
      BY <2>2, <2>3, <3>2
    <3>5. CreateInv'
      BY <2>2, <2>3, <3>2
    <3>6. LifeInv'
      BY <2>2, <2>3, <3>2
    <3>7. StopInv'
      BY <2>2, <2>3, <3>2
    <3> QED
      BY <3>3, <3>4, <3>5, <3>6, <3>7
  <2> QED
    BY <2>4, <2>5
<1> QED
  BY <1>1, <1>2, <1>3, <1>4, <1>5 DEF Kthreadd

LEMMA CreatorIInv ==
  ASSUME IInv, NEW c \in Creators,
         kthread_create(c) \/ Start(c) \/ Detach(c) \/ CreateStep(c)
  PROVE  IInv'
<1> USE KthreadAssumption DEF IInv, TypeOK, RequestInv, CreateInv, LifeInv, StopInv,
        Asking, Having, Ended, Code, dvars, cvars, tvars, Go
<1>1. CASE kthread_create(c)
  <2>1. /\ IsWaitList(kthread_create_list', Creators)
        /\ Elems(kthread_create_list') = Elems(kthread_create_list) \cup {c}
    BY <1>1, AddTail DEF kthread_create
  <2> QED
    BY <1>1, <2>1 DEF kthread_create
<1>2. CASE Start(c)
  BY <1>2 DEF Start
<1>3. CASE Detach(c)
  BY <1>3 DEF Detach
<1>4. CASE WakeKthreadd(c)
  <2>1. kstate' \in BOOLEAN
    BY <1>4, Zenon DEF WakeKthreadd
  <2> QED
    BY <1>4, <2>1 DEF WakeKthreadd
<1>5. CASE Created(c)
  BY <1>5 DEF Created
<1> QED
  BY <1>1, <1>2, <1>3, <1>4, <1>5 DEF CreateStep

LEMMA StopIInv ==
  ASSUME IInv, NEW c \in Creators, StopTest(c) \/ StopStep(c)
  PROVE  IInv'
<1> USE KthreadAssumption DEF IInv, TypeOK, RequestInv, CreateInv, LifeInv, StopInv,
        Asking, Having, Ended, Code, dvars, cvars, tvars, Go
<1>1. CASE StopTest(c)
  BY <1>1 DEF StopTest
<1>2. CASE StopFlag(c)
  BY <1>2 DEF StopFlag
<1>3. CASE StopWake(c)
  BY <1>3 DEF StopWake
<1>4. CASE StopWait(c)
  BY <1>4 DEF StopWait, ExitSeen
<1>5. CASE StopReturn(c)
  BY <1>5 DEF StopReturn
<1> QED
  BY <1>1, <1>2, <1>3, <1>4, <1>5 DEF StopStep

LEMMA ThreadIInv ==
  ASSUME IInv, NEW c \in Creators, ThreadStep(c) \/ FnReturns(c)
  PROVE  IInv'
<1> USE KthreadAssumption DEF IInv, TypeOK, RequestInv, CreateInv, LifeInv, StopInv,
        Asking, Having, Ended, Code, dvars, cvars, tvars
<1>1. CASE Born(c)
  BY <1>1 DEF Born
<1>2. CASE Report(c)
  BY <1>2 DEF Report
<1>3. CASE Woken(c)
  BY <1>3 DEF Woken
<1>4. CASE FnReturns(c)
  BY <1>4 DEF FnReturns
<1>5. CASE ExitCode(c)
  BY <1>5 DEF ExitCode
<1>6. CASE ClearVfork(c)
  BY <1>6 DEF ClearVfork
<1>7. CASE Complete(c)
  BY <1>7 DEF Complete, Told
<1> QED
  BY <1>1, <1>2, <1>3, <1>4, <1>5, <1>6, <1>7 DEF ThreadStep

LEMMA NextIInv == IInv /\ [Next]_vars => IInv'
<1> SUFFICES ASSUME IInv, [Next]_vars PROVE IInv'
  OBVIOUS
<1>1. CASE UNCHANGED vars
  BY <1>1 DEF vars, dvars, cvars, tvars, IInv, TypeOK, RequestInv, CreateInv, LifeInv, StopInv
<1>2. CASE Next
  BY <1>2, KthreaddIInv, CreatorIInv, StopIInv, ThreadIInv DEF Next
<1> QED
  BY <1>1, <1>2

LEMMA Invariance == Spec => []IInv
BY InitIInv, NextIInv, PTL DEF Spec

\* kthread_create(): the request is on the stack of the caller, and whoever may
\* still use it (the list, kthreadd, the new thread) does so before the caller
\* can return.
THEOREM RequestsAreAlive == Spec => []CreateInfoLive
<1>1. IInv => CreateInfoLive
  BY DEF IInv, RequestInv, CreateInv, CreateInfoLive, Asking
<1> QED
  BY <1>1, Invariance, PTL

\* kthread_stop() returns the exit code of the thread, whether the thread ends
\* before, during or after the call.  It is -EINTR for one that was never
\* started, and never -EINTR for one that was not asked to stop.
THEOREM StopGetsCode == Spec => []StopReturnsCode
<1>1. IInv => StopReturnsCode
  BY DEF IInv, TypeOK, LifeInv, StopInv, StopReturnsCode, Having, Ended, Code
<1> QED
  BY <1>1, Invariance, PTL

\* The variables keep their types; the thread never ends with a code that
\* nobody has set.
THEOREM TypeCorrect == Spec => []TypeOK
BY Invariance, PTL DEF IInv

-----------------------------------------------------------------------------
(* Asynchronous calls, which run on kernel threads.                        *)

\* A list in the order of its cookies.
Sorted(list) ==
  /\ list \in Seq(1..MaxCookie)
  /\ \A i, j \in 1..Len(list) : i < j => list[i] < list[j]

\* The calls of domain d that are pending or running.
Progress(d) == {c \in Elems(async_pending) : domain[c] = d} \cup Elems(running[d])

Working == {i \in Threads : th[i] = "func"}
Counted == {i \in Threads : th[i] \notin {"none", "last", "stay"}}

\* The types; the lists are in the order of their cookies.
ATypes ==
  /\ next_cookie \in 1..MaxCookie+1
  /\ Sorted(async_pending)
  /\ running \in [Domains -> Seq(1..MaxCookie)] /\ \A d \in Domains : Sorted(running[d])
  /\ domain \in [1..MaxCookie -> Domains]
  /\ entry_count \in Int /\ thread_count \in Int
  /\ apc \in [Callers -> {"idle", "wake", "func"}]
  /\ th \in [Threads -> {"none", "set", "test", "take", "func", "wake", "sleep", "last", "stay"}]
  /\ mine \in [Threads -> 0..MaxCookie] /\ tsleepy \in [Threads -> BOOLEAN]
  /\ mpc \in {"set", "tc", "ec", "loop", "inc"} /\ tc \in Int /\ ec \in Int
  /\ spc \in [Syncers -> {"idle", "test", "sleep", "running", "pending", "return"}]
  /\ cookie \in [Syncers -> 1..MaxCookie+1] /\ dom \in [Syncers -> Domains]
  /\ full \in [Syncers -> BOOLEAN] /\ ssleepy \in [Syncers -> BOOLEAN]
  /\ limit \in [Syncers -> 1..MaxCookie+1]

\* Calls are taken in the order of their cookies.
OrderInv ==
  /\ \A c \in Elems(async_pending) : c < next_cookie
  /\ \A d \in Domains : \A c \in Elems(running[d]) :
       /\ domain[c] = d /\ c < next_cookie
       /\ \A p \in Elems(async_pending) : c < p

\* A call that runs has one thread.
WorkInv ==
  \A i \in Working :
    /\ mine[i] \in 1..MaxCookie /\ mine[i] \in Elems(running[domain[mine[i]]])
    /\ \A j \in Working : mine[j] = mine[i] => j = i

CounterInv ==
  /\ entry_count = Len(async_pending) + Cardinality(Working)
  /\ thread_count = Cardinality(Counted) - (IF mpc = "inc" THEN 1 ELSE 0)

\* Past the last test nothing that was asked for is left.
SyncInv ==
  /\ \A s \in Syncers : limit[s] <= cookie[s] /\ cookie[s] <= next_cookie
  /\ \A s \in Syncers, d \in Domains :
       dom[s] = d /\ spc[s] \in {"running", "pending", "return"} =>
         \A c \in Progress(d) : c >= limit[s]

\* A sleeping synchronizer has something to wait for, or is about to be woken.
SleepInv ==
  \A s \in Syncers, d \in Domains :
    dom[s] = d /\ spc[s] = "sleep" /\ ssleepy[s] =>
      \/ \E c \in Progress(d) : c < cookie[s]
      \/ \E i \in Threads : th[i] = "wake"

\* A thread does not go to sleep over a pending call but for a wake-up to come,
\* and a manager that does has a thread to count on or will see the call.
Waking == \E a \in Callers : apc[a] = "wake"
CallInv ==
  async_pending # <<>> /\ ~Waking =>
    /\ \A i \in Threads : th[i] = "sleep" => ~tsleepy[i]
    /\ msleepy =>
         \/ \E i \in Threads : th[i] # "none"
         \/ mpc \in {"set", "tc"}
         \/ mpc = "ec" /\ tc = 0
         \/ mpc = "loop" /\ tc = 0 /\ ec > 0

AInv == ATypes /\ OrderInv /\ WorkInv /\ CounterInv /\ SyncInv /\ SleepInv /\ CallInv

\* Async's own copies of the list operators.
LEMMA AList ==
  ASSUME NEW l, NEW w
  PROVE  /\ A!Elems(l) = Elems(l)
         /\ A!list_empty(l) <=> list_empty(l)
         /\ A!list_add_tail(l, w) = list_add_tail(l, w)
         /\ A!list_del(l, w) = list_del(l, w)
         /\ A!list_first_entry(l) = list_first_entry(l)
BY DEF A!Elems, Elems, A!list_empty, list_empty, A!list_add_tail, list_add_tail,
       A!list_del, list_del, A!list_first_entry, list_first_entry

LEMMA AHyp ==
  ASSUME A!AsyncAssumption
  PROVE  /\ "main" \in Domains /\ IsFiniteSet(Threads)
         /\ MAX_THREADS \in Nat /\ MAX_THREADS > 0 /\ MaxCookie \in Nat
<1>1. IsFiniteSet(Threads)
  BY Zenon DEF A!AsyncAssumption, A!IsFiniteSet, IsFiniteSet
<1> QED
  BY <1>1 DEF A!AsyncAssumption

-----------------------------------------------------------------------------
\* Lists in the order of their cookies.
LEMMA SortedList ==
  ASSUME NEW l, Sorted(l), MaxCookie \in Nat
  PROVE  /\ IsWaitList(l, 1..MaxCookie) /\ Elems(l) \subseteq 1..MaxCookie
         /\ Len(l) \in Nat /\ (l = <<>> <=> Elems(l) = {})
<1>1. l \in Seq(1..MaxCookie) /\ Len(l) \in Nat
  BY DEF Sorted
<1>2. \A i \in 1..Len(l) : l[i] \in 1..MaxCookie
  BY <1>1
<1>3. IsWaitList(l, 1..MaxCookie)
  <2> SUFFICES ASSUME NEW i \in 1..Len(l), NEW j \in 1..Len(l), l[i] = l[j], i # j
               PROVE  FALSE
    BY <1>1 DEF IsWaitList
  <2>1. i < j \/ j < i
    BY <1>1
  <2>2. l[i] \in Int /\ l[j] \in Int
    BY <1>2
  <2> QED
    BY <2>1, <2>2 DEF Sorted
<1> QED
  BY <1>1, <1>3, Empty DEF list_empty

LEMMA SortedAdd ==
  ASSUME NEW l, Sorted(l), MaxCookie \in Nat, NEW c \in 1..MaxCookie,
         \A e \in Elems(l) : e < c
  PROVE  /\ Sorted(list_add_tail(l, c)) /\ list_add_tail(l, c) # <<>>
         /\ Elems(list_add_tail(l, c)) = Elems(l) \cup {c}
         /\ Len(list_add_tail(l, c)) = Len(l) + 1
<1> DEFINE new == list_add_tail(l, c)
<1>1. IsWaitList(l, 1..MaxCookie) /\ c \notin Elems(l) /\ l \in Seq(1..MaxCookie) /\ Len(l) \in Nat
  BY SortedList DEF Sorted
<1>2. new # <<>> /\ Elems(new) = Elems(l) \cup {c}
  BY <1>1, AddTail
<1>3. /\ new \in Seq(1..MaxCookie) /\ Len(new) = Len(l) + 1
      /\ new[Len(l) + 1] = c
      /\ \A i \in 1..Len(l) : new[i] = l[i] /\ l[i] \in Elems(l)
  BY <1>1 DEF list_add_tail, Elems
<1>4. ASSUME NEW i \in 1..Len(new), NEW j \in 1..Len(new), i < j
      PROVE  new[i] < new[j]
  <2>1. i \in 1..Len(l) /\ (j \in 1..Len(l) \/ j = Len(l) + 1)
    BY <1>1, <1>3, <1>4
  <2> HIDE DEF new
  <2> QED
    BY <1>3, <1>4, <2>1 DEF Sorted
<1> QED
  BY <1>2, <1>3, <1>4 DEF Sorted

LEMMA SortedPop ==
  ASSUME NEW l, Sorted(l), MaxCookie \in Nat, l # <<>>
  PROVE  /\ Sorted(Tail(l)) /\ Elems(Tail(l)) = Elems(l) \ {Head(l)}
         /\ Len(Tail(l)) = Len(l) - 1
         /\ Head(l) \in Elems(l) /\ \A e \in Elems(l) : Head(l) <= e
<1>1. IsWaitList(l, 1..MaxCookie) /\ l \in Seq(1..MaxCookie) /\ Len(l) \in Nat /\ Len(l) > 0
  BY SortedList DEF Sorted
<1>2. /\ IsWaitList(Tail(l), 1..MaxCookie) /\ Len(Tail(l)) = Len(l) - 1
      /\ \A i \in 1..Len(l) - 1 : Tail(l)[i] = l[i + 1]
      /\ Elems(Tail(l)) = Elems(l) \ {Head(l)}
  BY <1>1, Pop
<1>3. Sorted(Tail(l))
  <2>1. Tail(l) \in Seq(1..MaxCookie)
    BY <1>2 DEF IsWaitList
  <2>2. ASSUME NEW i \in 1..Len(Tail(l)), NEW j \in 1..Len(Tail(l)), i < j
        PROVE  Tail(l)[i] < Tail(l)[j]
    <3>1. /\ i + 1 \in 1..Len(l) /\ j + 1 \in 1..Len(l) /\ i + 1 < j + 1
          /\ Tail(l)[i] = l[i + 1] /\ Tail(l)[j] = l[j + 1]
      BY <1>1, <1>2, <2>2
    <3> QED
      BY <3>1 DEF Sorted
  <2> QED
    BY <2>1, <2>2 DEF Sorted
<1>4. Head(l) = l[1] /\ 1 \in 1..Len(l) /\ l[1] \in Int
  BY <1>1
<1>5. ASSUME NEW i \in 1..Len(l)
      PROVE  l[1] <= l[i]
  <2>1. l[i] \in Int
    BY <1>1
  <2>2. CASE i = 1
    BY <1>4, <2>2
  <2>3. CASE 1 < i
    BY <1>4, <2>1, <2>3 DEF Sorted
  <2> QED
    BY <2>2, <2>3
<1> QED
  BY <1>2, <1>3, <1>4, <1>5 DEF Elems

LEMMA SortedDel ==
  ASSUME NEW l, Sorted(l), MaxCookie \in Nat, NEW c \in Elems(l)
  PROVE  /\ Sorted(list_del(l, c)) /\ Elems(list_del(l, c)) = Elems(l) \ {c}
<1> DEFINE p == CHOOSE i \in 1..Len(l) : l[i] = c
           new == list_del(l, c)
<1>1. IsWaitList(l, 1..MaxCookie) /\ Len(l) \in Nat
  BY SortedList
<1>2. IsWaitList(new, 1..MaxCookie) /\ Elems(new) = Elems(l) \ {c}
  BY <1>1, Del
<1>3. p \in 1..Len(l)
  BY DEF Elems
<1>4. new = [i \in 1..Len(l) - 1 |-> IF i < p THEN l[i] ELSE l[i + 1]]
  BY DEF list_del
<1>5. new \in Seq(1..MaxCookie)
  BY <1>2 DEF IsWaitList
<1> HIDE DEF p, new
<1>6. Len(new) = Len(l) - 1
  <2>1. DOMAIN new = 1..Len(l) - 1 /\ Len(l) - 1 \in Nat
    BY <1>1, <1>3, <1>4
  <2>2. DOMAIN new = 1..Len(new) /\ Len(new) \in Nat
    BY <1>5
  <2> QED
    BY <2>1, <2>2
<1>7. ASSUME NEW i \in 1..Len(new), NEW j \in 1..Len(new), i < j
      PROVE  new[i] < new[j]
  <2>1. \E a, b \in 1..Len(l) : a < b /\ new[i] = l[a] /\ new[j] = l[b]
    <3>1. /\ new[i] = IF i < p THEN l[i] ELSE l[i + 1]
          /\ new[j] = IF j < p THEN l[j] ELSE l[j + 1]
      BY <1>4, <1>6
    <3>2. i \in 1..Len(l) /\ i + 1 \in 1..Len(l) /\ j \in 1..Len(l) /\ j + 1 \in 1..Len(l)
      BY <1>1, <1>6
    <3>3. CASE j < p
      BY <1>3, <1>7, <3>1, <3>2, <3>3
    <3>4. CASE i < p /\ ~(j < p)
      BY <1>3, <1>7, <3>1, <3>2, <3>4
    <3>5. CASE ~(i < p)
      BY <1>3, <1>7, <3>1, <3>2, <3>5
    <3> QED
      BY <1>3, <1>7, <3>3, <3>4, <3>5
  <2> QED
    BY <2>1 DEF Sorted
<1> QED
  BY <1>2, <1>5, <1>7 DEF Sorted, new

-----------------------------------------------------------------------------
LEMMA ProgressIs ==
  ASSUME NEW d
  PROVE  A!InProgress(d) = Progress(d)
BY DEF A!InProgress, A!OfDomain, A!Elems, Progress, Elems

\* __lowest_in_progress() finds the lowest cookie of the domain.
LEMMA Lowest ==
  ASSUME MaxCookie \in Nat, ATypes, OrderInv, NEW d \in Domains, NEW k \in 1..next_cookie
  PROVE  /\ A!lowest_in_progress(d) \in Int
         /\ A!lowest_in_progress(d) < k <=> \E c \in Progress(d) : c < k
<1>1. Sorted(async_pending) /\ Sorted(running[d]) /\ next_cookie \in Int
  BY DEF ATypes
<1>2. CASE running[d] # <<>>
  <2>1. A!lowest_in_progress(d) = Head(running[d])
    BY <1>2 DEF A!lowest_in_progress, A!list_empty, A!list_first_entry
  <2>2. /\ Head(running[d]) \in Elems(running[d])
        /\ \A e \in Elems(running[d]) : Head(running[d]) <= e
    BY <1>1, <1>2, SortedPop
  <2>3. Elems(running[d]) \subseteq 1..MaxCookie /\ Elems(async_pending) \subseteq 1..MaxCookie
    BY <1>1, SortedList
  <2>4. \A c \in Progress(d) : c \in Int /\ Head(running[d]) <= c
    BY <2>2, <2>3 DEF Progress, OrderInv
  <2>5. Head(running[d]) \in Progress(d) /\ Head(running[d]) \in Int
    BY <2>2, <2>3 DEF Progress
  <2> QED
    BY <2>1, <2>4, <2>5
<1>3. CASE running[d] = <<>> /\ A!OfDomain(d) = {}
  <2>1. A!lowest_in_progress(d) = next_cookie
    BY <1>3 DEF A!lowest_in_progress, A!list_empty
  <2>2. Elems(running[d]) = {}
    BY <1>1, <1>3, SortedList
  <2>3. Progress(d) = {}
    BY <1>3, <2>2, ProgressIs DEF A!InProgress, A!Elems, Elems
  <2> QED
    BY <1>1, <2>1, <2>3
<1>4. CASE running[d] = <<>> /\ A!OfDomain(d) # {}
  <2>1. A!OfDomain(d) \subseteq 1..Len(async_pending) /\ Len(async_pending) \in Nat
    BY <1>1, SortedList DEF A!OfDomain
  <2>2. \E m \in A!OfDomain(d) : \A j \in A!OfDomain(d) : m <= j
    BY <1>4, <2>1, Least
  <2>3. PICK m \in A!OfDomain(d) : /\ \A j \in A!OfDomain(d) : m <= j
                                   /\ A!lowest_in_progress(d) = async_pending[m]
    BY <1>4, <2>2 DEF A!lowest_in_progress, A!list_empty
  <2>4. Elems(running[d]) = {}
    BY <1>1, <1>4, SortedList
  <2>5. Progress(d) = {async_pending[j] : j \in A!OfDomain(d)}
    BY <2>4, ProgressIs DEF A!InProgress, A!Elems, Elems
  <2>6. \A j \in A!OfDomain(d) : async_pending[j] \in Int /\ async_pending[m] <= async_pending[j]
    <3> SUFFICES ASSUME NEW j \in A!OfDomain(d)
                 PROVE  async_pending[j] \in Int /\ async_pending[m] <= async_pending[j]
      OBVIOUS
    <3>1. async_pending[j] \in Int /\ async_pending[m] \in Int
      BY <1>1, <2>1 DEF Sorted
    <3>2. m = j \/ m < j
      BY <2>1, <2>3
    <3> QED
      BY <1>1, <2>1, <3>1, <3>2 DEF Sorted
  <2> QED
    BY <2>3, <2>5, <2>6
<1> QED
  BY <1>2, <1>3, <1>4

\* Nothing is scheduled, and the manager has not looked yet.
LEMMA InitAInv == ASSUME A!AsyncAssumption, A!Init PROVE AInv
<1>1. MaxCookie \in Nat /\ "main" \in Domains
  BY AHyp
<1>2. Sorted(<<>>) /\ Elems(<<>>) = {}
  BY DEF Sorted, Elems
<1>3. ATypes
  BY <1>1, <1>2 DEF A!Init, ATypes
<1>4. OrderInv /\ \A d \in Domains : Progress(d) = {}
  BY <1>2 DEF A!Init, OrderInv, Progress
<1>5. Working = {} /\ Counted = {}
  BY DEF A!Init, Working, Counted
<1>6. CounterInv
  BY <1>5, FS_EmptySet DEF A!Init, CounterInv
<1>7. WorkInv /\ SyncInv /\ SleepInv /\ CallInv
  BY <1>5 DEF A!Init, WorkInv, SyncInv, SleepInv, CallInv
<1> QED
  BY <1>3, <1>4, <1>6, <1>7 DEF AInv

-----------------------------------------------------------------------------
\* A new call has the highest cookie, and a wake-up is to come.
LEMMA ScheduleStep ==
  ASSUME A!AsyncAssumption, AInv, NEW a \in Callers, NEW d \in Domains, A!Schedule(a, d)
  PROVE  AInv'
<1>1. MaxCookie \in Nat
  BY AHyp
<1>2. ATypes /\ OrderInv /\ WorkInv
  BY DEF AInv
<1>3. PICK c \in 1..MaxCookie : c = next_cookie
  BY <1>1, <1>2 DEF ATypes, A!Schedule
<1>4. /\ next_cookie' = c + 1
      /\ async_pending' = list_add_tail(async_pending, c)
      /\ domain' = [domain EXCEPT ![c] = d]
      /\ entry_count' = entry_count + 1
      /\ apc' = [apc EXCEPT ![a] = "wake"]
      /\ UNCHANGED <<running, thread_count, th, mine, tsleepy, mpc, tc, ec, msleepy, spc, cookie,
                     dom, full, ssleepy, limit>>
  BY <1>3, AList DEF A!Schedule, A!tvars, A!mvars, A!svars
<1>5. /\ \A e \in Elems(async_pending) : e < c
      /\ \A f \in Domains : \A e \in Elems(running[f]) : e < c
  BY <1>2, <1>3 DEF OrderInv
<1>6. /\ Sorted(async_pending') /\ async_pending' # <<>>
      /\ Elems(async_pending') = Elems(async_pending) \cup {c}
      /\ Len(async_pending') = Len(async_pending) + 1
  BY <1>1, <1>2, <1>4, <1>5, SortedAdd DEF ATypes
<1>7. /\ Elems(async_pending) \subseteq 1..MaxCookie
      /\ \A f \in Domains : Elems(running[f]) \subseteq 1..MaxCookie
      /\ Len(async_pending) \in Nat
  BY <1>1, <1>2, SortedList DEF ATypes
<1>8. /\ domain'[c] = d
      /\ \A e \in Elems(async_pending) : domain'[e] = domain[e]
      /\ \A f \in Domains : \A e \in Elems(running[f]) : domain'[e] = domain[e]
  BY <1>2, <1>4, <1>5, <1>7 DEF ATypes
<1>9. /\ Progress(d)' = Progress(d) \cup {c}
      /\ \A f \in Domains : f # d => Progress(f)' = Progress(f)
  BY <1>4, <1>6, <1>8 DEF Progress
<1>10. ATypes'
  BY <1>1, <1>2, <1>3, <1>4, <1>6 DEF ATypes
<1>11. OrderInv'
  <2>1. \A e \in Elems(async_pending') : e < c + 1
    BY <1>5, <1>6, <1>7
  <2>2. ASSUME NEW f \in Domains, NEW e \in Elems(running[f])
        PROVE  domain'[e] = f /\ e < c + 1 /\ \A p \in Elems(async_pending') : e < p
    <3>1. e \in Int /\ e < c /\ domain'[e] = f
      BY <1>2, <1>5, <1>7, <1>8 DEF OrderInv
    <3> QED
      BY <1>2, <1>6, <3>1 DEF OrderInv
  <2>3. \A f \in Domains : running'[f] = running[f]
    BY <1>4
  <2> QED
    BY <1>4, <2>1, <2>2, <2>3 DEF OrderInv
<1>12. WorkInv'
  <2>1. Working' = Working
    BY <1>4 DEF Working
  <2>2. \A i \in Working : domain[mine[i]] \in Domains /\ domain'[mine[i]] = domain[mine[i]]
    BY <1>2, <1>8 DEF ATypes, WorkInv
  <2> QED
    BY <1>2, <1>4, <2>1, <2>2 DEF WorkInv
<1>13. CounterInv'
  <2>1. Working' = Working /\ Counted' = Counted
    BY <1>4 DEF Working, Counted
  <2>2. IsFiniteSet(Working) /\ Cardinality(Working) \in Nat
    BY AHyp, FS_Subset, FS_CardinalityType DEF Working
  <2> QED
    BY <1>4, <1>6, <1>7, <2>1, <2>2 DEF AInv, CounterInv
<1>14. SyncInv'
  <2> SUFFICES ASSUME NEW s \in Syncers
               PROVE  /\ limit[s] <= cookie[s] /\ cookie[s] <= next_cookie'
                      /\ \A f \in Domains :
                           dom[s] = f /\ spc[s] \in {"running", "pending", "return"} =>
                             \A e \in Progress(f)' : e >= limit[s]
    BY <1>4 DEF SyncInv
  <2>1. limit[s] \in Int /\ cookie[s] \in Int
    BY <1>2 DEF ATypes
  <2>2. limit[s] <= cookie[s] /\ cookie[s] <= c
    BY <1>3 DEF AInv, SyncInv
  <2>3. \A f \in Domains : Progress(f)' \subseteq Progress(f) \cup {c}
    BY <1>9
  <2> QED
    BY <1>4, <2>1, <2>2, <2>3 DEF AInv, SyncInv
<1>15. SleepInv'
  <2>1. \A f \in Domains : Progress(f) \subseteq Progress(f)'
    BY <1>9
  <2> QED
    BY <1>4, <2>1 DEF AInv, SleepInv
<1>16. CallInv'
  BY <1>2, <1>4 DEF ATypes, CallInv, Waking
<1> QED
  BY <1>10, <1>11, <1>12, <1>13, <1>14, <1>15, <1>16 DEF AInv

\* What depends on the lists alone.
LEMMA SameLists ==
  ASSUME OrderInv, UNCHANGED <<next_cookie, async_pending, running, domain>>
  PROVE  OrderInv' /\ \A d : Progress(d)' = Progress(d)
BY DEF OrderInv, Progress

\* wake_up(&async_new) leaves nobody asleep.
LEMMA WakeNewStep ==
  ASSUME A!AsyncAssumption, AInv, NEW a \in Callers, A!WakeNew(a)
  PROVE  AInv'
<1>1. /\ apc' = [apc EXCEPT ![a] = "idle"]
      /\ tsleepy' = [i \in Threads |-> FALSE] /\ msleepy' = FALSE
      /\ UNCHANGED <<next_cookie, async_pending, running, domain, entry_count, thread_count,
                     th, mine, mpc, tc, ec, spc, cookie, dom, full, ssleepy, limit>>
  BY DEF A!WakeNew, A!lists, A!counts, A!svars
<1>2. OrderInv' /\ \A d : Progress(d)' = Progress(d)
  BY <1>1, SameLists DEF AInv
<1>3. ATypes'
  BY <1>1 DEF AInv, ATypes
<1>4. Working' = Working /\ Counted' = Counted
  BY <1>1 DEF Working, Counted
<1>5. WorkInv' /\ CounterInv'
  BY <1>1, <1>4 DEF AInv, WorkInv, CounterInv
<1>6. SyncInv' /\ SleepInv'
  BY <1>1, <1>2 DEF AInv, SyncInv, SleepInv
<1>7. CallInv'
  BY <1>1 DEF CallInv
<1> QED
  BY <1>2, <1>3, <1>5, <1>6, <1>7 DEF AInv

\* A call that the caller runs itself only uses up a cookie.
LEMMA CallHereStep ==
  ASSUME A!AsyncAssumption, AInv, NEW a \in Callers, NEW d \in Domains, A!CallHere(a, d)
  PROVE  AInv'
<1>1. /\ next_cookie <= MaxCookie /\ next_cookie' = next_cookie + 1
      /\ apc[a] = "idle" /\ apc' = [apc EXCEPT ![a] = "func"]
      /\ UNCHANGED <<async_pending, running, domain, entry_count, thread_count, th, mine,
                     tsleepy, mpc, tc, ec, msleepy, spc, cookie, dom, full, ssleepy, limit>>
  BY DEF A!CallHere, A!counts, A!tvars, A!mvars, A!svars
<1>2. ATypes /\ MaxCookie \in Nat
  BY AHyp DEF AInv
<1>3. \A e : Progress(e)' = Progress(e)
  BY <1>1 DEF Progress
<1>4. ATypes'
  BY <1>1, <1>2 DEF ATypes
<1>5. OrderInv'
  <2>1. /\ Elems(async_pending) \subseteq 1..MaxCookie
        /\ \A f \in Domains : Elems(running[f]) \subseteq 1..MaxCookie
    BY <1>2, SortedList DEF ATypes
  <2> QED
    BY <1>1, <1>2, <2>1 DEF AInv, ATypes, OrderInv
<1>6. Working' = Working /\ Counted' = Counted
  BY <1>1 DEF Working, Counted
<1>7. WorkInv' /\ CounterInv'
  BY <1>1, <1>6 DEF AInv, WorkInv, CounterInv
<1>8. SyncInv'
  <2>1. \A s \in Syncers : cookie[s] <= next_cookie /\ cookie[s] \in Int /\ next_cookie \in Int
    BY <1>2 DEF AInv, ATypes, SyncInv
  <2>2. \A s \in Syncers : cookie[s] <= next_cookie'
    BY <1>1, <2>1
  <2> QED
    BY <1>1, <1>3, <2>2 DEF AInv, SyncInv
<1>10. SleepInv'
  BY <1>1, <1>3 DEF AInv, SleepInv
<1>9. CallInv'
  <2>1. Waking' <=> Waking
    BY <1>1, <1>2 DEF ATypes, Waking
  <2> QED
    BY <1>1, <2>1 DEF AInv, CallInv
<1> QED
  BY <1>4, <1>5, <1>7, <1>8, <1>9, <1>10 DEF AInv

LEMMA CallReturnsStep ==
  ASSUME A!AsyncAssumption, AInv, NEW a \in Callers, A!CallReturns(a)
  PROVE  AInv'
<1>1. /\ apc[a] = "func" /\ apc' = [apc EXCEPT ![a] = "idle"]
      /\ UNCHANGED <<next_cookie, async_pending, running, domain, entry_count, thread_count,
                     th, mine, tsleepy, mpc, tc, ec, msleepy, spc, cookie, dom, full, ssleepy, limit>>
  BY DEF A!CallReturns, A!lists, A!counts, A!tvars, A!mvars, A!svars
<1>2. OrderInv' /\ \A d : Progress(d)' = Progress(d)
  BY <1>1, SameLists DEF AInv
<1>3. ATypes'
  BY <1>1 DEF AInv, ATypes
<1>4. Working' = Working /\ Counted' = Counted
  BY <1>1 DEF Working, Counted
<1>5. WorkInv' /\ CounterInv'
  BY <1>1, <1>4 DEF AInv, WorkInv, CounterInv
<1>6. SyncInv' /\ SleepInv'
  BY <1>1, <1>2 DEF AInv, SyncInv, SleepInv
<1>7. CallInv'
  <2>1. Waking' <=> Waking
    BY <1>1 DEF AInv, ATypes, Waking
  <2> QED
    BY <1>1, <2>1 DEF AInv, CallInv
<1> QED
  BY <1>2, <1>3, <1>5, <1>6, <1>7 DEF AInv

-----------------------------------------------------------------------------
\* Threads that take no call and end none: what counts is that a thread goes to
\* sleep, and leaves, only when nothing is pending.
LEMMA ThreadWaitStep ==
  ASSUME A!AsyncAssumption, AInv, NEW i \in Threads,
         \/ A!ThSet(i) \/ A!ThTest(i) \/ A!ThWoken(i) \/ A!ThTimeout(i) \/ A!ThLast(i)
         \/ A!ThStay(i) \/ (A!ThTake(i) /\ async_pending = <<>>)
  PROVE  AInv'
<1>1. /\ UNCHANGED <<next_cookie, async_pending, running, domain, entry_count, apc, mine, mpc, tc,
                     ec, msleepy, spc, cookie, dom, full, ssleepy, limit>>
      /\ th[i] \notin {"none", "func", "wake"}
      /\ \E l \in {"none", "set", "test", "take", "sleep", "last", "stay"} : th' = [th EXCEPT ![i] = l]
      /\ \E b \in BOOLEAN : tsleepy' = [tsleepy EXCEPT ![i] = b]
  <2>1. CASE A!ThSet(i)
    BY <2>1 DEF A!ThSet, A!ThGoto, A!lists, A!counts, A!mvars, A!avars, A!svars
  <2>2. CASE A!ThLast(i)
    BY <2>2 DEF A!ThLast, A!ThGoto, A!lists, A!counts, A!mvars, A!avars, A!svars
  <2>3. CASE A!ThTest(i) \/ A!ThWoken(i) \/ A!ThTimeout(i) \/ A!ThStay(i)
              \/ (A!ThTake(i) /\ async_pending = <<>>)
    <3>1. tsleepy' = [tsleepy EXCEPT ![i] = tsleepy[i]] /\ tsleepy[i] \in BOOLEAN
      BY <2>3 DEF AInv, ATypes, A!ThTest, A!ThWoken, A!ThTimeout, A!ThStay, A!ThTake
    <3>2. /\ UNCHANGED <<next_cookie, async_pending, running, domain, entry_count, apc, mine, mpc,
                         tc, ec, msleepy, spc, cookie, dom, full, ssleepy, limit>>
          /\ th[i] \notin {"none", "func", "wake"}
          /\ \E l \in {"none", "set", "test", "take", "sleep", "last", "stay"} :
               th' = [th EXCEPT ![i] = l]
      BY <2>3 DEF A!ThTest, A!ThWoken, A!ThTimeout, A!ThStay, A!ThTake, A!ThGoto, A!list_empty,
                  A!lists, A!counts, A!mvars, A!avars, A!svars
    <3> QED
      BY <3>1, <3>2
  <2> QED
    BY <2>1, <2>2, <2>3
<1>2. ATypes /\ IsFiniteSet(Threads)
  BY AHyp DEF AInv
<1>3. OrderInv' /\ \A d : Progress(d)' = Progress(d)
  BY <1>1, SameLists DEF AInv
<1>4. thread_count' \in Int /\ thread_count' = Cardinality(Counted') - (IF mpc = "inc" THEN 1 ELSE 0)
  <2>0. /\ IsFiniteSet(Counted) /\ Cardinality(Counted) \in Nat
        /\ thread_count = Cardinality(Counted) - (IF mpc = "inc" THEN 1 ELSE 0)
    BY <1>2, FS_Subset, FS_CardinalityType DEF Counted, AInv, CounterInv
  <2>1. CASE A!ThTimeout(i)
    <3>1. thread_count' = thread_count - 1 /\ i \in Counted /\ Counted' = Counted \ {i}
      BY <1>2, <2>1 DEF ATypes, A!ThTimeout, A!ThGoto, Counted
    <3> QED
      <4>1. Cardinality(Counted') = Cardinality(Counted) - 1
        BY <2>0, <3>1, FS_RemoveElement
      <4> QED
        BY <2>0, <3>1, <4>1
  <2>2. CASE A!ThStay(i)
    <3>1. thread_count' = thread_count + 1 /\ i \notin Counted /\ Counted' = Counted \cup {i}
      BY <1>2, <2>2 DEF ATypes, A!ThStay, A!ThGoto, Counted
    <3> QED
      <4>1. Cardinality(Counted') = Cardinality(Counted) + 1
        BY <2>0, <3>1, FS_AddElement
      <4> QED
        BY <2>0, <3>1, <4>1
  <2>3. CASE \/ A!ThSet(i) \/ A!ThTest(i) \/ A!ThWoken(i) \/ A!ThLast(i)
             \/ (A!ThTake(i) /\ async_pending = <<>>)
    <3>1. thread_count' = thread_count
      BY <2>3 DEF A!ThSet, A!ThTest, A!ThWoken, A!ThLast, A!ThTake, A!counts
    <3>2. Counted' = Counted
      BY <1>2, <2>3 DEF ATypes, A!ThSet, A!ThTest, A!ThWoken, A!ThLast, A!ThTake, A!list_empty,
                        A!ThGoto, Counted
    <3> QED
      BY <2>0, <3>1, <3>2
  <2> QED
    BY <2>1, <2>2, <2>3
<1>5. ATypes'
  BY <1>1, <1>2, <1>4 DEF ATypes
<1>6. Working' = Working
  BY <1>1, <1>2 DEF ATypes, Working
<1>7. WorkInv' /\ CounterInv'
  BY <1>1, <1>4, <1>6 DEF AInv, WorkInv, CounterInv
<1>8. SyncInv'
  BY <1>1, <1>3 DEF AInv, SyncInv
<1>9. SleepInv'
  <2>1. \A j \in Threads : th[j] = "wake" => th'[j] = "wake"
    BY <1>1, <1>2 DEF ATypes
  <2> QED
    BY <1>1, <1>3, <2>1 DEF AInv, SleepInv
<1>10. CallInv'
  <2> SUFFICES ASSUME async_pending # <<>>, ~Waking
               PROVE  /\ \A j \in Threads : th'[j] = "sleep" => ~tsleepy'[j]
                      /\ th'[i] # "none"
    BY <1>1 DEF CallInv, Waking
  <2>1. \A j \in Threads : j # i => th'[j] = th[j] /\ tsleepy'[j] = tsleepy[j]
    BY <1>1, <1>2 DEF ATypes
  <2>2. th'[i] # "sleep" /\ th'[i] # "none"
    BY <1>2 DEF ATypes, A!ThSet, A!ThTest, A!ThWoken, A!ThTimeout, A!ThLast, A!ThStay, A!ThGoto,
                A!list_empty, A!Redundant
  <2> QED
    BY <2>1, <2>2 DEF AInv, CallInv
<1> QED
  BY <1>3, <1>5, <1>7, <1>8, <1>9, <1>10 DEF AInv

\* The first pending call goes to the end of the running list of its domain:
\* nothing is in progress that was not, and the lists stay in order.
LEMMA TakeStep ==
  ASSUME A!AsyncAssumption, AInv, NEW i \in Threads, A!ThTake(i), async_pending # <<>>
  PROVE  AInv'
<1>1. MaxCookie \in Nat /\ IsFiniteSet(Threads)
  BY AHyp
<1>2. ATypes /\ OrderInv /\ WorkInv
  BY DEF AInv
<1>3. /\ Sorted(Tail(async_pending))
      /\ Elems(Tail(async_pending)) = Elems(async_pending) \ {Head(async_pending)}
      /\ Len(Tail(async_pending)) = Len(async_pending) - 1
      /\ Head(async_pending) \in Elems(async_pending)
      /\ \A e \in Elems(async_pending) : Head(async_pending) <= e
  BY <1>1, <1>2, SortedPop DEF ATypes
<1>4. /\ Elems(async_pending) \subseteq 1..MaxCookie /\ Len(async_pending) \in Nat
      /\ \A f \in Domains : Elems(running[f]) \subseteq 1..MaxCookie
  BY <1>1, <1>2, SortedList DEF ATypes
<1>5. PICK c \in 1..MaxCookie : c = Head(async_pending)
  BY <1>3, <1>4
<1>6. PICK d \in Domains : d = domain[c]
  BY <1>2 DEF ATypes
<1>7. /\ async_pending' = Tail(async_pending)
      /\ running' = [running EXCEPT ![d] = list_add_tail(@, c)]
      /\ mine' = [mine EXCEPT ![i] = c]
      /\ th[i] = "take" /\ th' = [th EXCEPT ![i] = "func"]
      /\ UNCHANGED <<next_cookie, domain, entry_count, thread_count, apc, tsleepy, mpc, tc, ec,
                     msleepy, spc, cookie, dom, full, ssleepy, limit>>
  BY <1>5, <1>6, AList DEF A!ThTake, A!ThGoto, A!Moved, A!list_empty, A!list_first_entry,
                           A!counts, A!mvars, A!avars, A!svars
<1>8. \A f \in Domains : \A e \in Elems(running[f]) : e < c
  BY <1>2, <1>3, <1>5 DEF OrderInv
<1>9. /\ running'[d] = list_add_tail(running[d], c)
      /\ \A f \in Domains : f # d => running'[f] = running[f]
  BY <1>2, <1>7 DEF ATypes
<1>10. Sorted(running'[d]) /\ Elems(running'[d]) = Elems(running[d]) \cup {c}
  BY <1>1, <1>2, <1>8, <1>9, SortedAdd DEF ATypes
<1>11. \A f \in Domains : Progress(f)' = Progress(f)
  <2> SUFFICES ASSUME NEW f \in Domains
               PROVE  {e \in Elems(async_pending') : domain[e] = f} \cup Elems(running'[f])
                        = {e \in Elems(async_pending) : domain[e] = f} \cup Elems(running[f])
    BY <1>7 DEF Progress
  <2>1. Elems(async_pending') = Elems(async_pending) \ {c} /\ c \in Elems(async_pending)
    BY <1>3, <1>5, <1>7
  <2>2. CASE f = d
    BY <1>6, <1>10, <2>1, <2>2
  <2>3. CASE f # d
    BY <1>6, <1>9, <2>1, <2>3
  <2> QED
    BY <2>2, <2>3
<1>12. ATypes'
  <2>1. running' \in [Domains -> Seq(1..MaxCookie)] /\ \A f \in Domains : Sorted(running'[f])
    BY <1>2, <1>7, <1>9, <1>10 DEF ATypes, Sorted
  <2> QED
    BY <1>2, <1>3, <1>7, <2>1 DEF ATypes
<1>13. OrderInv'
  <2>1. \A p \in Elems(async_pending') : p \in Elems(async_pending) /\ p \in Int /\ c < p
    BY <1>3, <1>4, <1>5, <1>7
  <2>2. c < next_cookie
    BY <1>2, <1>3, <1>5 DEF OrderInv
  <2>3. ASSUME NEW f \in Domains, NEW e \in Elems(running'[f])
        PROVE  /\ domain[e] = f /\ e < next_cookie
               /\ \A p \in Elems(async_pending') : e < p
    <3>1. CASE e = c
      <4>1. f = d
        <5>1. f # d => c \in Elems(running[f])
          BY <1>9, <2>3, <3>1
        <5>2. c \in Elems(running[f]) => c < c
          BY <1>8
        <5>3. ~(c < c)
          BY <1>1
        <5> QED
          BY <5>1, <5>2, <5>3
      <4> QED
        BY <1>6, <2>1, <2>2, <3>1, <4>1
    <3>2. CASE e # c
      <4>1. e \in Elems(running[f])
        BY <1>9, <1>10, <2>3, <3>2
      <4> QED
        BY <1>2, <2>1, <4>1 DEF OrderInv
    <3> QED
      BY <3>1, <3>2
  <2> QED
    BY <1>2, <1>7, <2>1, <2>3 DEF OrderInv
<1>14. i \notin Working /\ Working' = Working \cup {i} /\ Counted' = Counted
  BY <1>2, <1>7 DEF ATypes, Working, Counted
<1>15. WorkInv'
  <2>1. mine'[i] = c /\ \A j \in Working : mine'[j] = mine[j]
    BY <1>2, <1>7, <1>14 DEF ATypes, Working
  <2>2. \A j \in Working : /\ mine[j] \in 1..MaxCookie /\ mine[j] # c
                           /\ mine[j] \in Elems(running'[domain[mine[j]]])
    <3> SUFFICES ASSUME NEW j \in Working
                 PROVE  /\ mine[j] \in 1..MaxCookie /\ mine[j] # c
                        /\ mine[j] \in Elems(running'[domain[mine[j]]])
      OBVIOUS
    <3>1. PICK m \in 1..MaxCookie : m = mine[j]
      BY <1>2 DEF WorkInv
    <3>2. PICK f \in Domains : f = domain[m]
      BY <1>2 DEF ATypes
    <3>3. m \in Elems(running[f])
      BY <1>2, <3>1, <3>2 DEF WorkInv
    <3>4. m < c
      BY <1>8, <3>3
    <3>5. m \in Elems(running'[f])
      BY <1>9, <1>10, <3>3
    <3> QED
      BY <3>1, <3>2, <3>4, <3>5
  <2>3. c \in Elems(running'[domain[c]])
    BY <1>6, <1>10
  <2> QED
    BY <1>2, <1>7, <1>14, <2>1, <2>2, <2>3 DEF WorkInv
<1>16. CounterInv'
  <2>1. IsFiniteSet(Working) /\ Cardinality(Working) \in Nat
    BY <1>1, FS_Subset, FS_CardinalityType DEF Working
  <2>2. Cardinality(Working') = Cardinality(Working) + 1
    BY <1>14, <2>1, FS_AddElement
  <2> QED
    BY <1>3, <1>4, <1>7, <1>14, <2>1, <2>2 DEF AInv, CounterInv
<1>17. SyncInv'
  BY <1>7, <1>11 DEF AInv, SyncInv
<1>18. SleepInv'
  <2>1. \A j \in Threads : th[j] = "wake" => th'[j] = "wake"
    BY <1>2, <1>7 DEF ATypes
  <2> QED
    BY <1>7, <1>11, <2>1 DEF AInv, SleepInv
<1>19. CallInv'
  <2>1. th'[i] = "func" /\ \A j \in Threads : j # i => th'[j] = th[j]
    BY <1>2, <1>7 DEF ATypes
  <2> QED
    BY <1>7, <2>1 DEF AInv, CallInv, Waking
<1> QED
  BY <1>12, <1>13, <1>15, <1>16, <1>17, <1>18, <1>19 DEF AInv

\* A call ends, and its thread is about to wake who waits for it.
LEMMA DoneStep ==
  ASSUME A!AsyncAssumption, AInv, NEW i \in Threads, A!ThDone(i)
  PROVE  AInv'
<1>1. MaxCookie \in Nat /\ IsFiniteSet(Threads) /\ "main" \in Domains
  BY AHyp
<1>2. ATypes /\ OrderInv /\ WorkInv
  BY DEF AInv
<1>3. i \in Working
  BY DEF A!ThDone, Working
<1>4. PICK c \in 1..MaxCookie : c = mine[i]
  BY <1>2, <1>3 DEF WorkInv
<1>5. PICK d \in Domains : d = domain[c]
  BY <1>2 DEF ATypes
<1>6. /\ running' = [running EXCEPT ![d] = list_del(@, c)]
      /\ domain' = [domain EXCEPT ![c] = "main"]
      /\ entry_count' = entry_count - 1
      /\ mine' = [mine EXCEPT ![i] = 0] /\ th' = [th EXCEPT ![i] = "wake"]
      /\ UNCHANGED <<next_cookie, async_pending, thread_count, apc, tsleepy, mpc, tc, ec, msleepy,
                     spc, cookie, dom, full, ssleepy, limit>>
  BY <1>4, <1>5, AList DEF A!ThDone, A!ThGoto, A!mvars, A!avars, A!svars
<1>7. c \in Elems(running[d])
  BY <1>2, <1>3, <1>4, <1>5 DEF WorkInv
<1>8. /\ running'[d] = list_del(running[d], c)
      /\ \A f \in Domains : f # d => running'[f] = running[f]
  BY <1>2, <1>6 DEF ATypes
<1>9. Sorted(running'[d]) /\ Elems(running'[d]) = Elems(running[d]) \ {c}
  BY <1>1, <1>2, <1>7, <1>8, SortedDel DEF ATypes
<1>10. /\ Elems(async_pending) \subseteq 1..MaxCookie /\ Len(async_pending) \in Nat
       /\ \A f \in Domains : Elems(running[f]) \subseteq 1..MaxCookie
  BY <1>1, <1>2, SortedList DEF ATypes
<1>11. /\ c \notin Elems(async_pending)
       /\ \A f \in Domains : f # d => c \notin Elems(running[f])
  BY <1>2, <1>5, <1>7, <1>10 DEF OrderInv
<1>12. \A e \in 1..MaxCookie : e # c => domain'[e] = domain[e]
  BY <1>2, <1>6 DEF ATypes
<1>13. \A f \in Domains : Elems(running'[f]) = Elems(running[f]) \ {c}
  BY <1>8, <1>9, <1>11
<1>14. \A f \in Domains : Progress(f)' \subseteq Progress(f)
  <2>1. \A e \in Elems(async_pending) : domain'[e] = domain[e]
    BY <1>10, <1>11, <1>12
  <2> QED
    BY <1>6, <1>13, <2>1 DEF Progress
<1>15. ATypes'
  <2>1. running' \in [Domains -> Seq(1..MaxCookie)] /\ \A f \in Domains : Sorted(running'[f])
    BY <1>2, <1>6, <1>8, <1>9 DEF ATypes, Sorted
  <2> QED
    BY <1>1, <1>2, <1>6, <2>1 DEF ATypes
<1>16. OrderInv'
  <2>1. ASSUME NEW f \in Domains, NEW e \in Elems(running'[f])
        PROVE  e \in Elems(running[f]) /\ domain'[e] = domain[e]
    BY <1>10, <1>12, <1>13, <2>1
  <2> QED
    BY <1>2, <1>6, <2>1 DEF OrderInv
<1>17. Working' = Working \ {i}
  BY <1>2, <1>6 DEF ATypes, Working
<1>18. WorkInv'
  <2> SUFFICES ASSUME NEW j \in Working'
               PROVE  /\ mine'[j] \in 1..MaxCookie /\ mine'[j] \in Elems(running'[domain'[mine'[j]]])
                      /\ \A k \in Working' : mine'[k] = mine'[j] => k = j
    BY DEF WorkInv
  <2>1. \A k \in Working' : k \in Working /\ mine'[k] = mine[k] /\ k # i
    BY <1>2, <1>6, <1>17 DEF ATypes, Working
  <2>2. PICK m \in 1..MaxCookie : m = mine[j]
    BY <1>2, <2>1 DEF WorkInv
  <2>3. PICK f \in Domains : f = domain[m]
    BY <1>2 DEF ATypes
  <2>4. m \in Elems(running[f]) /\ m # c
    BY <1>2, <1>3, <1>4, <2>1, <2>2, <2>3 DEF WorkInv
  <2>5. domain'[m] = f /\ m \in Elems(running'[f])
    BY <1>12, <1>13, <2>3, <2>4
  <2> QED
    BY <1>2, <2>1, <2>2, <2>5 DEF WorkInv
<1>19. CounterInv'
  <2>1. IsFiniteSet(Working) /\ Cardinality(Working) \in Nat
    BY <1>1, FS_Subset, FS_CardinalityType DEF Working
  <2>2. Cardinality(Working') = Cardinality(Working) - 1
    BY <1>3, <1>17, <2>1, FS_RemoveElement
  <2>3. Counted' = Counted
    BY <1>2, <1>3, <1>6 DEF ATypes, Counted, Working
  <2> QED
    BY <1>6, <1>10, <2>1, <2>2, <2>3 DEF AInv, CounterInv
<1>20. SyncInv'
  BY <1>6, <1>14 DEF AInv, SyncInv
<1>21. th'[i] = "wake" /\ \A j \in Threads : j # i => th'[j] = th[j]
  BY <1>2, <1>6 DEF ATypes
<1>22. SleepInv' /\ CallInv'
  BY <1>6, <1>21 DEF AInv, SleepInv, CallInv, Waking
<1> QED
  BY <1>15, <1>16, <1>18, <1>19, <1>20, <1>22 DEF AInv

\* wake_up(&async_done) leaves no synchronizer asleep.
LEMMA ThWakeStep ==
  ASSUME A!AsyncAssumption, AInv, NEW i \in Threads, A!ThWake(i)
  PROVE  AInv'
<1>1. /\ th[i] = "wake" /\ th' = [th EXCEPT ![i] = "set"]
      /\ ssleepy' = [s \in Syncers |-> FALSE]
      /\ UNCHANGED <<next_cookie, async_pending, running, domain, entry_count, thread_count, apc,
                     mine, tsleepy, mpc, tc, ec, msleepy, spc, cookie, dom, full, limit>>
  BY DEF A!ThWake, A!ThGoto, A!wake_up_done, A!lists, A!counts, A!avars, A!mvars
<1>2. ATypes
  BY DEF AInv
<1>3. OrderInv' /\ \A d : Progress(d)' = Progress(d)
  BY <1>1, SameLists DEF AInv
<1>4. ATypes'
  BY <1>1, <1>2 DEF ATypes
<1>5. Working' = Working /\ Counted' = Counted
  BY <1>1, <1>2 DEF ATypes, Working, Counted
<1>6. WorkInv' /\ CounterInv'
  BY <1>1, <1>5 DEF AInv, WorkInv, CounterInv
<1>7. SyncInv' /\ SleepInv'
  BY <1>1, <1>3 DEF AInv, SyncInv, SleepInv
<1>8. th'[i] = "set" /\ \A j \in Threads : j # i => th'[j] = th[j]
  BY <1>1, <1>2 DEF ATypes
<1>9. CallInv'
  BY <1>1, <1>8 DEF AInv, CallInv, Waking
<1> QED
  BY <1>3, <1>4, <1>6, <1>7, <1>9 DEF AInv

-----------------------------------------------------------------------------
\* The manager reads the number of threads, then that of calls.
LEMMA ManagerStep ==
  ASSUME A!AsyncAssumption, AInv, A!Manager \/ A!MgrFails
  PROVE  AInv'
<1>1. UNCHANGED <<next_cookie, async_pending, running, domain, entry_count, apc, mine, tsleepy,
                  spc, cookie, dom, full, ssleepy, limit>>
  BY DEF A!Manager, A!MgrFails, A!MgrSet, A!MgrReadTc, A!MgrReadEc, A!MgrCreate, A!MgrCount,
         A!MgrSchedule, A!lists, A!counts, A!tvars, A!avars, A!svars
<1>2. ATypes /\ IsFiniteSet(Threads)
  BY AHyp DEF AInv
<1>3. OrderInv' /\ \A d : Progress(d)' = Progress(d)
  BY <1>1, SameLists DEF AInv
<1>4. /\ IsFiniteSet(Counted) /\ Cardinality(Counted) \in Nat
      /\ IsFiniteSet(Working) /\ Cardinality(Working) \in Nat
  BY <1>2, FS_Subset, FS_CardinalityType DEF Counted, Working
<1>5. Len(async_pending) \in Nat
  BY <1>2, AHyp, SortedList DEF ATypes
<1>6. CASE th' = th
  <2>1. Working' = Working /\ Counted' = Counted
    BY <1>6 DEF Working, Counted
  <2>2. /\ thread_count' \in Int /\ mpc' \in {"set", "tc", "ec", "loop", "inc"}
        /\ tc' \in Int /\ ec' \in Int
        /\ thread_count' = Cardinality(Counted) - (IF mpc' = "inc" THEN 1 ELSE 0)
    <3>1. CASE A!MgrCount
      BY <1>2, <1>4, <3>1 DEF AInv, ATypes, CounterInv, A!MgrCount
    <3>2. CASE A!MgrSet \/ A!MgrReadTc \/ A!MgrReadEc \/ A!MgrSchedule \/ A!MgrFails
      BY <1>2, <3>2 DEF AInv, ATypes, CounterInv, A!MgrSet, A!MgrReadTc, A!MgrReadEc,
                        A!MgrSchedule, A!MgrFails, A!counts
    <3>3. ~ \E i \in Threads : A!MgrCreate(i)
      BY <1>2, <1>6 DEF A!MgrCreate, ATypes
    <3> QED
      BY <3>1, <3>2, <3>3 DEF A!Manager
  <2>3. ATypes'
    BY <1>1, <1>2, <1>6, <2>2 DEF ATypes
  <2>4. WorkInv' /\ CounterInv'
    BY <1>1, <2>1, <2>2 DEF AInv, WorkInv, CounterInv
  <2>5. SyncInv' /\ SleepInv'
    BY <1>1, <1>3, <1>6 DEF AInv, SyncInv, SleepInv
  <2>6. CallInv'
    <3> SUFFICES ASSUME async_pending # <<>>, ~Waking, msleepy', \A i \in Threads : th[i] = "none"
                 PROVE  \/ mpc' \in {"set", "tc"}
                        \/ mpc' = "ec" /\ tc' = 0
                        \/ mpc' = "loop" /\ tc' = 0 /\ ec' > 0
      BY <1>1, <1>6 DEF AInv, CallInv, Waking
    <3>1. CASE A!MgrReadTc
      <4>1. Counted = {} /\ mpc = "tc" /\ mpc' = "ec" /\ tc' = thread_count
        BY <3>1 DEF Counted, A!MgrReadTc
      <4>2. Cardinality(Counted) = 0
        BY <4>1, FS_EmptySet
      <4> QED
        BY <4>1, <4>2 DEF AInv, CounterInv
    <3>2. CASE A!MgrReadEc
      <4>1. mpc = "ec" /\ mpc' = "loop" /\ ec' = entry_count /\ tc' = tc /\ msleepy
        BY <3>2 DEF A!MgrReadEc
      <4>2. Len(async_pending) > 0
        BY <1>2, <1>5 DEF ATypes, Sorted
      <4>3. entry_count > 0
        BY <1>4, <1>5, <4>2 DEF AInv, CounterInv
      <4>4. tc = 0
        BY <4>1 DEF AInv, CallInv
      <4> QED
        BY <4>1, <4>3, <4>4
    <3>3. CASE A!MgrSet
      BY <3>3 DEF A!MgrSet
    <3>4. CASE A!MgrCount
      <4>1. mpc = "inc" /\ msleepy
        BY <3>4 DEF A!MgrCount
      <4> QED
        BY <4>1 DEF AInv, CallInv
    <3>5. CASE A!MgrSchedule \/ A!MgrFails
      BY <3>5 DEF A!MgrSchedule, A!MgrFails
    <3>6. ~ \E i \in Threads : A!MgrCreate(i)
      BY <1>2, <1>6 DEF A!MgrCreate, ATypes
    <3> QED
      BY <3>1, <3>2, <3>3, <3>4, <3>5, <3>6 DEF A!Manager
  <2> QED
    BY <1>3, <2>3, <2>4, <2>5, <2>6 DEF AInv
<1>7. CASE th' # th
  <2>1. PICK i \in Threads : A!MgrCreate(i)
    BY <1>7 DEF A!Manager, A!MgrFails, A!MgrSet, A!MgrReadTc, A!MgrReadEc, A!MgrCount,
                A!MgrSchedule, A!tvars
  <2>2. /\ mpc = "loop" /\ mpc' = "inc" /\ msleepy' = FALSE
        /\ th[i] = "none" /\ th' = [th EXCEPT ![i] = "set"]
        /\ UNCHANGED <<thread_count, tc, ec>>
    BY <2>1 DEF A!MgrCreate, A!counts
  <2>3. Working' = Working /\ i \notin Counted /\ Counted' = Counted \cup {i}
    BY <1>2, <2>2 DEF ATypes, Working, Counted
  <2>4. Cardinality(Counted') = Cardinality(Counted) + 1
    BY <1>4, <2>3, FS_AddElement
  <2>5. ATypes'
    BY <1>1, <1>2, <2>2 DEF ATypes
  <2>6. WorkInv'
    BY <1>1, <2>3 DEF AInv, WorkInv
  <2>7. CounterInv'
    BY <1>1, <1>4, <2>2, <2>3, <2>4 DEF AInv, CounterInv
  <2>8. th'[i] = "set" /\ \A j \in Threads : j # i => th'[j] = th[j]
    BY <1>2, <2>2 DEF ATypes
  <2>9. SyncInv' /\ SleepInv'
    BY <1>1, <1>3, <2>2, <2>8 DEF AInv, SyncInv, SleepInv
  <2>10. CallInv'
    BY <1>1, <2>2, <2>8 DEF AInv, CallInv, Waking
  <2> QED
    BY <1>3, <2>5, <2>6, <2>7, <2>9, <2>10 DEF AInv
<1> QED
  BY <1>6, <1>7

-----------------------------------------------------------------------------
\* A synchronizer that sleeps has seen something lower than its cookie, and one
\* that goes on has seen nothing.
LEMMA SyncStep ==
  ASSUME A!AsyncAssumption, AInv, NEW s \in Syncers,
         \/ A!Sync(s) \/ A!SynchronizeFull(s)
         \/ \E c \in 1..MaxCookie+1, d \in Domains : A!Synchronize(s, c, d)
  PROVE  AInv'
<1>1. UNCHANGED <<next_cookie, async_pending, running, domain, entry_count, thread_count, apc, th,
                  mine, tsleepy, mpc, tc, ec, msleepy>>
  BY DEF A!Sync, A!SynchronizeFull, A!Synchronize, A!SyncTest, A!SyncPrepare, A!FullRunning,
         A!FullPending, A!SyncReturn, A!lists, A!counts, A!avars, A!tvars, A!mvars
<1>2. ATypes /\ MaxCookie \in Nat /\ "main" \in Domains
  BY AHyp DEF AInv
<1>3. OrderInv' /\ \A d : Progress(d)' = Progress(d)
  BY <1>1, SameLists DEF AInv
<1>4. Working' = Working /\ Counted' = Counted
  BY <1>1 DEF Working, Counted
<1>5. WorkInv' /\ CounterInv' /\ CallInv'
  BY <1>1, <1>4 DEF AInv, WorkInv, CounterInv, CallInv, Waking
<1>6. PICK d \in Domains : dom[s] = d
  BY <1>2 DEF ATypes
<1>7. /\ limit[s] \in Int /\ cookie[s] \in Int /\ cookie[s] \in 1..next_cookie
      /\ limit[s] <= cookie[s] /\ next_cookie \in 1..MaxCookie+1
  BY <1>2 DEF AInv, ATypes, SyncInv
<1>8. Progress(d) \subseteq Int
  <2>1. Elems(async_pending) \subseteq 1..MaxCookie /\ Elems(running[d]) \subseteq 1..MaxCookie
    BY <1>2, SortedList DEF ATypes
  <2> QED
    BY <2>1 DEF Progress
<1>9. A!lowest_in_progress(dom[s]) < cookie[s] <=> \E c \in Progress(d) : c < cookie[s]
  BY <1>2, <1>6, <1>7, Lowest DEF AInv
<1>10. ATypes'
  <2>1. CASE A!SyncTest(s) \/ A!SyncPrepare(s)
    BY <1>1, <1>2, <2>1 DEF ATypes, A!SyncTest, A!SyncPrepare, A!SGoto
  <2>3. CASE A!FullRunning(s) \/ A!FullPending(s)
    BY <1>1, <1>2, <1>7, <2>3 DEF ATypes, A!FullRunning, A!FullPending, A!SGoto, A!Again
  <2>4. CASE A!SyncReturn(s)
    BY <1>1, <1>2, <2>4 DEF ATypes, A!SyncReturn, A!SGoto
  <2>5. CASE A!SynchronizeFull(s)
    BY <1>1, <1>2, <1>7, <2>5 DEF ATypes, A!SynchronizeFull, A!SGoto
  <2>2. CASE \E c \in 1..MaxCookie+1, e \in Domains : A!Synchronize(s, c, e)
    BY <1>1, <1>2, <2>2 DEF ATypes, A!Synchronize, A!SGoto
  <2> QED
    BY <2>1, <2>2, <2>3, <2>4, <2>5 DEF A!Sync
<1>11. \A r \in Syncers : r # s => /\ spc'[r] = spc[r] /\ cookie'[r] = cookie[r] /\ dom'[r] = dom[r]
                                   /\ ssleepy'[r] = ssleepy[r] /\ limit'[r] = limit[r]
  BY <1>2 DEF ATypes, A!Sync, A!SynchronizeFull, A!Synchronize, A!SyncTest, A!SyncPrepare,
              A!FullRunning, A!FullPending, A!SyncReturn, A!SGoto, A!Again
<1>12. /\ limit'[s] <= cookie'[s] /\ cookie'[s] <= next_cookie
       /\ \A e \in Domains : dom'[s] = e /\ spc'[s] \in {"running", "pending", "return"} =>
            \A c \in Progress(e) : c >= limit'[s]
       /\ \A e \in Domains : dom'[s] = e /\ spc'[s] = "sleep" /\ ssleepy'[s] =>
            \/ \E c \in Progress(e) : c < cookie'[s]
            \/ \E i \in Threads : th[i] = "wake"
  <2>1. CASE A!SyncTest(s)
    <3>1. /\ UNCHANGED <<cookie, dom, limit>>
          /\ A!lowest_in_progress(dom[s]) < cookie[s] => ssleepy' = ssleepy
          /\ spc' = [spc EXCEPT ![s] = IF A!lowest_in_progress(dom[s]) < cookie[s] THEN "sleep"
                                       ELSE IF full[s] THEN "running" ELSE "return"]
      BY <2>1 DEF A!SyncTest, A!SGoto
    <3>2. spc'[s] = IF A!lowest_in_progress(dom[s]) < cookie[s] THEN "sleep"
                    ELSE IF full[s] THEN "running" ELSE "return"
      BY <1>2, <3>1 DEF ATypes
    <3>3. CASE \E c \in Progress(d) : c < cookie[s]
      BY <1>6, <1>7, <1>9, <3>1, <3>2, <3>3
    <3>4. CASE ~ \E c \in Progress(d) : c < cookie[s]
      <4>1. spc'[s] # "sleep"
        BY <1>9, <3>2, <3>4
      <4>2. \A c \in Progress(d) : c >= limit[s]
        BY <1>7, <1>8, <3>4
      <4> QED
        BY <1>6, <1>7, <3>1, <4>1, <4>2
    <3> QED
      BY <3>3, <3>4
  <2>2. CASE A!SyncPrepare(s)
    BY <1>2, <1>7, <2>2 DEF ATypes, A!SyncPrepare, A!SGoto
  <2>3. CASE A!FullRunning(s) \/ A!FullPending(s)
    <3>1. /\ UNCHANGED <<dom, ssleepy, limit>> /\ spc[s] \in {"running", "pending"}
          /\ spc'[s] # "sleep" /\ cookie'[s] \in {cookie[s], next_cookie}
      BY <1>2, <2>3 DEF ATypes, A!FullRunning, A!FullPending, A!SGoto, A!Again
    <3> QED
      BY <1>7, <3>1 DEF AInv, SyncInv
  <2>4. CASE A!SyncReturn(s)
    BY <1>2, <1>7, <2>4 DEF ATypes, A!SyncReturn, A!SGoto
  <2>5. CASE A!SynchronizeFull(s)
    BY <1>2, <1>7, <2>5 DEF ATypes, A!SynchronizeFull, A!SGoto
  <2>6. CASE \E c \in 1..MaxCookie+1, e \in Domains : A!Synchronize(s, c, e)
    BY <1>2, <1>7, <2>6 DEF ATypes, A!Synchronize, A!SGoto
  <2> QED
    BY <2>1, <2>2, <2>3, <2>4, <2>5, <2>6 DEF A!Sync
<1>13. SyncInv'
  BY <1>1, <1>3, <1>11, <1>12 DEF AInv, SyncInv
<1>14. SleepInv'
  BY <1>1, <1>3, <1>11, <1>12 DEF AInv, SleepInv
<1> QED
  BY <1>3, <1>5, <1>10, <1>13, <1>14 DEF AInv

-----------------------------------------------------------------------------
LEMMA AsyncInvariance == ASSUME A!AsyncAssumption PROVE A!Spec => []AInv
<1>1. A!Init => AInv
  BY InitAInv
<1>2. AInv /\ [A!Next]_(A!vars) => AInv'
  <2> SUFFICES ASSUME AInv, [A!Next]_(A!vars) PROVE AInv'
    OBVIOUS
  <2>1. CASE A!Manager \/ A!MgrFails
    BY <2>1, ManagerStep
  <2>2. ASSUME NEW i \in Threads, A!Thread(i) \/ A!ThTimeout(i)
        PROVE  AInv'
    BY <2>2, ThreadWaitStep, TakeStep, DoneStep, ThWakeStep DEF A!Thread
  <2>3. ASSUME NEW a \in Callers,
               \/ A!WakeNew(a) \/ A!CallReturns(a)
               \/ \E d \in Domains : A!Schedule(a, d) \/ A!CallHere(a, d)
        PROVE  AInv'
    BY <2>3, WakeNewStep, CallReturnsStep, ScheduleStep, CallHereStep
  <2>4. ASSUME NEW s \in Syncers,
               \/ A!Sync(s) \/ A!SynchronizeFull(s)
               \/ \E c \in 1..MaxCookie+1, d \in Domains : A!Synchronize(s, c, d)
        PROVE  AInv'
    BY <2>4, SyncStep
  <2>5. CASE UNCHANGED A!vars
    <3>1. UNCHANGED <<next_cookie, async_pending, running, domain, entry_count, thread_count, apc,
                      th, mine, tsleepy, mpc, tc, ec, msleepy, spc, cookie, dom, full, ssleepy,
                      limit>>
      BY <2>5 DEF A!vars, A!lists, A!counts, A!avars, A!tvars, A!mvars, A!svars
    <3>2. OrderInv' /\ \A d : Progress(d)' = Progress(d)
      BY <3>1, SameLists DEF AInv
    <3>3. Working' = Working /\ Counted' = Counted
      BY <3>1 DEF Working, Counted
    <3>4. ATypes' /\ WorkInv' /\ CounterInv'
      BY <3>1, <3>3 DEF AInv, ATypes, WorkInv, CounterInv
    <3>5. SyncInv' /\ SleepInv' /\ CallInv'
      BY <3>1, <3>2 DEF AInv, SyncInv, SleepInv, CallInv, Waking
    <3> QED
      BY <3>2, <3>4, <3>5 DEF AInv
  <2> QED
    BY <2>1, <2>2, <2>3, <2>4, <2>5 DEF A!Next
<1> QED
  BY <1>1, <1>2, PTL DEF A!Spec

\* When async_synchronize_cookie_domain() or async_synchronize_full() returns, no
\* call of its domain with a lower cookie is pending or run by a thread; the only
\* ones that may not be done are those that their own callers run, which are on no
\* list.  The head of a list is its lowest cookie, and what runs is lower than what
\* waits, however the calls end; for any number of calls, domains, threads and
\* synchronizers.
THEOREM SynchronizeWaits == A!Spec => []SyncIsDone
<1> USE ThreadsAssumption
<1>1. AInv => SyncIsDone
  <2> SUFFICES ASSUME AInv, NEW s \in Syncers, spc[s] = "return",
                      NEW c \in A!InProgress(dom[s])
               PROVE  c >= limit[s] /\ c \in Int /\ limit[s] \in Int
    BY DEF SyncIsDone, A!SyncIsDone, A!NotDone
  <2>1. dom[s] \in Domains /\ c \in Progress(dom[s])
    BY ProgressIs DEF AInv, ATypes
  <2>2. c \in Int
    BY <2>1, AHyp, SortedList DEF AInv, ATypes, Progress
  <2> QED
    BY <2>1, <2>2 DEF AInv, ATypes, SyncInv
<1>2. A!Spec => []AInv
  BY AsyncInvariance
<1> QED
  BY <1>1, <1>2, PTL

\* A synchronizer does not sleep on when nothing lower than its cookie is left,
\* unless wake_up(&async_done) is about to come.
THEOREM SynchronizersWake == A!Spec => []NoSyncForgotten
<1> USE ThreadsAssumption
<1>1. AInv => NoSyncForgotten
  <2> SUFFICES ASSUME AInv, NEW s \in Syncers, spc[s] = "sleep", ssleepy[s],
                      A!lowest_in_progress(dom[s]) >= cookie[s],
                      ~ \E i \in Threads : th[i] = "wake"
               PROVE  FALSE
    BY DEF NoSyncForgotten, A!NoSyncForgotten
  <2>1. PICK d \in Domains : dom[s] = d
    BY DEF AInv, ATypes
  <2>2. \E c \in Progress(d) : c < cookie[s]
    BY <2>1 DEF AInv, SleepInv
  <2>3. MaxCookie \in Nat /\ cookie[s] \in 1..next_cookie
    BY AHyp DEF AInv, ATypes, SyncInv
  <2>4. A!lowest_in_progress(d) \in Int /\ A!lowest_in_progress(d) < cookie[s]
    BY <2>2, <2>3, Lowest DEF AInv
  <2> QED
    BY <2>1, <2>3, <2>4
<1>2. A!Spec => []AInv
  BY AsyncInvariance
<1> QED
  BY <1>1, <1>2, PTL

\* A pending call is not left to sleepers once wake_up(&async_new) is over: a
\* thread that signs off looks at the list after it was counted off, and the
\* manager at the calls after the threads.
THEOREM CallsAreTaken == A!Spec => []NoCallForgotten
<1> USE ThreadsAssumption
<1>1. AInv => NoCallForgotten
  <2> SUFFICES ASSUME AInv, async_pending # <<>>, \A a \in Callers : apc[a] # "wake",
                      ~ \E i \in Threads : th[i] \notin {"none", "sleep"}
                                             \/ (th[i] = "sleep" /\ ~tsleepy[i]),
                      mpc = "loop", ~A!NeedsThread, msleepy
               PROVE  FALSE
    BY Zenon DEF NoCallForgotten, A!NoCallForgotten
  <2>1. ~Waking
    BY DEF Waking
  <2>2. \A i \in Threads : th[i] = "none"
    BY <2>1 DEF AInv, CallInv
  <2>3. tc = 0 /\ ec > 0
    BY <2>1, <2>2 DEF AInv, CallInv
  <2>4. ec \in Int /\ MAX_THREADS > 0
    BY AHyp DEF AInv, ATypes
  <2> QED
    BY <2>3, <2>4 DEF A!NeedsThread
<1>2. A!Spec => []AInv
  BY AsyncInvariance
<1> QED
  BY <1>1, <1>2, PTL

-----------------------------------------------------------------------------
(* Workqueues, whose workers are kernel threads.                           *)

WCpus == 1..N

WTypes ==
  /\ worklist \in [WCpus -> Seq(Works \cup Tasks)]
  /\ current_work \in [WCpus -> Works \cup Tasks \cup {None}]
  /\ lock \in [WCpus -> Works \cup Tasks \cup {None}]
  /\ wk \in [WCpus -> {"prepare", "test", "schedule", "ran", "clear", "run"}]
  /\ sleepy \in [WCpus -> BOOLEAN] /\ pending \in [Works -> BOOLEAN]
  /\ data \in [Works -> 0..N] /\ at \in [Works -> WCpus]
  /\ ins \in [Works -> {"none", "timer", "lock", "add"}]
  /\ pc \in [Tasks -> W!TaskPc]
  /\ kind \in [Tasks -> {"none", "flush", "flush_work", "cancel", "cancel_timer"}]
  /\ arg \in [Tasks -> Works \cup {None}]
  /\ cwq \in [Tasks -> 0..N] /\ cpu \in [Tasks -> WCpus] /\ again \in [Tasks -> BOOLEAN]
  /\ owed \in [Tasks -> SUBSET (WCpus \X Works \X {"queued", "running"})]

\* Which calls come to which point, and what they have in hand there.
CallOf(t) ==
  /\ pc[t] = "idle" <=> kind[t] = "none"
  /\ kind[t] = "flush" => pc[t] \in {"each", "barrier", "woken", "return"}
  /\ kind[t] = "flush_work" => pc[t] \in {"lock", "same", "barrier", "woken", "return"}
  /\ kind[t] \in {"flush_work", "cancel", "cancel_timer"} => arg[t] # None
  /\ pc[t] \in {"lock", "same"} => cwq[t] # 0
WCallInv == \A t \in Tasks : CallOf(t)

\* The worker of c is about to run x or runs it; x is no longer on the list.
Active(c, x) == current_work[c] = x /\ wk[c] \in {"clear", "run"}

WorkerInv ==
  \A c \in WCpus :
    /\ current_work[c] # None => wk[c] \in {"ran", "clear", "run"}
    /\ wk[c] \in {"clear", "run"} => current_work[c] # None

\* A barrier is in one place, and its task waits.
BarrierOf(t) ==
  /\ \A c \in WCpus :
       /\ t \in Elems(worklist[c]) \/ Active(c, t) => pc[t] = "barrier"
       /\ Once(worklist[c], t)
  /\ \A c, d \in WCpus :
       /\ t \in Elems(worklist[c]) => ~Active(d, t)
       /\ c # d /\ t \in Elems(worklist[c]) => t \notin Elems(worklist[d])
       /\ c # d /\ Active(c, t) => ~Active(d, t)
BarrierInv == \A t \in Tasks : BarrierOf(t)

\* What a flush owes is what is still queued or running of what it found.
OwedOf(t) ==
  \A c \in WCpus, w \in Works :
    /\ <<c, w, "queued">> \in owed[t] => w \in Elems(worklist[c])
    /\ <<c, w, "running">> \in owed[t] => Active(c, w)
OwedInv == \A t \in Tasks : OwedOf(t)

Owes(t, c) == \E w \in Works : <<c, w, "queued">> \in owed[t] \/ <<c, w, "running">> \in owed[t]

\* A flush has nothing left on the CPUs behind it ...
FlushOf(t) ==
  \A c \in WCpus : Owes(t, c) =>
    /\ pc[t] \in {"each", "barrier"} => c >= cpu[t]
    /\ pc[t] = "woken" => c > cpu[t]
    /\ pc[t] # "return"

\* ... and what is left on the CPU where it waits is in front of its barrier.
PlaceOf(t) ==
  \A c \in WCpus :
    /\ t \in Elems(worklist[c]) =>
         /\ c = cpu[t]
         /\ \A w \in Works : <<c, w, "queued">> \in owed[t] => Before(worklist[c], w, t)
    /\ Active(c, t) => c = cpu[t] /\ ~Owes(t, c)
FlushInv == \A t \in Tasks : kind[t] = "flush" => FlushOf(t) /\ PlaceOf(t)

WInv == WTypes /\ WCallInv /\ WorkerInv /\ BarrierInv /\ OwedInv /\ FlushInv

\* Workqueue's own copies of the list operators.
LEMMA WList ==
  ASSUME NEW l, NEW w
  PROVE  /\ W!Elems(l) = Elems(l)
         /\ W!list_empty(l) <=> list_empty(l)
         /\ W!list_add_tail(l, w) = list_add_tail(l, w)
         /\ W!list_del(l, w) = list_del(l, w)
         /\ W!list_first_entry(l) = list_first_entry(l)
BY DEF W!Elems, Elems, W!list_empty, list_empty, W!list_add_tail, list_add_tail,
       W!list_del, list_del, W!list_first_entry, list_first_entry

LEMMA WHyp ==
  ASSUME W!WqAssumption
  PROVE  /\ N \in Nat /\ N > 0 /\ 1 \in WCpus /\ Delayed \subseteq Works
         /\ Works \cap Tasks = {} /\ None \notin Works /\ None \notin Tasks /\ W!CPUs = WCpus
BY DEF W!WqAssumption, W!CPUs, WCpus

LEMMA InitWInv == ASSUME W!WqAssumption, W!Init PROVE WInv
<1> USE WHyp
<1>1. /\ worklist = [c \in WCpus |-> <<>>] /\ current_work = [c \in WCpus |-> None]
      /\ wk = [c \in WCpus |-> "prepare"] /\ pc = [t \in Tasks |-> "idle"]
      /\ kind = [t \in Tasks |-> "none"] /\ owed = [t \in Tasks |-> {}]
  BY DEF W!Init
<1>2. WTypes
  BY DEF W!Init, WTypes, W!NoCwq, W!TaskPc
<1>3. \A c \in WCpus : Elems(worklist[c]) = {} /\ worklist[c] = <<>>
  BY <1>1 DEF Elems
<1>4. \A c \in WCpus : \A x : ~Active(c, x)
  BY <1>1 DEF Active
<1>5. WCallInv /\ WorkerInv
  BY <1>1 DEF WCallInv, CallOf, WorkerInv
<1>6. BarrierInv
  BY <1>3, <1>4 DEF BarrierInv, BarrierOf, Once
<1>7. OwedInv /\ FlushInv
  BY <1>1 DEF OwedInv, OwedOf, FlushInv
<1> QED
  BY <1>2, <1>5, <1>6, <1>7 DEF WInv

-----------------------------------------------------------------------------
(* What a step may do, by kind.                                            *)

\* Nothing that the invariant looks at besides the place of a worker.
LEMMA QuietMove ==
  ASSUME WInv, WTypes', WorkerInv', UNCHANGED <<worklist, owed, pc, kind, arg, cwq, cpu>>,
         \A c \in WCpus : \A x : Active(c, x)' <=> Active(c, x)
  PROVE  WInv'
<1>1. WCallInv'
  BY DEF WInv, WCallInv, CallOf
<1>2. BarrierInv'
  BY DEF WInv, BarrierInv, BarrierOf
<1>3. OwedInv'
  BY DEF WInv, OwedInv, OwedOf
<1>4. \A t, c : Owes(t, c)' <=> Owes(t, c)
  BY DEF Owes
<1>5. FlushInv'
  BY <1>4 DEF WInv, FlushInv, FlushOf, PlaceOf
<1> QED
  BY <1>1, <1>2, <1>3, <1>5 DEF WInv

\* A task that has no barrier moves; the lists stay.
LEMMA TaskMove ==
  ASSUME WInv, WTypes', NEW t \in Tasks, pc[t] # "barrier",
         UNCHANGED <<worklist, current_work, wk>>,
         \A u \in Tasks : u # t => /\ pc'[u] = pc[u] /\ kind'[u] = kind[u] /\ arg'[u] = arg[u]
                                   /\ cwq'[u] = cwq[u] /\ cpu'[u] = cpu[u] /\ owed'[u] = owed[u],
         CallOf(t)', OwedOf(t)', kind'[t] = "flush" => FlushOf(t)'
  PROVE  WInv'
<1>1. \A c, x : Active(c, x)' <=> Active(c, x)
  BY DEF Active
<1>2. \A c \in WCpus : t \notin Elems(worklist[c]) /\ ~Active(c, t)
  BY DEF WInv, BarrierInv, BarrierOf
<1>3. WCallInv'
  BY DEF WInv, WCallInv, CallOf
<1>4. BarrierInv'
  BY <1>1, <1>2 DEF WInv, BarrierInv, BarrierOf
<1>5. OwedInv'
  BY <1>1 DEF WInv, OwedInv, OwedOf
<1>6. \A u \in Tasks : \A c : u # t => (Owes(u, c)' <=> Owes(u, c))
  BY DEF Owes
<1>7. FlushInv'
  <2> SUFFICES ASSUME NEW u \in Tasks, (kind[u] = "flush")' PROVE FlushOf(u)' /\ PlaceOf(u)'
    BY DEF FlushInv
  <2>1. CASE u = t
    BY <1>1, <1>2, <2>1 DEF PlaceOf
  <2>2. CASE u # t
    BY <1>1, <1>6, <2>2 DEF WInv, FlushInv, FlushOf, PlaceOf
  <2> QED
    BY <2>1, <2>2
<1>8. WorkerInv'
  BY DEF WInv, WorkerInv
<1> QED
  BY <1>3, <1>4, <1>5, <1>7, <1>8 DEF WInv

\* x is linked into the list of c: a work, or the barrier of a task that begins to wait.
LEMMA ListMove ==
  ASSUME WInv, W!WqAssumption, WTypes', NEW c \in WCpus, NEW new, NEW x \in Works \cup Tasks,
         worklist' = [worklist EXCEPT ![c] = new], Grows(worklist[c], new, x),
         UNCHANGED <<current_work, wk, kind, arg, cwq, cpu, owed>>,
         \A u \in Tasks : u # x => pc'[u] = pc[u],
         x \in Tasks =>
           /\ pc[x] # "barrier" /\ pc'[x] = "barrier" /\ kind[x] # "none"
           /\ kind[x] = "flush" =>
                /\ pc[x] = "each" /\ c = cpu[x]
                /\ \A w \in Works : <<c, w, "queued">> \in owed[x] => Before(new, w, x)
  PROVE  WInv'
<1>1. \A d, y : Active(d, y)' <=> Active(d, y)
  BY DEF Active
<1>2. worklist'[c] = new /\ \A d \in WCpus : d # c => worklist'[d] = worklist[d]
  BY DEF WInv, WTypes
<1>3. \A d \in WCpus : Elems(worklist[d]) \subseteq Elems(worklist'[d])
  BY <1>2 DEF Grows
<1>4. \A d \in WCpus : \A y \in Elems(worklist'[d]) : y \in Elems(worklist[d]) \/ (y = x /\ d = c)
  BY <1>2 DEF Grows
<1>5. \A d \in WCpus : \A y : y # x /\ Once(worklist[d], y) => Once(worklist'[d], y)
  BY <1>2 DEF Grows
<1>6. \A d \in WCpus : \A y, z : Before(worklist[d], y, z) => Before(worklist'[d], y, z)
  BY <1>2 DEF Grows
<1>7. x \in Tasks => \A d \in WCpus : x \notin Elems(worklist[d]) /\ ~Active(d, x)
  BY DEF WInv, BarrierInv, BarrierOf
<1>8. WCallInv'
  <2> SUFFICES ASSUME NEW u \in Tasks PROVE CallOf(u)'
    BY DEF WCallInv
  <2>1. CallOf(u)
    BY DEF WInv, WCallInv
  <2>2. CASE u = x
    BY <2>1, <2>2 DEF CallOf
  <2>3. CASE u # x
    BY <2>1, <2>3 DEF CallOf
  <2> QED
    BY <2>2, <2>3
<1>9. BarrierInv'
  <2> SUFFICES ASSUME NEW u \in Tasks PROVE BarrierOf(u)'
    BY DEF BarrierInv
  <2>1. BarrierOf(u)
    BY DEF WInv, BarrierInv
  <2>2. CASE u = x
    <3>1. \A d \in WCpus : Once(worklist'[d], u)
      BY <1>2, <1>7, <2>1, <2>2 DEF BarrierOf, Grows
    <3> QED
      BY <1>1, <1>4, <1>7, <2>2, <3>1 DEF BarrierOf
  <2>3. CASE u # x
    BY <1>1, <1>4, <1>5, <2>1, <2>3 DEF BarrierOf
  <2> QED
    BY <2>2, <2>3
<1>10. OwedInv'
  BY <1>1, <1>3 DEF WInv, OwedInv, OwedOf
<1>11. \A u, d : Owes(u, d)' <=> Owes(u, d)
  BY DEF Owes
<1>12. FlushInv'
  <2> SUFFICES ASSUME NEW u \in Tasks, kind[u] = "flush" PROVE FlushOf(u)' /\ PlaceOf(u)'
    BY DEF FlushInv
  <2>1. FlushOf(u) /\ PlaceOf(u)
    BY DEF WInv, FlushInv
  <2>2. CASE u = x
    <3>1. FlushOf(u)'
      BY <1>11, <2>1, <2>2 DEF FlushOf
    <3>2. PlaceOf(u)'
      BY <1>1, <1>2, <1>4, <1>7, <2>2 DEF PlaceOf
    <3> QED
      BY <3>1, <3>2
  <2>3. CASE u # x
    <3>1. FlushOf(u)'
      BY <1>11, <2>1, <2>3 DEF FlushOf
    <3>2. PlaceOf(u)'
      BY <1>1, <1>4, <1>6, <1>11, <2>1, <2>3 DEF PlaceOf
    <3> QED
      BY <3>1, <3>2
  <2> QED
    BY <2>2, <2>3
<1>13. WorkerInv'
  BY DEF WInv, WorkerInv
<1> QED
  BY <1>8, <1>9, <1>10, <1>12, <1>13 DEF WInv

-----------------------------------------------------------------------------
(* The steps.                                                              *)

LEMMA QueueStep ==
  ASSUME W!WqAssumption, WInv, NEW w \in Works,
         \/ W!QueueAgain(w) \/ W!InsertData(w)
         \/ \E c \in WCpus : W!Queue(w, c) \/ W!QueueDelayed(w, c) \/ W!TimerFires(w, c)
  PROVE  WInv'
<1>1. UNCHANGED <<worklist, current_work, wk, owed, pc, kind, arg, cwq, cpu>>
  BY DEF W!QueueAgain, W!InsertData, W!Queue, W!QueueDelayed, W!TimerFires, W!vars,
         W!cvars, W!wvars, W!tvars
<1>2. WTypes
  BY DEF WInv
<1>3. WTypes'
  <2>1. CASE W!QueueAgain(w)
    BY <1>2, <2>1 DEF WTypes, W!QueueAgain, W!vars, W!cvars, W!wvars, W!tvars
  <2>2. CASE W!InsertData(w)
    BY WHyp, <1>2, <2>2 DEF WTypes, W!InsertData, W!tvars, WCpus
  <2>3. CASE \E c \in WCpus : W!Queue(w, c) \/ W!QueueDelayed(w, c) \/ W!TimerFires(w, c)
    <3>1. PICK c \in WCpus : W!Queue(w, c) \/ W!QueueDelayed(w, c) \/ W!TimerFires(w, c)
      BY <2>3
    <3>2. c \in 0..N
      BY WHyp DEF WCpus
    <3>3. CASE W!Queue(w, c)
      BY <1>2, <3>3 DEF WTypes, W!Queue, W!cvars, W!tvars
    <3>4. CASE W!QueueDelayed(w, c)
      BY <1>2, <3>2, <3>4 DEF WTypes, W!QueueDelayed, W!cvars, W!tvars
    <3>5. CASE W!TimerFires(w, c)
      BY <1>2, <3>5 DEF WTypes, W!TimerFires, W!cvars, W!tvars
    <3> QED
      BY <3>1, <3>3, <3>4, <3>5
  <2> QED
    BY <2>1, <2>2, <2>3
<1>4. \A c, x : Active(c, x)' <=> Active(c, x)
  BY <1>1 DEF Active
<1>5. WorkerInv'
  BY <1>1 DEF WInv, WorkerInv
<1> QED
  BY <1>1, <1>3, <1>4, <1>5, QuietMove

\* The worker on its way to sleep and back, and into the function.
LEMMA WorkerMoveStep ==
  ASSUME W!WqAssumption, WInv, NEW c \in WCpus,
         W!Prepare(c) \/ W!Test(c) \/ W!Scheduled(c) \/ W!ClearPending(c)
  PROVE  WInv'
<1>1. UNCHANGED <<worklist, current_work, owed, pc, kind, arg, cwq, cpu>>
  BY DEF W!Prepare, W!Test, W!Scheduled, W!ClearPending, W!wvars, W!tvars
<1>2. WTypes
  BY DEF WInv
<1>3. WTypes'
  <2>1. CASE W!Prepare(c)
    BY <1>2, <2>1 DEF WTypes, W!Prepare, W!wvars, W!tvars
  <2>2. CASE W!Test(c)
    BY <1>2, <2>2 DEF WTypes, W!Test, W!wvars, W!tvars
  <2>3. CASE W!Scheduled(c)
    BY <1>2, <2>3 DEF WTypes, W!Scheduled, W!wvars, W!tvars
  <2>4. CASE W!ClearPending(c)
    BY <1>2, <2>4 DEF WTypes, W!ClearPending, W!wvars, W!tvars
  <2> QED
    BY <2>1, <2>2, <2>3, <2>4
<1>4. /\ \A d \in WCpus : d # c => wk'[d] = wk[d]
      /\ \/ wk[c] \in {"prepare", "test", "schedule"} /\ wk'[c] \in {"test", "schedule", "ran"}
         \/ wk[c] = "clear" /\ wk'[c] = "run"
  BY <1>2 DEF W!Prepare, W!Test, W!Scheduled, W!ClearPending, WTypes
<1>5. \A d \in WCpus : \A x : Active(d, x)' <=> Active(d, x)
  BY <1>1, <1>4 DEF Active
<1>6. WorkerInv'
  BY <1>1, <1>4 DEF WInv, WorkerInv
<1> QED
  BY <1>1, <1>3, <1>5, <1>6, QuietMove

\* run_workqueue() takes the next entry: what it was before or behind is known no more.
LEMMA WTakeStep ==
  ASSUME W!WqAssumption, WInv, NEW c \in WCpus, W!Take(c)
  PROVE  WInv'
<1>1. /\ UNCHANGED <<lock, pending, data, ins, at, pc, kind, arg, cwq, cpu, again>>
      /\ wk[c] = "ran" /\ WTypes
  BY DEF WInv, W!Take, W!wvars, W!tvars
<1>2. CASE W!list_empty(worklist[c])
  <2>1. /\ UNCHANGED <<worklist, owed>> /\ wk' = [wk EXCEPT ![c] = "prepare"]
        /\ current_work' = [current_work EXCEPT ![c] = None]
        /\ sleepy' = [sleepy EXCEPT ![c] = FALSE]
    BY <1>2 DEF W!Take
  <2>2. WTypes'
    BY <1>1, <2>1 DEF WTypes
  <2>3. \A d \in WCpus : \A x : Active(d, x)' <=> Active(d, x)
    BY <1>1, <2>1 DEF Active, WTypes
  <2>4. WorkerInv'
    BY <1>1, <2>1 DEF WInv, WorkerInv, WTypes
  <2> QED
    BY <1>1, <2>1, <2>2, <2>3, <2>4, QuietMove
<1>3. CASE ~W!list_empty(worklist[c])
  <2> DEFINE x == Head(worklist[c])
             new == Tail(worklist[c])
  <2>1. /\ worklist' = [worklist EXCEPT ![c] = new] /\ wk' = [wk EXCEPT ![c] = "clear"]
        /\ current_work' = [current_work EXCEPT ![c] = x]
        /\ sleepy' = [sleepy EXCEPT ![c] = FALSE]
        /\ owed' = [t \in Tasks |-> IF <<c, x, "queued">> \in owed[t]
             THEN (owed[t] \ {<<c, x, "queued">>}) \cup {<<c, x, "running">>} ELSE owed[t]]
    BY <1>3 DEF W!Take, W!list_first_entry
  <2>2. worklist[c] # <<>> /\ worklist[c] \in Seq(Works \cup Tasks)
    BY <1>1, <1>3 DEF WTypes, W!list_empty
  <2>3. /\ new \in Seq(Works \cup Tasks) /\ Shrinks(worklist[c], new, x) /\ x \in Works \cup Tasks
        /\ Once(worklist[c], x) => \A y : ~Before(worklist[c], y, x)
    BY <2>2, ShrinkHead
  <2> HIDE DEF x, new
  <2>4. WTypes'
    <3>1. owed' \in [Tasks -> SUBSET (WCpus \X Works \X {"queued", "running"})]
      <4>1. ASSUME NEW t \in Tasks
            PROVE  owed'[t] \in SUBSET (WCpus \X Works \X {"queued", "running"})
        <5>1. owed[t] \in SUBSET (WCpus \X Works \X {"queued", "running"})
          BY <1>1 DEF WTypes
        <5>2. CASE <<c, x, "queued">> \in owed[t]
          BY <2>1, <5>1, <5>2
        <5>3. CASE <<c, x, "queued">> \notin owed[t]
          BY <2>1, <5>1, <5>3
        <5> QED
          BY <5>2, <5>3
      <4> QED
        BY <2>1, <4>1
    <3> QED
      BY <1>1, <2>1, <2>3, <3>1 DEF WTypes
  <2>5. /\ worklist'[c] = new /\ \A d \in WCpus : d # c => worklist'[d] = worklist[d]
        /\ wk'[c] = "clear" /\ \A d \in WCpus : d # c => wk'[d] = wk[d]
        /\ current_work'[c] = x /\ \A d \in WCpus : d # c => current_work'[d] = current_work[d]
    BY <1>1, <2>1 DEF WTypes
  <2>6. /\ \A d \in WCpus : \A y : Active(d, y)' <=> Active(d, y) \/ (d = c /\ y = x)
        /\ \A y : ~Active(c, y)
    BY <1>1, <2>5 DEF Active
  <2>7. \A d \in WCpus : Elems(worklist'[d]) \subseteq Elems(worklist[d])
    BY <2>3, <2>5 DEF Shrinks
  <2>8. \A d \in WCpus : \A y : y \in Elems(worklist[d]) => y \in Elems(worklist'[d]) \/ (d = c /\ y = x)
    BY <2>3, <2>5 DEF Shrinks
  <2>9. x \in Elems(worklist[c])
    BY <2>3 DEF Shrinks
  <2>10. WCallInv'
    BY <1>1 DEF WInv, WCallInv, CallOf
  <2>11. WorkerInv'
    BY WHyp, <2>3, <2>5 DEF WInv, WorkerInv
  <2>12. BarrierInv'
    <3> SUFFICES ASSUME NEW t \in Tasks PROVE BarrierOf(t)'
      BY DEF BarrierInv
    <3>1. BarrierOf(t)
      BY DEF WInv, BarrierInv
    <3>2. \A d \in WCpus : Once(worklist'[d], t)
      BY <2>3, <2>5, <3>1 DEF BarrierOf, Shrinks
    <3>3. t = x => \A d \in WCpus : t \notin Elems(worklist'[d]) /\ ~Active(d, t)
      BY <2>3, <2>5, <2>7, <2>9, <3>1 DEF BarrierOf, Shrinks
    <3> QED
      BY <1>1, <2>6, <2>7, <2>9, <3>1, <3>2, <3>3 DEF BarrierOf
  <2>13. ASSUME NEW t \in Tasks, NEW d \in WCpus, NEW w \in Works
         PROVE  /\ <<d, w, "queued">> \in owed'[t] => <<d, w, "queued">> \in owed[t] /\ ~(d = c /\ w = x)
                /\ <<d, w, "running">> \in owed'[t] =>
                     <<d, w, "running">> \in owed[t] \/ (d = c /\ w = x /\ <<d, w, "queued">> \in owed[t])
    <3>1. CASE <<c, x, "queued">> \in owed[t]
      BY <2>1, <3>1
    <3>2. CASE <<c, x, "queued">> \notin owed[t]
      BY <2>1, <3>2
    <3> QED
      BY <3>1, <3>2
  <2>14. OwedInv'
    <3> SUFFICES ASSUME NEW t \in Tasks, NEW d \in WCpus, NEW w \in Works
                 PROVE  /\ <<d, w, "queued">> \in owed'[t] => w \in Elems(worklist'[d])
                        /\ <<d, w, "running">> \in owed'[t] => Active(d, w)'
      BY DEF OwedInv, OwedOf
    <3>1. /\ <<d, w, "queued">> \in owed[t] => w \in Elems(worklist[d])
          /\ <<d, w, "running">> \in owed[t] => Active(d, w)
      BY DEF WInv, OwedInv, OwedOf
    <3> QED
      BY <2>6, <2>8, <2>13, <3>1
  <2>15. FlushInv'
    <3> SUFFICES ASSUME NEW t \in Tasks, kind[t] = "flush" PROVE FlushOf(t)' /\ PlaceOf(t)'
      BY <1>1 DEF FlushInv
    <3>1. FlushOf(t) /\ PlaceOf(t) /\ BarrierOf(t) /\ OwedOf(t)
      BY DEF WInv, FlushInv, BarrierInv, OwedInv
    <3>2. \A d \in WCpus : Owes(t, d)' => Owes(t, d)
      BY <2>13 DEF Owes
    <3>3. FlushOf(t)'
      BY <1>1, <3>1, <3>2 DEF FlushOf
    <3>4. ASSUME NEW d \in WCpus, t \in Elems(worklist'[d])
          PROVE  /\ d = cpu[t]
                 /\ \A w \in Works : <<d, w, "queued">> \in owed'[t] => Before(worklist'[d], w, t)
      <4>1. t \in Elems(worklist[d]) /\ d = cpu[t]
        BY <2>7, <3>1, <3>4 DEF PlaceOf
      <4>2. d = c => t # x
        BY <2>3, <2>5, <3>1, <3>4 DEF BarrierOf, Shrinks
      <4>3. ASSUME NEW w \in Works, <<d, w, "queued">> \in owed'[t] PROVE Before(worklist'[d], w, t)
        <5>1. Before(worklist[d], w, t) /\ ~(d = c /\ w = x)
          BY <2>13, <3>1, <4>1, <4>3 DEF PlaceOf
        <5> QED
          BY <2>3, <2>5, <4>2, <5>1 DEF Shrinks
      <4> QED
        BY <4>1, <4>3
    <3>5. ASSUME NEW d \in WCpus, Active(d, t)'
          PROVE  d = cpu[t] /\ ~Owes(t, d)'
      <4>1. CASE Active(d, t)
        BY <3>1, <3>2, <4>1 DEF PlaceOf
      <4>2. CASE d = c /\ t = x
        <5>1. d = cpu[t] /\ \A w \in Works : <<d, w, "queued">> \notin owed[t]
          BY <2>3, <2>9, <3>1, <4>2 DEF PlaceOf, BarrierOf
        <5>2. \A w \in Works : <<d, w, "running">> \notin owed[t]
          BY <2>6, <3>1, <4>2 DEF OwedOf
        <5>3. ~Owes(t, d)
          BY <5>1, <5>2 DEF Owes
        <5> QED
          BY <3>2, <5>1, <5>3
      <4> QED
        BY <2>6, <3>5, <4>1, <4>2
    <3> QED
      BY <1>1, <3>3, <3>4, <3>5 DEF PlaceOf
  <2> QED
    BY <2>4, <2>10, <2>11, <2>12, <2>14, <2>15 DEF WInv
<1> QED
  BY <1>2, <1>3

\* The function returns; if it was the barrier's, its task goes on.
LEMMA RunEndsStep ==
  ASSUME W!WqAssumption, WInv, NEW c \in WCpus, W!RunEnds(c)
  PROVE  WInv'
<1>1. /\ UNCHANGED <<worklist, current_work, lock, sleepy, pending, data, ins, at,
                     kind, arg, cwq, cpu, again>>
      /\ wk[c] = "run" /\ wk' = [wk EXCEPT ![c] = "ran"] /\ WTypes
      /\ owed' = [t \in Tasks |-> owed[t] \ {<<c, current_work[c], "running">>}]
      /\ pc' = [t \in Tasks |-> IF t = current_work[c] THEN "woken" ELSE pc[t]]
  BY DEF WInv, W!RunEnds, W!wvars
<1>2. /\ wk'[c] = "ran" /\ \A d \in WCpus : d # c => wk'[d] = wk[d]
      /\ \A t \in Tasks : owed'[t] = owed[t] \ {<<c, current_work[c], "running">>}
      /\ \A t \in Tasks : pc'[t] = IF t = current_work[c] THEN "woken" ELSE pc[t]
  BY <1>1 DEF WTypes
<1>3. WTypes'
  <2>1. owed' \in [Tasks -> SUBSET (WCpus \X Works \X {"queued", "running"})]
    BY <1>1 DEF WTypes
  <2>2. pc' \in [Tasks -> W!TaskPc]
    BY <1>1 DEF WTypes, W!TaskPc
  <2> QED
    BY <1>1, <2>1, <2>2 DEF WTypes
<1>4. /\ \A d \in WCpus : \A y : Active(d, y)' <=> d # c /\ Active(d, y)
      /\ Active(c, current_work[c])
  BY <1>1, <1>2 DEF Active
<1>5. \A t \in Tasks : t = current_work[c] =>
        /\ pc[t] = "barrier" /\ \A d \in WCpus : t \notin Elems(worklist[d]) /\ ~Active(d, t)'
  BY <1>4 DEF WInv, BarrierInv, BarrierOf
<1>6. WCallInv'
  BY <1>1, <1>2, <1>5 DEF WInv, WCallInv, CallOf
<1>7. WorkerInv'
  BY <1>1, <1>2 DEF WInv, WorkerInv
<1>8. BarrierInv'
  BY <1>1, <1>2, <1>4, <1>5 DEF WInv, BarrierInv, BarrierOf
<1>9. ASSUME NEW t \in Tasks, NEW d \in WCpus, NEW w \in Works
      PROVE  /\ <<d, w, "queued">> \in owed'[t] <=> <<d, w, "queued">> \in owed[t]
             /\ <<d, w, "running">> \in owed'[t] =>
                  <<d, w, "running">> \in owed[t] /\ ~(d = c /\ w = current_work[c])
  BY <1>2
<1>10. OwedInv'
  <2> SUFFICES ASSUME NEW t \in Tasks, NEW d \in WCpus, NEW w \in Works
               PROVE  /\ <<d, w, "queued">> \in owed'[t] => w \in Elems(worklist[d])
                      /\ <<d, w, "running">> \in owed'[t] => Active(d, w)'
    BY <1>1 DEF OwedInv, OwedOf
  <2>1. /\ <<d, w, "queued">> \in owed[t] => w \in Elems(worklist[d])
        /\ <<d, w, "running">> \in owed[t] => Active(d, w)
    BY DEF WInv, OwedInv, OwedOf
  <2>2. Active(d, w) /\ d = c => w = current_work[c]
    BY DEF Active
  <2> QED
    BY <1>4, <1>9, <2>1, <2>2
<1>11. FlushInv'
  <2> SUFFICES ASSUME NEW t \in Tasks, kind[t] = "flush" PROVE FlushOf(t)' /\ PlaceOf(t)'
    BY <1>1 DEF FlushInv
  <2>1. FlushOf(t) /\ PlaceOf(t)
    BY DEF WInv, FlushInv
  <2>2. \A d \in WCpus : Owes(t, d)' => Owes(t, d)
    BY <1>9 DEF Owes
  <2>3. PlaceOf(t)'
    BY <1>1, <1>4, <1>9, <2>1, <2>2 DEF PlaceOf
  <2>4. CASE t # current_work[c]
    <3>1. FlushOf(t)'
      BY <1>1, <1>2, <2>1, <2>2, <2>4 DEF FlushOf
    <3> QED
      BY <2>3, <3>1
  <2>5. CASE t = current_work[c]
    <3>1. c = cpu[t] /\ ~Owes(t, c) /\ pc[t] = "barrier" /\ pc'[t] = "woken"
      BY <1>2, <1>4, <1>5, <2>1, <2>5 DEF PlaceOf
    <3>2. cpu[t] \in WCpus /\ WCpus \subseteq Nat
      BY <1>1 DEF WTypes, WCpus
    <3>3. ASSUME NEW d \in WCpus, Owes(t, d)' PROVE d > cpu[t]
      <4>1. Owes(t, d) /\ d >= cpu[t] /\ d # c
        BY <2>1, <2>2, <3>1, <3>3 DEF FlushOf
      <4>2. d \in Nat /\ cpu[t] \in Nat
        BY <3>2
      <4> QED
        BY <3>1, <4>1, <4>2
    <3>4. FlushOf(t)'
      BY <1>1, <3>1, <3>3 DEF FlushOf
    <3> QED
      BY <2>3, <3>4
  <2> QED
    BY <2>4, <2>5
<1> QED
  BY <1>3, <1>6, <1>7, <1>8, <1>10, <1>11 DEF WInv

\* The work comes onto the list.
LEMMA InsertAddStep ==
  ASSUME W!WqAssumption, WInv, NEW w \in Works, W!InsertAdd(w)
  PROVE  WInv'
<1>1. PICK c \in WCpus : at[w] = c
  BY DEF WInv, WTypes
<1>2. WTypes /\ worklist[c] \in Seq(Works \cup Tasks)
  BY DEF WInv, WTypes
<1> DEFINE new == list_add_tail(worklist[c], w)
<1>3. /\ worklist' = [worklist EXCEPT ![c] = new]
      /\ sleepy' = [sleepy EXCEPT ![c] = FALSE] /\ lock' = [lock EXCEPT ![c] = None]
      /\ ins' = [ins EXCEPT ![w] = "none"] /\ at' = [at EXCEPT ![w] = 1]
      /\ UNCHANGED <<current_work, wk, pending, data, pc, kind, arg, cwq, cpu, again, owed>>
  BY <1>1, WList DEF W!InsertAdd, W!AddAt, W!Awake, W!tvars
<1>4. new \in Seq(Works \cup Tasks) /\ Grows(worklist[c], new, w)
  BY <1>2, GrowTail
<1> HIDE DEF new
<1>5. WTypes'
  BY WHyp, <1>2, <1>3, <1>4 DEF WTypes
<1>6. w \notin Tasks
  BY WHyp
<1> QED
  BY <1>3, <1>4, <1>5, <1>6, ListMove

-----------------------------------------------------------------------------
(* Steps of a task.                                                        *)

\* A flush or a cancel goes on to the next CPU, or ends its round.
LEMMA NextCpuStep ==
  ASSUME W!WqAssumption, WInv, NEW t \in Tasks, W!NextCpu(t),
         UNCHANGED <<W!cvars, W!wvars, kind, arg, cwq, again, owed>>,
         pc[t] \in {"each", "woken"}, kind[t] # "flush_work",
         kind[t] = "flush" => \A c \in WCpus : Owes(t, c) => c > cpu[t]
  PROVE  WInv'
<1>1. /\ UNCHANGED <<worklist, current_work, lock, wk, sleepy, pending, data, ins, at,
                     kind, arg, cwq, again, owed>>
      /\ WTypes /\ CallOf(t) /\ OwedOf(t)
  BY DEF W!cvars, W!wvars, WInv, WCallInv, OwedInv
<1>2. N \in Nat /\ cpu[t] \in 1..N
  BY WHyp, <1>1 DEF WTypes, WCpus
<1>3. kind[t] \in {"flush", "cancel", "cancel_timer"}
  BY <1>1 DEF CallOf, WTypes
<1>4. CASE cpu[t] < N
  <2>1. cpu' = [cpu EXCEPT ![t] = cpu[t] + 1] /\ pc' = [pc EXCEPT ![t] = "each"]
    BY <1>4 DEF W!NextCpu, W!Goto
  <2>2. cpu[t] + 1 \in WCpus
    BY <1>2, <1>4 DEF WCpus
  <2>3. WTypes'
    BY <1>1, <2>1, <2>2 DEF WTypes, W!TaskPc
  <2>4. /\ cpu'[t] = cpu[t] + 1 /\ pc'[t] = "each"
        /\ \A u \in Tasks : u # t => pc'[u] = pc[u] /\ cpu'[u] = cpu[u]
    BY <1>1, <2>1 DEF WTypes
  <2>5. CallOf(t)'
    BY <1>1, <1>3, <2>4 DEF CallOf
  <2>6. OwedOf(t)' /\ \A c \in WCpus : Owes(t, c)' <=> Owes(t, c)
    BY <1>1 DEF OwedOf, Owes, Active
  <2>7. kind[t] = "flush" => FlushOf(t)'
    BY <1>2, <2>4, <2>6 DEF FlushOf, WCpus
  <2> QED
    BY <1>1, <2>3, <2>4, <2>5, <2>6, <2>7, TaskMove
<1>5. CASE ~(cpu[t] < N)
  <2> DEFINE l == W!NextRound(t)
  <2>1. UNCHANGED cpu /\ pc' = [pc EXCEPT ![t] = l]
    BY <1>5 DEF W!NextCpu, W!Goto
  <2>2. /\ l \in {"return", "clear", "bit", "timer"}
        /\ kind[t] = "flush" <=> l = "return"
    BY <1>3 DEF W!NextRound
  <2> HIDE DEF l
  <2>3. WTypes'
    BY <1>1, <2>1, <2>2 DEF WTypes, W!TaskPc
  <2>4. pc'[t] = l /\ \A u \in Tasks : u # t => pc'[u] = pc[u]
    BY <1>1, <2>1 DEF WTypes
  <2>5. CallOf(t)'
    BY <1>1, <1>3, <2>2, <2>4 DEF CallOf
  <2>6. OwedOf(t)' /\ \A c \in WCpus : Owes(t, c)' <=> Owes(t, c)
    BY <1>1 DEF OwedOf, Owes, Active
  <2>7. kind[t] = "flush" => FlushOf(t)'
    BY <1>2, <1>5, <2>6 DEF FlushOf, WCpus
  <2> QED
    BY <1>1, <2>1, <2>3, <2>4, <2>5, <2>6, <2>7, TaskMove
<1> QED
  BY <1>4, <1>5

\* A cancel or a flush_work() moves, and no list changes.
LEMMA OtherMove ==
  ASSUME WInv, WTypes', NEW t \in Tasks, pc[t] # "barrier",
         UNCHANGED <<worklist, current_work, wk, kind, arg, owed>>,
         kind[t] # "flush", pc[t] # "idle", pc'[t] # "idle",
         kind[t] = "flush_work" => pc'[t] \in {"lock", "same", "barrier", "return"},
         pc'[t] \in {"lock", "same"} => cwq'[t] # 0,
         \A u \in Tasks : u # t => pc'[u] = pc[u] /\ cwq'[u] = cwq[u] /\ cpu'[u] = cpu[u]
  PROVE  WInv'
<1>1. CallOf(t) /\ OwedOf(t)
  BY DEF WInv, WCallInv, OwedInv
<1>2. CallOf(t)'
  BY <1>1 DEF CallOf
<1>3. OwedOf(t)'
  BY <1>1 DEF OwedOf, Active
<1> QED
  BY <1>2, <1>3, TaskMove

LEMMA GrabbedTypes ==
  ASSUME W!WqAssumption, WInv, NEW t \in Tasks, NEW ag \in BOOLEAN, W!Grabbed(t, ag)
  PROVE  /\ pc' \in [Tasks -> W!TaskPc] /\ cpu' \in [Tasks -> WCpus] /\ again' \in [Tasks -> BOOLEAN]
         /\ cwq' \in [Tasks -> 0..N]
         /\ pc'[t] = "each" /\ cpu'[t] = 1 /\ again'[t] = ag
         /\ \A u \in Tasks : u # t => /\ pc'[u] = pc[u] /\ cpu'[u] = cpu[u]
                                      /\ again'[u] = again[u] /\ cwq'[u] = cwq[u]
BY WHyp DEF WInv, WTypes, W!Grabbed, W!Goto, W!TaskPc, W!NoCwq, W!WqAssumption

LEMMA GrabStep ==
  ASSUME W!WqAssumption, WInv, NEW t \in Tasks,
         W!DelTimer(t) \/ W!TestBit(t) \/ W!ReadData(t) \/ W!LockListed(t) \/ W!GrabFails(t)
  PROVE  WInv'
<1>1. /\ WTypes /\ CallOf(t) /\ pc[t] \in {"timer", "bit", "data", "lock"}
      /\ UNCHANGED <<worklist, current_work, wk, kind, arg, owed>>
  BY DEF WInv, WCallInv, W!DelTimer, W!TestBit, W!ReadData, W!LockListed, W!GrabFails,
         W!cvars, W!wvars
<1>2. kind[t] # "flush" /\ kind[t] # "none" /\ (kind[t] = "flush_work" => pc[t] = "lock")
  BY <1>1 DEF CallOf
<1>3. arg[t] \in Works
  BY <1>1, <1>2 DEF CallOf, WTypes
<1>4. CASE W!DelTimer(t)
  <2>1. UNCHANGED <<worklist, current_work, lock, wk, sleepy, pending, data, at, kind, arg, owed>>
    BY <1>4 DEF W!DelTimer, W!cvars
  <2>2. ins' \in [Works -> {"none", "timer", "lock", "add"}]
    BY <1>1, <1>4 DEF W!DelTimer, WTypes
  <2>3. /\ pc' \in [Tasks -> W!TaskPc] /\ cpu' \in [Tasks -> WCpus] /\ again' \in [Tasks -> BOOLEAN]
        /\ cwq' \in [Tasks -> 0..N] /\ pc'[t] \in {"each", "bit"}
        /\ \A u \in Tasks : u # t => pc'[u] = pc[u] /\ cpu'[u] = cpu[u] /\ cwq'[u] = cwq[u]
    <3>1. CASE W!Grabbed(t, FALSE)
      BY <3>1, GrabbedTypes
    <3>2. CASE W!Goto(t, "bit") /\ UNCHANGED <<again, cpu, cwq>>
      BY <1>1, <3>2 DEF W!Goto, WTypes, W!TaskPc
    <3> QED
      BY <1>4, <3>1, <3>2 DEF W!DelTimer
  <2>4. WTypes'
    BY <1>1, <2>1, <2>2, <2>3 DEF WTypes
  <2>5. pc[t] = "timer"
    BY <1>4 DEF W!DelTimer
  <2> QED
    BY <1>1, <1>2, <2>1, <2>3, <2>4, <2>5, OtherMove
<1>5. CASE W!TestBit(t)
  <2>1. UNCHANGED <<worklist, current_work, lock, wk, sleepy, data, ins, at, kind, arg, owed>>
    BY <1>5 DEF W!TestBit, W!cvars
  <2>2. pending' \in [Works -> BOOLEAN]
    BY <1>1, <1>5 DEF W!TestBit, WTypes
  <2>3. /\ pc' \in [Tasks -> W!TaskPc] /\ cpu' \in [Tasks -> WCpus] /\ again' \in [Tasks -> BOOLEAN]
        /\ cwq' \in [Tasks -> 0..N] /\ pc'[t] \in {"each", "data"}
        /\ \A u \in Tasks : u # t => pc'[u] = pc[u] /\ cpu'[u] = cpu[u] /\ cwq'[u] = cwq[u]
    <3>1. CASE W!Grabbed(t, FALSE)
      BY <3>1, GrabbedTypes
    <3>2. CASE W!Goto(t, "data") /\ UNCHANGED <<again, cpu, cwq>>
      BY <1>1, <3>2 DEF W!Goto, WTypes, W!TaskPc
    <3> QED
      BY <1>5, <3>1, <3>2 DEF W!TestBit
  <2>4. WTypes'
    BY <1>1, <2>1, <2>2, <2>3 DEF WTypes
  <2>5. pc[t] = "bit"
    BY <1>5 DEF W!TestBit
  <2> QED
    BY <1>1, <1>2, <2>1, <2>3, <2>4, <2>5, OtherMove
<1>6. CASE W!ReadData(t)
  <2>1. UNCHANGED <<worklist, current_work, lock, wk, sleepy, pending, data, ins, at, kind, arg, owed>>
    BY <1>6 DEF W!ReadData, W!cvars, W!wvars
  <2>3. /\ pc' \in [Tasks -> W!TaskPc] /\ cpu' \in [Tasks -> WCpus] /\ again' \in [Tasks -> BOOLEAN]
        /\ cwq' \in [Tasks -> 0..N]
        /\ pc'[t] = "each" \/ (pc'[t] = "lock" /\ cwq'[t] # 0)
        /\ \A u \in Tasks : u # t => pc'[u] = pc[u] /\ cpu'[u] = cpu[u] /\ cwq'[u] = cwq[u]
    <3>1. CASE W!Grabbed(t, TRUE)
      BY <3>1, GrabbedTypes
    <3>2. CASE /\ W!Goto(t, "lock") /\ UNCHANGED <<again, cpu>> /\ data[arg[t]] # 0
               /\ cwq' = [cwq EXCEPT ![t] = data[arg[t]]]
      BY <1>1, <1>3, <3>2 DEF W!Goto, WTypes, W!TaskPc
    <3> QED
      BY <1>6, <3>1, <3>2 DEF W!ReadData, W!NoCwq
  <2>4. WTypes'
    BY <1>1, <2>1, <2>3 DEF WTypes
  <2>5. pc[t] = "data"
    BY <1>6 DEF W!ReadData
  <2> QED
    BY <1>1, <1>2, <2>1, <2>3, <2>4, <2>5, OtherMove
<1>7. CASE W!LockListed(t)
  <2>1. /\ UNCHANGED <<worklist, current_work, wk, sleepy, pending, data, ins, at,
                       kind, arg, cwq, cpu, again, owed>>
        /\ lock' = [lock EXCEPT ![cwq[t]] = t] /\ pc' = [pc EXCEPT ![t] = "same"] /\ pc[t] = "lock"
    BY <1>7 DEF W!LockListed, W!wvars, W!Goto
  <2>2. WTypes'
    BY <1>1, <2>1 DEF WTypes, W!TaskPc
  <2>3. pc'[t] = "same" /\ (\A u \in Tasks : u # t => pc'[u] = pc[u]) /\ cwq[t] # 0
    BY <1>1, <2>1 DEF WTypes, CallOf
  <2> QED
    BY <1>1, <1>2, <2>1, <2>2, <2>3, OtherMove
<1>8. CASE W!GrabFails(t)
  <2>1. /\ UNCHANGED <<worklist, current_work, lock, wk, sleepy, pending, data, ins, at,
                       kind, arg, owed>>
        /\ W!Grabbed(t, TRUE) /\ kind[t] # "flush_work"
    BY <1>8 DEF W!GrabFails, W!cvars, W!wvars
  <2>2. /\ pc' \in [Tasks -> W!TaskPc] /\ cpu' \in [Tasks -> WCpus] /\ again' \in [Tasks -> BOOLEAN]
        /\ cwq' \in [Tasks -> 0..N] /\ pc'[t] = "each"
        /\ \A u \in Tasks : u # t => pc'[u] = pc[u] /\ cpu'[u] = cpu[u] /\ cwq'[u] = cwq[u]
    BY <2>1, GrabbedTypes
  <2>3. WTypes'
    BY <1>1, <2>1, <2>2 DEF WTypes
  <2> QED
    BY <1>1, <1>2, <2>1, <2>2, <2>3, OtherMove
<1> QED
  BY <1>4, <1>5, <1>6, <1>7, <1>8

LEMMA BeginTypes ==
  ASSUME W!WqAssumption, WInv, NEW t \in Tasks,
         NEW k \in {"flush", "flush_work", "cancel", "cancel_timer"},
         NEW w \in Works \cup {None}, NEW l \in W!TaskPc, NEW c \in 0..N, W!Begin(t, k, w, l, c),
         owed' \in [Tasks -> SUBSET (WCpus \X Works \X {"queued", "running"})]
  PROVE  /\ WTypes' /\ pc[t] = "idle" /\ UNCHANGED <<worklist, current_work, lock, wk, pending, data, ins, at>>
         /\ pc'[t] = l /\ kind'[t] = k /\ arg'[t] = w /\ cwq'[t] = c /\ cpu'[t] = 1 /\ ~again'[t]
         /\ \A u \in Tasks : u # t => /\ pc'[u] = pc[u] /\ kind'[u] = kind[u] /\ arg'[u] = arg[u]
                                      /\ cwq'[u] = cwq[u] /\ cpu'[u] = cpu[u] /\ again'[u] = again[u]
<1>1. WTypes /\ 1 \in WCpus
  BY WHyp DEF WInv
<1>2. /\ UNCHANGED <<worklist, current_work, lock, wk, sleepy, pending, data, ins, at>>
      /\ pc[t] = "idle" /\ pc' = [pc EXCEPT ![t] = l] /\ kind' = [kind EXCEPT ![t] = k]
      /\ arg' = [arg EXCEPT ![t] = w] /\ cwq' = [cwq EXCEPT ![t] = c]
      /\ cpu' = [cpu EXCEPT ![t] = 1] /\ again' = [again EXCEPT ![t] = FALSE]
  BY DEF W!Begin, W!Goto, W!cvars, W!wvars
<1>3. WTypes'
  BY <1>1, <1>2 DEF WTypes
<1> QED
  BY <1>1, <1>2, <1>3 DEF WTypes

\* The instances of a work as triples.
LEMMA InstancesAre ==
  ASSUME W!WqAssumption, WInv, NEW w \in Works
  PROVE  /\ W!Instances(w) \in SUBSET (WCpus \X Works \X {"queued", "running"})
         /\ \A c \in WCpus, v \in Works :
              /\ <<c, v, "queued">> \in W!Instances(w) <=> v = w /\ w \in Elems(worklist[c])
              /\ <<c, v, "running">> \in W!Instances(w) <=> v = w /\ Active(c, w)
<1> DEFINE Q == {c \in WCpus : w \in Elems(worklist[c])}
           R == {c \in WCpus : current_work[c] = w /\ wk[c] # "ran"}
<1>1. \A c \in WCpus : c \in R <=> Active(c, w)
  BY WHyp DEF WInv, WorkerInv, Active
<1>2. W!Instances(w) = {<<c, w, "queued">> : c \in Q} \cup {<<c, w, "running">> : c \in R}
  BY WHyp, WList DEF W!Instances
<1>3. Q \subseteq WCpus /\ R \subseteq WCpus /\ \A c \in WCpus : c \in Q <=> w \in Elems(worklist[c])
  OBVIOUS
<1> HIDE DEF Q, R
<1> QED
  BY <1>1, <1>2, <1>3

LEMMA BeginStep ==
  ASSUME W!WqAssumption, WInv, NEW t \in Tasks,
         \/ W!FlushWorkqueue(t) \/ \E w \in Works : W!FlushWork(t, w) \/ W!Cancel(t, w, "cancel")
         \/ \E w \in Delayed : W!Cancel(t, w, "cancel_timer")
  PROVE  WInv'
<1>1. WTypes /\ 0 \in 0..N /\ Delayed \subseteq Works /\ OwedOf(t) /\ CallOf(t)
  BY WHyp DEF WInv, OwedInv, WCallInv
<1>2. ASSUME NEW w \in Works, NEW k \in {"cancel", "cancel_timer"}, W!Cancel(t, w, k)
      PROVE  WInv'
  <2>1. PICK l \in {"bit", "timer"} : W!Begin(t, k, w, l, 0) /\ UNCHANGED owed
    BY <1>2 DEF W!Cancel, W!NoCwq
  <2>2. l \in W!TaskPc /\ owed' \in [Tasks -> SUBSET (WCpus \X Works \X {"queued", "running"})]
    BY <1>1, <2>1 DEF W!TaskPc, WTypes
  <2>3. /\ WTypes' /\ pc[t] = "idle" /\ UNCHANGED <<worklist, current_work, wk>>
        /\ pc'[t] = l /\ kind'[t] = k /\ arg'[t] = w
        /\ \A u \in Tasks : u # t => /\ pc'[u] = pc[u] /\ kind'[u] = kind[u] /\ arg'[u] = arg[u]
                                     /\ cwq'[u] = cwq[u] /\ cpu'[u] = cpu[u]
    BY <1>1, <2>1, <2>2, BeginTypes
  <2>4. CallOf(t)' /\ OwedOf(t)'
    BY WHyp, <1>1, <2>1, <2>3 DEF CallOf, OwedOf, Active
  <2> QED
    BY <2>1, <2>3, <2>4, TaskMove
<1>3. ASSUME NEW w \in Works, W!FlushWork(t, w)
      PROVE  WInv'
  <2>1. PICK l \in {"return", "lock"} : W!Begin(t, "flush_work", w, l, data[w]) /\ (l = "lock" => data[w] # 0)
    BY <1>3 DEF W!FlushWork, W!NoCwq
  <2>2. owed' = [owed EXCEPT ![t] = W!Instances(w)]
    BY <1>3 DEF W!FlushWork
  <2>3. l \in W!TaskPc /\ data[w] \in 0..N
    BY <1>1, <2>1 DEF W!TaskPc, WTypes
  <2>4. owed' \in [Tasks -> SUBSET (WCpus \X Works \X {"queued", "running"})]
        /\ owed'[t] = W!Instances(w) /\ \A u \in Tasks : u # t => owed'[u] = owed[u]
    BY <1>1, <2>2, InstancesAre DEF WTypes
  <2>5. /\ WTypes' /\ pc[t] = "idle" /\ UNCHANGED <<worklist, current_work, wk>>
        /\ pc'[t] = l /\ kind'[t] = "flush_work" /\ arg'[t] = w /\ cwq'[t] = data[w]
        /\ \A u \in Tasks : u # t => /\ pc'[u] = pc[u] /\ kind'[u] = kind[u] /\ arg'[u] = arg[u]
                                     /\ cwq'[u] = cwq[u] /\ cpu'[u] = cpu[u]
    BY <1>1, <2>1, <2>3, <2>4, BeginTypes
  <2>6. CallOf(t)'
    BY WHyp, <2>1, <2>5 DEF CallOf
  <2>7. OwedOf(t)'
    <3>1. \A c \in WCpus, v \in Works :
            /\ <<c, v, "queued">> \in W!Instances(w) => v \in Elems(worklist[c])
            /\ <<c, v, "running">> \in W!Instances(w) => Active(c, v)
      <4> SUFFICES ASSUME NEW c \in WCpus, NEW v \in Works
                   PROVE  /\ <<c, v, "queued">> \in W!Instances(w) => v \in Elems(worklist[c])
                          /\ <<c, v, "running">> \in W!Instances(w) => Active(c, v)
        OBVIOUS
      <4>1. /\ <<c, v, "queued">> \in W!Instances(w) => v = w /\ w \in Elems(worklist[c])
            /\ <<c, v, "running">> \in W!Instances(w) => v = w /\ Active(c, w)
        BY InstancesAre
      <4> QED
        BY <4>1
    <3> QED
      BY <2>4, <2>5, <3>1 DEF OwedOf, Active
  <2> QED
    BY <2>4, <2>5, <2>6, <2>7, TaskMove
<1>4. CASE W!FlushWorkqueue(t)
  <2> DEFINE I == UNION {W!Instances(w) : w \in Works}
  <2>1. W!Begin(t, "flush", None, "each", 0) /\ owed' = [owed EXCEPT ![t] = I]
    BY <1>4 DEF W!FlushWorkqueue, W!NoCwq
  <2>2. I \in SUBSET (WCpus \X Works \X {"queued", "running"})
    BY InstancesAre
  <2>3. \A c \in WCpus, v \in Works :
          /\ <<c, v, "queued">> \in I => v \in Elems(worklist[c])
          /\ <<c, v, "running">> \in I => Active(c, v)
    <3> SUFFICES ASSUME NEW c \in WCpus, NEW v \in Works, NEW s, <<c, v, s>> \in I
                 PROVE  (s = "queued" => v \in Elems(worklist[c])) /\ (s = "running" => Active(c, v))
      OBVIOUS
    <3>1. PICK w \in Works : <<c, v, s>> \in W!Instances(w)
      OBVIOUS
    <3>2. /\ <<c, v, "queued">> \in W!Instances(w) => v = w /\ w \in Elems(worklist[c])
          /\ <<c, v, "running">> \in W!Instances(w) => v = w /\ Active(c, w)
      BY InstancesAre
    <3> QED
      BY <3>1, <3>2
  <2> HIDE DEF I
  <2>4. owed' \in [Tasks -> SUBSET (WCpus \X Works \X {"queued", "running"})]
        /\ owed'[t] = I /\ \A u \in Tasks : u # t => owed'[u] = owed[u]
    BY <1>1, <2>1, <2>2 DEF WTypes
  <2>5. "each" \in W!TaskPc
    BY DEF W!TaskPc
  <2>6. /\ WTypes' /\ pc[t] = "idle" /\ UNCHANGED <<worklist, current_work, wk>>
        /\ pc'[t] = "each" /\ kind'[t] = "flush" /\ cpu'[t] = 1
        /\ \A u \in Tasks : u # t => /\ pc'[u] = pc[u] /\ kind'[u] = kind[u] /\ arg'[u] = arg[u]
                                     /\ cwq'[u] = cwq[u] /\ cpu'[u] = cpu[u]
    BY <1>1, <2>1, <2>4, <2>5, BeginTypes
  <2>7. CallOf(t)'
    BY <2>6 DEF CallOf
  <2>8. OwedOf(t)'
    BY <2>3, <2>4, <2>6 DEF OwedOf, Active
  <2>9. FlushOf(t)'
    BY WHyp, <2>6 DEF FlushOf, WCpus
  <2> QED
    BY <2>4, <2>6, <2>7, <2>8, <2>9, TaskMove
<1> QED
  BY <1>1, <1>2, <1>3, <1>4

LEMMA ReturnStep ==
  ASSUME W!WqAssumption, WInv, NEW t \in Tasks, W!Return(t)
  PROVE  WInv'
<1>1. /\ UNCHANGED <<worklist, current_work, lock, wk, sleepy, pending, data, ins, at>>
      /\ pc[t] = "return" /\ pc' = [pc EXCEPT ![t] = "idle"] /\ kind' = [kind EXCEPT ![t] = "none"]
      /\ arg' = [arg EXCEPT ![t] = None] /\ cwq' = [cwq EXCEPT ![t] = 0]
      /\ cpu' = [cpu EXCEPT ![t] = 1] /\ again' = [again EXCEPT ![t] = FALSE]
      /\ owed' = [owed EXCEPT ![t] = {}] /\ WTypes
  BY DEF W!Return, W!Goto, W!cvars, W!wvars, W!NoCwq, WInv
<1>2. 0 \in 0..N /\ 1 \in WCpus
  BY WHyp
<1>3. WTypes'
  BY <1>1, <1>2 DEF WTypes, W!TaskPc
<1>4. /\ pc'[t] = "idle" /\ kind'[t] = "none" /\ owed'[t] = {}
      /\ \A u \in Tasks : u # t => /\ pc'[u] = pc[u] /\ kind'[u] = kind[u] /\ arg'[u] = arg[u]
                                   /\ cwq'[u] = cwq[u] /\ cpu'[u] = cpu[u] /\ owed'[u] = owed[u]
  BY <1>1 DEF WTypes
<1>5. CallOf(t)' /\ OwedOf(t)'
  BY <1>4 DEF CallOf, OwedOf
<1> QED
  BY <1>1, <1>3, <1>4, <1>5, TaskMove

LEMMA WokenStep ==
  ASSUME W!WqAssumption, WInv, NEW t \in Tasks, W!Woken(t) \/ W!CancelClear(t)
  PROVE  WInv'
<1>1. WTypes /\ CallOf(t) /\ (kind[t] = "flush" => FlushOf(t))
  BY DEF WInv, WCallInv, FlushInv
<1>2. CASE W!Woken(t) /\ kind[t] # "flush_work"
  <2>1. /\ W!NextCpu(t) /\ UNCHANGED <<W!cvars, W!wvars, kind, arg, cwq, again, owed>>
        /\ pc[t] = "woken"
    BY <1>2 DEF W!Woken
  <2>2. kind[t] = "flush" => \A c \in WCpus : Owes(t, c) => c > cpu[t]
    BY <1>1, <2>1 DEF FlushOf
  <2> QED
    BY <1>2, <2>1, <2>2, NextCpuStep
<1>3. CASE W!Woken(t) /\ kind[t] = "flush_work"
  <2>1. /\ UNCHANGED <<worklist, current_work, lock, wk, sleepy, pending, data, ins, at,
                       kind, arg, cwq, cpu, again, owed>>
        /\ pc[t] = "woken" /\ pc' = [pc EXCEPT ![t] = "return"]
    BY <1>3 DEF W!Woken, W!Goto, W!cvars, W!wvars
  <2>2. WTypes'
    BY <1>1, <2>1 DEF WTypes, W!TaskPc
  <2>3. pc'[t] = "return" /\ \A u \in Tasks : u # t => pc'[u] = pc[u]
    BY <1>1, <2>1 DEF WTypes
  <2> QED
    BY <1>3, <2>1, <2>2, <2>3, OtherMove
<1>4. CASE W!CancelClear(t)
  <2>1. /\ UNCHANGED <<worklist, current_work, lock, wk, sleepy, data, ins, at,
                       kind, arg, cwq, cpu, again, owed>>
        /\ pc[t] = "clear" /\ pc' = [pc EXCEPT ![t] = "return"]
        /\ pending' = [pending EXCEPT ![arg[t]] = FALSE]
    BY <1>4 DEF W!CancelClear, W!Goto, W!cvars
  <2>2. WTypes'
    BY <1>1, <2>1 DEF WTypes, W!TaskPc
  <2>3. pc'[t] = "return" /\ \A u \in Tasks : u # t => pc'[u] = pc[u]
    BY <1>1, <2>1 DEF WTypes
  <2> QED
    BY <1>1, <2>1, <2>2, <2>3, OtherMove DEF CallOf
<1> QED
  BY <1>2, <1>3, <1>4

\* A barrier is linked in.
LEMMA BarrierMove ==
  ASSUME W!WqAssumption, WInv, NEW t \in Tasks, NEW c \in WCpus, NEW new \in Seq(Works \cup Tasks),
         W!AddAt(c, new), Grows(worklist[c], new, t), W!Goto(t, W!Waits),
         lock' \in [WCpus -> Works \cup Tasks \cup {None}],
         UNCHANGED <<current_work, wk, pending, data, ins, at, kind, arg, cwq, cpu, again, owed>>,
         pc[t] \in {"lock", "same", "each"},
         kind[t] = "flush" =>
           /\ pc[t] = "each" /\ c = cpu[t]
           /\ \A w \in Works : <<c, w, "queued">> \in owed[t] => Before(new, w, t)
  PROVE  WInv'
<1>1. /\ worklist' = [worklist EXCEPT ![c] = new] /\ sleepy' = [sleepy EXCEPT ![c] = FALSE]
      /\ pc' = [pc EXCEPT ![t] = "barrier"] /\ WTypes
  BY DEF W!AddAt, W!Awake, W!Goto, W!Waits, WInv
<1>2. WTypes'
  BY <1>1 DEF WTypes, W!TaskPc
<1>3. pc'[t] = "barrier" /\ \A u \in Tasks : u # t => pc'[u] = pc[u]
  BY <1>1 DEF WTypes
<1>4. kind[t] # "none"
  BY DEF WInv, WCallInv, CallOf
<1> QED
  BY <1>1, <1>2, <1>3, <1>4, ListMove

\* A flush_work() that has nothing to wait for, or whose barrier is on no list.
LEMMA FlushWorkMove ==
  ASSUME W!WqAssumption, WInv, NEW t \in Tasks, NEW l \in {"return", "barrier"}, W!Goto(t, l),
         lock' \in [WCpus -> Works \cup Tasks \cup {None}],
         sleepy' \in [WCpus -> BOOLEAN],
         UNCHANGED <<worklist, current_work, wk, pending, data, ins, at, kind, arg, cwq, cpu, again, owed>>,
         pc[t] \in {"lock", "same"}, kind[t] = "flush_work"
  PROVE  WInv'
<1>1. pc' = [pc EXCEPT ![t] = l] /\ WTypes
  BY DEF W!Goto, WInv
<1>2. WTypes'
  BY <1>1 DEF WTypes, W!TaskPc
<1>3. pc'[t] = l /\ \A u \in Tasks : u # t => pc'[u] = pc[u]
  BY <1>1 DEF WTypes
<1> QED
  BY <1>2, <1>3, OtherMove

LEMMA FlushWorkStep ==
  ASSUME W!WqAssumption, WInv, NEW t \in Tasks, W!FlushQueued(t) \/ W!FlushRunning(t)
  PROVE  WInv'
<1>1. WTypes /\ CallOf(t) /\ pc[t] \in {"lock", "same"} /\ kind[t] = "flush_work"
  BY DEF WInv, WCallInv, W!FlushQueued, W!FlushRunning
<1>2. PICK c \in WCpus : cwq[t] = c
  BY WHyp, <1>1 DEF WTypes, CallOf, WCpus
<1>3. worklist[c] \in Seq(Works \cup Tasks) /\ arg[t] \in Works
  BY <1>1 DEF WTypes, CallOf
<1>4. CASE W!FlushQueued(t)
  <2>1. /\ UNCHANGED <<current_work, wk, pending, data, ins, at, kind, arg, cwq, cpu, again, owed>>
        /\ lock' = [lock EXCEPT ![c] = None]
    BY <1>2, <1>4 DEF W!FlushQueued, W!Unlock, W!wvars
  <2>2. lock' \in [WCpus -> Works \cup Tasks \cup {None}]
    BY <1>1, <2>1 DEF WTypes
  <2>3. CASE ~W!SameCwq(t)
    <3>1. W!Goto(t, "return") /\ UNCHANGED <<worklist, sleepy>>
      BY <1>4, <2>3 DEF W!FlushQueued
    <3> QED
      BY <1>1, <2>1, <2>2, <3>1, FlushWorkMove DEF WTypes
  <2>4. CASE W!SameCwq(t) /\ arg[t] \notin Elems(worklist[c])
    <3>1. W!Goto(t, "barrier") /\ W!AddAt(c, worklist[c])
      BY <1>2, <1>4, <2>4, WList DEF W!FlushQueued, W!After, W!Waits
    <3>2. UNCHANGED worklist /\ sleepy' \in [WCpus -> BOOLEAN]
      BY <1>1, <3>1 DEF W!AddAt, W!Awake, WTypes
    <3> QED
      BY <1>1, <2>1, <2>2, <3>1, <3>2, FlushWorkMove
  <2>5. CASE W!SameCwq(t) /\ arg[t] \in Elems(worklist[c])
    <3> DEFINE p == CHOOSE j \in 1..Len(worklist[c]) : worklist[c][j] = arg[t]
               new == SubSeq(worklist[c], 1, p) \o <<t>> \o SubSeq(worklist[c], p + 1, Len(worklist[c]))
    <3>1. p \in 1..Len(worklist[c])
      BY <2>5 DEF Elems
    <3>2. W!After(worklist[c], arg[t], t) = new
      BY <2>5, WList DEF W!After
    <3>3. W!Goto(t, W!Waits) /\ W!AddAt(c, new)
      BY <1>2, <1>4, <2>5, <3>2 DEF W!FlushQueued
    <3> HIDE DEF p
    <3>4. new \in Seq(Works \cup Tasks) /\ Grows(worklist[c], new, t)
      BY <1>3, <3>1, GrowBehind
    <3> HIDE DEF new
    <3> QED
      BY <1>1, <2>1, <2>2, <3>3, <3>4, BarrierMove
  <2> QED
    BY <2>3, <2>4, <2>5
<1>5. CASE W!FlushRunning(t)
  <2>1. UNCHANGED <<current_work, lock, wk, pending, data, ins, at, kind, arg, cwq, cpu, again, owed>>
    BY <1>5 DEF W!FlushRunning, W!wvars
  <2>2. CASE current_work[c] # arg[t]
    <3>1. W!Goto(t, "return") /\ UNCHANGED <<worklist, sleepy>>
      BY <1>2, <1>5, <2>2 DEF W!FlushRunning
    <3> QED
      BY <1>1, <2>1, <3>1, FlushWorkMove DEF WTypes
  <2>3. CASE current_work[c] = arg[t]
    <3> DEFINE new == <<t>> \o worklist[c]
    <3>1. W!Goto(t, W!Waits) /\ W!AddAt(c, new)
      BY <1>2, <1>5, <2>3 DEF W!FlushRunning
    <3>2. new \in Seq(Works \cup Tasks) /\ Grows(worklist[c], new, t)
      BY <1>3, GrowHead
    <3> HIDE DEF new
    <3>3. lock' \in [WCpus -> Works \cup Tasks \cup {None}]
      BY <1>1, <2>1 DEF WTypes
    <3> QED
      BY <1>1, <2>1, <3>1, <3>2, <3>3, BarrierMove
  <2> QED
    BY <2>2, <2>3
<1> QED
  BY <1>4, <1>5

LEMMA EachStep ==
  ASSUME W!WqAssumption, WInv, NEW t \in Tasks, W!WaitOnCpu(t) \/ W!FlushCpu(t)
  PROVE  WInv'
<1>1. /\ WTypes /\ CallOf(t) /\ pc[t] = "each" /\ kind[t] # "flush_work"
      /\ UNCHANGED <<current_work, lock, wk, pending, data, ins, at, kind, arg, cwq, again, owed>>
  BY DEF WInv, WCallInv, CallOf, W!WaitOnCpu, W!FlushCpu, W!wvars
<1>2. PICK c \in WCpus : cpu[t] = c
  BY <1>1 DEF WTypes
<1>3. worklist[c] \in Seq(Works \cup Tasks) /\ lock' \in [WCpus -> Works \cup Tasks \cup {None}]
  BY <1>1 DEF WTypes
<1>4. CASE W!WaitOnCpu(t)
  <2>1. kind[t] # "flush" /\ kind[t] # "none"
    BY <1>1, <1>4 DEF W!WaitOnCpu, CallOf
  <2>2. CASE W!Goto(t, W!NextRound(t)) /\ UNCHANGED <<worklist, sleepy, cpu>>
    <3> DEFINE l == W!NextRound(t)
    <3>1. l \in {"clear", "bit", "timer"} /\ pc' = [pc EXCEPT ![t] = l]
      BY <2>1, <2>2 DEF W!NextRound, W!Goto
    <3> HIDE DEF l
    <3>2. WTypes'
      BY <1>1, <2>2, <3>1 DEF WTypes, W!TaskPc
    <3>3. pc'[t] = l /\ \A u \in Tasks : u # t => pc'[u] = pc[u]
      BY <1>1, <3>1 DEF WTypes
    <3> QED
      BY <1>1, <2>1, <2>2, <3>1, <3>2, <3>3, OtherMove
  <2>3. CASE W!AddAt(c, <<t>> \o worklist[c]) /\ W!Goto(t, W!Waits) /\ UNCHANGED cpu
    <3> DEFINE new == <<t>> \o worklist[c]
    <3>1. new \in Seq(Works \cup Tasks) /\ Grows(worklist[c], new, t)
      BY <1>3, GrowHead
    <3>2. W!AddAt(c, new)
      BY <2>3
    <3> HIDE DEF new
    <3> QED
      BY <1>1, <1>3, <2>1, <2>3, <3>1, <3>2, BarrierMove
  <2>4. CASE W!NextCpu(t) /\ UNCHANGED <<worklist, sleepy>>
    BY <1>1, <2>1, <2>4, NextCpuStep DEF W!cvars, W!wvars
  <2> QED
    BY <1>2, <1>4, <2>2, <2>3, <2>4 DEF W!WaitOnCpu
<1>5. CASE W!FlushCpu(t)
  <2>1. kind[t] = "flush" /\ FlushOf(t) /\ OwedOf(t)
    BY <1>5 DEF W!FlushCpu, WInv, FlushInv, OwedInv
  <2>2. CASE W!Busy(c)
    <3> DEFINE new == list_add_tail(worklist[c], t)
    <3>1. W!AddAt(c, new) /\ W!Goto(t, W!Waits) /\ UNCHANGED cpu
      BY <1>2, <1>5, <2>2, WList DEF W!FlushCpu
    <3>2. /\ new \in Seq(Works \cup Tasks) /\ Grows(worklist[c], new, t)
          /\ \A y \in Elems(worklist[c]) : Before(new, y, t)
      BY <1>3, GrowTail
    <3> HIDE DEF new
    <3>3. \A w \in Works : <<c, w, "queued">> \in owed[t] => Before(new, w, t)
      BY <2>1, <3>2 DEF OwedOf
    <3> QED
      BY <1>1, <1>2, <1>3, <3>1, <3>2, <3>3, BarrierMove
  <2>3. CASE ~W!Busy(c)
    <3>1. W!NextCpu(t) /\ UNCHANGED <<worklist, sleepy>>
      BY <1>2, <1>5, <2>3 DEF W!FlushCpu
    <3>2. worklist[c] = <<>> /\ current_work[c] = None
      BY <2>3 DEF W!Busy, W!list_empty
    <3>3. ~Owes(t, c)
      <4>1. Elems(worklist[c]) = {} /\ \A w \in Works : ~Active(c, w)
        BY WHyp, <3>2 DEF Active, Elems
      <4> QED
        BY <2>1, <4>1 DEF Owes, OwedOf
    <3>4. \A d \in WCpus : Owes(t, d) => d > cpu[t]
      BY <1>1, <1>2, <2>1, <3>3 DEF FlushOf, WCpus
    <3> QED
      BY <1>1, <3>1, <3>4, NextCpuStep DEF W!cvars, W!wvars
  <2> QED
    BY <2>2, <2>3
<1> QED
  BY <1>4, <1>5

\* try_to_grab_pending() ends: the work leaves the list, and nobody owes it any more.
LEMMA GrabEndStep ==
  ASSUME W!WqAssumption, WInv, NEW t \in Tasks, W!Grab(t)
  PROVE  WInv'
<1>1. /\ WTypes /\ CallOf(t) /\ pc[t] = "same" /\ kind[t] # "flush_work"
      /\ UNCHANGED <<current_work, wk, sleepy, pending, data, ins, at, kind, arg>>
      /\ W!Grabbed(t, ~W!SameCwq(t)) /\ lock' = [lock EXCEPT ![cwq[t]] = None]
  BY DEF WInv, WCallInv, W!Grab, W!Unlock, W!wvars
<1>2. kind[t] \in {"cancel", "cancel_timer"} /\ arg[t] \in Works /\ cwq[t] \in WCpus
  BY WHyp, <1>1 DEF CallOf, WTypes, WCpus
<1>3. /\ pc' \in [Tasks -> W!TaskPc] /\ cpu' \in [Tasks -> WCpus] /\ again' \in [Tasks -> BOOLEAN]
      /\ cwq' \in [Tasks -> 0..N] /\ pc'[t] = "each" /\ cpu'[t] = 1
      /\ \A u \in Tasks : u # t => pc'[u] = pc[u] /\ cpu'[u] = cpu[u] /\ cwq'[u] = cwq[u]
  BY <1>1, GrabbedTypes
<1>4. lock' \in [WCpus -> Works \cup Tasks \cup {None}]
  BY <1>1 DEF WTypes
<1>5. CASE UNCHANGED <<worklist, owed>>
  <2>1. WTypes'
    BY <1>1, <1>3, <1>4, <1>5 DEF WTypes
  <2> QED
    BY <1>1, <1>2, <1>3, <1>5, <2>1, OtherMove
<1>6. CASE W!SameCwq(t)
  <2>1. PICK c \in WCpus, w \in Works : cwq[t] = c /\ arg[t] = w
    BY <1>2
  <2>2. /\ worklist' = [worklist EXCEPT ![c] = W!Without(worklist[c], w)]
        /\ owed' = [u \in Tasks |-> owed[u] \ {<<c, w, "queued">>}]
    BY <1>6, <2>1 DEF W!Grab
  <2>3. worklist[c] \in Seq(Works \cup Tasks) /\ worklist \in [WCpus -> Seq(Works \cup Tasks)]
    BY <1>1 DEF WTypes
  <2>4. CASE w \notin Elems(worklist[c])
    <3>1. UNCHANGED worklist
      BY <2>2, <2>3, <2>4, WList DEF W!Without
    <3>2. UNCHANGED owed
      <4>1. \A u \in Tasks : <<c, w, "queued">> \notin owed[u]
        BY <2>4 DEF WInv, OwedInv, OwedOf
      <4>2. owed = [u \in Tasks |-> owed[u]]
        BY <1>1 DEF WTypes
      <4>3. \A u \in Tasks : owed[u] \ {<<c, w, "queued">>} = owed[u]
        BY <4>1
      <4> QED
        BY <2>2, <4>2, <4>3
    <3> QED
      BY <1>5, <3>1, <3>2
  <2>5. CASE w \in Elems(worklist[c])
    <3> DEFINE new == list_del(worklist[c], w)
    <3>1. worklist' = [worklist EXCEPT ![c] = new]
      BY <2>2, <2>5, WList DEF W!Without
    <3>2. new \in Seq(Works \cup Tasks) /\ Shrinks(worklist[c], new, w)
      BY <2>3, <2>5, ShrinkDel
    <3> HIDE DEF new
    <3>3. WTypes'
      <4>1. owed' \in [Tasks -> SUBSET (WCpus \X Works \X {"queued", "running"})]
        BY <1>1, <2>2 DEF WTypes
      <4> QED
        BY <1>1, <1>3, <1>4, <3>1, <3>2, <4>1 DEF WTypes
    <3>4. worklist'[c] = new /\ \A d \in WCpus : d # c => worklist'[d] = worklist[d]
      BY <2>3, <3>1
    <3>5. \A d \in WCpus : Elems(worklist'[d]) \subseteq Elems(worklist[d])
      BY <3>2, <3>4 DEF Shrinks
    <3>6. \A d \in WCpus : \A y : y \in Elems(worklist[d]) => y \in Elems(worklist'[d]) \/ (d = c /\ y = w)
      BY <3>2, <3>4 DEF Shrinks
    <3>7. \A d \in WCpus : \A y : Once(worklist[d], y) => Once(worklist'[d], y)
      BY <3>2, <3>4 DEF Shrinks
    <3>8. \A d \in WCpus : \A y, z : Before(worklist[d], y, z) /\ z # w /\ ~(d = c /\ y = w) => Before(worklist'[d], y, z)
      BY <3>2, <3>4 DEF Shrinks
    <3>9. \A d, y : Active(d, y)' <=> Active(d, y)
      BY <1>1 DEF Active
    <3>10. \A d \in WCpus : t \notin Elems(worklist[d]) /\ ~Active(d, t)
      BY <1>1 DEF WInv, BarrierInv, BarrierOf
    <3>11. WCallInv'
      BY <1>1, <1>2, <1>3 DEF WInv, WCallInv, CallOf
    <3>12. BarrierInv'
      <4> SUFFICES ASSUME NEW u \in Tasks PROVE BarrierOf(u)'
        BY DEF BarrierInv
      <4>1. BarrierOf(u)
        BY DEF WInv, BarrierInv
      <4>2. CASE u = t
        BY <3>5, <3>7, <3>9, <3>10, <4>1, <4>2 DEF BarrierOf
      <4>3. CASE u # t
        BY <1>3, <3>5, <3>7, <3>9, <4>1, <4>3 DEF BarrierOf
      <4> QED
        BY <4>2, <4>3
    <3>13. ASSUME NEW u \in Tasks, NEW d \in WCpus, NEW v \in Works
           PROVE  /\ <<d, v, "queued">> \in owed'[u] <=> <<d, v, "queued">> \in owed[u] /\ ~(d = c /\ v = w)
                  /\ <<d, v, "running">> \in owed'[u] <=> <<d, v, "running">> \in owed[u]
      BY <2>2
    <3>14. OwedInv'
      <4> SUFFICES ASSUME NEW u \in Tasks, NEW d \in WCpus, NEW v \in Works
                   PROVE  /\ <<d, v, "queued">> \in owed'[u] => v \in Elems(worklist'[d])
                          /\ <<d, v, "running">> \in owed'[u] => Active(d, v)'
        BY DEF OwedInv, OwedOf
      <4>1. /\ <<d, v, "queued">> \in owed[u] => v \in Elems(worklist[d])
            /\ <<d, v, "running">> \in owed[u] => Active(d, v)
        BY DEF WInv, OwedInv, OwedOf
      <4> QED
        BY <3>6, <3>9, <3>13, <4>1
    <3>15. FlushInv'
      <4> SUFFICES ASSUME NEW u \in Tasks, kind[u] = "flush" PROVE FlushOf(u)' /\ PlaceOf(u)'
        BY <1>1 DEF FlushInv
      <4>1. FlushOf(u) /\ PlaceOf(u) /\ u # t /\ u # w
        BY WHyp, <1>2 DEF WInv, FlushInv
      <4>2. \A d \in WCpus : Owes(u, d)' => Owes(u, d)
        BY <3>13 DEF Owes
      <4>3. FlushOf(u)'
        BY <1>3, <4>1, <4>2 DEF FlushOf
      <4>4. PlaceOf(u)'
        BY <1>3, <3>5, <3>8, <3>9, <3>13, <4>1, <4>2 DEF PlaceOf
      <4> QED
        BY <4>3, <4>4
    <3>16. WorkerInv'
      BY <1>1 DEF WInv, WorkerInv
    <3> QED
      BY <3>3, <3>11, <3>12, <3>14, <3>15, <3>16 DEF WInv
  <2> QED
    BY <2>4, <2>5
<1> QED
  BY <1>5, <1>6 DEF W!Grab

LEMMA NextWInv == ASSUME W!WqAssumption, WInv, [W!Next]_(W!vars) PROVE WInv'
<1>1. ASSUME NEW c \in WCpus, W!Worker(c) PROVE WInv'
  BY <1>1, WorkerMoveStep, WTakeStep, RunEndsStep DEF W!Worker
<1>2. ASSUME NEW w \in Works, \/ W!Insert(w) \/ W!QueueAgain(w)
                              \/ \E c \in WCpus : W!Queue(w, c) \/ W!QueueDelayed(w, c) \/ W!TimerFires(w, c)
      PROVE  WInv'
  BY <1>2, QueueStep, InsertAddStep DEF W!Insert
<1>3. ASSUME NEW t \in Tasks, W!Step(t) PROVE WInv'
  <2>1. CASE W!DelTimer(t) \/ W!TestBit(t) \/ W!ReadData(t) \/ W!LockListed(t) \/ W!GrabFails(t)
    BY <2>1, GrabStep
  <2>2. CASE W!Grab(t)
    BY <2>2, GrabEndStep
  <2>3. CASE W!FlushQueued(t) \/ W!FlushRunning(t)
    BY <2>3, FlushWorkStep
  <2>4. CASE W!WaitOnCpu(t) \/ W!FlushCpu(t)
    BY <2>4, EachStep
  <2>5. CASE W!Woken(t) \/ W!CancelClear(t)
    BY <2>5, WokenStep
  <2>6. CASE W!Return(t)
    BY <2>6, ReturnStep
  <2> QED
    BY <1>3, <2>1, <2>2, <2>3, <2>4, <2>5, <2>6 DEF W!Step
<1>4. ASSUME NEW t \in Tasks,
             \/ W!FlushWorkqueue(t) \/ \E w \in Works : W!FlushWork(t, w) \/ W!Cancel(t, w, "cancel")
             \/ \E w \in Delayed : W!Cancel(t, w, "cancel_timer")
      PROVE  WInv'
  BY <1>4, BeginStep
<1>5. CASE UNCHANGED W!vars
  <2>1. UNCHANGED <<worklist, current_work, lock, wk, sleepy, pending, data, ins, at,
                    pc, kind, arg, cwq, cpu, again, owed>>
    BY <1>5 DEF W!vars, W!cvars, W!wvars, W!tvars
  <2>2. WTypes' /\ WorkerInv'
    BY <2>1 DEF WInv, WTypes, WorkerInv
  <2>3. \A c, x : Active(c, x)' <=> Active(c, x)
    BY <2>1 DEF Active
  <2> QED
    BY <2>1, <2>2, <2>3, QuietMove
<1> QED
  BY WHyp, <1>1, <1>2, <1>3, <1>4, <1>5 DEF W!Next

LEMMA WorkqueueInvariance == ASSUME W!WqAssumption PROVE W!Spec => []WInv
<1>1. W!Init => WInv
  BY InitWInv
<1>2. WInv /\ [W!Next]_(W!vars) => WInv'
  BY NextWInv
<1> QED
  BY <1>1, <1>2, PTL DEF W!Spec

\* A worker touches a wq_barrier only while the task on whose stack it lives waits
\* for it: it is linked once, in one list, until its function has called
\* complete(); for any number of works, tasks and CPUs.
THEOREM BarriersAreAlive == W!Spec => []BarrierIsAlive
<1> USE ThreadsAssumption
<1>1. WInv => BarrierIsAlive
  BY WHyp, WList DEF WInv, BarrierInv, BarrierOf, Active, BarrierIsAlive, W!BarrierIsAlive
<1>2. W!Spec => []WInv
  BY WorkqueueInvariance
<1> QED
  BY <1>1, <1>2, PTL

\* flush_workqueue() returns when every work that was queued or running on entry,
\* on any CPU, has run or was cancelled: on each CPU all of them are in front of the
\* barrier until the worker comes to it.
THEOREM FlushWaitsForAll == W!Spec => []FlushHandlesAll
<1> USE ThreadsAssumption
<1>1. WInv => FlushHandlesAll
  <2> SUFFICES ASSUME WInv, NEW t \in Tasks, pc[t] = "return", kind[t] = "flush",
                      NEW o \in owed[t]
               PROVE  FALSE
    BY DEF FlushHandlesAll, W!FlushHandlesAll
  <2>1. o \in WCpus \X Works \X {"queued", "running"}
    BY DEF WInv, WTypes
  <2>2. PICK c \in WCpus, w \in Works, s \in {"queued", "running"} : o = <<c, w, s>>
    BY <2>1
  <2>3. Owes(t, c)
    BY <2>2 DEF Owes
  <2> QED
    BY <2>3 DEF WInv, FlushInv, FlushOf
<1>2. W!Spec => []WInv
  BY WorkqueueInvariance
<1> QED
  BY <1>1, <1>2, PTL

-----------------------------------------------------------------------------
(* Cancelling, which is right without delayed works or with one CPU.       *)

\* cwq->lock is held across a step in two places.
WLockInv ==
  /\ \A t \in Tasks : pc[t] = "same" => lock[cwq[t]] = t
  /\ \A w \in Works : ins[w] = "add" => lock[at[w]] = w /\ data[w] = at[w]

\* The data of a work names the list it is on, and is known once it was queued.
DataInv ==
  \A c \in WCpus, w \in Works :
    /\ w \in Elems(worklist[c]) => data[w] = c /\ Once(worklist[c], w)
    /\ current_work[c] = w => data[w] # 0

\* With the lock of the list that a work's data names, the work is there.
GrabOf(t) ==
  /\ pc[t] \in {"lock", "same"} => data[arg[t]] # 0
  /\ pc[t] = "same" /\ data[arg[t]] = cwq[t] => arg[t] \in Elems(worklist[cwq[t]])
GrabInv == \A t \in Tasks : GrabOf(t)

Clearing(c, w) == current_work[c] = w /\ wk[c] = "clear"

\* The bit has one owner: whoever brings the work onto a list, the list, the worker
\* that has taken it off, or a canceller.
OwnOf(w) ==
  /\ ins[w] # "none" => pending[w] /\ \A c \in WCpus : w \notin Elems(worklist[c]) /\ ~Clearing(c, w)
  /\ \A c \in WCpus : w \in Elems(worklist[c]) => pending[w] /\ \A d \in WCpus : ~Clearing(d, w)
  /\ \A c \in WCpus : Clearing(c, w) => pending[w] /\ \A d \in WCpus : Clearing(d, w) => c = d
  /\ \A t \in Tasks : W!Owns(t) /\ arg[t] = w =>
       /\ pending[w] /\ ins[w] = "none"
       /\ \A c \in WCpus : w \notin Elems(worklist[c]) /\ ~Clearing(c, w)
       /\ \A u \in Tasks : W!Owns(u) /\ arg[u] = w => u = t
OwnInv == \A w \in Works : OwnOf(w)

\* A canceller that has the bit has seen the work run on no CPU behind it.
SeenOf(t) ==
  /\ pc[t] = "clear" => W!Owns(t)
  /\ W!Owns(t) =>
       \A c \in WCpus :
         /\ c < cpu[t] \/ pc[t] = "clear" \/ (pc[t] = "woken" /\ c = cpu[t])
              => ~(current_work[c] = arg[t] /\ wk[c] \in {"clear", "run"})
         /\ t \in Elems(worklist[c]) \/ Active(c, t) => c = cpu[t]
SeenInv == \A t \in Tasks : SeenOf(t)

CInv == WLockInv /\ DataInv /\ GrabInv /\ OwnInv /\ SeenInv

LEMMA InitCInv == ASSUME W!WqAssumption, W!Init PROVE CInv
<1>1. /\ worklist = [c \in WCpus |-> <<>>] /\ current_work = [c \in WCpus |-> None]
      /\ wk = [c \in WCpus |-> "prepare"] /\ pc = [t \in Tasks |-> "idle"]
      /\ kind = [t \in Tasks |-> "none"] /\ ins = [w \in Works |-> "none"]
  BY WHyp DEF W!Init
<1>2. \A c \in WCpus : Elems(worklist[c]) = {}
  BY <1>1 DEF Elems
<1>3. \A t \in Tasks : ~W!Owns(t) /\ pc[t] = "idle"
  BY <1>1 DEF W!Owns
<1>4. \A c \in WCpus, w \in Works : current_work[c] # w /\ ~Clearing(c, w)
  BY WHyp, <1>1 DEF Clearing
<1>5. WLockInv /\ DataInv /\ GrabInv
  BY <1>1, <1>2, <1>3, <1>4 DEF WLockInv, DataInv, GrabInv, GrabOf
<1>6. OwnInv /\ SeenInv
  BY <1>1, <1>2, <1>3, <1>4 DEF OwnInv, OwnOf, SeenInv, SeenOf
<1> QED
  BY <1>5, <1>6 DEF CInv

\* Only t moves, and only its barrier changes in the lists.
OthersStay(t) ==
  \A u \in Tasks : u # t => /\ pc'[u] = pc[u] /\ kind'[u] = kind[u] /\ arg'[u] = arg[u]
                            /\ cwq'[u] = cwq[u] /\ cpu'[u] = cpu[u] /\ again'[u] = again[u]
ListsStay(t) ==
  \A c \in WCpus, x \in Works \cup Tasks : x # t =>
    /\ x \in Elems(worklist'[c]) <=> x \in Elems(worklist[c])
    /\ Once(worklist[c], x) => Once(worklist'[c], x)

\* A task moves, perhaps linking its barrier in; it does not get a bit.
LEMMA CTaskMove ==
  ASSUME CInv, W!WqAssumption, NEW t \in Tasks, WLockInv',
         UNCHANGED <<current_work, wk, data, ins, pending>>, OthersStay(t), ListsStay(t),
         \A u \in Tasks : /\ arg[u] \in Works \cup {None}
                          /\ pc[u] \in {"lock", "same"} => cwq[u] \in WCpus /\ arg[u] \in Works,
         W!Owns(t)' => W!Owns(t) /\ arg'[t] = arg[t],
         GrabOf(t)', SeenOf(t)'
  PROVE  CInv'
<1> USE DEF OthersStay, ListsStay
<1>1. \A w \in Works : w # t
  BY WHyp
<1>2. \A u \in Tasks : u # t => (W!Owns(u)' <=> W!Owns(u))
  BY DEF W!Owns
<1>3. \A c, x : (Active(c, x)' <=> Active(c, x)) /\ (Clearing(c, x)' <=> Clearing(c, x))
  BY DEF Active, Clearing
<1>4. DataInv'
  BY <1>1 DEF CInv, DataInv
<1>5. GrabInv'
  <2> SUFFICES ASSUME NEW u \in Tasks, u # t PROVE GrabOf(u)'
    BY DEF GrabInv
  <2>1. GrabOf(u)
    BY DEF CInv, GrabInv
  <2> QED
    BY <1>1, <2>1 DEF GrabOf
<1>6. OwnInv'
  <2> SUFFICES ASSUME NEW w \in Works PROVE OwnOf(w)'
    BY DEF OwnInv
  <2>1. OwnOf(w) /\ \A c \in WCpus : w \in Elems(worklist'[c]) <=> w \in Elems(worklist[c])
    BY <1>1 DEF CInv, OwnInv
  <2>2. \A u \in Tasks : W!Owns(u)' /\ arg'[u] = w => W!Owns(u) /\ arg[u] = w
    BY <1>2
  <2> QED
    BY <1>3, <2>1, <2>2 DEF OwnOf
<1>7. SeenInv'
  <2> SUFFICES ASSUME NEW u \in Tasks, u # t PROVE SeenOf(u)'
    BY DEF SeenInv
  <2>1. SeenOf(u)
    BY DEF CInv, SeenInv
  <2> QED
    BY <1>2, <1>3, <2>1 DEF SeenOf
<1> QED
  BY <1>4, <1>5, <1>6, <1>7 DEF CInv

\* A canceller gets the bit of w.
LEMMA CGain ==
  ASSUME CInv, W!WqAssumption, NEW t \in Tasks, NEW w \in Works, WLockInv',
         UNCHANGED <<current_work, wk, data, kind, arg>>,
         arg[t] = w, kind[t] \in {"cancel", "cancel_timer"},
         pc'[t] = "each", cpu'[t] = 1, ~again'[t],
         \A u \in Tasks : u # t => /\ pc'[u] = pc[u] /\ cpu'[u] = cpu[u]
                                   /\ again'[u] = again[u] /\ cwq'[u] = cwq[u],
         pending'[w], ins'[w] = "none", \A c \in WCpus : w \notin Elems(worklist'[c]) /\ ~Clearing(c, w),
         \A v \in Works : v # w => pending'[v] = pending[v] /\ ins'[v] = ins[v],
         \A c \in WCpus, x \in Works \cup Tasks : x # w =>
           /\ x \in Elems(worklist'[c]) <=> x \in Elems(worklist[c])
           /\ Once(worklist[c], x) => Once(worklist'[c], x),
         \A u \in Tasks : u # t /\ W!Owns(u) => arg[u] # w,
         \A c \in WCpus : t \notin Elems(worklist[c]) /\ ~Active(c, t),
         \A u \in Tasks : u # t /\ pc[u] = "same" => worklist'[cwq[u]] = worklist[cwq[u]]
  PROVE  CInv'
<1>1. \A u \in Tasks : u # w
  BY WHyp
<1>2. (\A u \in Tasks : u # t => (W!Owns(u)' <=> W!Owns(u))) /\ W!Owns(t)'
  BY DEF W!Owns
<1>3. \A c, x : (Active(c, x)' <=> Active(c, x)) /\ (Clearing(c, x)' <=> Clearing(c, x))
  BY DEF Active, Clearing
<1>4. DataInv'
  BY DEF CInv, DataInv
<1>5. GrabInv'
  <2> SUFFICES ASSUME NEW u \in Tasks PROVE GrabOf(u)'
    BY DEF GrabInv
  <2>1. GrabOf(u)
    BY DEF CInv, GrabInv
  <2>2. CASE u = t
    BY <2>2 DEF GrabOf
  <2>3. CASE u # t
    BY <2>1, <2>3 DEF GrabOf
  <2> QED
    BY <2>2, <2>3
<1>6. OwnInv'
  <2> SUFFICES ASSUME NEW v \in Works PROVE OwnOf(v)'
    BY DEF OwnInv
  <2>1. CASE v = w
    BY <1>2, <1>3, <2>1 DEF OwnOf
  <2>2. CASE v # w
    <3>1. OwnOf(v) /\ \A c \in WCpus : v \in Elems(worklist'[c]) <=> v \in Elems(worklist[c])
      BY <2>2 DEF CInv, OwnInv
    <3>2. \A u \in Tasks : W!Owns(u)' /\ arg'[u] = v => W!Owns(u) /\ arg[u] = v
      BY <1>2, <2>2
    <3> QED
      BY <1>3, <2>2, <3>1, <3>2 DEF OwnOf
  <2> QED
    BY <2>1, <2>2
<1>7. SeenInv'
  <2> SUFFICES ASSUME NEW u \in Tasks PROVE SeenOf(u)'
    BY DEF SeenInv
  <2>1. SeenOf(u)
    BY DEF CInv, SeenInv
  <2>2. CASE u = t
    BY <1>1, <1>2, <1>3, <2>2 DEF SeenOf, WCpus
  <2>3. CASE u # t
    BY <1>1, <1>2, <1>3, <2>1, <2>3 DEF SeenOf
  <2> QED
    BY <2>2, <2>3
<1> QED
  BY <1>4, <1>5, <1>6, <1>7 DEF CInv

LEMMA CStutter ==
  ASSUME CInv, UNCHANGED <<worklist, current_work, lock, wk, pending, data, ins, at,
                           pc, kind, arg, cwq, cpu, again>>
  PROVE  CInv'
<1>1. \A u : W!Owns(u)' <=> W!Owns(u)
  BY DEF W!Owns
<1>2. \A c, x : (Active(c, x)' <=> Active(c, x)) /\ (Clearing(c, x)' <=> Clearing(c, x))
  BY DEF Active, Clearing
<1>3. WLockInv' /\ DataInv' /\ GrabInv'
  BY DEF CInv, WLockInv, DataInv, GrabInv, GrabOf
<1>4. OwnInv'
  BY <1>1, <1>2 DEF CInv, OwnInv, OwnOf
<1>5. SeenInv'
  BY <1>1, <1>2 DEF CInv, SeenInv, SeenOf
<1> QED
  BY <1>3, <1>4, <1>5 DEF CInv

\* Whoever brings w onto a list has its bit, or takes it now.
LEMMA CQueueMove ==
  ASSUME CInv, NEW w \in Works, WLockInv', DataInv', GrabInv',
         UNCHANGED <<worklist, current_work, wk, pc, kind, arg, cwq, cpu, again>>,
         \A v \in Works : v # w => pending'[v] = pending[v] /\ ins'[v] = ins[v],
         pending'[w], ins[w] # "none" \/ ~pending[w]
  PROVE  CInv'
<1>1. \A u : W!Owns(u)' <=> W!Owns(u)
  BY DEF W!Owns
<1>2. \A c, x : (Active(c, x)' <=> Active(c, x)) /\ (Clearing(c, x)' <=> Clearing(c, x))
  BY DEF Active, Clearing
<1>3. OwnInv'
  <2> SUFFICES ASSUME NEW v \in Works PROVE OwnOf(v)'
    BY DEF OwnInv
  <2>1. OwnOf(v)
    BY DEF CInv, OwnInv
  <2>2. CASE v = w
    BY <1>1, <1>2, <2>1, <2>2 DEF OwnOf
  <2>3. CASE v # w
    BY <1>1, <1>2, <2>1, <2>3 DEF OwnOf
  <2> QED
    BY <2>2, <2>3
<1>4. SeenInv'
  BY <1>1, <1>2 DEF CInv, SeenInv, SeenOf
<1> QED
  BY <1>3, <1>4 DEF CInv

\* What is fixed about a task that looks for a list.
LEMMA LooksAt ==
  ASSUME W!WqAssumption, WInv
  PROVE  \A u \in Tasks : /\ arg[u] \in Works \cup {None}
                          /\ pc[u] \in {"lock", "same"} => cwq[u] \in WCpus /\ arg[u] \in Works
<1> SUFFICES ASSUME NEW u \in Tasks
             PROVE  /\ arg[u] \in Works \cup {None}
                    /\ pc[u] \in {"lock", "same"} => cwq[u] \in WCpus /\ arg[u] \in Works
  OBVIOUS
<1>1. WTypes /\ CallOf(u)
  BY DEF WInv, WCallInv
<1>2. arg[u] \in Works \cup {None} /\ cwq[u] \in 0..N
      /\ kind[u] \in {"none", "flush", "flush_work", "cancel", "cancel_timer"}
  BY <1>1 DEF WTypes
<1> QED
  BY WHyp, <1>1, <1>2 DEF CallOf, WCpus

LEMMA CQueueStep ==
  ASSUME W!WqAssumption, Delayed = {} \/ N = 1, WInv, CInv, NEW w \in Works,
         \/ W!QueueAgain(w)
         \/ \E c \in WCpus : W!Queue(w, c) \/ W!QueueDelayed(w, c) \/ W!TimerFires(w, c)
  PROVE  CInv'
<1>1. WTypes /\ OwnOf(w)
  BY DEF WInv, CInv, OwnInv
<1>2. UNCHANGED <<worklist, current_work, lock, wk, pc, kind, arg, cwq, cpu, again>>
  BY DEF W!QueueAgain, W!Queue, W!QueueDelayed, W!TimerFires, W!vars, W!cvars, W!wvars, W!tvars
<1>3. CASE W!QueueAgain(w)
  <2>1. UNCHANGED <<worklist, current_work, lock, wk, pending, data, ins, at, pc, kind, arg, cwq, cpu, again>>
    BY <1>3 DEF W!QueueAgain, W!vars, W!cvars, W!wvars, W!tvars
  <2> QED
    BY <2>1, CStutter
<1>4. ASSUME NEW c \in WCpus, W!Queue(w, c) PROVE CInv'
  <2>1. /\ UNCHANGED data /\ ~pending[w] /\ pending'[w] /\ ins'[w] = "lock"
        /\ \A v \in Works : v # w => pending'[v] = pending[v] /\ ins'[v] = ins[v] /\ at'[v] = at[v]
    BY <1>1, <1>4 DEF W!Queue, WTypes
  <2>2. WLockInv'
    BY <1>2, <2>1 DEF CInv, WLockInv
  <2>3. DataInv' /\ GrabInv'
    BY <1>2, <2>1 DEF CInv, DataInv, GrabInv, GrabOf
  <2> QED
    BY <1>2, <2>1, <2>2, <2>3, CQueueMove
<1>5. ASSUME NEW c \in WCpus, W!TimerFires(w, c) PROVE CInv'
  <2>1. /\ UNCHANGED <<data, pending>> /\ ins[w] = "timer" /\ ins'[w] = "lock"
        /\ \A v \in Works : v # w => ins'[v] = ins[v] /\ at'[v] = at[v]
    BY <1>1, <1>5 DEF W!TimerFires, WTypes
  <2>2. WLockInv'
    BY <1>2, <2>1 DEF CInv, WLockInv
  <2>3. DataInv' /\ GrabInv'
    BY <1>2, <2>1 DEF CInv, DataInv, GrabInv, GrabOf
  <2>4. pending[w]
    BY <1>1, <2>1 DEF OwnOf
  <2> QED
    BY <1>2, <2>1, <2>2, <2>3, <2>4, CQueueMove
<1>6. ASSUME NEW c \in WCpus, W!QueueDelayed(w, c) PROVE CInv'
  <2>1. /\ w \in Delayed /\ UNCHANGED at /\ ~pending[w] /\ pending'[w] /\ ins'[w] = "timer" /\ data'[w] = c
        /\ \A v \in Works : v # w => pending'[v] = pending[v] /\ ins'[v] = ins[v] /\ data'[v] = data[v]
    BY <1>1, <1>6 DEF W!QueueDelayed, WTypes
  <2>2. c # 0 /\ \A d \in WCpus : w \notin Elems(worklist[d])
    BY <1>1, <2>1 DEF OwnOf, WCpus
  <2>3. WLockInv'
    BY <1>2, <2>1 DEF CInv, WLockInv
  <2>4. DataInv'
    BY <1>2, <2>1, <2>2 DEF CInv, DataInv
  <2>5. GrabInv'
    <3> SUFFICES ASSUME NEW u \in Tasks PROVE GrabOf(u)'
      BY DEF GrabInv
    <3>1. GrabOf(u) /\ (pc[u] \in {"lock", "same"} => cwq[u] \in WCpus /\ arg[u] \in Works)
      BY LooksAt DEF CInv, GrabInv
    <3>2. CASE arg[u] = w
      <4>1. data[w] \in {0, 1} /\ WCpus = {1}
        BY <1>1, <2>1 DEF WTypes, WCpus
      <4>2. pc[u] # "same"
        BY <2>2, <3>1, <3>2, <4>1 DEF GrabOf
      <4> QED
        BY <1>2, <2>1, <2>2, <3>2, <4>2 DEF GrabOf
    <3>3. CASE arg[u] # w
      BY <1>2, <2>1, <3>1, <3>3 DEF GrabOf
    <3> QED
      BY <3>2, <3>3
  <2> QED
    BY <1>2, <2>1, <2>3, <2>4, <2>5, CQueueMove
<1> QED
  BY <1>3, <1>4, <1>5, <1>6

LEMMA CInsertStep ==
  ASSUME W!WqAssumption, WInv, CInv, NEW w \in Works, W!Insert(w)
  PROVE  CInv'
<1>1. WTypes /\ OwnOf(w) /\ WLockInv
  BY DEF WInv, CInv, OwnInv
<1>2. PICK c \in WCpus : at[w] = c
  BY <1>1 DEF WTypes
<1>3. CASE W!InsertData(w)
  <2>1. /\ UNCHANGED <<worklist, current_work, wk, pending, at, pc, kind, arg, cwq, cpu, again>>
        /\ ins[w] = "lock" /\ lock[c] = None
    BY <1>2, <1>3 DEF W!InsertData, W!tvars
  <2>2. /\ lock'[c] = w /\ \A d \in WCpus : d # c => lock'[d] = lock[d]
        /\ data'[w] = c /\ \A v \in Works : v # w => data'[v] = data[v] /\ ins'[v] = ins[v]
        /\ ins'[w] = "add"
    BY <1>1, <1>2, <1>3 DEF W!InsertData, WTypes
  <2>3. c # 0 /\ pending[w] /\ \A d \in WCpus : w \notin Elems(worklist[d])
    BY <1>1, <2>1 DEF OwnOf, WCpus
  <2>4. \A u \in Tasks : pc[u] = "same" => cwq[u] \in WCpus /\ cwq[u] # c
    BY WHyp, <1>1, <2>1, LooksAt DEF WLockInv
  <2>5. \A v \in Works : v # w /\ ins[v] = "add" => at[v] \in WCpus /\ at[v] # c
    BY WHyp, <1>1, <2>1 DEF WLockInv, WTypes
  <2>6. WLockInv'
    BY <1>1, <1>2, <2>1, <2>2, <2>4, <2>5 DEF WLockInv
  <2>7. DataInv'
    BY <2>1, <2>2, <2>3 DEF CInv, DataInv
  <2>8. GrabInv'
    <3> SUFFICES ASSUME NEW u \in Tasks PROVE GrabOf(u)'
      BY DEF GrabInv
    <3>1. GrabOf(u) /\ (pc[u] \in {"lock", "same"} => cwq[u] \in WCpus /\ arg[u] \in Works)
      BY LooksAt DEF CInv, GrabInv
    <3>2. CASE arg[u] = w
      BY <2>1, <2>2, <2>3, <2>4, <3>2 DEF GrabOf
    <3>3. CASE arg[u] # w
      BY <2>1, <2>2, <3>1, <3>3 DEF GrabOf
    <3> QED
      BY <3>2, <3>3
  <2> QED
    BY <2>1, <2>2, <2>3, <2>6, <2>7, <2>8, CQueueMove
<1>4. CASE W!InsertAdd(w)
  <2> DEFINE new == list_add_tail(worklist[c], w)
  <2>1. /\ worklist' = [worklist EXCEPT ![c] = new] /\ ins[w] = "add"
        /\ UNCHANGED <<current_work, wk, pending, data, pc, kind, arg, cwq, cpu, again>>
    BY <1>2, <1>4, WList DEF W!InsertAdd, W!AddAt, W!tvars
  <2>2. worklist[c] \in Seq(Works \cup Tasks) /\ w \in Works \cup Tasks
    BY <1>1 DEF WTypes
  <2>3. Grows(worklist[c], new, w)
    BY <2>2, GrowTail
  <2> HIDE DEF new
  <2>4. /\ worklist'[c] = new /\ \A d \in WCpus : d # c => worklist'[d] = worklist[d]
        /\ lock'[c] = None /\ \A d \in WCpus : d # c => lock'[d] = lock[d]
        /\ ins'[w] = "none" /\ \A v \in Works : v # w => ins'[v] = ins[v] /\ at'[v] = at[v]
    BY <1>1, <1>2, <1>4, <2>1 DEF W!InsertAdd, WTypes
  <2>5. lock[c] = w /\ data[w] = c
    BY <1>1, <1>2, <2>1 DEF WLockInv
  <2>6. pending[w] /\ \A d \in WCpus : w \notin Elems(worklist[d]) /\ ~Clearing(d, w)
    BY <1>1, <2>1 DEF OwnOf
  <2>7. \A d \in WCpus : \A x : x \in Elems(worklist'[d]) <=> x \in Elems(worklist[d]) \/ (d = c /\ x = w)
    BY <2>3, <2>4 DEF Grows
  <2>8. \A d \in WCpus : \A x : Once(worklist[d], x) /\ (x # w \/ d # c) => Once(worklist'[d], x)
    BY <2>3, <2>4 DEF Grows
  <2>9. Once(worklist'[c], w)
    BY <2>3, <2>4, <2>6 DEF Grows
  <2>10. WLockInv'
    <3>1. \A u \in Tasks : pc[u] = "same" => cwq[u] \in WCpus /\ cwq[u] # c
      BY WHyp, <1>1, <2>5, LooksAt DEF WLockInv
    <3>2. \A v \in Works : v # w /\ ins[v] = "add" => at[v] \in WCpus /\ at[v] # c
      BY WHyp, <1>1, <2>5 DEF WLockInv, WTypes
    <3> QED
      BY <1>1, <2>1, <2>4, <3>1, <3>2 DEF WLockInv
  <2>11. DataInv'
    <3> SUFFICES ASSUME NEW d \in WCpus, NEW v \in Works
                 PROVE  /\ v \in Elems(worklist'[d]) => data[v] = d /\ Once(worklist'[d], v)
                        /\ current_work[d] = v => data[v] # 0
      BY <2>1 DEF DataInv
    <3>1. /\ v \in Elems(worklist[d]) => data[v] = d /\ Once(worklist[d], v)
          /\ current_work[d] = v => data[v] # 0
      BY DEF CInv, DataInv
    <3> QED
      BY <2>5, <2>6, <2>7, <2>8, <2>9, <3>1
  <2>12. GrabInv'
    <3> SUFFICES ASSUME NEW u \in Tasks PROVE GrabOf(u)'
      BY DEF GrabInv
    <3>1. GrabOf(u) /\ (pc[u] \in {"lock", "same"} => cwq[u] \in WCpus /\ arg[u] \in Works)
      BY LooksAt DEF CInv, GrabInv
    <3> QED
      BY <2>1, <2>7, <3>1 DEF GrabOf
  <2>13. \A u : W!Owns(u)' <=> W!Owns(u)
    BY <2>1 DEF W!Owns
  <2>14. \A d, x : (Active(d, x)' <=> Active(d, x)) /\ (Clearing(d, x)' <=> Clearing(d, x))
    BY <2>1 DEF Active, Clearing
  <2>15. OwnInv'
    <3> SUFFICES ASSUME NEW v \in Works PROVE OwnOf(v)'
      BY DEF OwnInv
    <3>1. OwnOf(v)
      BY DEF CInv, OwnInv
    <3>2. CASE v = w
      <4>1. \A u \in Tasks : W!Owns(u) => arg[u] # w
        BY <1>1, <2>1 DEF OwnOf
      <4> QED
        BY <2>1, <2>4, <2>6, <2>13, <2>14, <3>2, <4>1 DEF OwnOf
    <3>3. CASE v # w
      BY <2>1, <2>4, <2>7, <2>13, <2>14, <3>1, <3>3 DEF OwnOf
    <3> QED
      BY <3>2, <3>3
  <2>16. SeenInv'
    <3> SUFFICES ASSUME NEW u \in Tasks PROVE SeenOf(u)'
      BY DEF SeenInv
    <3>1. SeenOf(u) /\ u # w
      BY WHyp DEF CInv, SeenInv
    <3> QED
      BY <2>1, <2>7, <2>13, <2>14, <3>1 DEF SeenOf
  <2> QED
    BY <2>10, <2>11, <2>12, <2>15, <2>16 DEF CInv
<1> QED
  BY <1>3, <1>4 DEF W!Insert

\* The worker between the lists and the functions.
LEMMA CWorkerStep ==
  ASSUME W!WqAssumption, WInv, CInv, NEW c \in WCpus,
         W!Prepare(c) \/ W!Test(c) \/ W!Scheduled(c) \/ W!ClearPending(c) \/ W!RunEnds(c)
  PROVE  CInv'
<1>1. /\ UNCHANGED <<worklist, current_work, lock, data, ins, at, kind, arg, cwq, cpu, again>>
      /\ WTypes
  BY DEF WInv, W!Prepare, W!Test, W!Scheduled, W!ClearPending, W!RunEnds, W!wvars, W!tvars
<1>2. ASSUME UNCHANGED pc PROVE WLockInv' /\ DataInv' /\ GrabInv'
  BY <1>1, <1>2 DEF CInv, WLockInv, DataInv, GrabInv, GrabOf
<1>3. CASE W!Prepare(c) \/ W!Test(c) \/ W!Scheduled(c)
  <2>1. UNCHANGED <<pending, pc>>
    BY <1>3 DEF W!Prepare, W!Test, W!Scheduled, W!wvars, W!tvars
  <2>2. /\ \A d \in WCpus : d # c => wk'[d] = wk[d]
        /\ wk[c] \in {"prepare", "test", "schedule"} /\ wk'[c] \in {"test", "schedule", "ran"}
    BY <1>1, <1>3 DEF W!Prepare, W!Test, W!Scheduled, WTypes
  <2>3. \A d \in WCpus : \A x : (Active(d, x)' <=> Active(d, x)) /\ (Clearing(d, x)' <=> Clearing(d, x))
    BY <1>1, <2>2 DEF Active, Clearing
  <2>4. \A u : W!Owns(u)' <=> W!Owns(u)
    BY <1>1, <2>1 DEF W!Owns
  <2>5. OwnInv'
    BY <1>1, <2>1, <2>3, <2>4 DEF CInv, OwnInv, OwnOf
  <2>6. SeenInv'
    <3> SUFFICES ASSUME NEW u \in Tasks PROVE SeenOf(u)'
      BY DEF SeenInv
    <3>1. SeenOf(u)
      BY DEF CInv, SeenInv
    <3>2. \A d \in WCpus : wk'[d] \in {"clear", "run"} <=> wk[d] \in {"clear", "run"}
      BY <2>2
    <3> QED
      BY <1>1, <2>1, <2>3, <2>4, <3>1, <3>2 DEF SeenOf
  <2> QED
    BY <1>2, <2>1, <2>5, <2>6 DEF CInv
<1>4. CASE W!ClearPending(c)
  <2>1. /\ UNCHANGED pc /\ wk[c] = "clear" /\ wk'[c] = "run" /\ \A d \in WCpus : d # c => wk'[d] = wk[d]
        /\ \A v \in Works : pending'[v] <=> pending[v] /\ v # current_work[c]
    BY <1>1, <1>4 DEF W!ClearPending, WTypes, W!tvars
  <2>2. /\ \A d \in WCpus : \A x : Active(d, x)' <=> Active(d, x)
        /\ \A d \in WCpus : \A x : Clearing(d, x)' <=> Clearing(d, x) /\ d # c
        /\ Clearing(c, current_work[c])
    BY <1>1, <2>1 DEF Active, Clearing
  <2>3. \A u : W!Owns(u)' <=> W!Owns(u)
    BY <1>1, <2>1 DEF W!Owns
  <2>4. OwnInv'
    <3> SUFFICES ASSUME NEW v \in Works PROVE OwnOf(v)'
      BY DEF OwnInv
    <3>1. OwnOf(v)
      BY DEF CInv, OwnInv
    <3>2. CASE v = current_work[c]
      <4>1. Clearing(c, v)
        BY <2>2, <3>2
      <4> QED
        BY <1>1, <2>1, <2>2, <2>3, <3>1, <3>2, <4>1 DEF OwnOf
    <3>3. CASE v # current_work[c]
      BY <1>1, <2>1, <2>2, <2>3, <3>1, <3>3 DEF OwnOf
    <3> QED
      BY <3>2, <3>3
  <2>5. SeenInv'
    <3> SUFFICES ASSUME NEW u \in Tasks PROVE SeenOf(u)'
      BY DEF SeenInv
    <3>1. SeenOf(u)
      BY DEF CInv, SeenInv
    <3>2. \A d \in WCpus : wk'[d] \in {"clear", "run"} <=> wk[d] \in {"clear", "run"}
      BY <2>1
    <3> QED
      BY <1>1, <2>1, <2>2, <2>3, <3>1, <3>2 DEF SeenOf
  <2> QED
    BY <1>2, <2>1, <2>4, <2>5 DEF CInv
<1>5. CASE W!RunEnds(c)
  <2>1. /\ UNCHANGED pending /\ wk[c] = "run" /\ wk'[c] = "ran" /\ \A d \in WCpus : d # c => wk'[d] = wk[d]
        /\ \A t \in Tasks : pc'[t] = IF t = current_work[c] THEN "woken" ELSE pc[t]
    BY <1>1, <1>5 DEF W!RunEnds, WTypes, W!wvars
  <2>2. /\ \A d \in WCpus : \A x : Active(d, x)' <=> Active(d, x) /\ d # c
        /\ \A d \in WCpus : \A x : Clearing(d, x)' <=> Clearing(d, x)
        /\ Active(c, current_work[c])
    BY <1>1, <2>1 DEF Active, Clearing
  <2>3. \A t \in Tasks : t = current_work[c] => pc[t] = "barrier"
    BY <2>2 DEF WInv, BarrierInv, BarrierOf
  <2>4. \A u \in Tasks : W!Owns(u)' <=> W!Owns(u)
    BY <1>1, <2>1, <2>3 DEF W!Owns
  <2>5. WLockInv'
    BY <1>1, <2>1 DEF CInv, WLockInv
  <2>6. DataInv'
    BY <1>1 DEF CInv, DataInv
  <2>7. GrabInv'
    BY <1>1, <2>1 DEF CInv, GrabInv, GrabOf
  <2>8. OwnInv'
    BY <1>1, <2>1, <2>2, <2>4 DEF CInv, OwnInv, OwnOf
  <2>9. SeenInv'
    <3> SUFFICES ASSUME NEW u \in Tasks PROVE SeenOf(u)'
      BY DEF SeenInv
    <3>1. SeenOf(u)
      BY DEF CInv, SeenInv
    <3>2. \A d \in WCpus : wk'[d] \in {"clear", "run"} <=> d # c /\ wk[d] \in {"clear", "run"}
      BY <2>1
    <3>3. CASE u = current_work[c]
      <4>1. pc[u] = "barrier" /\ pc'[u] = "woken" /\ (W!Owns(u) => c = cpu[u])
        BY <2>1, <2>2, <2>3, <3>1, <3>3 DEF SeenOf
      <4> QED
        BY <1>1, <2>2, <2>4, <3>1, <3>2, <4>1 DEF SeenOf
    <3>4. CASE u # current_work[c]
      BY <1>1, <2>1, <2>2, <2>4, <3>1, <3>2, <3>4 DEF SeenOf
    <3> QED
      BY <3>3, <3>4
  <2> QED
    BY <2>5, <2>6, <2>7, <2>8, <2>9 DEF CInv
<1> QED
  BY <1>3, <1>4, <1>5

LEMMA CTakeStep ==
  ASSUME W!WqAssumption, WInv, CInv, NEW c \in WCpus, W!Take(c)
  PROVE  CInv'
<1>1. /\ UNCHANGED <<lock, pending, data, ins, at, pc, kind, arg, cwq, cpu, again>>
      /\ wk[c] = "ran" /\ lock[c] = None /\ WTypes
  BY DEF WInv, W!Take, W!wvars, W!tvars
<1>2. \A u : W!Owns(u)' <=> W!Owns(u)
  BY <1>1 DEF W!Owns
<1>3. WLockInv'
  BY <1>1 DEF CInv, WLockInv
<1>4. CASE W!list_empty(worklist[c])
  <2>1. /\ UNCHANGED worklist /\ wk' = [wk EXCEPT ![c] = "prepare"]
        /\ current_work' = [current_work EXCEPT ![c] = None]
    BY <1>4 DEF W!Take
  <2>2. /\ wk'[c] = "prepare" /\ \A d \in WCpus : d # c => wk'[d] = wk[d]
        /\ current_work'[c] = None /\ \A d \in WCpus : d # c => current_work'[d] = current_work[d]
    BY <1>1, <2>1 DEF WTypes
  <2>3. \A d \in WCpus : \A x : (Active(d, x)' <=> Active(d, x)) /\ (Clearing(d, x)' <=> Clearing(d, x))
    BY <1>1, <2>2 DEF Active, Clearing
  <2>4. DataInv'
    BY WHyp, <1>1, <2>1, <2>2 DEF CInv, DataInv
  <2>5. GrabInv'
    BY <1>1, <2>1 DEF CInv, GrabInv, GrabOf
  <2>6. OwnInv'
    BY <1>1, <1>2, <2>1, <2>3 DEF CInv, OwnInv, OwnOf
  <2>7. SeenInv'
    <3> SUFFICES ASSUME NEW u \in Tasks PROVE SeenOf(u)'
      BY DEF SeenInv
    <3>1. SeenOf(u)
      BY DEF CInv, SeenInv
    <3>2. \A d \in WCpus : d = c => wk'[d] \notin {"clear", "run"}
      BY <2>2
    <3> QED
      BY <1>1, <1>2, <2>1, <2>2, <2>3, <3>1, <3>2 DEF SeenOf
  <2> QED
    BY <1>3, <2>4, <2>5, <2>6, <2>7 DEF CInv
<1>5. CASE ~W!list_empty(worklist[c])
  <2> DEFINE x == Head(worklist[c])
             new == Tail(worklist[c])
  <2>1. /\ worklist' = [worklist EXCEPT ![c] = new] /\ wk' = [wk EXCEPT ![c] = "clear"]
        /\ current_work' = [current_work EXCEPT ![c] = x]
    BY <1>5 DEF W!Take, W!list_first_entry
  <2>2. worklist[c] # <<>> /\ worklist[c] \in Seq(Works \cup Tasks)
    BY <1>1, <1>5 DEF WTypes, W!list_empty
  <2>3. new \in Seq(Works \cup Tasks) /\ Shrinks(worklist[c], new, x) /\ x \in Works \cup Tasks
    BY <2>2, ShrinkHead
  <2> HIDE DEF x, new
  <2>4. /\ worklist'[c] = new /\ \A d \in WCpus : d # c => worklist'[d] = worklist[d]
        /\ wk'[c] = "clear" /\ \A d \in WCpus : d # c => wk'[d] = wk[d]
        /\ current_work'[c] = x /\ \A d \in WCpus : d # c => current_work'[d] = current_work[d]
    BY <1>1, <2>1 DEF WTypes
  <2>5. /\ \A d \in WCpus : \A y : Active(d, y)' <=> Active(d, y) \/ (d = c /\ y = x)
        /\ \A d \in WCpus : \A y : Clearing(d, y)' <=> Clearing(d, y) \/ (d = c /\ y = x)
    BY <1>1, <2>4 DEF Active, Clearing
  <2>6. \A d \in WCpus : \A y : y \in Elems(worklist'[d]) => y \in Elems(worklist[d])
    BY <2>3, <2>4 DEF Shrinks
  <2>7. \A d \in WCpus : \A y : Once(worklist[d], y) => Once(worklist'[d], y)
    BY <2>3, <2>4 DEF Shrinks
  <2>8. x \in Elems(worklist[c]) /\ (Once(worklist[c], x) => x \notin Elems(worklist'[c]))
    BY <2>3, <2>4 DEF Shrinks
  <2>9. \A d \in WCpus : \A y : y \in Elems(worklist[d]) => y \in Elems(worklist'[d]) \/ (d = c /\ y = x)
    BY <2>3, <2>4 DEF Shrinks
  <2>10. x \in Works => data[x] = c /\ c # 0 /\ \A d \in WCpus : x \notin Elems(worklist'[d])
    BY <2>6, <2>8 DEF CInv, DataInv, WCpus
  <2>11. DataInv'
    <3> SUFFICES ASSUME NEW d \in WCpus, NEW v \in Works
                 PROVE  /\ v \in Elems(worklist'[d]) => data[v] = d /\ Once(worklist'[d], v)
                        /\ current_work'[d] = v => data[v] # 0
      BY <1>1 DEF DataInv
    <3>1. /\ v \in Elems(worklist[d]) => data[v] = d /\ Once(worklist[d], v)
          /\ current_work[d] = v => data[v] # 0
      BY DEF CInv, DataInv
    <3> QED
      BY <2>4, <2>6, <2>7, <2>10, <3>1
  <2>12. GrabInv'
    <3> SUFFICES ASSUME NEW u \in Tasks PROVE GrabOf(u)'
      BY DEF GrabInv
    <3>1. /\ GrabOf(u) /\ (pc[u] \in {"lock", "same"} => cwq[u] \in WCpus /\ arg[u] \in Works)
          /\ pc[u] = "same" => cwq[u] # c
      BY WHyp, <1>1, LooksAt DEF CInv, GrabInv, WLockInv
    <3> QED
      BY <1>1, <2>4, <3>1 DEF GrabOf
  <2>13. OwnInv'
    <3> SUFFICES ASSUME NEW v \in Works PROVE OwnOf(v)'
      BY DEF OwnInv
    <3>1. OwnOf(v)
      BY DEF CInv, OwnInv
    <3>2. CASE v = x
      <4>1. /\ pending[v] /\ ins[v] = "none" /\ \A d \in WCpus : ~Clearing(d, v)
            /\ \A u \in Tasks : W!Owns(u) => arg[u] # v
        BY <2>8, <3>1, <3>2 DEF OwnOf
      <4> QED
        BY <1>1, <1>2, <2>5, <2>10, <3>2, <4>1 DEF OwnOf
    <3>3. CASE v # x
      BY <1>1, <1>2, <2>5, <2>6, <3>1, <3>3 DEF OwnOf
    <3> QED
      BY <3>2, <3>3
  <2>14. SeenInv'
    <3> SUFFICES ASSUME NEW u \in Tasks PROVE SeenOf(u)'
      BY DEF SeenInv
    <3>1. SeenOf(u)
      BY DEF CInv, SeenInv
    <3>2. W!Owns(u) /\ arg[u] \in Works => arg[u] # x
      BY <2>8 DEF CInv, OwnInv, OwnOf
    <3>3. W!Owns(u) => arg[u] # x
      <4>1. W!Owns(u) => arg[u] \in Works
        BY DEF W!Owns, WInv, WCallInv, CallOf, WTypes
      <4> QED
        BY <3>2, <4>1
    <3> QED
      BY <1>1, <1>2, <2>4, <2>5, <2>6, <2>8, <3>1, <3>3 DEF SeenOf
  <2> QED
    BY <1>3, <2>11, <2>12, <2>13, <2>14 DEF CInv
<1> QED
  BY <1>4, <1>5

-----------------------------------------------------------------------------
\* A task that is inside under no lock, or has just dropped one.
LEMMA LockKeeps ==
  ASSUME W!WqAssumption, WInv, CInv, NEW t \in Tasks, OthersStay(t), UNCHANGED <<at, data>>,
         pc'[t] # "same", \A c \in WCpus : lock'[c] = lock[c] \/ lock[c] = t,
         \A w \in Works : ins'[w] = "add" => ins[w] = "add"
  PROVE  WLockInv'
<1>1. \A u \in Tasks : u # t /\ pc[u] = "same" => cwq[u] \in WCpus /\ lock[cwq[u]] = u
  BY LooksAt DEF CInv, WLockInv
<1>2. \A w \in Works : ins[w] = "add" => at[w] \in WCpus /\ lock[at[w]] = w /\ w # t
  BY WHyp DEF CInv, WLockInv, WInv, WTypes
<1> QED
  BY <1>1, <1>2 DEF CInv, WLockInv, OthersStay

\* A task that is not, or no longer, a canceller with a bit.
LEMMA CLeave ==
  ASSUME W!WqAssumption, WInv, CInv, NEW t \in Tasks, OthersStay(t), ListsStay(t),
         UNCHANGED <<current_work, wk, pending, data, ins, at>>,
         \A c \in WCpus : lock'[c] = lock[c] \/ lock[c] = t,
         ~W!Owns(t)', pc'[t] \notin {"same", "clear"}, pc'[t] = "lock" => data[arg'[t]] # 0
  PROVE  CInv'
<1>1. WLockInv'
  BY LockKeeps
<1>2. GrabOf(t)' /\ SeenOf(t)'
  BY DEF GrabOf, SeenOf
<1> QED
  BY <1>1, <1>2, LooksAt, CTaskMove

LEMMA BarrierLists ==
  ASSUME WInv, NEW t \in Tasks, NEW c \in WCpus, NEW new, W!AddAt(c, new), Grows(worklist[c], new, t)
  PROVE  ListsStay(t) /\ \A d \in WCpus : t \in Elems(worklist'[d]) => t \in Elems(worklist[d]) \/ d = c
<1>1. worklist'[c] = new /\ \A d \in WCpus : d # c => worklist'[d] = worklist[d]
  BY DEF WInv, WTypes, W!AddAt
<1> QED
  BY <1>1 DEF Grows, ListsStay

\* A call begins or returns.
LEMMA CBeginStep ==
  ASSUME W!WqAssumption, WInv, CInv, NEW t \in Tasks,
         \/ W!FlushWorkqueue(t) \/ \E w \in Works : W!FlushWork(t, w) \/ W!Cancel(t, w, "cancel")
         \/ \E w \in Delayed : W!Cancel(t, w, "cancel_timer")
         \/ W!Return(t)
  PROVE  CInv'
<1>1. WTypes
  BY DEF WInv
<1>2. UNCHANGED <<worklist, current_work, lock, wk, pending, data, ins, at>>
  BY DEF W!FlushWorkqueue, W!FlushWork, W!Cancel, W!Return, W!Begin, W!cvars, W!wvars
<1>3. ListsStay(t)
  BY <1>2 DEF ListsStay
<1>4. ASSUME NEW k, NEW w, NEW l \in {"bit", "timer", "each", "return", "lock"}, NEW c,
             W!Begin(t, k, w, l, c),
             k = "flush" \/ l # "each", l = "lock" => data[w] # 0
      PROVE  CInv'
  <2>1. /\ pc'[t] = l /\ kind'[t] = k /\ arg'[t] = w /\ OthersStay(t)
    BY <1>1, <1>4 DEF W!Begin, W!Goto, OthersStay, WTypes
  <2>2. ~W!Owns(t)'
    BY <1>4, <2>1 DEF W!Owns
  <2> QED
    BY <1>2, <1>3, <1>4, <2>1, <2>2, CLeave
<1>5. CASE W!FlushWorkqueue(t)
  BY <1>4, <1>5 DEF W!FlushWorkqueue
<1>6. ASSUME NEW w \in Works, W!FlushWork(t, w) PROVE CInv'
  <2>1. CASE data[w] = 0
    BY <1>4, <1>6, <2>1 DEF W!FlushWork, W!NoCwq
  <2>2. CASE data[w] # 0
    BY <1>4, <1>6, <2>2 DEF W!FlushWork, W!NoCwq
  <2> QED
    BY <2>1, <2>2
<1>7. ASSUME NEW w, NEW k \in {"cancel", "cancel_timer"}, W!Cancel(t, w, k) PROVE CInv'
  BY <1>4, <1>7 DEF W!Cancel
<1>8. CASE W!Return(t)
  <2>1. pc'[t] = "idle" /\ OthersStay(t)
    BY <1>1, <1>8 DEF W!Return, W!Goto, OthersStay, WTypes
  <2>2. ~W!Owns(t)'
    BY <2>1 DEF W!Owns
  <2> QED
    BY <1>2, <1>3, <2>1, <2>2, CLeave
<1> QED
  BY <1>5, <1>6, <1>7, <1>8

LEMMA CGrabStep ==
  ASSUME W!WqAssumption, WInv, CInv, NEW t \in Tasks,
         \/ W!DelTimer(t) \/ W!TestBit(t) \/ W!ReadData(t) \/ W!LockListed(t) \/ W!GrabFails(t)
         \/ W!Grab(t)
  PROVE  CInv'
<1>1. /\ WTypes /\ CallOf(t) /\ pc[t] \in {"timer", "bit", "data", "lock", "same"}
      /\ UNCHANGED <<current_work, wk, data, at, kind, arg>>
  BY DEF WInv, WCallInv, W!DelTimer, W!TestBit, W!ReadData, W!LockListed, W!GrabFails, W!Grab,
         W!cvars, W!wvars
<1>2. /\ kind[t] # "flush" /\ kind[t] # "none" /\ (kind[t] = "flush_work" => pc[t] \in {"lock", "same"})
      /\ arg[t] \in Works
  BY <1>1 DEF CallOf, WTypes
<1>3. PICK w \in Works : arg[t] = w
  BY <1>2
<1>4. OwnOf(w) /\ WLockInv /\ GrabOf(t)
  BY DEF CInv, OwnInv, GrabInv
<1>5. ~W!Owns(t) /\ \A c \in WCpus : t \notin Elems(worklist[c]) /\ ~Active(c, t)
  BY <1>1 DEF W!Owns, WInv, BarrierInv, BarrierOf
<1>6. UNCHANGED worklist => ListsStay(t)
  BY DEF ListsStay
<1>7. ASSUME NEW l, W!Goto(t, l), UNCHANGED <<again, cpu>>, \A u \in Tasks : u # t => cwq'[u] = cwq[u]
      PROVE  OthersStay(t) /\ pc'[t] = l
  BY <1>1, <1>7 DEF W!Goto, OthersStay, WTypes
<1>8. ASSUME NEW ag \in BOOLEAN, W!Grabbed(t, ag)
      PROVE  OthersStay(t) /\ pc'[t] = "each" /\ cpu'[t] = 1 /\ again'[t] = ag
  BY <1>1, <1>8, GrabbedTypes DEF OthersStay
<1>9. ASSUME W!Grabbed(t, FALSE), WLockInv',
             pending'[w], ins'[w] = "none", \A c \in WCpus : w \notin Elems(worklist'[c]) /\ ~Clearing(c, w),
             \A v \in Works : v # w => pending'[v] = pending[v] /\ ins'[v] = ins[v],
             ListsStay(w), kind[t] # "flush_work",
             \A u \in Tasks : u # t /\ W!Owns(u) => arg[u] # w,
             \A u \in Tasks : u # t /\ pc[u] = "same" => worklist'[cwq[u]] = worklist[cwq[u]]
      PROVE  CInv'
  <2>1. OthersStay(t) /\ pc'[t] = "each" /\ cpu'[t] = 1 /\ again'[t] = FALSE
    BY <1>8, <1>9
  <2>2. kind[t] \in {"cancel", "cancel_timer"}
    BY <1>1, <1>2, <1>9 DEF WTypes
  <2> QED
    BY <1>1, <1>3, <1>5, <1>9, <2>1, <2>2, CGain DEF OthersStay, ListsStay
<1>10. CASE W!DelTimer(t)
  <2>1. UNCHANGED <<worklist, lock, pending>> /\ pc[t] = "timer"
    BY <1>10 DEF W!DelTimer, W!cvars
  <2>2. CASE ins[w] = "timer"
    <3>1. ins' = [ins EXCEPT ![w] = "none"] /\ W!Grabbed(t, FALSE)
      BY <1>3, <1>10, <2>2 DEF W!DelTimer, W!del_timer
    <3>2. ins'[w] = "none" /\ \A v \in Works : v # w => ins'[v] = ins[v]
      BY <1>1, <3>1 DEF WTypes
    <3>3. /\ pending[w] /\ \A c \in WCpus : w \notin Elems(worklist[c]) /\ ~Clearing(c, w)
          /\ \A u \in Tasks : W!Owns(u) => arg[u] # w
      BY <1>4, <2>2 DEF OwnOf
    <3>4. OthersStay(t) /\ pc'[t] = "each"
      BY <1>8, <2>1, <3>1
    <3>5. WLockInv'
      BY <1>1, <2>1, <3>2, <3>4, LockKeeps
    <3>6. ListsStay(w)
      BY <2>1 DEF ListsStay
    <3> QED
      BY <1>2, <1>9, <2>1, <3>1, <3>2, <3>3, <3>5, <3>6
  <2>3. CASE ins[w] # "timer"
    <3>1. W!Goto(t, "bit") /\ UNCHANGED <<ins, again, cpu, cwq>>
      BY <1>3, <1>10, <2>3 DEF W!DelTimer, W!del_timer
    <3>2. OthersStay(t) /\ pc'[t] = "bit"
      BY <1>7, <2>1, <3>1
    <3>3. ~W!Owns(t)'
      BY <3>2 DEF W!Owns
    <3> QED
      BY <1>1, <1>6, <2>1, <3>1, <3>2, <3>3, CLeave
  <2> QED
    BY <2>2, <2>3
<1>11. CASE W!TestBit(t)
  <2>1. UNCHANGED <<worklist, lock, ins>> /\ pc[t] = "bit" /\ pending' = [pending EXCEPT ![w] = TRUE]
    BY <1>3, <1>11 DEF W!TestBit, W!cvars
  <2>2. pending'[w] = TRUE /\ \A v \in Works : v # w => pending'[v] = pending[v]
    BY <1>1, <2>1 DEF WTypes
  <2>3. CASE ~pending[w]
    <3>1. W!Grabbed(t, FALSE)
      BY <1>3, <1>11, <2>3 DEF W!TestBit
    <3>2. /\ ins[w] = "none" /\ \A c \in WCpus : w \notin Elems(worklist[c]) /\ ~Clearing(c, w)
          /\ \A u \in Tasks : W!Owns(u) => arg[u] # w
      BY <1>4, <2>3 DEF OwnOf
    <3>3. OthersStay(t) /\ pc'[t] = "each"
      BY <1>8, <2>1, <3>1
    <3>4. WLockInv'
      BY <1>1, <2>1, <3>3, LockKeeps
    <3>5. ListsStay(w)
      BY <2>1 DEF ListsStay
    <3> QED
      BY <1>2, <1>9, <2>1, <2>2, <3>1, <3>2, <3>4, <3>5
  <2>4. CASE pending[w]
    <3>1. W!Goto(t, "data") /\ UNCHANGED <<again, cpu, cwq>>
      BY <1>3, <1>11, <2>4 DEF W!TestBit
    <3>2. UNCHANGED pending
      BY <1>1, <2>1, <2>4 DEF WTypes
    <3>3. OthersStay(t) /\ pc'[t] = "data"
      BY <1>7, <2>1, <3>1
    <3>4. ~W!Owns(t)'
      BY <3>3 DEF W!Owns
    <3> QED
      BY <1>1, <1>6, <2>1, <3>2, <3>3, <3>4, CLeave
  <2> QED
    BY <2>3, <2>4
<1>12. CASE W!ReadData(t)
  <2>1. UNCHANGED <<worklist, lock, pending, ins>> /\ pc[t] = "data"
    BY <1>12 DEF W!ReadData, W!cvars, W!wvars
  <2>3. CASE data[w] = 0
    <3>1. W!Grabbed(t, TRUE)
      BY <1>3, <1>12, <2>3 DEF W!ReadData, W!NoCwq
    <3>2. OthersStay(t) /\ pc'[t] = "each" /\ again'[t] = TRUE
      BY <1>8, <3>1
    <3>3. ~W!Owns(t)'
      BY <3>2 DEF W!Owns
    <3> QED
      BY <1>1, <1>6, <2>1, <3>2, <3>3, CLeave
  <2>4. CASE data[w] # 0
    <3>1. W!Goto(t, "lock") /\ UNCHANGED <<again, cpu>> /\ cwq' = [cwq EXCEPT ![t] = data[w]]
      BY <1>3, <1>12, <2>4 DEF W!ReadData, W!NoCwq
    <3>2. OthersStay(t) /\ pc'[t] = "lock"
      BY <1>1, <1>7, <3>1 DEF WTypes
    <3>3. ~W!Owns(t)'
      BY <3>2 DEF W!Owns
    <3> QED
      BY <1>1, <1>3, <1>6, <2>1, <2>4, <3>2, <3>3, CLeave
  <2> QED
    BY <2>3, <2>4
<1>13. CASE W!LockListed(t)
  <2>1. PICK c \in WCpus : cwq[t] = c
    BY <1>13, LooksAt DEF W!LockListed
  <2>2. /\ UNCHANGED <<worklist, pending, ins, cwq, cpu, again>> /\ pc[t] = "lock" /\ W!Goto(t, "same")
        /\ lock[c] = None /\ lock' = [lock EXCEPT ![c] = t]
    BY <1>13, <2>1 DEF W!LockListed, W!wvars
  <2>3. PICK d \in WCpus : w \in Elems(worklist[d])
    BY WHyp, WList, <1>3, <1>13 DEF W!LockListed, W!Listed
  <2>4. OthersStay(t) /\ pc'[t] = "same"
    BY <1>7, <2>2
  <2>5. lock'[c] = t /\ \A e \in WCpus : e # c => lock'[e] = lock[e]
    BY <1>1, <2>2 DEF WTypes
  <2>6. WLockInv'
    <3>1. \A u \in Tasks : u # t /\ pc[u] = "same" => cwq[u] \in WCpus /\ cwq[u] # c
      BY WHyp, <1>4, <2>2, LooksAt DEF WLockInv
    <3>2. \A v \in Works : ins[v] = "add" => at[v] \in WCpus /\ at[v] # c
      BY WHyp, <1>1, <1>4, <2>2 DEF WLockInv, WTypes
    <3> QED
      BY <1>1, <1>4, <2>1, <2>2, <2>4, <2>5, <3>1, <3>2 DEF WLockInv, OthersStay
  <2>7. GrabOf(t)'
    <3>1. data[w] = d
      BY <2>3 DEF CInv, DataInv
    <3> QED
      BY <1>1, <1>3, <1>4, <2>1, <2>2, <2>3, <3>1 DEF GrabOf
  <2>8. SeenOf(t)' /\ ~W!Owns(t)'
    BY <2>4 DEF SeenOf, W!Owns
  <2> QED
    BY <1>1, <1>6, <2>2, <2>4, <2>6, <2>7, <2>8, LooksAt, CTaskMove
<1>14. CASE W!GrabFails(t)
  <2>1. UNCHANGED <<worklist, lock, pending, ins>> /\ W!Grabbed(t, TRUE)
    BY <1>14 DEF W!GrabFails, W!cvars, W!wvars
  <2>2. OthersStay(t) /\ pc'[t] = "each" /\ again'[t] = TRUE
    BY <1>8, <2>1
  <2>3. ~W!Owns(t)'
    BY <2>2 DEF W!Owns
  <2> QED
    BY <1>1, <1>6, <2>1, <2>2, <2>3, CLeave
<1>15. CASE W!Grab(t)
  <2>1. PICK c \in WCpus : cwq[t] = c
    BY <1>15, LooksAt DEF W!Grab
  <2>2. /\ UNCHANGED <<pending, ins>> /\ pc[t] = "same" /\ kind[t] # "flush_work"
        /\ lock' = [lock EXCEPT ![c] = None]
    BY <1>15, <2>1 DEF W!Grab, W!Unlock, W!wvars
  <2>3. lock[c] = t /\ \A e \in WCpus : e # c => lock'[e] = lock[e]
    BY <1>1, <1>4, <2>1, <2>2 DEF WLockInv, WTypes
  <2>4. CASE ~W!SameCwq(t)
    <3>1. UNCHANGED worklist /\ W!Grabbed(t, TRUE)
      BY <1>15, <2>4 DEF W!Grab
    <3>2. OthersStay(t) /\ pc'[t] = "each" /\ again'[t] = TRUE
      BY <1>8, <2>2, <3>1
    <3>3. ~W!Owns(t)'
      BY <3>2 DEF W!Owns
    <3> QED
      BY <1>1, <1>6, <2>2, <2>3, <3>1, <3>2, <3>3, CLeave
  <2>5. CASE W!SameCwq(t)
    <3>1. w \in Elems(worklist[c]) /\ worklist[c] \in Seq(Works \cup Tasks)
      BY <1>1, <1>3, <1>4, <2>1, <2>2, <2>5 DEF W!SameCwq, GrabOf, WTypes
    <3> DEFINE new == list_del(worklist[c], w)
    <3>2. worklist' = [worklist EXCEPT ![c] = new] /\ W!Grabbed(t, FALSE)
      BY <1>3, <1>15, <2>1, <2>5, <3>1, WList DEF W!Grab, W!Without
    <3>3. Shrinks(worklist[c], new, w)
      BY <3>1, ShrinkDel
    <3> HIDE DEF new
    <3>4. worklist'[c] = new /\ \A d \in WCpus : d # c => worklist'[d] = worklist[d]
      BY <1>1, <3>2 DEF WTypes
    <3>5. ListsStay(w)
      BY <3>3, <3>4 DEF Shrinks, ListsStay
    <3>6. data[w] = c /\ Once(worklist[c], w)
      BY <3>1 DEF CInv, DataInv
    <3>7. \A d \in WCpus : w \notin Elems(worklist'[d])
      <4>1. \A d \in WCpus : d # c => w \notin Elems(worklist[d])
        BY <3>6 DEF CInv, DataInv
      <4> QED
        BY <3>3, <3>4, <3>6, <4>1 DEF Shrinks
    <3>8. /\ pending[w] /\ ins[w] = "none" /\ \A d \in WCpus : ~Clearing(d, w)
          /\ \A u \in Tasks : W!Owns(u) => arg[u] # w
      BY <1>4, <3>1 DEF OwnOf
    <3>9. \A u \in Tasks : u # t /\ pc[u] = "same" => worklist'[cwq[u]] = worklist[cwq[u]]
      BY <1>4, <2>3, <3>4, LooksAt DEF WLockInv
    <3>10. OthersStay(t) /\ pc'[t] = "each"
      BY <1>8, <2>2, <3>2
    <3>11. WLockInv'
      BY <1>1, <2>2, <2>3, <3>10, LockKeeps
    <3> QED
      BY <1>9, <2>2, <3>2, <3>5, <3>7, <3>8, <3>9, <3>11
  <2> QED
    BY <2>4, <2>5
<1> QED
  BY <1>10, <1>11, <1>12, <1>13, <1>14, <1>15

LEMMA CFlushStep ==
  ASSUME W!WqAssumption, WInv, CInv, NEW t \in Tasks,
         W!FlushQueued(t) \/ W!FlushRunning(t) \/ W!FlushCpu(t)
  PROVE  CInv'
<1>1. /\ WTypes /\ kind[t] \in {"flush_work", "flush"}
      /\ UNCHANGED <<current_work, wk, pending, data, ins, at, kind, arg, cwq, again>>
  BY DEF WInv, W!FlushQueued, W!FlushRunning, W!FlushCpu, W!wvars
<1>2. ~W!Owns(t)'
  BY <1>1 DEF W!Owns
<1>3. ASSUME NEW l, W!Goto(t, l), \A u \in Tasks : u # t => cpu'[u] = cpu[u]
      PROVE  OthersStay(t) /\ pc'[t] = l
  BY <1>1, <1>3 DEF W!Goto, OthersStay, WTypes
<1>4. UNCHANGED worklist => ListsStay(t)
  BY DEF ListsStay
<1>5. CASE W!FlushQueued(t) \/ W!FlushRunning(t)
  <2>1. PICK c \in WCpus : cwq[t] = c
    BY <1>5, LooksAt DEF W!FlushQueued, W!FlushRunning
  <2>2. worklist[c] \in Seq(Works \cup Tasks) /\ UNCHANGED cpu
    BY <1>1, <1>5 DEF WTypes, W!FlushQueued, W!FlushRunning
  <2>3. \A d \in WCpus : lock'[d] = lock[d] \/ lock[d] = t
    <3>1. CASE W!FlushQueued(t)
      <4>1. lock[c] = t /\ lock' = [lock EXCEPT ![c] = None]
        BY <2>1, <3>1 DEF W!FlushQueued, W!Unlock, CInv, WLockInv
      <4> QED
        BY <1>1, <4>1 DEF WTypes
    <3>2. CASE W!FlushRunning(t)
      BY <3>2 DEF W!FlushRunning
    <3> QED
      BY <1>5, <3>1, <3>2
  <2>4. PICK l \in {"return", "barrier"} : W!Goto(t, l)
    BY <1>5 DEF W!FlushQueued, W!FlushRunning, W!Waits
  <2>5. OthersStay(t) /\ pc'[t] = l
    BY <1>3, <2>2, <2>4
  <2>6. ListsStay(t)
    <3>1. CASE UNCHANGED worklist
      BY <1>4, <3>1
    <3>2. CASE W!AddAt(c, <<t>> \o worklist[c])
      BY <2>2, <3>2, GrowHead, BarrierLists
    <3>3. CASE W!AddAt(c, W!After(worklist[c], arg[t], t))
      <4>1. CASE arg[t] \notin Elems(worklist[c])
        <5>1. W!After(worklist[c], arg[t], t) = worklist[c]
          BY <4>1, WList DEF W!After
        <5>2. UNCHANGED worklist
          BY <1>1, <3>3, <5>1 DEF W!AddAt, WTypes
        <5> QED
          BY <1>4, <5>2
      <4>2. CASE arg[t] \in Elems(worklist[c])
        <5> DEFINE p == CHOOSE j \in 1..Len(worklist[c]) : worklist[c][j] = arg[t]
                   new == SubSeq(worklist[c], 1, p) \o <<t>> \o SubSeq(worklist[c], p + 1, Len(worklist[c]))
        <5>1. p \in 1..Len(worklist[c])
          BY <4>2 DEF Elems
        <5>2. W!AddAt(c, new)
          BY <3>3, <4>2, WList DEF W!After
        <5> HIDE DEF p
        <5>3. Grows(worklist[c], new, t)
          BY <2>2, <5>1, GrowBehind
        <5> HIDE DEF new
        <5> QED
          BY <5>2, <5>3, BarrierLists
      <4> QED
        BY <4>1, <4>2
    <3> QED
      BY <1>5, <2>1, <3>1, <3>2, <3>3 DEF W!FlushQueued, W!FlushRunning
  <2> QED
    BY <1>1, <1>2, <2>3, <2>5, <2>6, CLeave
<1>6. CASE W!FlushCpu(t)
  <2>1. PICK c \in WCpus : cpu[t] = c
    BY <1>1 DEF WTypes
  <2>2. worklist[c] \in Seq(Works \cup Tasks) /\ UNCHANGED lock /\ kind[t] = "flush"
    BY <1>1, <1>6 DEF WTypes, W!FlushCpu
  <2>3. \A u \in Tasks : u # t => cpu'[u] = cpu[u]
    BY <1>1, <1>6 DEF W!FlushCpu, W!NextCpu, WTypes
  <2>4. PICK l \in {"each", "return", "barrier"} : W!Goto(t, l)
    BY <1>6, <2>2 DEF W!FlushCpu, W!NextCpu, W!NextRound, W!Waits
  <2>5. OthersStay(t) /\ pc'[t] = l
    BY <1>3, <2>3, <2>4
  <2>6. ListsStay(t)
    <3>1. CASE UNCHANGED worklist
      BY <1>4, <3>1
    <3>2. CASE W!AddAt(c, list_add_tail(worklist[c], t))
      BY <2>2, <3>2, GrowTail, BarrierLists
    <3> QED
      BY <1>6, <2>1, <3>1, <3>2, WList DEF W!FlushCpu
  <2> QED
    BY <1>1, <1>2, <2>2, <2>5, <2>6, CLeave
<1> QED
  BY <1>5, <1>6

\* A canceller goes over the CPUs: behind it the work runs nowhere.
LEMMA CEachStep ==
  ASSUME W!WqAssumption, WInv, CInv, NEW t \in Tasks, W!WaitOnCpu(t) \/ W!Woken(t)
  PROVE  CInv'
<1>1. /\ WTypes /\ CallOf(t) /\ SeenOf(t) /\ pc[t] \in {"each", "woken"}
      /\ UNCHANGED <<current_work, lock, wk, pending, data, ins, at, kind, arg, cwq, again>>
  BY DEF WInv, WCallInv, CInv, SeenInv, W!WaitOnCpu, W!Woken, W!cvars, W!wvars
<1>2. PICK c \in WCpus : cpu[t] = c
  BY <1>1 DEF WTypes
<1>3. \A d \in WCpus : t \notin Elems(worklist[d]) /\ ~Active(d, t)
  BY <1>1 DEF WInv, BarrierInv, BarrierOf
<1>4. UNCHANGED worklist => ListsStay(t)
  BY DEF ListsStay
<1>5. ASSUME NEW l, W!Goto(t, l), \A u \in Tasks : u # t => cpu'[u] = cpu[u]
      PROVE  OthersStay(t) /\ pc'[t] = l
  BY <1>1, <1>5 DEF W!Goto, OthersStay, WTypes
<1>6. ASSUME OthersStay(t), ListsStay(t), pc'[t] \in {"each", "barrier", "clear", "bit", "timer", "return"},
             SeenOf(t)', W!Owns(t)' => W!Owns(t)
      PROVE  CInv'
  <2>1. WLockInv'
    BY <1>1, <1>6, LockKeeps
  <2>2. GrabOf(t)'
    BY <1>6 DEF GrabOf
  <2> QED
    BY <1>1, <1>6, <2>1, <2>2, LooksAt, CTaskMove
<1>7. ASSUME W!NextCpu(t), UNCHANGED worklist, kind[t] # "flush_work",
             W!Owns(t) => ~(current_work[c] = arg[t] /\ wk[c] \in {"clear", "run"})
      PROVE  CInv'
  <2>1. N \in Nat /\ c \in 1..N
    BY WHyp DEF WCpus
  <2>2. CASE c < N
    <3>1. W!Goto(t, "each") /\ cpu' = [cpu EXCEPT ![t] = c + 1]
      BY <1>2, <1>7, <2>2 DEF W!NextCpu
    <3>2. cpu'[t] = c + 1 /\ \A u \in Tasks : u # t => cpu'[u] = cpu[u]
      BY <1>1, <3>1 DEF WTypes
    <3>3. OthersStay(t) /\ pc'[t] = "each"
      BY <1>5, <3>1, <3>2
    <3>4. W!Owns(t)' => W!Owns(t)
      BY <1>1 DEF W!Owns
    <3>5. SeenOf(t)'
      <4>1. \A d \in WCpus : d < c + 1 => d < c \/ d = c
        BY <2>1 DEF WCpus
      <4>2. \A d \in WCpus : t \notin Elems(worklist'[d]) /\ ~Active(d, t)'
        BY <1>1, <1>3, <1>7 DEF Active
      <4> QED
        BY <1>1, <1>2, <1>7, <3>2, <3>3, <3>4, <4>1, <4>2 DEF SeenOf
    <3> QED
      BY <1>4, <1>6, <1>7, <3>3, <3>4, <3>5
  <2>3. CASE ~(c < N)
    <3>1. W!Goto(t, W!NextRound(t)) /\ UNCHANGED cpu
      BY <1>2, <1>7, <2>3 DEF W!NextCpu
    <3>2. OthersStay(t) /\ pc'[t] = W!NextRound(t)
      BY <1>5, <3>1
    <3>3. W!NextRound(t) \in {"return", "clear", "bit", "timer"}
          /\ (W!NextRound(t) = "clear" => kind[t] # "flush" /\ ~again[t])
      BY DEF W!NextRound
    <3>4. kind[t] # "none" /\ kind[t] \in {"none", "flush", "flush_work", "cancel", "cancel_timer"}
      BY <1>1 DEF CallOf, WTypes
    <3>5. pc'[t] = "clear" <=> W!Owns(t)'
      BY <1>1, <1>7, <3>2, <3>3, <3>4 DEF W!Owns
    <3>6. W!Owns(t)' => W!Owns(t)
      BY <1>1, <3>2, <3>3, <3>5 DEF W!Owns
    <3>7. SeenOf(t)'
      <4>1. \A d \in WCpus : d < c \/ d = c
        BY <2>1, <2>3 DEF WCpus
      <4>2. \A d \in WCpus : t \notin Elems(worklist'[d]) /\ ~Active(d, t)'
        BY <1>1, <1>3, <1>7 DEF Active
      <4>3. W!Owns(t)' => \A d \in WCpus : ~(current_work[d] = arg[t] /\ wk[d] \in {"clear", "run"})
        BY <1>1, <1>2, <1>7, <3>6, <4>1 DEF SeenOf
      <4> QED
        BY <1>1, <3>5, <4>2, <4>3 DEF SeenOf
    <3> QED
      BY <1>4, <1>6, <1>7, <3>2, <3>3, <3>6, <3>7
  <2> QED
    BY <2>2, <2>3
<1>8. CASE W!Woken(t)
  <2>1. UNCHANGED worklist /\ pc[t] = "woken"
    BY <1>8 DEF W!Woken, W!cvars
  <2>2. CASE kind[t] = "flush_work"
    <3>1. W!Goto(t, "return") /\ UNCHANGED cpu
      BY <1>8, <2>2 DEF W!Woken
    <3>2. OthersStay(t) /\ pc'[t] = "return"
      BY <1>5, <3>1
    <3>3. ~W!Owns(t)'
      BY <3>2 DEF W!Owns
    <3> QED
      BY <1>1, <1>4, <2>1, <3>2, <3>3, CLeave
  <2>3. CASE kind[t] # "flush_work"
    <3>1. W!NextCpu(t)
      BY <1>8, <2>3 DEF W!Woken
    <3>2. W!Owns(t) => ~(current_work[c] = arg[t] /\ wk[c] \in {"clear", "run"})
      BY <1>1, <1>2, <2>1 DEF SeenOf
    <3> QED
      BY <1>7, <2>1, <2>3, <3>1, <3>2
  <2> QED
    BY <2>2, <2>3
<1>9. CASE W!WaitOnCpu(t)
  <2>1. kind[t] \in {"cancel", "cancel_timer"} /\ pc[t] = "each" /\ arg[t] \in Works
    BY <1>1, <1>9 DEF W!WaitOnCpu, CallOf, WTypes
  <2>2. CASE data[arg[t]] = 0
    <3>1. W!Goto(t, W!NextRound(t)) /\ UNCHANGED <<worklist, cpu>>
      BY <1>9, <2>2 DEF W!WaitOnCpu, W!NoCwq
    <3>2. OthersStay(t) /\ pc'[t] = W!NextRound(t)
      BY <1>5, <3>1
    <3>3. W!NextRound(t) \in {"clear", "bit", "timer"} /\ (W!NextRound(t) = "clear" <=> ~again[t])
      BY <2>1 DEF W!NextRound
    <3>4. pc'[t] = "clear" <=> W!Owns(t)'
      BY <1>1, <2>1, <3>2, <3>3 DEF W!Owns
    <3>5. W!Owns(t)' => W!Owns(t)
      BY <1>1, <3>2, <3>3, <3>4 DEF W!Owns
    <3>6. \A d \in WCpus : current_work[d] # arg[t]
      BY <2>1, <2>2 DEF CInv, DataInv
    <3>7. \A d \in WCpus : t \notin Elems(worklist'[d]) /\ ~Active(d, t)'
      BY <1>1, <1>3, <3>1 DEF Active
    <3>8. SeenOf(t)'
      BY <1>1, <3>4, <3>6, <3>7 DEF SeenOf
    <3> QED
      BY <1>4, <1>6, <3>1, <3>2, <3>3, <3>5, <3>8
  <2>3. CASE data[arg[t]] # 0 /\ W!RunningHere(t, c)
    <3> DEFINE new == <<t>> \o worklist[c]
    <3>1. W!AddAt(c, new) /\ W!Goto(t, "barrier") /\ UNCHANGED cpu
      BY <1>2, <1>9, <2>3 DEF W!WaitOnCpu, W!NoCwq, W!Waits
    <3>2. worklist[c] \in Seq(Works \cup Tasks)
      BY <1>1 DEF WTypes
    <3>3. Grows(worklist[c], new, t)
      BY <3>2, GrowHead
    <3> HIDE DEF new
    <3>4. ListsStay(t) /\ \A d \in WCpus : t \in Elems(worklist'[d]) => d = c
      BY <1>3, <3>1, <3>3, BarrierLists
    <3>5. OthersStay(t) /\ pc'[t] = "barrier"
      BY <1>5, <3>1
    <3>6. W!Owns(t)' => W!Owns(t)
      BY <1>1, <2>1 DEF W!Owns
    <3>7. \A d \in WCpus : ~Active(d, t)'
      BY <1>1, <1>3 DEF Active
    <3>8. SeenOf(t)'
      BY <1>1, <1>2, <3>1, <3>4, <3>5, <3>6, <3>7 DEF SeenOf
    <3> QED
      BY <1>6, <3>4, <3>5, <3>6, <3>8
  <2>4. CASE data[arg[t]] # 0 /\ ~W!RunningHere(t, c)
    <3>1. W!NextCpu(t) /\ UNCHANGED worklist /\ current_work[c] # arg[t]
      BY <1>2, <1>9, <2>4 DEF W!WaitOnCpu, W!NoCwq, W!RunningHere
    <3> QED
      BY <1>7, <2>1, <3>1
  <2> QED
    BY <2>2, <2>3, <2>4
<1> QED
  BY <1>8, <1>9

\* The canceller clears the bit, which nobody else has.
LEMMA CClearStep ==
  ASSUME W!WqAssumption, WInv, CInv, NEW t \in Tasks, W!CancelClear(t)
  PROVE  CInv'
<1>1. /\ WTypes /\ CallOf(t) /\ W!Owns(t) /\ pc[t] = "clear"
      /\ UNCHANGED <<worklist, current_work, lock, wk, data, ins, at, kind, arg, cwq, cpu, again>>
      /\ pending' = [pending EXCEPT ![arg[t]] = FALSE] /\ pc' = [pc EXCEPT ![t] = "return"]
  BY DEF WInv, WCallInv, CInv, SeenInv, SeenOf, W!CancelClear, W!Goto, W!cvars
<1>2. PICK w \in Works : arg[t] = w
  BY <1>1 DEF W!Owns, CallOf, WTypes
<1>3. /\ \A v \in Works : v # w => pending'[v] = pending[v]
      /\ pc'[t] = "return" /\ \A u \in Tasks : u # t => pc'[u] = pc[u]
  BY <1>1, <1>2 DEF WTypes
<1>4. (\A u \in Tasks : u # t => (W!Owns(u)' <=> W!Owns(u))) /\ ~W!Owns(t)'
  BY <1>1, <1>3 DEF W!Owns
<1>5. \A c, x : (Active(c, x)' <=> Active(c, x)) /\ (Clearing(c, x)' <=> Clearing(c, x))
  BY <1>1 DEF Active, Clearing
<1>6. /\ ins[w] = "none" /\ \A c \in WCpus : w \notin Elems(worklist[c]) /\ ~Clearing(c, w)
      /\ \A u \in Tasks : W!Owns(u) /\ arg[u] = w => u = t
  BY <1>1, <1>2 DEF CInv, OwnInv, OwnOf
<1>7. OthersStay(t)
  BY <1>1, <1>3 DEF OthersStay
<1>8. WLockInv'
  BY <1>1, <1>3, <1>7, LockKeeps
<1>9. DataInv'
  BY <1>1 DEF CInv, DataInv
<1>10. GrabInv'
  BY <1>1, <1>3 DEF CInv, GrabInv, GrabOf
<1>11. OwnInv'
  <2> SUFFICES ASSUME NEW v \in Works PROVE OwnOf(v)'
    BY DEF OwnInv
  <2>1. OwnOf(v)
    BY DEF CInv, OwnInv
  <2>2. CASE v = w
    BY <1>1, <1>2, <1>4, <1>5, <1>6, <2>2 DEF OwnOf
  <2>3. CASE v # w
    BY <1>1, <1>3, <1>4, <1>5, <2>1, <2>3 DEF OwnOf
  <2> QED
    BY <2>2, <2>3
<1>12. SeenInv'
  <2> SUFFICES ASSUME NEW u \in Tasks PROVE SeenOf(u)'
    BY DEF SeenInv
  <2>1. SeenOf(u)
    BY DEF CInv, SeenInv
  <2> QED
    BY <1>1, <1>3, <1>4, <1>5, <2>1 DEF SeenOf
<1> QED
  BY <1>8, <1>9, <1>10, <1>11, <1>12 DEF CInv

LEMMA NextCInv ==
  ASSUME W!WqAssumption, Delayed = {} \/ N = 1, WInv, CInv, [W!Next]_(W!vars)
  PROVE  CInv'
<1>1. ASSUME NEW c \in WCpus, W!Worker(c) PROVE CInv'
  BY <1>1, CWorkerStep, CTakeStep DEF W!Worker
<1>2. ASSUME NEW w \in Works, \/ W!Insert(w) \/ W!QueueAgain(w)
                              \/ \E c \in WCpus : W!Queue(w, c) \/ W!QueueDelayed(w, c) \/ W!TimerFires(w, c)
      PROVE  CInv'
  BY <1>2, CQueueStep, CInsertStep
<1>3. ASSUME NEW t \in Tasks, W!Step(t) PROVE CInv'
  <2>1. CASE \/ W!DelTimer(t) \/ W!TestBit(t) \/ W!ReadData(t) \/ W!LockListed(t) \/ W!GrabFails(t)
             \/ W!Grab(t)
    BY <2>1, CGrabStep
  <2>2. CASE W!FlushQueued(t) \/ W!FlushRunning(t) \/ W!FlushCpu(t)
    BY <2>2, CFlushStep
  <2>3. CASE W!WaitOnCpu(t) \/ W!Woken(t)
    BY <2>3, CEachStep
  <2>4. CASE W!CancelClear(t)
    BY <2>4, CClearStep
  <2>5. CASE W!Return(t)
    BY <2>5, CBeginStep
  <2> QED
    BY <1>3, <2>1, <2>2, <2>3, <2>4, <2>5 DEF W!Step
<1>4. ASSUME NEW t \in Tasks,
             \/ W!FlushWorkqueue(t) \/ \E w \in Works : W!FlushWork(t, w) \/ W!Cancel(t, w, "cancel")
             \/ \E w \in Delayed : W!Cancel(t, w, "cancel_timer")
      PROVE  CInv'
  BY <1>4, CBeginStep
<1>5. CASE UNCHANGED W!vars
  <2>1. UNCHANGED <<worklist, current_work, lock, wk, pending, data, ins, at,
                    pc, kind, arg, cwq, cpu, again>>
    BY <1>5 DEF W!vars, W!cvars, W!wvars, W!tvars
  <2> QED
    BY <2>1, CStutter
<1> QED
  BY WHyp, <1>1, <1>2, <1>3, <1>4, <1>5 DEF W!Next

LEMMA CancelInvariance ==
  ASSUME W!WqAssumption, Delayed = {} \/ N = 1
  PROVE  W!Spec => [](WInv /\ CInv)
<1>1. W!Init => WInv /\ CInv
  BY InitWInv, InitCInv
<1>2. (WInv /\ CInv) /\ [W!Next]_(W!vars) => (WInv /\ CInv)'
  BY NextWInv, NextCInv
<1> QED
  BY <1>1, <1>2, PTL DEF W!Spec

\* try_to_grab_pending(): whoever has stolen a work has its PENDING bit alone; no
\* timer, no list, no worker that has yet to clear it and no other canceller has
\* it.  A work that is armed with a timer on several CPUs is the exception, as the
\* run workqueue_rearm shows.
THEOREM CancelOwnsTheBit ==
  ASSUME Delayed = {} \/ N = 1
  PROVE  W!Spec => []CancelOwnsBit
<1> USE ThreadsAssumption
<1>1. WInv /\ CInv => CancelOwnsBit
  <2> SUFFICES ASSUME WInv, CInv, NEW t \in Tasks, W!Owns(t)
               PROVE  /\ pending[arg[t]] /\ ins[arg[t]] = "none" /\ ~W!Listed(arg[t])
                      /\ \A u \in Tasks \ {t} : W!Owns(u) => arg[u] # arg[t]
    BY DEF CancelOwnsBit, W!CancelOwnsBit
  <2>1. PICK w \in Works : arg[t] = w
    BY DEF W!Owns, WInv, WCallInv, CallOf, WTypes
  <2>2. /\ pending[w] /\ ins[w] = "none" /\ \A c \in WCpus : w \notin Elems(worklist[c])
        /\ \A u \in Tasks : W!Owns(u) /\ arg[u] = w => u = t
    BY <2>1 DEF CInv, OwnInv, OwnOf
  <2>3. ~W!Listed(w)
    BY WHyp, WList, <2>2 DEF W!Listed
  <2> QED
    BY <2>1, <2>2, <2>3
<1>2. W!Spec => [](WInv /\ CInv)
  BY CancelInvariance
<1> QED
  BY <1>1, <1>2, PTL

\* When cancel_work_sync() is about to clear the bit and return, the work is queued
\* nowhere and runs on no CPU, however often it was queued again meanwhile: a CPU
\* on which it has been waited for cannot get it back, since the bit is taken.
THEOREM CancelledIsIdle ==
  ASSUME Delayed = {} \/ N = 1
  PROVE  W!Spec => []CancelMeansIdle
<1> USE ThreadsAssumption
<1>1. WInv /\ CInv => CancelMeansIdle
  <2> SUFFICES ASSUME WInv, CInv, NEW t \in Tasks, pc[t] = "clear"
               PROVE  W!Instances(arg[t]) = {} /\ ins[arg[t]] = "none"
    BY DEF CancelMeansIdle, W!CancelMeansIdle
  <2>1. W!Owns(t)
    BY DEF CInv, SeenInv, SeenOf
  <2>2. PICK w \in Works : arg[t] = w
    BY <2>1 DEF W!Owns, WInv, WCallInv, CallOf, WTypes
  <2>3. ins[w] = "none" /\ \A c \in WCpus : w \notin Elems(worklist[c])
    BY <2>1, <2>2 DEF CInv, OwnInv, OwnOf
  <2>4. \A c \in WCpus : ~Active(c, w)
    BY <2>1, <2>2 DEF CInv, SeenInv, SeenOf, Active
  <2>5. \A c \in WCpus : current_work[c] = w => wk[c] = "ran"
    BY WHyp, <2>4 DEF Active, WInv, WorkerInv
  <2>6. W!Instances(w) = {}
    BY WHyp, WList, <2>3, <2>5 DEF W!Instances
  <2> QED
    BY <2>2, <2>3, <2>6
<1>2. W!Spec => [](WInv /\ CInv)
  BY CancelInvariance
<1> QED
  BY <1>1, <1>2, PTL
=============================================================================
