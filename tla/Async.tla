------------------------------- MODULE Async --------------------------------
(***************************************************************************)
(* kernel/async.c: asynchronous function calls.                            *)
(*                                                                         *)
(* Every call gets a cookie and waits on one list for a thread; running it *)
(* is on the list of its domain.  Synchronizing waits until the lowest     *)
(* cookie of a domain on the two lists is high enough.  Threads are started *)
(* by a manager that compares two counters without a lock, and leave by    *)
(* themselves when they had nothing to do for a second.  When memory is    *)
(* short the caller runs the call itself; it has a cookie but is on no list. *)
(*                                                                         *)
(* The domain "main" is async_running.  Threads stay alive until they time *)
(* out; kthread_should_stop() is never set for them.                       *)
(***************************************************************************)
EXTENDS Integers, Sequences, FiniteSets, WaitList

CONSTANTS
  Domains,      \* lists for running calls; "main" is one
  Threads,      \* identities of async_thread()s
  Callers,      \* contexts that schedule
  Syncers,      \* tasks that synchronize
  MAX_THREADS,
  MaxCookie     \* bound: cookies given out

AsyncAssumption ==
  /\ "main" \in Domains /\ IsFiniteSet(Threads)
  /\ MAX_THREADS \in Nat \ {0} /\ MaxCookie \in Nat

VARIABLES
  next_cookie, async_pending, running, entry_count, thread_count,
  domain,              \* domain of each cookie on a list
  cpc,                 \* callers
  called, cdom,        \* the cookie and domain of the call a caller runs itself
  th, mine, tsleepy,   \* threads: where, their entry, TASK_INTERRUPTIBLE set
  mpc, tc, ec, msleepy,  \* the manager and its locals
  spc, cookie, dom, full, ssleepy,  \* synchronizers and their arguments
  limit                \* history: next_cookie when the call began

lists == <<next_cookie, async_pending, running, domain>>
avars == <<cpc, called, cdom>>
counts == <<entry_count, thread_count>>
tvars == <<th, mine, tsleepy>>
mvars == <<mpc, tc, ec, msleepy>>
svars == <<spc, cookie, dom, full, ssleepy, limit>>
vars == <<lists, counts, avars, tvars, mvars, svars>>

Init ==
  /\ next_cookie = 1 /\ async_pending = <<>> /\ running = [d \in Domains |-> <<>>]
  /\ domain = [c \in 1..MaxCookie |-> "main"] /\ entry_count = 0 /\ thread_count = 0
  /\ cpc = [a \in Callers |-> "idle"]
  /\ called = [a \in Callers |-> 0] /\ cdom = [a \in Callers |-> "main"]
  /\ th = [i \in Threads |-> "none"] /\ mine = [i \in Threads |-> 0] /\ tsleepy = [i \in Threads |-> FALSE]
  /\ mpc = "set" /\ tc = 0 /\ ec = 0 /\ msleepy = FALSE
  /\ spc = [s \in Syncers |-> "idle"] /\ cookie = [s \in Syncers |-> 1]
  /\ dom = [s \in Syncers |-> "main"] /\ full = [s \in Syncers |-> FALSE]
  /\ ssleepy = [s \in Syncers |-> FALSE] /\ limit = [s \in Syncers |-> 1]

-----------------------------------------------------------------------------
(* __async_schedule().                                                     *)

Schedule(a, d) ==
  /\ cpc[a] = "idle" /\ next_cookie <= MaxCookie
  /\ next_cookie' = next_cookie + 1
  /\ async_pending' = list_add_tail(async_pending, next_cookie)
  /\ domain' = [domain EXCEPT ![next_cookie] = d]
  /\ entry_count' = entry_count + 1
  /\ cpc' = [cpc EXCEPT ![a] = "wake"]
  /\ UNCHANGED <<running, thread_count, called, cdom, tvars, mvars, svars>>

\* wake_up(&async_new): every thread and the manager are on that queue.
WakeNew(a) ==
  /\ cpc[a] = "wake"
  /\ cpc' = [cpc EXCEPT ![a] = "idle"]
  /\ tsleepy' = [i \in Threads |-> FALSE] /\ msleepy' = FALSE
  /\ UNCHANGED <<lists, counts, called, cdom, th, mine, mpc, tc, ec, svars>>

\* Out of memory or too many entries: the cookie is taken under the lock, and the
\* function called here, without it and for as long as it takes.
CallHere(a, d) ==
  /\ cpc[a] = "idle" /\ next_cookie <= MaxCookie
  /\ next_cookie' = next_cookie + 1
  /\ cpc' = [cpc EXCEPT ![a] = "func"]
  /\ called' = [called EXCEPT ![a] = next_cookie] /\ cdom' = [cdom EXCEPT ![a] = d]
  /\ UNCHANGED <<async_pending, running, domain, counts, tvars, mvars, svars>>

\* It returns, and nobody is woken.
CallReturns(a) ==
  /\ cpc[a] = "func"
  /\ cpc' = [cpc EXCEPT ![a] = "idle"]
  /\ called' = [called EXCEPT ![a] = 0] /\ cdom' = [cdom EXCEPT ![a] = "main"]
  /\ UNCHANGED <<lists, counts, tvars, mvars, svars>>

-----------------------------------------------------------------------------
(* async_thread() and run_one_entry().                                     *)

ThGoto(i, l) == th' = [th EXCEPT ![i] = l]

ThSet(i) ==
  /\ th[i] = "set"
  /\ tsleepy' = [tsleepy EXCEPT ![i] = TRUE] /\ ThGoto(i, "test")
  /\ UNCHANGED <<lists, counts, avars, mine, mvars, svars>>

\* list_empty(&async_pending) without the lock
ThTest(i) ==
  /\ th[i] = "test"
  /\ ThGoto(i, IF list_empty(async_pending) THEN "sleep" ELSE "take")
  /\ UNCHANGED <<lists, counts, avars, mine, tsleepy, mvars, svars>>

\* list_move_tail() to the running list of the entry's domain
Moved_Head(list, c) == <<c>> \o list
Moved(list, c) == list_add_tail(list, c)

ThTake(i) ==
  /\ th[i] = "take"
  /\ IF list_empty(async_pending) THEN ThGoto(i, "set") /\ UNCHANGED <<async_pending, running, mine>>
     ELSE LET c == list_first_entry(async_pending) IN
          /\ async_pending' = Tail(async_pending)
          /\ running' = [running EXCEPT ![domain[c]] = Moved(@, c)]
          /\ mine' = [mine EXCEPT ![i] = c] /\ ThGoto(i, "func")
  /\ UNCHANGED <<next_cookie, domain, counts, avars, tsleepy, mvars, svars>>

\* The function has returned: list_del(), atomic_dec().
ThDone(i) ==
  LET c == mine[i] IN
  /\ th[i] = "func"
  /\ running' = [running EXCEPT ![domain[c]] = list_del(@, c)]
  /\ domain' = [domain EXCEPT ![c] = "main"]   \* kfree(): as it was
  /\ entry_count' = entry_count - 1
  /\ mine' = [mine EXCEPT ![i] = 0] /\ ThGoto(i, "wake")
  /\ UNCHANGED <<next_cookie, async_pending, thread_count, avars, tsleepy, mvars, svars>>

\* wake_up(&async_done)
wake_up_done_Not == ssleepy
wake_up_done == [s \in Syncers |-> FALSE]
ThWake(i) ==
  /\ th[i] = "wake"
  /\ ssleepy' = wake_up_done /\ ThGoto(i, "set")
  /\ UNCHANGED <<lists, counts, avars, mine, tsleepy, mvars, spc, cookie, dom, full, limit>>

\* schedule_timeout(): woken, or nothing for a second.
ThWoken(i) ==
  /\ th[i] = "sleep" /\ ~tsleepy[i] /\ ThGoto(i, "set")
  /\ UNCHANGED <<lists, counts, avars, mine, tsleepy, mvars, svars>>
ThTimeout(i) ==
  /\ th[i] = "sleep" /\ ThGoto(i, "last")
  /\ thread_count' = thread_count - 1
  /\ UNCHANGED <<lists, entry_count, avars, mine, tsleepy, mvars, svars>>

\* The last-straw check, after the counter has been decremented.
Redundant_Unchecked == TRUE
Redundant == list_empty(async_pending)

ThLast(i) ==
  /\ th[i] = "last"
  /\ ThGoto(i, IF Redundant THEN "none" ELSE "stay")
  /\ tsleepy' = [tsleepy EXCEPT ![i] = FALSE]   \* RUNNING since the timeout
  /\ UNCHANGED <<lists, counts, avars, mine, mvars, svars>>

\* There is work after all: counted again.
ThStay(i) ==
  /\ th[i] = "stay" /\ ThGoto(i, "set")
  /\ thread_count' = thread_count + 1
  /\ UNCHANGED <<lists, entry_count, avars, mine, tsleepy, mvars, svars>>

-----------------------------------------------------------------------------
(* async_manager_thread().                                                 *)

MgrSet ==
  /\ mpc = "set" /\ mpc' = "tc" /\ msleepy' = TRUE
  /\ UNCHANGED <<lists, counts, avars, tvars, tc, ec, svars>>
MgrReadTc ==
  /\ mpc = "tc" /\ mpc' = "ec" /\ tc' = thread_count
  /\ UNCHANGED <<lists, counts, avars, tvars, ec, msleepy, svars>>
MgrReadEc ==
  /\ mpc = "ec" /\ mpc' = "loop" /\ ec' = entry_count
  /\ UNCHANGED <<lists, counts, avars, tvars, tc, msleepy, svars>>

NeedsThread == tc < ec /\ tc < MAX_THREADS

\* kthread_run(); it sleeps, and so leaves the manager's state RUNNING.  When it
\* fails, msleep() does the same.
MgrCreate(i) ==
  /\ mpc = "loop" /\ NeedsThread /\ th[i] = "none"
  /\ th' = [th EXCEPT ![i] = "set"] /\ mpc' = "inc" /\ msleepy' = FALSE
  /\ UNCHANGED <<lists, counts, avars, mine, tsleepy, tc, ec, svars>>
MgrFails ==
  /\ mpc = "loop" /\ NeedsThread /\ msleepy
  /\ msleepy' = FALSE
  /\ UNCHANGED <<lists, counts, avars, tvars, mpc, tc, ec, svars>>
MgrCount ==
  /\ mpc = "inc" /\ mpc' = "loop"
  /\ thread_count' = thread_count + 1 /\ tc' = tc + 1
  /\ UNCHANGED <<lists, entry_count, avars, tvars, ec, msleepy, svars>>

\* schedule(): until a wake-up has come since the state was set.
MgrSchedule ==
  /\ mpc = "loop" /\ ~NeedsThread /\ ~msleepy
  /\ mpc' = "set" /\ tc' = 0 /\ ec' = 0
  /\ UNCHANGED <<lists, counts, avars, tvars, msleepy, svars>>

-----------------------------------------------------------------------------
(* Synchronizing.                                                          *)

\* __lowest_in_progress()
OfDomain(d) == {k \in 1..Len(async_pending) : domain[async_pending[k]] = d}
lowest_in_progress(d) ==
  IF ~list_empty(running[d]) THEN list_first_entry(running[d])
  ELSE IF OfDomain(d) = {} THEN next_cookie
  ELSE async_pending[CHOOSE k \in OfDomain(d) : \A j \in OfDomain(d) : k <= j]

SGoto(s, l) == spc' = [spc EXCEPT ![s] = l]

\* async_synchronize_cookie_domain() with a cookie that was given out, or for a
\* full synchronization with the next one.
Synchronize(s, c, d) ==
  /\ spc[s] = "idle" /\ c <= next_cookie /\ SGoto(s, "test")
  /\ cookie' = [cookie EXCEPT ![s] = c] /\ dom' = [dom EXCEPT ![s] = d]
  /\ limit' = [limit EXCEPT ![s] = c]
  /\ UNCHANGED <<lists, counts, avars, tvars, mvars, full, ssleepy>>

\* async_synchronize_full()
SynchronizeFull(s) ==
  /\ spc[s] = "idle" /\ SGoto(s, "test")
  /\ cookie' = [cookie EXCEPT ![s] = next_cookie] /\ limit' = [limit EXCEPT ![s] = next_cookie]
  /\ full' = [full EXCEPT ![s] = TRUE]
  /\ UNCHANGED <<lists, counts, avars, tvars, mvars, dom, ssleepy>>

\* wait_event(async_done, ...): the condition, first without being queued ...
SyncTest(s) ==
  /\ spc[s] = "test"
  /\ IF lowest_in_progress(dom[s]) < cookie[s]
     THEN SGoto(s, "sleep") /\ UNCHANGED ssleepy
     ELSE /\ SGoto(s, IF full[s] THEN "running" ELSE "return")
          /\ ssleepy' = [ssleepy EXCEPT ![s] = FALSE]   \* finish_wait()
  /\ UNCHANGED <<lists, counts, avars, tvars, mvars, cookie, dom, full, limit>>

\* ... then after prepare_to_wait(), each time it was woken.
SyncPrepare(s) ==
  /\ spc[s] = "sleep" /\ ~ssleepy[s] /\ SGoto(s, "test")
  /\ ssleepy' = [ssleepy EXCEPT ![s] = TRUE]
  /\ UNCHANGED <<lists, counts, avars, tvars, mvars, cookie, dom, full, limit>>

\* async_synchronize_full(): look at the two lists, one after the other, without
\* a lock, and begin again with a new cookie if one is not empty.
Again(s, list, l) ==
  IF list_empty(list) THEN SGoto(s, l) /\ UNCHANGED cookie
  ELSE SGoto(s, "test") /\ cookie' = [cookie EXCEPT ![s] = next_cookie]
FullRunning(s) ==
  /\ spc[s] = "running" /\ Again(s, running["main"], "pending")
  /\ UNCHANGED <<lists, counts, avars, tvars, mvars, dom, full, ssleepy, limit>>
FullPending(s) ==
  /\ spc[s] = "pending" /\ Again(s, async_pending, "return")
  /\ UNCHANGED <<lists, counts, avars, tvars, mvars, dom, full, ssleepy, limit>>

SyncReturn(s) ==
  /\ spc[s] = "return" /\ SGoto(s, "idle")
  /\ cookie' = [cookie EXCEPT ![s] = 1] /\ dom' = [dom EXCEPT ![s] = "main"]
  /\ full' = [full EXCEPT ![s] = FALSE] /\ limit' = [limit EXCEPT ![s] = 1]
  /\ UNCHANGED <<lists, counts, avars, tvars, mvars, ssleepy>>

-----------------------------------------------------------------------------
Thread(i) == \/ ThSet(i) \/ ThTest(i) \/ ThTake(i) \/ ThDone(i) \/ ThWake(i) \/ ThWoken(i)
             \/ ThLast(i) \/ ThStay(i)
Manager == \/ MgrSet \/ MgrReadTc \/ MgrReadEc \/ MgrCount \/ MgrSchedule
           \/ \E i \in Threads : MgrCreate(i)
Sync(s) == SyncTest(s) \/ SyncPrepare(s) \/ FullRunning(s) \/ FullPending(s) \/ SyncReturn(s)

Next ==
  \/ Manager \/ MgrFails
  \/ \E i \in Threads : Thread(i) \/ ThTimeout(i)
  \/ \E a \in Callers : \/ WakeNew(a) \/ CallReturns(a)
                        \/ \E d \in Domains : Schedule(a, d) \/ CallHere(a, d)
  \/ \E s \in Syncers : Sync(s) \/ SynchronizeFull(s)
                        \/ \E c \in 1..MaxCookie+1, d \in Domains : Synchronize(s, c, d)

Spec == Init /\ [][Next]_vars

-----------------------------------------------------------------------------
(* Properties.                                                             *)

\* The calls of a domain that are not done: pending or running on a thread, and
\* those that their callers run.
InProgress(d) == {async_pending[k] : k \in OfDomain(d)} \cup Elems(running[d])
CalledHere(d) == {called[a] : a \in {b \in Callers : cpc[b] = "func" /\ cdom[b] = d}}
NotDone(d) == InProgress(d) \cup CalledHere(d)

\* The type of every variable; the counters count: entries exactly, threads but
\* for those that are signing off or not yet counted.
TypeOK ==
  /\ next_cookie \in 1..MaxCookie+1 /\ IsWaitList(async_pending, 1..MaxCookie)
  /\ \A a \in Callers : called[a] \in 0..next_cookie-1
  /\ \A d \in Domains : IsWaitList(running[d], 1..MaxCookie)
  /\ entry_count = Cardinality(UNION {InProgress(d) : d \in Domains})
  /\ thread_count = Cardinality({i \in Threads : th[i] \notin {"none", "last", "stay"}})
                      - (IF mpc = "inc" THEN 1 ELSE 0)

\* When a synchronization returns, every call of its domain with a lower cookie is
\* done, although calls end out of order and others keep coming, unless its own
\* caller runs it for want of memory: such a call is on no list.
SyncIsDone ==
  \A s \in Syncers : spc[s] = "return" =>
    \A c \in NotDone(dom[s]) : c < limit[s] => c \in CalledHere(dom[s]) \ InProgress(dom[s])

\* async.c:275-277 has no such exception: it "waits until all asynchronous function
\* calls for the synchronization domain ... submitted prior to @cookie have been
\* done".
SyncCoversAll ==
  \A s \in Syncers : spc[s] = "return" => \A c \in NotDone(dom[s]) : c >= limit[s]

\* A pending call is not left to sleepers: once wake_up(&async_new) is over, a
\* thread is up or the manager is, also while a thread that the manager counts on
\* signs off.
NoCallForgotten ==
  async_pending # <<>> /\ (\A a \in Callers : cpc[a] # "wake") =>
    \/ \E i \in Threads : th[i] \notin {"none", "sleep"} \/ (th[i] = "sleep" /\ ~tsleepy[i])
    \/ mpc # "loop" \/ NeedsThread \/ ~msleepy

\* A synchronizer does not sleep on when what it waits for is done, unless the
\* thread that was the last to finish is about to wake it.
NoSyncForgotten ==
  \A s \in Syncers :
    spc[s] = "sleep" /\ ssleepy[s] /\ lowest_in_progress(dom[s]) >= cookie[s] =>
      \E i \in Threads : th[i] = "wake"
=============================================================================
