------------------------------ MODULE Kthread -------------------------------
(***************************************************************************)
(* kernel/kthread.c: creating and stopping kernel threads.                 *)
(*                                                                         *)
(* kthread_create() leaves a request on its own stack for kthreadd, which  *)
(* forks the thread; the thread copies the request and reports back before *)
(* it goes to sleep until it is started.  kthread_stop() raises a flag on  *)
(* the thread's stack, wakes it and waits for its exit, unless it sees     *)
(* that the thread has exited by itself.                                   *)
(*                                                                         *)
(* A thread is named by its creator, who has one at a time.  A completion  *)
(* is a flag: complete() holds its lock until it is done with it, so the   *)
(* waiter cannot return half-way.  Between do_exit() and the completion of *)
(* vfork_done (kernel/exit.c, kernel/fork.c) the order of the steps counts. *)
(***************************************************************************)
EXTENDS Sequences, WaitList

CONSTANTS Creators, Nobody  \* tasks that create threads; "no request"

ASSUME KthreadAssumption == Nobody \notin Creators

VARIABLES
  kthread_create_list,  \* named by the creators
  kpc, kstate,          \* kthreadd: where it is; is it in TASK_INTERRUPTIBLE
  create,               \* the request it works on
  cpc,                  \* where a creator is
  done, result,         \* its kthread_create_info
  woken,                \* history: has it called wake_up_process() on the thread it has
  tpc, sleeping,        \* where a thread is; is it in TASK_UNINTERRUPTIBLE
  should_stop, exited,  \* its struct kthread
  vfork_done,           \* does tsk->vfork_done point to it
  ret, exit_code        \* what the thread ends with; tsk->exit_code

dvars == <<kthread_create_list, kpc, kstate, create>>
cvars == <<cpc, done, result, woken>>
tvars == <<tpc, sleeping, should_stop, exited, vfork_done, ret, exit_code>>
vars == <<dvars, cvars, tvars>>

Code == {"unset", "0", "-EINTR", "-ERR"}

Init ==
  /\ kthread_create_list = <<>> /\ kpc = "set" /\ kstate = FALSE /\ create = Nobody
  /\ cpc = [c \in Creators |-> "idle"]
  /\ done = [c \in Creators |-> FALSE]
  /\ result = [c \in Creators |-> "unset"]
  /\ woken = [c \in Creators |-> FALSE]
  /\ tpc = [c \in Creators |-> "dead"]
  /\ sleeping = [c \in Creators |-> FALSE]
  /\ should_stop = [c \in Creators |-> FALSE]
  /\ exited = [c \in Creators |-> FALSE]
  /\ vfork_done = [c \in Creators |-> FALSE]
  /\ ret = [c \in Creators |-> "unset"]
  /\ exit_code = [c \in Creators |-> "unset"]

-----------------------------------------------------------------------------
(* Creators.                                                               *)

Go(c, l) == cpc' = [cpc EXCEPT ![c] = l]

\* kthread_create(): the request is on the list, kthreadd not yet woken.
kthread_create(c) ==
  /\ cpc[c] = "idle" /\ tpc[c] = "dead"
  /\ Go(c, "listed")
  /\ done' = [done EXCEPT ![c] = FALSE]
  /\ result' = [result EXCEPT ![c] = "unset"]
  /\ kthread_create_list' = list_add_tail(kthread_create_list, c)
  /\ UNCHANGED <<kpc, kstate, create, woken, tvars>>

\* wake_up_process(kthreadd_task): TASK_INTERRUPTIBLE no more
WakeKthreadd(c) ==
  /\ cpc[c] = "listed"
  /\ Go(c, "waiting")
  /\ kstate' = FALSE
  /\ UNCHANGED <<kthread_create_list, kpc, create, done, result, woken, tvars>>

\* wait_for_completion() returns, and kthread_create() with it: the request is
\* no more.
Created(c) ==
  /\ cpc[c] = "waiting" /\ done[c]
  /\ Go(c, IF result[c] = "task" THEN "created" ELSE "idle")
  /\ done' = [done EXCEPT ![c] = FALSE]
  /\ result' = [result EXCEPT ![c] = "unset"]
  /\ UNCHANGED <<dvars, woken, tvars>>

\* The creator starts its thread with wake_up_process().
Start(c) ==
  /\ cpc[c] = "created" /\ ~woken[c]
  /\ woken' = [woken EXCEPT ![c] = TRUE]
  /\ sleeping' = [sleeping EXCEPT ![c] = FALSE]
  /\ UNCHANGED <<dvars, cpc, done, result, tpc, should_stop, exited, vfork_done, ret, exit_code>>

\* Nobody will stop a thread that ends by itself.
Detach(c) ==
  /\ cpc[c] = "created" /\ woken[c]
  /\ Go(c, "idle")
  /\ woken' = [woken EXCEPT ![c] = FALSE]
  /\ UNCHANGED <<dvars, done, result, tvars>>

\* kthread_stop(): has it exited?
StopTest(c) ==
  /\ cpc[c] = "created"
  /\ Go(c, IF vfork_done[c] THEN "flag" ELSE "code")
  /\ UNCHANGED <<dvars, done, result, woken, tvars>>

\* kthread->should_stop = 1
StopFlag(c) ==
  /\ cpc[c] = "flag"
  /\ Go(c, "wake")
  /\ should_stop' = [should_stop EXCEPT ![c] = TRUE]
  /\ UNCHANGED <<dvars, done, result, woken, tpc, sleeping, exited, vfork_done, ret, exit_code>>

StopWake(c) ==
  /\ cpc[c] = "wake"
  /\ Go(c, "exit")
  /\ sleeping' = [sleeping EXCEPT ![c] = FALSE]
  /\ UNCHANGED <<dvars, done, result, woken, tpc, should_stop, exited, vfork_done, ret, exit_code>>

\* wait_for_completion(&kthread->exited)
ExitSeen_Always(c) == TRUE
ExitSeen(c) == exited[c]

StopWait(c) ==
  /\ cpc[c] = "exit" /\ ExitSeen(c)
  /\ Go(c, "code")
  /\ UNCHANGED <<dvars, done, result, woken, tvars>>

\* ret = k->exit_code, and return.
StopReturn(c) ==
  /\ cpc[c] = "code"
  /\ Go(c, "idle")
  /\ woken' = [woken EXCEPT ![c] = FALSE]
  /\ UNCHANGED <<dvars, done, result, tvars>>

-----------------------------------------------------------------------------
(* kthreadd.                                                               *)

\* set_current_state(TASK_INTERRUPTIBLE)
SetState ==
  /\ kpc = "set" /\ kpc' = "test"
  /\ kstate' = TRUE
  /\ UNCHANGED <<kthread_create_list, create, cvars, tvars>>

\* list_empty() without the lock
TestList ==
  /\ kpc = "test"
  /\ kpc' = IF list_empty(kthread_create_list) THEN "schedule" ELSE "serve"
  /\ UNCHANGED <<kthread_create_list, kstate, create, cvars, tvars>>

\* schedule() returns.
Wakes ==
  /\ kpc = "schedule" /\ ~kstate
  /\ kpc' = "serve"
  /\ UNCHANGED <<kthread_create_list, kstate, create, cvars, tvars>>

\* The head of the inner loop, TASK_RUNNING from here on.
Serve ==
  /\ kpc = "serve"
  /\ kstate' = FALSE
  /\ IF list_empty(kthread_create_list)
     THEN kpc' = "set" /\ UNCHANGED <<kthread_create_list, create>>
     ELSE /\ kpc' = "fork"
          /\ create' = list_first_entry(kthread_create_list)
          /\ kthread_create_list' = list_del(kthread_create_list, create')
  /\ UNCHANGED <<cvars, tvars>>

\* Does create_kthread() complete the request itself?
CompletesHere_Always(err) == TRUE
CompletesHere(err) == err

\* create_kthread(): kernel_thread() may fail.
create_kthread ==
  /\ kpc = "fork" /\ kpc' = "serve"
  /\ create' = Nobody
  /\ \E err \in BOOLEAN :
       /\ result' = IF err THEN [result EXCEPT ![create] = "error"] ELSE result
       /\ done' = [done EXCEPT ![create] = CompletesHere(err)]
       /\ tpc' = IF err THEN tpc ELSE [tpc EXCEPT ![create] = "born"]
  /\ UNCHANGED <<kthread_create_list, kstate, cpc, woken, sleeping, should_stop,
                 exited, vfork_done, ret, exit_code>>

-----------------------------------------------------------------------------
(* The thread.                                                             *)

\* kthread() up to __set_current_state(): it copies the creator's request.
Born(c) ==
  /\ tpc[c] = "born"
  /\ tpc' = [tpc EXCEPT ![c] = "report"]
  /\ should_stop' = [should_stop EXCEPT ![c] = FALSE]
  /\ exited' = [exited EXCEPT ![c] = FALSE]
  /\ vfork_done' = [vfork_done EXCEPT ![c] = TRUE]
  /\ sleeping' = [sleeping EXCEPT ![c] = TRUE]
  /\ exit_code' = [exit_code EXCEPT ![c] = "unset"]
  /\ ret' = [ret EXCEPT ![c] = "unset"]
  /\ UNCHANGED <<dvars, cvars>>

\* create->result = current; complete(&create->done)
Report(c) ==
  /\ tpc[c] = "report"
  /\ tpc' = [tpc EXCEPT ![c] = "schedule"]
  /\ result' = [result EXCEPT ![c] = "task"]
  /\ done' = [done EXCEPT ![c] = TRUE]
  /\ UNCHANGED <<dvars, cpc, woken, sleeping, should_stop, exited, vfork_done, ret, exit_code>>

\* schedule() returns; threadfn() is called, or ret stays -EINTR.
Woken(c) ==
  /\ tpc[c] = "schedule" /\ ~sleeping[c]
  /\ IF should_stop[c]
     THEN tpc' = [tpc EXCEPT ![c] = "do_exit"] /\ ret' = [ret EXCEPT ![c] = "-EINTR"]
     ELSE tpc' = [tpc EXCEPT ![c] = "threadfn"] /\ UNCHANGED ret
  /\ UNCHANGED <<dvars, cvars, sleeping, should_stop, exited, vfork_done, exit_code>>

\* threadfn() returns, because it was asked to or by itself.
FnReturns(c) ==
  /\ tpc[c] = "threadfn"
  /\ tpc' = [tpc EXCEPT ![c] = "do_exit"]
  /\ \E r \in {"0", "-ERR"} : ret' = [ret EXCEPT ![c] = r]
  /\ UNCHANGED <<dvars, cvars, sleeping, should_stop, exited, vfork_done, exit_code>>

\* do_exit(): tsk->exit_code = code, then exit_mm() and mm_release().
ExitCode(c) ==
  /\ tpc[c] = "do_exit"
  /\ tpc' = [tpc EXCEPT ![c] = "release"]
  /\ exit_code' = [exit_code EXCEPT ![c] = ret[c]]
  /\ UNCHANGED <<dvars, cvars, sleeping, should_stop, exited, vfork_done, ret>>

\* mm_release(): the pointer is cleared before the waiter is told.
ClearVfork(c) ==
  /\ tpc[c] = "release"
  /\ tpc' = [tpc EXCEPT ![c] = "complete"]
  /\ vfork_done' = [vfork_done EXCEPT ![c] = FALSE]
  /\ UNCHANGED <<dvars, cvars, sleeping, should_stop, exited, ret, exit_code>>

\* complete(vfork_done)
Told_Not == FALSE
Told == TRUE

Complete(c) ==
  /\ tpc[c] = "complete"
  /\ tpc' = [tpc EXCEPT ![c] = "dead"]
  /\ exited' = [exited EXCEPT ![c] = Told]
  /\ UNCHANGED <<dvars, cvars, sleeping, should_stop, vfork_done, ret, exit_code>>

Kthreadd == SetState \/ TestList \/ Wakes \/ Serve \/ create_kthread
CreateStep(c) == WakeKthreadd(c) \/ Created(c)
StopStep(c) == StopFlag(c) \/ StopWake(c) \/ StopWait(c) \/ StopReturn(c)
ThreadStep(c) == Born(c) \/ Report(c) \/ Woken(c) \/ ExitCode(c) \/ ClearVfork(c) \/ Complete(c)

Next ==
  \/ Kthreadd
  \/ \E c \in Creators :
       \/ kthread_create(c) \/ Start(c) \/ Detach(c) \/ StopTest(c)
       \/ CreateStep(c) \/ StopStep(c) \/ ThreadStep(c) \/ FnReturns(c)

Spec == Init /\ [][Next]_vars

-----------------------------------------------------------------------------
(* Properties.                                                             *)

\* The type of every variable; ret is never used uninitialised.
TypeOK ==
  /\ IsWaitList(kthread_create_list, Creators)
  /\ kpc \in {"set", "test", "schedule", "serve", "fork"} /\ kstate \in BOOLEAN
  /\ create \in Creators \cup {Nobody}
  /\ cpc \in [Creators -> {"idle", "listed", "waiting", "created", "flag", "wake", "exit", "code"}]
  /\ result \in [Creators -> {"unset", "task", "error"}]
  /\ tpc \in [Creators -> {"dead", "born", "report", "schedule", "threadfn", "do_exit",
                            "release", "complete"}]
  /\ {done, woken, sleeping, should_stop, exited, vfork_done} \subseteq [Creators -> BOOLEAN]
  /\ ret \in [Creators -> Code] /\ exit_code \in [Creators -> Code]
  /\ \A c \in Creators : tpc[c] \in {"do_exit", "release", "complete"} => ret[c] # "unset"

\* Whoever can still reach a kthread_create_info, through the list, kthreadd's
\* local variable or the argument of the new thread, does so while its creator
\* is inside kthread_create(): the structure is on the creator's stack.
CreateInfoLive ==
  \A c \in Creators :
    \/ c \in Elems(kthread_create_list)
    \/ create = c
    \/ tpc[c] \in {"born", "report"}
    => cpc[c] \in {"listed", "waiting"} /\ ~done[c]

\* kthread_stop() returns what the thread has ended with, whether it exited by
\* itself, at the same time or because of the flag.  That is -EINTR for a thread
\* that was never started, and otherwise only if the flag was raised before the
\* thread had got to threadfn().
StopReturnsCode ==
  \A c \in Creators : cpc[c] = "code" =>
    /\ exit_code[c] = ret[c] /\ ret[c] # "unset"
    /\ ~woken[c] => ret[c] = "-EINTR"
    /\ ret[c] = "-EINTR" => should_stop[c]

\* kthread.c:164-165: "Returns the result of threadfn(), or -EINTR if
\* wake_up_process() was never called".
EintrMeansNeverWoken ==
  \A c \in Creators : cpc[c] = "code" /\ exit_code[c] = "-EINTR" => ~woken[c]

\* kthread_create() and kthread_stop() return.
CallsReturn ==
  \A c \in Creators :
    cpc[c] \in {"listed", "waiting", "flag", "wake", "exit", "code"} ~> cpc[c] \in {"created", "idle"}
=============================================================================
