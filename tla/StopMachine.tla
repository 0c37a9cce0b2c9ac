----------------------------- MODULE StopMachine ----------------------------
(***************************************************************************)
(* kernel/stop_machine.c: stop every CPU, run a function on some of them,  *)
(* let them go.                                                            *)
(*                                                                         *)
(* A stopper thread on every online CPU walks through the same states in   *)
(* lock-step.  Nobody coordinates them: whoever acknowledges a state last  *)
(* resets the counter and then publishes the next state, while the others  *)
(* are already spinning on it.                                             *)
(*                                                                         *)
(* The function may be take_cpu_down() of kernel/cpu.c, which takes a CPU  *)
(* off the online map in the middle of the procedure (CPU hotplug is an    *)
(* option that the OCTEON defconfig leaves off).  The workqueue the        *)
(* stoppers run on is its promise: a queued work runs on its CPU, at a     *)
(* priority that does not let the interrupted task go on.                  *)
(***************************************************************************)
EXTENDS Naturals, FiniteSets, FiniteSetsExt

CONSTANTS
  Users,  \* tasks that call stop_machine(), or create, run and destroy
  None,   \* "no user"
  NCpu    \* the number of CPUs

StopAssumption == IsFiniteSet(Users) /\ None \notin Users /\ NCpu \in Nat \ {0}

CPUs == 1..NCpu

\* enum stopmachine_state
NONE == 0
PREPARE == 1
DISABLE_IRQ == 2
RUN == 3
EXIT == 4

VARIABLES
  refcount, wq,           \* users of the workqueue; does it (and its work) exist
  lock,                   \* the mutex 'lock': the user inside __stop_machine()
  upc,                    \* where a user is
  ucpu, todo,             \* the CPU the user inside runs on; CPUs not yet queued to
  online,                 \* cpu_online_mask
  state, thread_ack, num_threads,
  active_cpus, take_down, \* the CPUs to run fn on ({}: any); is fn take_cpu_down
  fnret,                  \* active.fnret is an error
  spc,                    \* where the stopper of a CPU is
  curstate, active, irqs, \* its curstate, smdata = &active, interrupts enabled
  round, ran, failed      \* history: CPUs stopped, CPUs that ran fn, did one fail

uvars == <<refcount, wq, lock, upc, ucpu, todo>>
svars == <<spc, curstate, active, irqs>>
gvars == <<state, thread_ack, num_threads>>
fvars == <<active_cpus, take_down, round>>
vars == <<uvars, svars, gvars, fvars, online, fnret, ran, failed>>

Init ==
  /\ refcount = 0 /\ wq = FALSE /\ lock = None
  /\ upc = [u \in Users |-> "idle"]
  /\ ucpu = 1 /\ todo = {} /\ online = CPUs
  /\ state = NONE /\ thread_ack = 0 /\ num_threads = 0
  /\ active_cpus = {} /\ take_down = FALSE /\ fnret = FALSE
  /\ spc = [k \in CPUs |-> "none"]
  /\ curstate = [k \in CPUs |-> NONE]
  /\ active = [k \in CPUs |-> FALSE]
  /\ irqs = [k \in CPUs |-> TRUE]
  /\ round = {} /\ ran = {} /\ failed = FALSE

-----------------------------------------------------------------------------
(* Users.  setup_lock makes create and destroy one step each.              *)

\* stop_machine_create(): the first one allocates, which may fail.
stop_machine_create(u) ==
  /\ upc[u] = "idle"
  /\ \/ /\ refcount' = refcount + 1 /\ wq' = TRUE
        /\ upc' = [upc EXCEPT ![u] = "ready"]
     \/ refcount = 0 /\ wq' = FALSE /\ UNCHANGED <<refcount, upc>>
  /\ UNCHANGED <<lock, ucpu, todo, svars, gvars, fvars, online, fnret, ran, failed>>

\* stop_machine_destroy(): the last one frees.
stop_machine_destroy(u) ==
  /\ upc[u] = "ready"
  /\ upc' = [upc EXCEPT ![u] = "idle"]
  /\ refcount' = refcount - 1
  /\ wq' = (wq /\ refcount # 1)
  /\ UNCHANGED <<lock, ucpu, todo, svars, gvars, fvars, online, fnret, ran, failed>>

\* __stop_machine() up to get_cpu(): fn on some CPUs or on any one, or
\* take_cpu_down() on one that is not the last and not the caller's.
Begin(u) ==
  /\ upc[u] = "ready" /\ lock = None
  /\ lock' = u
  /\ upc' = [upc EXCEPT ![u] = "queue"]
  /\ ucpu' \in online
  /\ active_cpus' \in SUBSET online
  /\ take_down' \in BOOLEAN
  /\ take_down' => Cardinality(active_cpus') = 1 /\ ucpu' \notin active_cpus'
  /\ num_threads' = Cardinality(online)
  /\ thread_ack' = num_threads' /\ state' = PREPARE
  /\ todo' = online /\ round' = online
  /\ fnret' = FALSE /\ ran' = {} /\ failed' = FALSE
  /\ UNCHANGED <<refcount, wq, svars, online>>

\* The stopper of CPU k keeps everything else off its CPU.
Stopping(k) == spc[k] \notin {"none", "queued"}

\* for_each_online_cpu(): INIT_WORK() and queue_work_on(); put_cpu() at the end.
Queue(u) ==
  /\ lock = u /\ upc[u] = "queue" /\ ~Stopping(ucpu)
  /\ spc' = [spc EXCEPT ![Min(todo)] = "queued"]
  /\ todo' = todo \ {Min(todo)}
  /\ upc' = IF todo' = {} THEN [upc EXCEPT ![u] = "flush"] ELSE upc
  /\ UNCHANGED <<refcount, wq, lock, ucpu, curstate, active, irqs, gvars, fvars,
                 online, fnret, ran, failed>>

\* flush_workqueue() returns, and so does __stop_machine().
Flush(u) ==
  /\ lock = u /\ upc[u] = "flush"
  /\ \A k \in CPUs : spc[k] = "none"
  /\ lock' = None
  /\ upc' = [upc EXCEPT ![u] = "ready"]
  /\ UNCHANGED <<refcount, wq, ucpu, todo, svars, gvars, fvars, online, fnret, ran, failed>>

\* cpu_up(): CPU hotplug is locked against __stop_machine().
CpuUp(k) ==
  /\ k \notin online /\ lock = None
  /\ online' = online \cup {k}
  /\ UNCHANGED <<uvars, svars, gvars, fvars, fnret, ran, failed>>

-----------------------------------------------------------------------------
(* stop_cpu() on CPU k.                                                    *)

\* get_cpu(): the caller of __stop_machine() keeps its CPU while it queues.
Held_Not(k) == FALSE
Held(k) == lock # None /\ upc[lock] = "queue" /\ ucpu = k

\* Does fn run here, or chill()?
RunsFn(k) == IF active_cpus = {} THEN k = Min(online) ELSE k \in active_cpus

Start(k) ==
  /\ spc[k] = "queued" /\ ~Held(k)
  /\ spc' = [spc EXCEPT ![k] = "loop"]
  /\ curstate' = [curstate EXCEPT ![k] = NONE]
  /\ active' = [active EXCEPT ![k] = RunsFn(k)]
  /\ UNCHANGED <<uvars, irqs, gvars, fvars, online, fnret, ran, failed>>

\* A new state: do what it asks for.
See(k) ==
  /\ spc[k] = "loop" /\ state # curstate[k]
  /\ curstate' = [curstate EXCEPT ![k] = state]
  /\ irqs' = [irqs EXCEPT ![k] = @ /\ state # DISABLE_IRQ]
  /\ spc' = [spc EXCEPT ![k] = IF state = RUN THEN "run" ELSE "ack"]
  /\ UNCHANGED <<uvars, active, gvars, fvars, online, fnret, ran, failed>>

\* active.fnret after one more call of fn.
NewRet_Last(err) == err
NewRet(err) == fnret \/ err

\* fn, which may fail, or chill() returns.
RunEnds(k) ==
  /\ spc[k] = "run"
  /\ spc' = [spc EXCEPT ![k] = "ack"]
  /\ \/ ~active[k] /\ UNCHANGED <<online, fnret, ran, failed>>
     \/ /\ active[k]
        /\ ran' = ran \cup {k}
        /\ \E err \in BOOLEAN :
             /\ fnret' = NewRet(err)
             /\ failed' = (failed \/ err)
             /\ online' = IF take_down /\ ~err THEN online \ {k} ELSE online
  /\ UNCHANGED <<uvars, curstate, active, irqs, gvars, fvars>>

\* The end of the loop body: leave after STOPMACHINE_EXIT.
LoopEnd(k) == [spc EXCEPT ![k] = IF curstate[k] = EXIT THEN "exit" ELSE "loop"]

LastAck_Early(n) == n <= 1
LastAck(n) == n = 0

\* ack_state(): atomic_dec_and_test().
Ack(k) ==
  /\ spc[k] = "ack"
  /\ thread_ack' = thread_ack - 1
  /\ spc' = IF LastAck(thread_ack') THEN [spc EXCEPT ![k] = "set_ack"] ELSE LoopEnd(k)
  /\ UNCHANGED <<uvars, curstate, active, irqs, state, num_threads, fvars, online, fnret, ran, failed>>

\* set_state() by the last one: the counter first, then the state.
SetAck(k) ==
  /\ spc[k] = "set_ack"
  /\ thread_ack' = num_threads
  /\ spc' = [spc EXCEPT ![k] = "set_state"]
  /\ UNCHANGED <<uvars, curstate, active, irqs, state, num_threads, fvars, online, fnret, ran, failed>>

SetState(k) ==
  /\ spc[k] = "set_state"
  /\ state' = state + 1
  /\ spc' = LoopEnd(k)
  /\ UNCHANGED <<uvars, curstate, active, irqs, thread_ack, num_threads, fvars, online, fnret, ran, failed>>

\* local_irq_enable(); the work is done.
Exit(k) ==
  /\ spc[k] = "exit"
  /\ spc' = [spc EXCEPT ![k] = "none"]
  /\ irqs' = [irqs EXCEPT ![k] = TRUE]
  /\ UNCHANGED <<uvars, curstate, active, gvars, fvars, online, fnret, ran, failed>>

UserStep(u) == Queue(u) \/ Flush(u)
StopperStep(k) == Start(k) \/ See(k) \/ RunEnds(k) \/ Ack(k) \/ SetAck(k) \/ SetState(k) \/ Exit(k)

Next ==
  \/ \E u \in Users : stop_machine_create(u) \/ stop_machine_destroy(u) \/ Begin(u) \/ UserStep(u)
  \/ \E k \in CPUs : CpuUp(k) \/ StopperStep(k)

Spec == Init /\ [][Next]_vars

\* The stoppers have the highest priority; the user inside is scheduled when
\* they are gone; fn returns.
Fairness ==
  /\ \A u \in Users : WF_vars(UserStep(u))
  /\ \A k \in CPUs : WF_vars(StopperStep(k))

FairSpec == Spec /\ Fairness

-----------------------------------------------------------------------------
(* Properties.                                                             *)

\* The type of every variable; in particular the state machine does not run on
\* past the state after STOPMACHINE_EXIT and the counter not below zero.
TypeOK ==
  /\ refcount \in 0..Cardinality(Users) /\ wq \in BOOLEAN
  /\ lock \in Users \cup {None}
  /\ upc \in [Users -> {"idle", "ready", "queue", "flush"}]
  /\ ucpu \in CPUs /\ todo \subseteq CPUs /\ online \subseteq CPUs
  /\ state \in NONE..EXIT+1 /\ thread_ack \in 0..NCpu /\ num_threads \in 0..NCpu
  /\ active_cpus \subseteq CPUs /\ {take_down, fnret, failed} \subseteq BOOLEAN
  /\ spc \in [CPUs -> {"none", "queued", "loop", "run", "ack", "set_ack", "set_state", "exit"}]
  /\ curstate \in [CPUs -> NONE..EXIT]
  /\ active \in [CPUs -> BOOLEAN] /\ irqs \in [CPUs -> BOOLEAN]
  /\ round \subseteq CPUs /\ ran \subseteq CPUs

\* While fn runs anywhere, every CPU is in its stopper with interrupts off,
\* and has not begun to leave.
Frozen ==
  (\E k \in CPUs : spc[k] = "run" /\ active[k]) =>
     \A j \in round : Stopping(j) /\ ~irqs[j] /\ curstate[j] \in {DISABLE_IRQ, RUN}

\* When flush_workqueue() lets __stop_machine() go, fn has run on the CPUs asked
\* for and nowhere else, and its result tells whether any of them failed.
RanWhereAsked ==
  \A u \in Users : upc[u] = "flush" /\ (\A k \in CPUs : spc[k] = "none") =>
    /\ IF active_cpus = {} THEN Cardinality(ran) = 1 ELSE ran = active_cpus
    /\ fnret = failed

\* The lock-step ends: everybody who stops the machine gets it going again.
MachineRestarts == \A u \in Users : lock = u ~> lock # u
=============================================================================
