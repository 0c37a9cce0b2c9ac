-------------------------------- MODULE Srcu --------------------------------
(***************************************************************************)
(* kernel/srcu.c: sleepable RCU.                                           *)
(*                                                                         *)
(* A reader counts itself in one of two ranks of per-CPU counters, on the  *)
(* CPU it happens to run on, and may leave on another one.                 *)
(* synchronize_srcu() flips new readers to the other rank and waits until  *)
(* the counters of the old rank, added up one CPU after the other, come to *)
(* zero.                                                                   *)
(*                                                                         *)
(* srcu_read_lock() and srcu_read_unlock() have no memory barrier: what    *)
(* the reader reads in its critical section may be read before the counter *)
(* is raised and after it is lowered, but not outside of the sections that *)
(* run with preemption off.  So a reader counts as inside from preempt_    *)
(* disable() in the one to preempt_enable() in the other, and              *)
(* synchronize_sched() (RCU, by its contract) waits for the sections with  *)
(* preemption off that it finds.                                           *)
(***************************************************************************)
EXTENDS Integers, FiniteSets, Functions

CONSTANTS
  Readers,   \* tasks that call srcu_read_lock()
  Updaters,  \* tasks that call synchronize_srcu()
  None,      \* "no updater"
  NCpu,      \* the number of possible CPUs
  Wrap,      \* sp->completed is counted modulo Wrap: 2^32 in the code
  CWrap      \* so are the counters and their sum modulo CWrap: 2^32 too

ASSUME SrcuAssumption ==
  /\ IsFiniteSet(Readers)
  /\ None \notin Updaters
  /\ NCpu \in Nat \ {0}
  /\ Wrap \in Nat \ {0} /\ Wrap % 2 = 0
  /\ CWrap \in Nat /\ Cardinality(Readers) < CWrap

CPUs == 1..NCpu

VARIABLES
  alive,      \* sp->per_cpu_ref is allocated
  completed,  \* sp->completed
  c,          \* c[i][cpu]: the counter of rank i on a CPU
  mutex,      \* sp->mutex: the updater that holds it
  rpc,        \* where a reader is
  rcpu,       \* the CPU a reader has preemption off on, or 0
  ridx,       \* the index srcu_read_lock() uses and returns
  upc,        \* where an updater is in synchronize_srcu()
  uidx,       \* its idx
  cpu, sum,   \* the loop of srcu_readers_active_idx()
  wait,       \* the readers its synchronize_sched() still waits for
  pre         \* history: readers inside since before the call

rvars == <<rpc, rcpu, ridx>>
uvars == <<upc, uidx, cpu, sum>>
vars == <<alive, completed, c, mutex, rvars, uvars, wait, pre>>

\* The CPUs where preemption is off, as a set of readers.
NonPreempt == {r \in Readers : rcpu[r] # 0}

Init ==
  /\ alive = TRUE /\ completed = 0
  /\ c = [i \in 0..1 |-> [k \in CPUs |-> 0]]
  /\ mutex = None
  /\ rpc = [r \in Readers |-> "out"]
  /\ rcpu = [r \in Readers |-> 0]
  /\ ridx = [r \in Readers |-> 0]
  /\ upc = [u \in Updaters |-> "idle"]
  /\ uidx = [u \in Updaters |-> 0]
  /\ cpu = [u \in Updaters |-> 1]
  /\ sum = [u \in Updaters |-> 0]
  /\ wait = [u \in Updaters |-> {}]
  /\ pre = [u \in Updaters |-> {}]

-----------------------------------------------------------------------------
(* Readers.                                                                *)

preempt_disable(r) ==
  \E k \in CPUs : k \notin Range(rcpu) /\ rcpu' = [rcpu EXCEPT ![r] = k]

preempt_enable(r) ==
  /\ rcpu' = [rcpu EXCEPT ![r] = 0]
  /\ wait' = [u \in Updaters |-> wait[u] \ {r}]

\* srcu_read_lock() begins; reads of the critical section may come this early.
ReadEnter(r) ==
  /\ alive /\ rpc[r] = "out"
  /\ preempt_disable(r)
  /\ rpc' = [rpc EXCEPT ![r] = "enter"]
  /\ UNCHANGED <<alive, completed, c, mutex, ridx, uvars, wait, pre>>

\* idx = sp->completed & 0x1
Sample(r) ==
  /\ rpc[r] = "enter"
  /\ rpc' = [rpc EXCEPT ![r] = "sampled"]
  /\ ridx' = [ridx EXCEPT ![r] = completed % 2]
  /\ UNCHANGED <<alive, completed, c, mutex, rcpu, uvars, wait, pre>>

\* c[idx]++ on this CPU; srcu_read_lock() returns.
Count(r) ==
  /\ rpc[r] = "sampled"
  /\ rpc' = [rpc EXCEPT ![r] = "in"]
  /\ c' = [c EXCEPT ![ridx[r]][rcpu[r]] = (@ + 1) % CWrap]
  /\ preempt_enable(r)
  /\ UNCHANGED <<alive, completed, mutex, ridx, uvars, pre>>

\* The idx that srcu_read_unlock() is given.
UnlockIdx(r) == ridx[r]

\* srcu_read_unlock() up to c[idx]-- on the CPU it runs on.  Reads of the
\* critical section may still be under way.
Uncount(r) ==
  /\ rpc[r] = "in"
  /\ preempt_disable(r)
  /\ rpc' = [rpc EXCEPT ![r] = "leave"]
  /\ c' = [c EXCEPT ![UnlockIdx(r)][rcpu'[r]] = (@ - 1) % CWrap]
  /\ UNCHANGED <<alive, completed, mutex, ridx, uvars, wait, pre>>

\* srcu_read_unlock() returns.
ReadExit(r) ==
  /\ rpc[r] = "leave"
  /\ preempt_enable(r)
  /\ rpc' = [rpc EXCEPT ![r] = "out"]
  /\ ridx' = [ridx EXCEPT ![r] = 0]
  /\ pre' = [u \in Updaters |-> pre[u] \ {r}]
  /\ UNCHANGED <<alive, completed, c, mutex, uvars>>

-----------------------------------------------------------------------------
(* synchronize_srcu().                                                     *)

\* What an int difference of two values of sp->completed is.
Signed(n) == IF n % Wrap < Wrap \div 2 THEN n % Wrap ELSE (n % Wrap) - Wrap

synchronize_sched(u) == wait' = [wait EXCEPT ![u] = NonPreempt]

Goto(u, l) == upc' = [upc EXCEPT ![u] = l]

\* The call and the first look at sp->completed, without the mutex.
Call(u) ==
  /\ alive /\ upc[u] = "idle"
  /\ Goto(u, "lock")
  /\ uidx' = [uidx EXCEPT ![u] = completed]
  /\ pre' = [pre EXCEPT ![u] = {r \in Readers : rpc[r] # "out"}]
  /\ UNCHANGED <<alive, completed, c, mutex, rvars, cpu, sum, wait>>

\* Has somebody else done the work while we waited for the mutex?
DoneForUs_One(u) == Signed(completed - uidx[u]) >= 1
DoneForUs(u) == Signed(completed - uidx[u]) >= 2

Return(u) == /\ Goto(u, "idle")
             /\ uidx' = [uidx EXCEPT ![u] = 0]

\* mutex_lock(), then the early exit or the first synchronize_sched().
Lock(u) ==
  /\ upc[u] = "lock" /\ mutex = None
  /\ \/ DoneForUs(u) /\ Return(u) /\ UNCHANGED <<mutex, wait>>
     \/ /\ ~DoneForUs(u)
        /\ mutex' = u
        /\ synchronize_sched(u)
        /\ Goto(u, "sync1") /\ UNCHANGED uidx
  /\ UNCHANGED <<alive, completed, c, rvars, cpu, sum, pre>>

\* The rank in use until now is the one to wait for.
OldRank_New == (completed + 1) % 2
OldRank == completed % 2

\* The flip, then the second synchronize_sched().
Flip(u) ==
  /\ upc[u] = "sync1" /\ wait[u] = {}
  /\ uidx' = [uidx EXCEPT ![u] = OldRank]
  /\ completed' = (completed + 1) % Wrap
  /\ synchronize_sched(u)
  /\ Goto(u, "sync2")
  /\ UNCHANGED <<alive, c, mutex, rvars, cpu, sum, pre>>

\* srcu_readers_active_idx() begins.
Scan(u) ==
  /\ upc[u] = "sync2" /\ wait[u] = {}
  /\ Goto(u, "scan")
  /\ UNCHANGED <<alive, completed, c, mutex, rvars, uidx, cpu, sum, wait, pre>>

\* One turn of for_each_possible_cpu().  At the last CPU: once more, after a while, or on to
\* the third synchronize_sched().
ScanCpu(u) ==
  LET s == (sum[u] + c[uidx[u]][cpu[u]]) % CWrap IN
  /\ upc[u] = "scan"
  /\ \/ /\ cpu[u] < NCpu
        /\ sum' = [sum EXCEPT ![u] = s]
        /\ cpu' = [cpu EXCEPT ![u] = @ + 1]
        /\ UNCHANGED <<upc, wait>>
     \/ /\ cpu[u] = NCpu
        /\ sum' = [sum EXCEPT ![u] = 0]
        /\ cpu' = [cpu EXCEPT ![u] = 1]
        /\ IF s # 0 THEN UNCHANGED <<upc, wait>>
                    ELSE Goto(u, "sync3") /\ synchronize_sched(u)
  /\ UNCHANGED <<alive, completed, c, mutex, rvars, uidx, pre>>

\* mutex_unlock() and return.
Unlock(u) ==
  /\ upc[u] = "sync3" /\ wait[u] = {}
  /\ mutex' = None
  /\ Return(u)
  /\ UNCHANGED <<alive, completed, c, rvars, cpu, sum, wait, pre>>

-----------------------------------------------------------------------------
(* The life of the structure.  Callers clean up when nobody uses it.       *)

srcu_readers_active_idx(i) == FoldFunction(+, 0, c[i]) % CWrap
srcu_readers_active ==
  (srcu_readers_active_idx(0) + srcu_readers_active_idx(1)) % CWrap

cleanup_srcu_struct ==
  /\ alive
  /\ \A r \in Readers : rpc[r] = "out"
  /\ \A u \in Updaters : upc[u] = "idle"
  /\ alive' = (srcu_readers_active # 0)
  /\ UNCHANGED <<completed, c, mutex, rvars, uvars, wait, pre>>

\* alloc_percpu() returns zeroed counters (or none: then nothing changes).
init_srcu_struct ==
  /\ ~alive
  /\ alive' = TRUE /\ completed' = 0 /\ mutex' = None
  /\ c' = [i \in 0..1 |-> [k \in CPUs |-> 0]]
  /\ UNCHANGED <<rvars, uvars, wait, pre>>

Next ==
  \/ \E r \in Readers : ReadEnter(r) \/ Sample(r) \/ Count(r) \/ Uncount(r) \/ ReadExit(r)
  \/ \E u \in Updaters : Call(u) \/ Lock(u) \/ Flip(u) \/ Scan(u) \/ ScanCpu(u) \/ Unlock(u)
  \/ cleanup_srcu_struct \/ init_srcu_struct

Spec == Init /\ [][Next]_vars

\* Readers leave their critical sections some day, and the holder of the mutex
\* is scheduled.  Nothing is assumed of new readers or of other updaters.
Fairness ==
  /\ \A r \in Readers :
       WF_vars(Sample(r)) /\ WF_vars(Count(r)) /\ WF_vars(Uncount(r)) /\ WF_vars(ReadExit(r))
  /\ \A u \in Updaters :
       WF_vars(Flip(u)) /\ WF_vars(Scan(u)) /\ WF_vars(ScanCpu(u)) /\ WF_vars(Unlock(u))

FairSpec == Spec /\ Fairness

-----------------------------------------------------------------------------
(* Properties.                                                             *)

\* The type of every variable.
TypeOK ==
  /\ alive \in BOOLEAN /\ completed \in 0..Wrap-1
  /\ c \in [0..1 -> [CPUs -> 0..CWrap-1]]
  /\ mutex \in Updaters \cup {None}
  /\ rpc \in [Readers -> {"out", "enter", "sampled", "in", "leave"}]
  /\ rcpu \in [Readers -> {0} \cup CPUs]
  /\ ridx \in [Readers -> 0..1]
  /\ upc \in [Updaters -> {"idle", "lock", "sync1", "sync2", "scan", "sync3"}]
  /\ uidx \in [Updaters -> 0..Wrap-1]
  /\ cpu \in [Updaters -> CPUs]
  /\ sum \in [Updaters -> 0..CWrap-1]
  /\ wait \in [Updaters -> SUBSET Readers]
  /\ pre \in [Updaters -> SUBSET Readers]

\* synchronize_srcu() has returned: every reader that was inside when it was
\* called has left, also when another updater did the work, and although the
\* reader's accesses may stray out of its section.
GracePeriod == \A u \in Updaters : upc[u] = "idle" => pre[u] = {}

\* An updater inside synchronize_srcu() gets through, however many new readers
\* keep coming.
GracePeriodEnds ==
  \A u \in Updaters : upc[u] \notin {"idle", "lock"} ~> upc[u] = "idle"
=============================================================================
