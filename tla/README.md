# The synchronisation core of the OCTEON Linux kernel in TLA+

The repository is Linux 2.6.32.13 for Cavium OCTEON (`src/linux`). This project
models its synchronisation core: the code that puts tasks to sleep, wakes them,
hands resources and work from one to the other and waits until everybody has
passed a point. It is small, almost everything else is built on it, and what can
be wrong in it is a matter of a few instructions on two CPUs, which tests hardly
reach.

The code is read as `arch/mips/configs/cavium-octeon_defconfig` builds it: SMP,
no kernel preemption, no mutex or lock debugging, `RWSEM_GENERIC_SPINLOCK`
(`lib/rwsem-spinlock.c`), and the mutex fast path of
`include/asm-generic/mutex-dec.h`. Paths below are relative to `src/linux`.

## 1. Inventory

| Component | State | Operations | What is hard | What makes it correct |
|---|---|---|---|---|
| Counting semaphore, `kernel/semaphore.c` | count, lock, wait list, one waiter with an `up` flag on each waiting stack | `down`, `down_interruptible`, `down_killable`, `down_timeout`, `down_trylock`, `up` | a grant, a signal and a timeout for the same sleep; a wake-up before `schedule()` | units are conserved, no dangling waiter, no lost wake-up, no starvation |
| Reader/writer semaphore, `lib/rwsem-spinlock.c` | activity, wait lock, wait list, one waiter with `task` and `flags` on each waiting stack | down and trylock for reading and writing, `up_read`, `up_write`, `downgrade_write` | the waiter sees its grant without the lock and its frame dies before it is woken; readers run while others are still being let in | writers exclude, activity counts the holders, nobody is forgotten, tasks are pinned while referred to |
| Mutex, `kernel/mutex.c` | count, owner, wait lock, wait list | lock (three ways to sleep), trylock, unlock, optimistic spinning, `atomic_dec_and_mutex_lock()` | lock-free changes of the count against the slow paths; barging; owner not atomic with the count | exclusion, the owner field is truthful, waiters are not forgotten |
| Wait lists, `include/linux/list.h` | the list | add at the tail, delete, test, first | an entry lives on the stack of its task | nobody linked twice |
| Scheduler and signals, `kernel/sched.c`, `kernel/signal.c` | task states, pending signals | `schedule`, wake-ups, signals, timers | a wake-up races with going to sleep | contract only, see `TaskWake` |
| Completions, `kernel/sched.c` | `done`, wait list | `complete`, `complete_all`, `wait_for_completion*`, `try_wait_for_completion` | the woken waiter was also hit by a signal or its timeout; a newcomer takes what it was woken for | somebody is awake for every completion that is left |
| Wait queues, `kernel/wait.c` | hashed queue, bits | prepare, finish, abort, wake functions, wait and lock a bit | an exclusive waiter that gives up has swallowed a wake-up; several bits on one queue | a free bit with waiters has somebody who will look |
| Workqueues, `kernel/workqueue.c` | work lists, current work, PENDING bits, barriers on stacks | queue, delay, run, flush (all or one), cancel | the work is queued again, on another CPU, while it runs, is flushed or is cancelled; its list is found without its lock | cancelled means idle, flushed means handled, barriers do not dangle, flushes return |
| Kernel threads, `kernel/kthread.c` | request list, request on the creator's stack, stop flag on the thread's stack | create, kthreadd, thread, stop | the thread exits by itself, or was never started | structures are used while they live, the right exit code, calls return |
| SRCU, `kernel/srcu.c` | two ranks of per-CPU counters, `completed`, mutex | read lock and unlock, synchronize, init, cleanup | counters are added up one after the other while readers move; early exit on a wrapping number | a grace period waits for all who were inside, and ends |
| `kernel/stop_machine.c` | state, acknowledgements, users | create, destroy, stop, stopper threads | everyone waits on everyone; CPUs leave in the middle | the function runs while all are stopped; all go on afterwards |
| `kernel/kfifo.c` | `in`, `out`, buffer | put, get, reset, length | indices wrap; no lock for one writer and one reader | a bounded queue of bytes |
| `kernel/async.c` | cookies, pending and running lists, threads | schedule, run, manage, synchronize | calls end out of order; threads leave while work arrives; counters read without a lock | a synchronizer waits for every earlier call; nobody is left behind |
| MIPS ticket lock, `arch/mips/include/asm/spinlock.h` | ticket and serving halves | lock, trylock, unlock | a half store between load-linked and store-conditional; tickets wrap | exclusion, first come first served |
| fsnotify groups and marks, `fs/notify/group.c`, `inode_mark.c` | reference counts, lists of groups and marks | obtain, find, put, add, clear by group, clear by inode, event | torn down from two sides while events walk the list under SRCU | no use after free, everything freed once |
| OCTEON IPI, `arch/mips/cavium-octeon/smp.c`, `kernel/smp.c` | mailbox, call queues | send, handle, wait | lost or merged interrupts | not modelled, next in the plan |
| RCU, rtmutex, futex, softirq, mm, fs, net, drivers | | | | not modelled; clients of the core, hardware, or too large |

How they interact. A lock links a waiter of the calling task on its list,
publishes a sleeping state and calls `schedule()`; the releaser takes the waiter
from the list and calls `wake_up_process()`. Signals and timers wake the same
task without knowing of the lock; all modules that sleep take this from
`TaskWake`. Spinlocks inside the components are the ticket lock, which is why
their liveness may use that whoever keeps asking gets them. Workqueues wait for
barriers, and kthreads for threads, with completions; SRCU holds a mutex while
it waits; fsnotify takes the mutex in `atomic_dec_and_mutex_lock()` and relies on
the grace period of SRCU; stop_machine runs its stoppers on a workqueue. Each
component is modelled on the promise of the one below, never on its inside.

`PROJECT.json` lists the components, the lines each definition models, the runs,
and the hazards with the properties that would catch them.

## 2. Plan

1. (done) `Semaphore`, `RwSem`, `Mutex`, with `AbstractSemaphore` as what two of
   them promise, and their proofs.
2. (done) `atomic_dec_and_mutex_lock()` with its client `fs/notify/group.c`, on
   an abstract mutex and SRCU; completions and wait queues.
3. (done) `kernel/workqueue.c`, `kernel/kthread.c`.
4. (done) `kernel/srcu.c`, `kernel/stop_machine.c`, `kernel/async.c`.
5. (done) `kernel/kfifo.c` as an implementation of `AbstractFifo`; the MIPS ticket
   lock and its proofs.
6. (left) The OCTEON mailbox with the call queues of `kernel/smp.c`; the
   reader/writer spinlocks of `asm/spinlock.h`; creating and destroying
   workqueues, `flush_delayed_work()` and `cancel_delayed_work()`.
7. (done) Proofs of every safety invariant and of every refinement that a run
   checks: kernel threads, asynchronous calls, workqueues, completions, bit waits,
   stop_machine, SRCU, fsnotify groups, the fifo.

## 3. Modules

- `TaskWake`: task states, which signal ends which sleep, and what a wake-up, a
  signal and `schedule()` do to a task's state. It is the contract of the
  scheduler, not a model of it.
- `WaitList`: the list operations, as operations on a sequence.
  `WaitListTheorems`: what they do to any list, and to the order of a list in
  which an entry may be linked twice; and, for counters that wrap, what is the
  same modulo a number.
- `AbstractSemaphore`: units are available or held; acquire, release, post.
  `AbstractFifo`: a bounded queue; put, get, reset.
- One module for each component: `Semaphore`, `RwSem`, `Mutex`, `Completion`,
  `WaitBit` (wait queues), `Workqueue`, `Kthread`, `Srcu`, `StopMachine`, `Kfifo`,
  `Async`, `TicketLock`, `FsnotifyGroup`.
- `SemaphoreProofs`, `RwSemProofs`, `MutexProofs` (with `FsnotifyGroup`),
  `TicketLockProofs` (with `Kfifo`), `WaitQueueProofs` (`WaitBit`, `Completion`),
  `QuiescenceProofs` (`Srcu`, `StopMachine`) and `ThreadProofs` (`Kthread`, `Async`,
  `Workqueue`): theorems.
- `MCMutex` (with `FsnotifyGroup`), `MCTicketLock` (with `Kfifo`), `MCWaitQueues`
  (`WaitBit` and `Completion`) and `MCQuiescence` (`Srcu` and `StopMachine`) put
  two components into one run. Those two share no state; `part`, chosen at the
  start, says which of them moves, so the states add up and do not multiply.
  `MCThreads` (`Kthread`, `Async`, `Workqueue`) does the same for five runs; the
  constant `Parts` says which of the three a run is about, the others have no
  tasks in it, and the module adds the fairness of those it is about.
  `Semaphore` and `RwSem` are checked as they are.

Definitions whose name ends in a suffix such as `_Not` are mutants: the
definition of the same name with a plausible mistake. They are used by no
specification; a property that no mutant violates would say nothing.

### State and actions

A task has a program counter `pc`. Where code runs under a spinlock and nobody
else can see it half-way, it is one step; where another CPU can see it, it is
several, and the lock is then a variable that names the task inside.

*Semaphore.* `Down*` are the whole of the calls up to the first sleep:
`DownFast` takes a unit, `DownSlow` queues and enters the loop (`WaitLoop`: leave
on a signal or when the time is over, otherwise stay). `SetStateAndUnlock`,
`Schedule`, `Resume` and then `RecheckGranted` or `RecheckAgain` are one turn of
the loop. `Up` is the body of `up()`; `Release` is a call by a holder and `Post`
one by somebody who never called `down()`, as the comment at
`kernel/semaphore.c:171` allows. `held` is a history variable. The timeout is
`max`, `left` or `zero`; `TimerExpires` brings it to zero.

*RwSem.* `DownRead`/`DownWrite` take the lock or `Enqueue`; `Check` looks at
`waiter.task` without the lock, `Schedule`, `Resume` and `SetState` are the rest
of the loop. A release is `UpRead`, `UpWrite` or `DowngradeWrite` up to the
moment the first `waiter->task` is cleared, then one `WakeUp` for each task let
in: wake it, drop the reference, clear the next one or finish. `refs` counts the
references waiters hold on tasks. `UpRead` gives the semaphore to the first
waiter as a writer's without asking, as the code does; that it is a writer is
proved, not assumed.

*Mutex.* Every atomic operation on the count is a step: `LockFast`
(decrement), `SpinTry` and `fastpath_trylock` (cmpxchg), `Enqueue` and `WaitLoop`
(exchange, with `wait_lock`), `Done` (set to 0), `UnlockFast` (increment),
`UnlockSlow` (set to 1). Setting and clearing the owner are steps of their own.
`SpinOnOwner` may give up at any time, since whether the owner runs is the
scheduler's business. `__mutex_trylock_slowpath()` is never called with
`mutex-dec.h` and is left out.

*FsnotifyGroup.* `FastDec` is the `atomic_add_unless()` of
`atomic_dec_and_mutex_lock()`, `SlowDec` its second half under the mutex together
with what the caller does there. `Sync` waits for the readers that were inside
(`EventBegin`, `EventVisit`, `EventEnd`), then the marks are torn down one by one
(`DestroyMark`), which `ClearByInode` may do at the same time from the other
side. `frees` counts how often a group was freed.

*Completion.* `Wait` is the call up to the first sleep, then the loop as for the
semaphore; `complete` adds one to `done` and wakes the first waiter that it finds
asleep, without taking it off the list. The count wraps at `Wrap`.

*WaitBit.* `Unlock`, `WakeTest` (is the queue empty, without its lock) and
`WakeUp` (take the lock) are the waker, which then goes down the queue one entry
per step: `ScanNext` skips the entries of other bits or wakes the task, `Unlink`
and `UnlinkInit` are the two halves of `list_del_init()`, and the way ends
(`ScanEnd`) after one exclusive waiter. The waiter is `Prepare`, `Test`, `Schedule`,
`Resume`, `LoopEnd`, then `Abort`, or `finish_wait()`: `FinishTest` looks at the
entry without the lock (`list_empty_careful()`, which sees an entry that is only
half unlinked as linked) and `FinishUnlink` takes the lock if it has to. A task
woken by `ScanNext` runs on before its entry is unlinked.

*Workqueue.* A work goes through setting the bit (`Queue`, `QueueDelayed`,
`TimerFires`), `InsertData` (under the lock of the chosen CPU) and `InsertAdd`. The
worker is `Prepare`, `Test`, `Scheduled`, `Take` (off the list), `ClearPending`,
`RunEnds`. Cancelling is `DelTimer`, `TestBit`, `ReadData`, `LockListed`, then `Grab`
or `GrabFails`, for as many rounds as it takes, then `WaitOnCpu` for each CPU and
`CancelClear`. Flushing a work or the workqueue inserts the barrier of the task.
`owed` is a history variable: the instances that were there when a flush began.

*Kthread.* `kthread_create`, `WakeKthreadd`, `Created` for the creator; `SetState`,
`TestList`, `Wakes`, `Serve`, `create_kthread` for kthreadd; `Born`, `Report`,
`Woken`, `FnReturns`, `ExitCode`, `ClearVfork`, `Complete` for the thread; `StopTest`
to `StopReturn` for `kthread_stop()`. A thread that its creator never stops is
detached (`Detach`) or stopped before it was started.

*Srcu.* A reader samples `completed`, raises a counter of its CPU, leaves on any
CPU. Since the read side has no barrier, it counts as inside from the moment
preemption goes off to the moment it is on again (see the head of the module);
`synchronize_sched()` stands for RCU by its contract: it waits for the sections
with preemption off that it finds. `Flip`, `Scan` and `ScanCpu` (one CPU at a time) are the updater,
`Lock` with its early exit when two others have passed.

*StopMachine.* `Begin`, `Queue` (one CPU at a time), `Flush` are the caller;
`Start`, `See`, `RunEnds`, `Ack`, `SetAck`, `SetState`, `Exit` the stopper of a CPU:
resetting the counter and publishing the state are two stores, and two steps.

*Kfifo.* One byte is a step, the index is stored at the end. Indices wrap at
`Wrap`, a multiple of the size. With `UseLock` the calls exclude each other, and
`GetEnd` sets the indices of an empty fifo to 0 before it drops the lock. The
history `moved` is what the last put or get has copied: `AbstractFifo` says that
it is appended to the queue, or taken from its front.

*Async.* Callers add an entry and wake (`Schedule`, `WakeNew`) or, without memory
or with too many entries, take a cookie and run the call themselves, on no list
and for as long as it takes (`CallHere`, `CallReturns`); threads take, run, wake and time out; the manager
reads the two counters one after the other and starts threads; synchronizers
compare `lowest_in_progress` with their cookie. `limit` remembers which calls a
synchronizer has to wait for.

*TicketLock.* Load-linked and store-conditional are two steps; a link is lost by
any write to the word (`Retry` also for no reason). `Unlock` stores to one half.
`order` is a history variable: the CPUs in the order in which they drew.

`SendSignal`, `HandleSignal`, `TimerExpires` and `StrayWakeup` are what happens
to a task from outside. A stray wake-up (one meant for an earlier sleep) may
come in any sleep; all the sleepers loop because of it.

Memory is sequentially consistent: the code's `smp_mb()` and the barriers in
`set_task_state()` and the atomic operations are taken to do their work. The one
exception is the read side of SRCU, which has none.

## 4. Runs

| Run | Instance | What it shows |
|---|---|---|
| `semaphore` | 2 tasks, 1 unit, at most 2 | no unit in the count while somebody waits; refinement of `AbstractSemaphore`; no starvation |
| `rwsem` | 3 tasks | exclusion; activity counts holders; nobody forgotten; tasks pinned; no starvation of readers or writers |
| `rwsem_is_locked` | 2 tasks | violated, see below |
| `mutex` | 2 tasks; 3 owners, 2 groups, 1 mark | exclusion; owner; no forgotten waiter; refinement; starvation only by barging. No fsnotify group is used after it was freed; each one that was on the list is freed once |
| `wrapping_words` | 2 CPUs, tickets modulo 3; fifo of 4 bytes, indices modulo 8, calls for up to 5 bytes | the spinlock serves in the order of the tickets, its predicates are right, everybody is served; the fifo implements `AbstractFifo` with and without the lock |
| `wait_queues` | 3 tasks, 2 bits on one queue; 3 tasks on a completion that wraps at 4 | the queue is the live waiters; a free bit has somebody who looks; nobody sleeps through a completion |
| `deferred_calls` | async: 2 domains, 2 threads, 2 callers, 1 synchronizer, 2 cookies; workqueue: 1 work, 2 CPUs, 2 tasks | a synchronizer returns after all earlier calls of its domain that are on a list; no call and no synchronizer is left to sleepers. A canceller owns the bit; cancelled means idle; barriers are alive; a flush handles all that was there |
| `kernel_threads` | kthread: 2 creators; workqueue: 2 works, one delayed, 1 CPU, 1 task | no request is used after its creator returned; the exit code is the thread's; every call returns. The canceller against the timer; flushes return; queued works are taken |
| `workqueue_rearm` | 1 delayed work, 2 CPUs, 1 task | violated, see below |
| `quiescence` | 1 reader, 2 updaters, 2 CPUs, `completed` modulo 8, counters modulo 3; 2 users of stop_machine, 3 CPUs | the grace period waits for every reader and ends; the function runs while all are stopped, where asked, and the machine goes on |
| `async_synchronous` | 1 caller, 1 thread, 1 synchronizer, 1 cookie | violated, see below |
| `kthread_eintr` | 1 creator | violated, see below |

Bounds. `MaxUnits` bounds what `Post` may add, `MaxCookie` the calls of `Async`,
`MaxLen` one call of the fifo; everything else is finite for finite sets. The
safety of all components is proved for every number of tasks, CPUs or bytes
(section 5), so the runs of the sleeping locks are as small as liveness
and the refinement of a waiter, a holder and a barger allow; three tasks let a
writer queue between readers. Tickets modulo 3 wrap after every third lock and
are, as the code needs, more than the CPUs. The fifo's indices pass the end of
the buffer at 4 and wrap at 8; calls for 5 bytes ask for more than fits. Three
waiters are one that is woken, one that gave up and one that must get what the
latter leaves. Two works and one CPU give a list with something before and
behind the barrier; two CPUs give a work that runs on one while it is queued on
the other. Two updaters are what the early exit is about, with `completed`
wrapping several times; one reader can re-enter in either rank on either CPU.
Three CPUs let one be taken down while one is the caller's and one is neither.
Two calls are enough to end out of order, and the second caller adds its call
before the first has woken anybody. The type invariants `TypeOK` that no theorem
states document the variables; they hold on these instances.

Fairness. A task that can run makes its next step (weak fairness): the
scheduler is not modelled, and no task of a higher priority keeps it out for
ever. A step that needs a spinlock others also take is given strong fairness:
the MIPS spinlock is a ticket lock, first come first served, which is itself
checked as `TicketIsServed`, so a task that keeps asking for it gets it. On top
of that:

- sleeping locks: a holder releases some day; nothing is assumed of callers, of
  posts, signals and stray wake-ups, nor that a downgrade ever happens;
- `TicketLock`: who spins looks again and who holds releases; nothing is assumed
  of the store-conditional, which may fail for ever, and the property is about
  those who have drawn a ticket;
- `Workqueue`: workers run, functions return, timers fire; nobody has to queue,
  and works that queue themselves again for ever do not stop a flush;
- `Kthread`: everybody runs; `threadfn()` returns only once it is asked to stop;
- `Srcu`: readers leave and the updater that has the mutex runs; new readers may
  come for ever, and the wait for the mutex is the mutex's business;
- `StopMachine`: callers and stoppers run; nobody has to call.

### Findings

`rwsem_is_locked`. `__up_write()` sets `activity` to 0 and `__rwsem_do_wake()` adds
the readers it lets in only when it has woken all of them
(`lib/rwsem-spinlock.c:97`). A reader sees its grant without the lock and runs
on meanwhile, holding a semaphore whose `activity` is 0, although
`include/linux/rwsem-spinlock.h:26` says that 0 means no active readers or
writers. `rwsem_is_locked()` reads it without the lock, so assertions such as
the ones at `fs/sync.c:63` and `mm/mlock.c:167` may fire on correct callers.
`ZeroMeansFree` states the comment; TLC finds it violated in five states. With
`wait_lock` free, `activity` is right (`ActivityIsHolders`, proved).

`workqueue_rearm`. `try_to_grab_pending()` trusts `work->data` once it has the lock
of the list it read from it (`kernel/workqueue.c:483`), but
`queue_delayed_work_on()` writes it without that lock (line 249). A work that is
taken on CPU B and armed again for CPU A between the two tests of a canceller
that came for A passes the second test although it is on no list: the canceller
believes that it owns the bit, clears it and leaves a timer armed.
`CancelOwnsBit` states the comment at lines 459-460. Without delayed works, and
with a single CPU, it holds (`deferred_calls`, `kernel_threads`, and proved).

`async_synchronous`. When `__async_schedule()` gets no memory, or finds too many
entries, it takes a cookie under the lock, drops the lock and runs the function
itself (`kernel/async.c:190-196`); the call is on no list, and
`lowest_in_progress()` looks at the lists only. A task that synchronizes with a
higher cookie returns while that call runs, although lines 275-277 say that it
waits until all calls submitted prior to the cookie have been done, and lines
37-40 the same of the whole interface. `SyncCoversAll` states the comment. What
holds, and is proved, is `SyncIsDone`: everything earlier is done except what its
own caller still runs. A task that synchronizes after its own calls is not
affected by those, since they are over when `async_schedule()` returns.

`kthread_eintr`. `kthread()` looks at the stop flag when it first runs
(`kernel/kthread.c:76-78`). A thread that `wake_up_process()` has started and that
did not get to run before `kthread_stop()` raised the flag never calls
`threadfn()`, and `kthread_stop()` returns `-EINTR`, although lines 164-165 keep that
for a thread that was never woken. `EintrMeansNeverWoken` states the comment.
What holds, and is proved, is `StopReturnsCode`: a thread never started gives
`-EINTR`, and one that was started gives it only if the flag was raised before it
got to `threadfn()`.

Seen while modelling, without a run of their own:

- `flush_work()` looks only at the list the work was last queued on, so an
  instance that still runs on another CPU is not waited for; its comment
  (`kernel/workqueue.c:413`) asks the caller not to queue it again meanwhile.
- `completion_done()` answers from `done` alone: 0 for a completion that nobody
  waits for, and 1 while a woken waiter has not run, where its comment
  (`kernel/sched.c:5941`) speaks of waiters.
- `abort_exclusive_wait()` passes the wake-up on with the aborter's mode, which
  wakes nobody if the others on the queue sleep in a mode it does not match.
- `async_synchronize_full()` waits for what is pending in all domains but for
  what is running only in the main one; its comment (`kernel/async.c:247`) says
  all calls.
- `fsnotify_obtain_group()` puts the second of two groups made at the same time;
  that one was never on the list, its `num_marks` goes from 0 to -1, and it is
  never freed. `ListedIsFreed` is therefore about groups that were on the list.
- The masks of `fs/notify/group.c:54` and `:74` are stored after the lock was
  dropped, so two recalculations may store in the wrong order. Masks are not
  modelled.

## 5. Proofs

The theorems hold for all sets of tasks, CPUs, works and so on that satisfy the
assumptions on the constants: `SemAssumption`, `RwAssumption`, `MutexAssumption`
(the tasks are finitely many and `None` is not one; the semaphore's constants are
naturals); `TicketAssumption` (fewer CPUs than ticket numbers, as 2^16 tickets are
on this hardware); `FifoAssumption` (the size divides the number at which the
indices wrap and is at most half of it, as powers of two do); `SrcuAssumption` (finitely
many readers, fewer than a counter can count, and `completed` wraps at an even number);
`KthreadAssumption`, `CompletionAssumption`, `StopAssumption`,
`FsnotifyAssumption`, `ThreadsAssumption` (the special values are not tasks or
works, what is counted is finite, there is a CPU, there is the domain "main").
TLC evaluates them in every run. Two theorems have a further hypothesis, named
below with the reason. Each `*Proofs` module defines an inductive invariant
(`IInv`, or one with the initial of a component it instantiates), checked with
TLC on the instances of section 4 first, and proves that `Init` implies it and
that every step keeps it, one step per action.

*Semaphore.* Besides the checked invariants, `IInv` says who has the lock at
which `pc` and which states and flags are possible at each point of the loop
(`SleepInv`): a task in a sleeping state has no unit in its flag and time left,
which is what the lost-wake-up property follows from. `TypeCorrect`,
`QueueCorrect`, `NoWakeupLost` and `UnitsAreHandedOver` follow. `Refinement` maps
`avail` to the count plus the units travelling in flags; the cardinality lemmas
say that one flag is one unit.

*Reader/writer semaphore.* `IInv` relates `activity` and the local `woken` of a
releaser to the sets of readers and writers, granted ones included, while
`wait_lock` is held as well; and says that behind readers the first waiter is a
writer. `MutualExclusion`, `CountCorrect`, `HandOverCorrect` follow, and from the
same invariant `TypeCorrect`, `QueueCorrect`, `NoWakeupLost` and `TasksArePinned`.

*Mutex.* The invariant is `CountInv`: the count is 1 and nobody holds the
mutex, or it is at most 0 and exactly one task does. It needs `DoneInv` (whoever
acquired in the slow path left a negative count, so that keeping the count when
waiters remain keeps the promise to them) and, for the lower bound, `SpinInv`
(below -1 there is one spinner for each decrement). Lemmas named after what a
move of a task may do (`SpinMove`, `LockMove`, `DoneMove`, `WakeMove`, `QueueMove`)
are shared by all actions. `Exclusive`, `CountBounded`, `OwnerAndQueue`,
`QueueCorrect`, `NoWaiterForgotten` and `Refinement` follow.

*Ticket lock.* The history `order` lists the CPUs that have drawn and not
released. `DrawnInv`: it is exactly the CPUs that spin or hold.
`TicketInv`: their tickets are the ones from `serving_now` on, in this order and
without a gap, modulo the width, and the next one to draw follows them.
`LinkInv`: a CPU whose link is intact has loaded the present word. Since the
entries are distinct, there are at most as many as CPUs (`FewTickets`), fewer than
the width, so equal tickets mean the same place in the order: who sees its
ticket served is the head. `TypeCorrect`, `ServedInOrder` and `WordCorrect` follow.

*kfifo* (`TicketLockProofs`, `FInv`). The distance between the indices plus what a
put has reserved is at most the size, and what a get has reserved is at most the
distance (`RoomInv`): the other side can only make more room, or more bytes. What
either has copied so far is what is in the buffer from its index on (`CopyInv`). A
byte that is put lands less than one buffer behind `out`, so on no byte of the
queue (`SlotsDiffer`); places do not change when an index wraps, since the size
divides the width (`SlotMoves`). `UnlockedFifoIsQueue` is the refinement without a
lock. With it only the owner of the lock copies (`HeldInv`), so nobody's copy
is under way when the indices are set back: `LockedFifoIsQueue`.

*fsnotify groups* (`MutexProofs`, `GInv`). The reference count of a group is the
number of tasks that hold it or are about to put it, and a group that was listed
is on the list exactly while that is positive. `num_marks` is the number of its
marks, of those who have taken a mark off and not yet counted it, of those who
are about to destroy the group, and one for the list. It is freed in the step that brings this
to 0, so nobody is left who can reach it (`GroupsAreAlive`) and nobody brings it
to 0 again (`GroupFreedOnce`). A walker under SRCU is safe because the group it
looks at is kept from being freed by the grace period (`WalkInv`).

*Completions* (`WaitQueueProofs`). The queue is the tasks between queueing
and unqueueing themselves, each once; a waiter that is still in a sleeping state
while `done` is not 0 has a woken one before it, since `complete()` adds one and
wakes one. `CompletionsAreTaken` follows.

*Bit waits* (`WaitQueueProofs`). `RoleInv` says which calls an entry on the queue
belongs to, `HoldInv` who has the bit, `ScanInv` that one waker at a time has the
lock, that what it has still to look at is on the queue, but for the entry it is
just unlinking, and that it has woken whom it unlinks.
`EntriesAreAlive` follows: `finish_wait()` leaves without the lock only when both
pointers of its entry say that the waker is done with it. `ForgottenInv` says that
for a clear bit which somebody sleeps for somebody acts (`WillAct`): a waker on its
way to the queue or to the sleeper's entry, a woken waiter, or one that gives up
and passes the wake-up on. `ClearBitIsNoticed` is proved from it for waits that
are not `TASK_INTERRUPTIBLE`. That is how the code uses the exclusive bit wait:
its callers are the page locks (`mm/filemap.c:601`, `:610`, `:625`), the buffer
lock (`fs/buffer.c:73`, uninterruptible) and `fs/nfs/write.c:336` (killable). With
interruptible and uninterruptible waiters on one queue it fails, for the reason
in "Findings": whoever gives up passes the wake-up on in its own mode only.

*SRCU* (`QuiescenceProofs`, `RInv`). `TallyInv`: for each rank there are numbers
p[k], how many were counted minus how many were uncounted on the CPUs up to k,
that agree with the counters modulo their width, and the last of which is the
number of readers in the rank. What a scan has added up is p of the CPUs it has
passed, plus the readers that have since left on one of these; nobody enters the
rank it scans. So a sum of 0 is a number between 0 and the number of readers that
is 0 modulo the width, and the rank is empty (`ZeroIsEmpty`). `RankInv`: readers are
in the rank in use, except for what an updater waits for. `HoldInv` follows the
readers that the holder of the mutex found through its three grace periods, `EarlyInv` does
so for the callers that wait for the mutex: after two flips, the second of which
began after the call, another updater has done the work, however often
`completed` has wrapped. `GracePeriodIsOver` follows.

*stop_machine* (`QuiescenceProofs`, `SInv`). All stoppers of a round are in the
present state or have yet to follow from the one before (`RoundInv`), and
`thread_ack` is the number of those that have not acknowledged it, in each of the
places between the last decrement, its reset and the next state (`CountInv`).
So the state after "disable irqs" means that all of them have disabled
interrupts: `FunctionRunsAlone`. `RunsWhereAsked` adds which stoppers are active,
that each runs the function once, and that a result other than 0 reaches the caller.

*Kernel threads* (`ThreadProofs`, `IInv`). A request that is listed or served has
a creator that waits and no thread yet (`RequestInv`); until `kthread_create()` returns
the thread got no further than its sleep (`CreateInv`); the rest is the life of
the thread and what `kthread_stop()` finds at each point of `do_exit()` (`LifeInv`,
`StopInv`): the flag is raised before `vfork_done` is read, and the code stored
before it is completed; a thread ends with `-EINTR` only after the flag was raised,
and one that nobody started ends with nothing else. `TypeCorrect`, `RequestsAreAlive` and `StopGetsCode` follow.

*Asynchronous calls* (`ThreadProofs`, `AInv`). The pending list is sorted by cookie
and so is the running list of a domain but for what is moved to it, and every
entry in progress is on one list and has one owner (`OrderInv`, `WorkInv`). The lowest
cookie of a domain never falls below what a synchronizer has seen, which is why
it may look once (`SyncInv`). `SynchronizeWaits` follows; calls that their callers
run are on no list and are the exception it states (finding `async_synchronous`). `CounterInv`, `SleepInv` and
`CallInv` relate the counters that the manager reads without a lock to what it
has seen of them: `SynchronizersWake`, `CallsAreTaken`.

*Workqueues* (`ThreadProofs`). `WInv`: while a task waits at its barrier, the barrier is
in one list or is the current work of one CPU, and of no other (`BarrierInv`);
what a flush owes on that CPU is in front of it or running (`OwedInv`), on the CPUs
it has done nothing is owed any more (`FlushInv`). From it `BarriersAreAlive` and
`FlushWaitsForAll`, for all works, delayed ones included. `CInv`: the bit of a work has one
owner, which is its way onto a list, the list, the worker that has yet to clear it, or
one canceller (`OwnInv`), and a CPU on which the canceller has waited does not get
the work back (`SeenInv`). From it `CancelOwnsTheBit` and `CancelledIsIdle`, under the
hypothesis that no work is delayed or that there is one CPU. Without it both
are false, which is the finding `workqueue_rearm`.

Only model-checked: liveness (`NoStarvation`, `StarvesOnlyByBarging`,
`TicketIsServed`, `FlushReturns`, `QueuedIsTaken`, `CallsReturn`, `GracePeriodEnds`,
`MachineRestarts`), which needs fairness and `ENABLED`.

## 6. Not modelled

The scheduler; interrupts as such (a post or a wake-up from an interrupt is a
step of the environment); weak memory; lock debugging and lockdep; the overflow
of the 32-bit counts of the sleeping locks (the semaphore's is bounded by
`MaxUnits`, the others by the number of tasks).

Of modelled components: `kthread_bind()`; the creation and destruction of
workqueues, CPU hotplug in them, `flush_delayed_work()` and
`cancel_delayed_work()`; the reader/writer spinlocks of `asm/spinlock.h` and the
R10000 variant of the ticket lock; the `wait_event` macros; event masks, reference
counts of marks and the notification queue of fsnotify; allocation and its
failure in kfifo.

Left out inside modelled operations, because no property depends on it or no
caller does it:

- `stop_machine()` is called with `NULL` or with CPUs that are online, as all
  callers in the tree do; masks that are empty or name offline CPUs are not.
- `Mutex.WaitLoop` looks at the signal and sets the task state in one step; both
  are under `wait_lock`, and a signal between them is one that comes just after.
- `mutex_spin_on_owner()` also returns when the owner's structure cannot be read
  or its CPU is offline; `SpinOnOwner` may give up at any time instead.
- `fsnotify_find_group()` refuses a group of the same number with another mask or
  other operations; callers of one number ask for the same group here.
- `queue_delayed_work_on()` sets the bit, the data and the timer in one step;
  whoever has set the bit is alone there until the timer is armed.
- A second `complete_all()` before anybody has waited wraps the count to where it
  was. The count has its width in `Completion`, but a count that has become 0 is a
  completion that is gone, and nothing in the repository says what should
  happen, so no property speaks of it.

The rest of the kernel (memory management, filesystems, networking, drivers,
other architectures) is millions of lines whose correctness is either a matter
of hardware or of data that a model this size cannot hold; it uses the
components above through the promises stated here.
