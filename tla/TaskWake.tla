------------------------------ MODULE TaskWake ------------------------------
(***************************************************************************)
(* The sleep/wake-up vocabulary of kernel/sched.c that every sleeping lock *)
(* of this project is built on: the states a task sleeps in, which signals *)
(* cut which sleep short, and what a wake-up does to a task's state.       *)
(*                                                                         *)
(* A task blocks in three steps: it publishes a sleeping state, drops the  *)
(* spinlock of the object it waits on, and calls schedule().  A wake-up    *)
(* may come at any point in between, so each is a step of its own in the   *)
(* modules that use these operators.                                       *)
(*                                                                         *)
(* The scheduler is not modelled.  What is stated here is its contract, as *)
(* far as the locks rely on it; the lines it is read from are named with   *)
(* each operator.                                                          *)
(***************************************************************************)

\* TASK_INTERRUPTIBLE, TASK_UNINTERRUPTIBLE, TASK_KILLABLE
\* (include/linux/sched.h:186-200).
SleepState == {"INTERRUPTIBLE", "UNINTERRUPTIBLE", "KILLABLE"}

TaskState == SleepState \cup {"RUNNING"}

\* What is pending for a task: nothing, an ordinary signal, a fatal one.
Signal == {"none", "ordinary", "fatal"}

\* Does a sleep in state st end because of the pending signal s?
\* (include/linux/sched.h:2361-2369)
signal_pending_state(st, s) ==
  \/ st = "INTERRUPTIBLE" /\ s # "none"
  \/ st = "KILLABLE"      /\ s = "fatal"

\* wake_up_process() (kernel/sched.c:2475): try_to_wake_up() with TASK_ALL,
\* which every sleeping state above matches.  TASK_WAKING is internal to the
\* rq lock hand-over and matches no waker, so the task is simply RUNNING from
\* here on.
wake_up_process(st) == "RUNNING"

\* signal_wake_up() (kernel/signal.c:516): the mask is TASK_INTERRUPTIBLE, plus
\* TASK_WAKEKILL for a fatal signal; try_to_wake_up() leaves a task in any other
\* state alone.
signal_wake_up(st, s) ==
  IF st = "INTERRUPTIBLE" \/ (st = "KILLABLE" /\ s = "fatal")
  THEN "RUNNING" ELSE st

\* schedule() (kernel/sched.c:5476-5482), as far as the caller's own state
\* goes: a sleep that a pending signal would cut short is not entered at all.
schedule_state(st, s) == IF signal_pending_state(st, s) THEN "RUNNING" ELSE st
=============================================================================
