---------------------------- MODULE MCQuiescence ----------------------------
(***************************************************************************)
(* Model checking of Srcu and StopMachine, which wait for every CPU to     *)
(* pass a point.  They share no state, so one run holds both and only one  *)
(* of them moves.                                                          *)
(***************************************************************************)
EXTENDS Srcu

CONSTANTS Users, MCpu  \* of StopMachine: users and the number of CPUs

VARIABLES part, refcount, wq, lock, userpc, ucpu, todo, online, state, thread_ack, num_threads,
          active_cpus, take_down, fnret, spc, curstate, active, irqs, round, ran, failed

S == INSTANCE StopMachine WITH NCpu <- MCpu, upc <- userpc

ASSUME StopAssumption == S!StopAssumption

stopvars == <<refcount, wq, lock, userpc, ucpu, todo, online, state, thread_ack, num_threads,
              active_cpus, take_down, fnret, spc, curstate, active, irqs, round, ran, failed>>
allvars == <<part, vars, stopvars>>

MCInit == part \in {"srcu", "stop_machine"} /\ Init /\ S!Init

MCNext ==
  /\ UNCHANGED part
  /\ \/ part = "srcu" /\ Next /\ UNCHANGED stopvars
     \/ part = "stop_machine" /\ S!Next /\ UNCHANGED vars

MCSpec == MCInit /\ [][MCNext]_allvars /\ Fairness /\ S!Fairness

\* The function runs only while every CPU is stopped with interrupts off.
Frozen == S!Frozen

\* It has run exactly where it was asked for, and its result is reported.
RanWhereAsked == S!RanWhereAsked

\* Whoever stops the machine gets it going again.
MachineRestarts == S!MachineRestarts
=============================================================================
