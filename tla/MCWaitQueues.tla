---------------------------- MODULE MCWaitQueues ----------------------------
(***************************************************************************)
(* Model checking of WaitBit and Completion, the two kinds of waiters that *)
(* __wake_up_common() chooses from.  They share no state, so one run holds *)
(* both and only one of them moves.  Tasks and keys are interchangeable.   *)
(***************************************************************************)
EXTENDS WaitBit, TLC

CONSTANTS None, Wrap  \* of Completion

VARIABLES part, done, x_list, lock, x_pc, x_tstate, x_sig, x_mode, timeout

X == INSTANCE Completion
       WITH task_list <- x_list, pc <- x_pc, tstate <- x_tstate, sig <- x_sig, mode <- x_mode

ASSUME CompletionAssumption == X!CompletionAssumption

xvars == <<done, x_list, lock, x_pc, x_tstate, x_sig, x_mode, timeout>>
allvars == <<part, vars, xvars>>

MCInit == part \in {"bits", "completion"} /\ Init /\ X!Init

MCNext ==
  /\ UNCHANGED part
  /\ \/ part = "bits" /\ Next /\ UNCHANGED xvars
     \/ part = "completion" /\ X!Next /\ UNCHANGED vars

MCSpec == MCInit /\ [][MCNext]_allvars

Symmetry == Permutations(Tasks) \cup Permutations(Keys)

\* There is somebody awake for every completion that is left.
NobodySleepsThrough == X!NobodySleepsThrough
=============================================================================
