------------------------- MODULE AbstractSemaphore --------------------------
(***************************************************************************)
(* What a counting semaphore promises its users, with no queue, no flag    *)
(* and no sleeping: units are either available or held, a successful       *)
(* down*() moves one unit from the first kind to the second, up() moves    *)
(* one back or brings a new one, and an unsuccessful down*() moves none.   *)
(***************************************************************************)
EXTENDS Naturals

CONSTANTS InitCount, MaxUnits

VARIABLES avail, held

vars == <<avail, held>>

Init == avail = InitCount /\ held = 0

Acquire == avail > 0 /\ avail' = avail - 1 /\ held' = held + 1

Release == held > 0 /\ avail' = avail + 1 /\ held' = held - 1

Post == avail + held < MaxUnits /\ avail' = avail + 1 /\ UNCHANGED held

Next == Acquire \/ Release \/ Post

Spec == Init /\ [][Next]_vars
=============================================================================
