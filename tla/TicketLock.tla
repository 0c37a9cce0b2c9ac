----------------------------- MODULE TicketLock -----------------------------
(***************************************************************************)
(* arch/mips/include/asm/spinlock.h: the MIPS spinlock.                    *)
(*                                                                         *)
(* One 32-bit word holds two 16-bit halves: the next ticket to draw and    *)
(* the ticket being served.  A CPU draws with load-linked and store-       *)
(* conditional of the whole word; the holder releases with a plain store   *)
(* to the serving half, between the load and the store of others.  The     *)
(* halves wrap.                                                            *)
(*                                                                         *)
(* A link is lost when anybody writes to the word; the hardware may also   *)
(* lose it for no reason.  The delay loop between two looks at the word is *)
(* left out, and so is the variant for R10000 processors.                  *)
(***************************************************************************)
EXTENDS Naturals, Sequences, FiniteSets, WaitList

CONSTANTS
  CPUs,  \* processors
  Wrap   \* 2^16: the halves are counted modulo Wrap

ASSUME TicketAssumption == IsFiniteSet(CPUs) /\ Wrap \in Nat /\ Cardinality(CPUs) < Wrap

VARIABLES
  ticket, serving_now,  \* the two halves of the word
  pc,                   \* where a CPU is
  link,                 \* CPUs whose load-linked is still good
  llt, lls,             \* the halves a CPU has loaded
  my_ticket,            \* the ticket it has drawn
  order                 \* history: CPUs with a ticket, in the order they drew

lvars == <<llt, lls, my_ticket>>
vars == <<ticket, serving_now, pc, link, lvars, order>>

Init ==
  /\ ticket = 0 /\ serving_now = 0 /\ link = {} /\ order = <<>>
  /\ pc = [c \in CPUs |-> "out"]
  /\ llt = [c \in CPUs |-> 0] /\ lls = [c \in CPUs |-> 0]
  /\ my_ticket = [c \in CPUs |-> 0]

\* A sum of 16-bit numbers, reduced to 16 bits.
u16(n) == IF n >= Wrap THEN n - Wrap ELSE n

Goto(c, l) == pc' = [pc EXCEPT ![c] = l]

\* A call of __raw_spin_lock() or __raw_spin_trylock().
Call(c) ==
  /\ pc[c] = "out"
  /\ \E l \in {"lock", "try"} : Goto(c, l)
  /\ UNCHANGED <<ticket, serving_now, link, lvars, order>>

\* ll
Load(c, l) ==
  /\ link' = link \cup {c}
  /\ llt' = [llt EXCEPT ![c] = ticket]
  /\ lls' = [lls EXCEPT ![c] = serving_now]
  /\ Goto(c, l)
  /\ UNCHANGED <<ticket, serving_now, my_ticket, order>>
LockLoad(c) == pc[c] = "lock" /\ Load(c, "lock_sc")
TryLoad(c)  == pc[c] = "try"  /\ Load(c, "try_sc")

\* sc that succeeds: it stores both halves, the serving one as it was loaded.
Linked_Always(c) == TRUE
Linked(c) == c \in link

Store(c, l) ==
  /\ Linked(c) /\ link' = {}
  /\ ticket' = u16(llt[c] + 1)
  /\ serving_now' = lls[c]
  /\ my_ticket' = [my_ticket EXCEPT ![c] = llt[c]]
  /\ order' = list_add_tail(order, c)
  /\ Goto(c, l)
  /\ UNCHANGED <<llt, lls>>

\* Is the ticket drawn the one that was being served?
LockStore(c) ==
  pc[c] = "lock_sc" /\ Store(c, IF lls[c] = llt[c] THEN "in" ELSE "spin")

\* A trylock stores only if the lock was free when it was loaded.
TryFree(c) == lls[c] = llt[c]

TryStore(c) == pc[c] = "try_sc" /\ TryFree(c) /\ Store(c, "in")

TryFails(c) ==
  /\ pc[c] = "try_sc" /\ ~TryFree(c)
  /\ Goto(c, "out")
  /\ UNCHANGED <<ticket, serving_now, link, lvars, order>>

\* sc that fails: once more.
Retry(c) ==
  /\ pc[c] = "lock_sc" \/ (pc[c] = "try_sc" /\ TryFree(c))
  /\ link' = link \ {c}
  /\ Goto(c, IF pc[c] = "lock_sc" THEN "lock" ELSE "try")
  /\ UNCHANGED <<ticket, serving_now, lvars, order>>

\* lhu of the serving half until it is our turn.
Spin(c) ==
  /\ pc[c] = "spin" /\ serving_now = my_ticket[c]
  /\ Goto(c, "in")
  /\ UNCHANGED <<ticket, serving_now, link, lvars, order>>

\* The half that __raw_spin_unlock() stores.
NextServed_Free == ticket
NextServed == u16(serving_now + 1)

\* __raw_spin_unlock(): nobody else writes the serving half, so the load and the
\* store are one step.
Unlock(c) ==
  /\ pc[c] = "in"
  /\ serving_now' = NextServed
  /\ link' = {}
  /\ order' = Tail(order)
  /\ Goto(c, "out")
  /\ UNCHANGED <<ticket, lvars>>

Step(c) == LockLoad(c) \/ LockStore(c) \/ TryLoad(c) \/ TryStore(c) \/ TryFails(c)
           \/ Spin(c) \/ Unlock(c)

Next == \E c \in CPUs : Call(c) \/ Step(c) \/ Retry(c)

Spec == Init /\ [][Next]_vars

\* A CPU goes on, and leaves its critical section.  Nothing is assumed of a
\* store-conditional: it may fail for ever.
Fairness == \A c \in CPUs : WF_vars(Spin(c)) /\ WF_vars(Unlock(c))

FairSpec == Spec /\ Fairness

-----------------------------------------------------------------------------
\* __raw_spin_is_locked() and __raw_spin_is_contended(), computed from the word.
spin_is_locked == ticket # serving_now
spin_is_contended_OffByOne == u16(ticket + Wrap - serving_now) > 0
spin_is_contended == u16(ticket + Wrap - serving_now) > 1

(* Properties.                                                             *)

\* The type of every variable; the halves do not grow past 16 bits.
TypeOK ==
  /\ ticket \in 0..Wrap-1 /\ serving_now \in 0..Wrap-1
  /\ pc \in [CPUs -> {"out", "lock", "lock_sc", "try", "try_sc", "spin", "in"}]
  /\ link \subseteq CPUs
  /\ {llt, lls, my_ticket} \subseteq [CPUs -> 0..Wrap-1]
  /\ IsWaitList(order, CPUs)

\* Whoever is inside is the first of those that have drawn a ticket: the lock
\* excludes, is fair, and no store of one half undoes one of the other.
FirstComeFirstServed == \A c \in CPUs : pc[c] = "in" => order # <<>> /\ c = Head(order)

\* What the word tells others: locked if anybody has a ticket, contended if
\* somebody has to wait for another one, with wrapping tickets too.
WordTellsState ==
  /\ spin_is_locked <=> Len(order) > 0
  /\ spin_is_contended <=> Len(order) > 1

\* Whoever has drawn a ticket gets the lock.
TicketIsServed == \A c \in CPUs : pc[c] = "spin" ~> pc[c] = "in"
=============================================================================
