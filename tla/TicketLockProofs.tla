-------------------------- MODULE TicketLockProofs --------------------------
(***************************************************************************)
(* The ticket lock of TicketLock excludes and serves in order, for any     *)
(* number of CPUs below Wrap and wherever the halves wrap.  The ring       *)
(* buffer of Kfifo implements AbstractFifo, with its lock (Locked!) and    *)
(* without (Bare!), for any size that divides the number at which the      *)
(* indices wrap.                                                           *)
(***************************************************************************)
EXTENDS MCTicketLock, Integers, WaitListTheorems, FiniteSetTheorems, SequenceTheorems

\* The CPUs that have drawn a ticket are the ones on the order.
DrawnInv ==
  /\ \A i \in 1..Len(order) : pc[order[i]] \in {"spin", "in"}
  /\ \A c \in CPUs : pc[c] \in {"spin", "in"} => c \in Elems(order)

\* The tickets of those on the order are the ones from serving_now on, without a
\* gap, and the next one to draw comes after them.
TicketInv ==
  /\ ticket = u16(serving_now + Len(order))
  /\ \A i \in 1..Len(order) : my_ticket[order[i]] = u16(serving_now + (i - 1))

\* A link that is still good saw the word as it is.
LinkInv == \A c \in link : llt[c] = ticket /\ lls[c] = serving_now

IInv == TypeOK /\ DrawnInv /\ TicketInv /\ LinkInv /\ FirstComeFirstServed

-----------------------------------------------------------------------------
\* There are fewer CPUs with a ticket than numbers.
LEMMA FewTickets ==
  ASSUME NEW list, IsWaitList(list, CPUs)
  PROVE  Len(list) \in Nat /\ Len(list) < Wrap
<1>1. list \in [1..Len(list) -> CPUs] /\ Len(list) \in Nat
  BY DEF IsWaitList
<1>2. list \in Injection(1..Len(list), CPUs)
  BY <1>1 DEF IsWaitList, Injection, IsInjective
<1>3. Cardinality(1..Len(list)) <= Cardinality(CPUs)
  BY <1>2, FS_Injection, TicketAssumption
<1>4. Cardinality(1..Len(list)) = Len(list)
  <2> DEFINE n == Len(list)
  <2>1. n \in Nat
    BY <1>1
  <2> HIDE DEF n
  <2>2. n \in Int /\ 1 \in Int
    BY <2>1
  <2>3. Cardinality(1..n) = IF 1 > n THEN 0 ELSE n - 1 + 1
    BY <2>2, FS_Interval, Zenon
  <2>4. Cardinality(1..n) = n
    BY <2>1, <2>3
  <2> QED
    BY <2>4 DEF n
<1>5. Cardinality(CPUs) \in Nat
  BY FS_CardinalityType, TicketAssumption
<1> QED
  BY <1>1, <1>3, <1>4, <1>5, TicketAssumption

\* Nobody has drawn a ticket.
LEMMA InitIInv == Init => IInv
<1> SUFFICES ASSUME Init PROVE IInv
  OBVIOUS
<1>1. IsWaitList(<<>>, CPUs) /\ Len(<<>>) = 0
  BY DEF IsWaitList
<1>2. 0 \in 0..Wrap-1
  BY FewTickets, <1>1, TicketAssumption
<1>3. TypeOK
  BY <1>1, <1>2 DEF Init, TypeOK
<1>4. DrawnInv
  BY DEF Init, DrawnInv
<1>5. TicketInv
  BY <1>2, TicketAssumption DEF Init, TicketInv, u16
<1> QED
  BY <1>3, <1>4, <1>5 DEF Init, IInv, LinkInv, FirstComeFirstServed

\* A step that moves one CPU among the places without a ticket and draws none.
LEMMA IdleMove ==
  ASSUME IInv, NEW c \in CPUs, NEW l \in {"out", "lock", "lock_sc", "try", "try_sc"},
         pc[c] \notin {"spin", "in"}, Goto(c, l),
         UNCHANGED <<ticket, serving_now, my_ticket, order>>
  PROVE  DrawnInv' /\ TicketInv' /\ FirstComeFirstServed' /\ pc' \in [CPUs -> {"out", "lock", "lock_sc", "try", "try_sc", "spin", "in"}]
<1>1. pc \in [CPUs -> {"out", "lock", "lock_sc", "try", "try_sc", "spin", "in"}]
  BY DEF IInv, TypeOK
<1>2. pc' = [pc EXCEPT ![c] = l]
  BY DEF Goto
<1>3. \A d \in CPUs : pc'[d] \in {"spin", "in"} => d # c /\ pc'[d] = pc[d]
  BY <1>1, <1>2
<1>4. \A i \in 1..Len(order) : order[i] \in CPUs /\ order[i] # c
  BY DEF IInv, TypeOK, IsWaitList, DrawnInv
<1>5. DrawnInv'
  <2>1. \A i \in 1..Len(order) : pc'[order[i]] = pc[order[i]]
    BY <1>1, <1>2, <1>4
  <2> QED
    BY <2>1, <1>3 DEF IInv, DrawnInv
<1>6. TicketInv'
  BY DEF IInv, TicketInv, u16
<1>7. FirstComeFirstServed'
  BY <1>3 DEF IInv, FirstComeFirstServed
<1> QED
  BY <1>1, <1>2, <1>5, <1>6, <1>7

\* A store that succeeds: c has drawn the next ticket and is inside if nobody was
\* before it.
LEMMA StoreIInv ==
  ASSUME IInv, NEW c \in CPUs, pc[c] \in {"lock_sc", "try_sc"},
         NEW l, l = (IF lls[c] = llt[c] THEN "in" ELSE "spin"), Store(c, l)
  PROVE  IInv'
<1> DEFINE n == Len(order)
<1>1. IsWaitList(order, CPUs) /\ n \in Nat /\ n < Wrap
  BY FewTickets DEF IInv, TypeOK
<1>2. /\ llt[c] = ticket /\ lls[c] = serving_now
      /\ ticket' = u16(ticket + 1) /\ serving_now' = serving_now
      /\ ticket \in 0..Wrap-1 /\ serving_now \in 0..Wrap-1
  BY DEF Store, Linked, IInv, LinkInv, TypeOK
<1>3. c \notin Elems(order)
  BY DEF IInv, DrawnInv, Elems
<1>4. /\ order' = Append(order, c)
      /\ IsWaitList(order', CPUs)
      /\ Elems(order') = Elems(order) \cup {c}
  BY <1>1, <1>3, AddTail DEF Store, list_add_tail
<1>5. /\ Len(order') = n + 1
      /\ \A i \in 1..n : order'[i] = order[i]
      /\ order'[n + 1] = c
      /\ order \in Seq(CPUs)
  BY <1>1, <1>4 DEF IsWaitList
<1>6. n + 1 < Wrap
  BY <1>4, <1>5, FewTickets
<1>7. ticket = serving_now <=> n = 0
  BY <1>1, <1>2, TicketAssumption DEF IInv, TicketInv, u16
<1>8. pc' = [pc EXCEPT ![c] = l] /\ l \in {"in", "spin"} /\ (l = "in" <=> n = 0)
  BY <1>2, <1>7 DEF Store, Goto
<1>9. my_ticket' = [my_ticket EXCEPT ![c] = ticket]
  BY <1>2 DEF Store
<1> HIDE DEF n
<1>10. TypeOK'
  <2>1. ticket' \in 0..Wrap-1
    BY <1>2, TicketAssumption DEF u16
  <2>2. pc' \in [CPUs -> {"out", "lock", "lock_sc", "try", "try_sc", "spin", "in"}]
    BY <1>8 DEF IInv, TypeOK
  <2>3. my_ticket' \in [CPUs -> 0..Wrap-1]
    BY <1>2, <1>9 DEF IInv, TypeOK
  <2> QED
    BY <1>2, <1>4, <2>1, <2>2, <2>3 DEF Store, IInv, TypeOK
<1>11. \A i \in 1..n : order[i] \in CPUs /\ order[i] # c
  BY <1>1, <1>3, <1>5 DEF n, Elems
<1>12. \A i \in 1..n+1 : i \in 1..n \/ i = n + 1
  BY <1>1
<1>13. DrawnInv'
  <2>1. \A i \in 1..n : pc'[order'[i]] \in {"spin", "in"}
    BY <1>5, <1>8, <1>11 DEF IInv, TypeOK, DrawnInv, n
  <2>2. pc'[order'[n + 1]] \in {"spin", "in"}
    BY <1>5, <1>8 DEF IInv, TypeOK
  <2>3. \A d \in CPUs : pc'[d] \in {"spin", "in"} => d \in Elems(order')
    BY <1>4, <1>8 DEF IInv, TypeOK, DrawnInv
  <2> QED
    BY <1>5, <1>12, <2>1, <2>2, <2>3 DEF DrawnInv
<1>14. TicketInv'
  <2>1. ticket' = u16(serving_now + (n + 1))
    BY <1>1, <1>2, <1>6, TicketAssumption DEF IInv, TicketInv, u16, n
  <2>2. \A i \in 1..n : my_ticket'[order'[i]] = u16(serving_now + (i - 1))
    BY <1>5, <1>9, <1>11 DEF IInv, TypeOK, TicketInv, n
  <2>3. my_ticket'[order'[n + 1]] = u16(serving_now + ((n + 1) - 1))
    <3>1. (n + 1) - 1 = n
      BY <1>1
    <3>2. my_ticket'[c] = u16(serving_now + n)
      BY <1>9 DEF IInv, TypeOK, TicketInv, n
    <3> QED
      BY <1>5, <3>1, <3>2
  <2>4. \A i \in 1..n+1 : my_ticket'[order'[i]] = u16(serving_now + (i - 1))
    BY <1>12, <2>2, <2>3
  <2> QED
    BY <1>2, <1>5, <2>1, <2>4 DEF TicketInv, u16
<1>15. LinkInv'
  BY DEF Store, LinkInv
<1>16. FirstComeFirstServed'
  <2> SUFFICES ASSUME NEW d \in CPUs, pc'[d] = "in"
               PROVE  order' # <<>> /\ d = Head(order')
    BY DEF FirstComeFirstServed
  <2>1. order' # <<>> /\ Head(order') = order'[1]
    BY <1>1, <1>4, <1>5 DEF IsWaitList
  <2>2. CASE d = c
    <3>1. n = 0
      BY <2>2, <1>8 DEF IInv, TypeOK
    <3> QED
      BY <2>1, <2>2, <3>1, <1>5
  <2>3. CASE d # c
    <3>1. pc[d] = "in"
      BY <2>3, <1>8 DEF IInv, TypeOK
    <3>2. order # <<>> /\ d = Head(order)
      BY <3>1 DEF IInv, FirstComeFirstServed
    <3>3. Head(order) = order[1] /\ 1 \in 1..n
      BY <3>2, <1>1, <1>5 DEF n
    <3> QED
      BY <2>1, <3>2, <3>3, <1>5
  <2> QED
    BY <2>2, <2>3
<1> QED
  BY <1>10, <1>13, <1>14, <1>15, <1>16 DEF IInv

\* A waiter whose number is called is the first one.
LEMMA SpinIInv ==
  ASSUME IInv, NEW c \in CPUs, Spin(c)
  PROVE  IInv'
<1> DEFINE n == Len(order)
<1>1. IsWaitList(order, CPUs) /\ n \in Nat /\ n < Wrap /\ serving_now \in 0..Wrap-1
  BY FewTickets DEF IInv, TypeOK
<1>2. PICK i \in 1..n : order[i] = c
  BY DEF Spin, IInv, DrawnInv, Elems
<1>3. serving_now = u16(serving_now + (i - 1))
  BY <1>2 DEF Spin, IInv, TicketInv
<1>4. i = 1
  BY <1>1, <1>3, TicketAssumption DEF u16
<1>5. order # <<>> /\ Head(order) = c
  BY <1>1, <1>2, <1>4 DEF IsWaitList
<1>6. pc' = [pc EXCEPT ![c] = "in"] /\ pc[c] = "spin"
  BY DEF Spin, Goto
<1>7. UNCHANGED <<ticket, serving_now, link, llt, lls, my_ticket, order>>
  BY DEF Spin, lvars
<1>8. TypeOK'
  BY <1>6, <1>7 DEF IInv, TypeOK
<1>9. DrawnInv'
  BY <1>6, <1>7 DEF IInv, TypeOK, DrawnInv, IsWaitList
<1>10. TicketInv' /\ LinkInv'
  BY <1>7 DEF IInv, TicketInv, LinkInv, u16
<1>11. FirstComeFirstServed'
  BY <1>5, <1>6, <1>7 DEF IInv, TypeOK, FirstComeFirstServed
<1> QED
  BY <1>8, <1>9, <1>10, <1>11 DEF IInv

\* The holder is the first; when it leaves, every number is one nearer.
LEMMA UnlockIInv ==
  ASSUME IInv, NEW c \in CPUs, Unlock(c)
  PROVE  IInv'
<1> DEFINE n == Len(order)
<1>1. IsWaitList(order, CPUs) /\ n \in Nat /\ n < Wrap /\ serving_now \in 0..Wrap-1 /\ order \in Seq(CPUs)
  BY FewTickets DEF IInv, TypeOK, IsWaitList
<1>2. order # <<>> /\ c = Head(order) /\ n > 0
  BY <1>1 DEF Unlock, IInv, FirstComeFirstServed
<1>3. /\ order' = Tail(order)
      /\ IsWaitList(order', CPUs)
      /\ Len(order') = n - 1
      /\ \A i \in 1..n-1 : order'[i] = order[i + 1]
      /\ Elems(order') = Elems(order) \ {c}
  BY <1>1, <1>2, Pop DEF Unlock
<1>4. /\ serving_now' = u16(serving_now + 1)
      /\ pc' = [pc EXCEPT ![c] = "out"] /\ link' = {}
      /\ UNCHANGED <<ticket, llt, lls, my_ticket>>
  BY DEF Unlock, NextServed, Goto, lvars
<1> HIDE DEF n
<1>5. TypeOK'
  <2>1. serving_now' \in 0..Wrap-1
    BY <1>1, <1>4, TicketAssumption DEF u16
  <2> QED
    BY <1>3, <1>4, <2>1 DEF IInv, TypeOK
<1>6. \A i \in 1..n-1 : i + 1 \in 1..n /\ (i + 1) - 1 = i
  BY <1>1
<1>7. \A i \in 1..n-1 : order'[i] \in CPUs /\ order'[i] # c
  <2>1. \A i \in 1..n-1 : order'[i] \in Elems(order')
    BY <1>3 DEF Elems
  <2>2. \A i \in 1..n-1 : order[i + 1] \in CPUs
    BY <1>1, <1>6 DEF n
  <2> QED
    BY <1>3, <2>1, <2>2
<1>8. DrawnInv'
  <2>1. \A i \in 1..n-1 : pc'[order'[i]] = pc[order[i + 1]]
    BY <1>3, <1>4, <1>7 DEF IInv, TypeOK
  <2>2. \A i \in 1..n-1 : pc[order[i + 1]] \in {"spin", "in"}
    BY <1>6 DEF IInv, DrawnInv, n
  <2>3. \A d \in CPUs : pc'[d] \in {"spin", "in"} => d \in Elems(order')
    BY <1>3, <1>4 DEF IInv, TypeOK, DrawnInv
  <2> QED
    BY <1>3, <2>1, <2>2, <2>3 DEF DrawnInv
<1>9. TicketInv'
  <2>1. ticket = u16(serving_now + n)
    BY DEF IInv, TicketInv, n
  <2>2. ticket' = u16(serving_now' + (n - 1))
    BY <1>1, <1>2, <1>4, <2>1, TicketAssumption DEF u16
  <2>3. ASSUME NEW i \in 1..n-1
        PROVE  my_ticket'[order'[i]] = u16(serving_now' + (i - 1))
    <3>1. my_ticket'[order'[i]] = u16(serving_now + i)
      BY <1>3, <1>4, <1>6 DEF IInv, TicketInv, n
    <3>2. u16(serving_now + i) = u16(u16(serving_now + 1) + (i - 1))
      BY <1>1, <1>2, TicketAssumption DEF u16
    <3> QED
      BY <3>1, <3>2, <1>4
  <2> QED
    BY <1>3, <2>2, <2>3 DEF TicketInv, u16
<1>10. LinkInv'
  BY <1>4 DEF LinkInv
<1>11. FirstComeFirstServed'
  <2>1. \A d \in CPUs : pc'[d] # "in"
    BY <1>2, <1>4 DEF IInv, TypeOK, FirstComeFirstServed
  <2> QED
    BY <2>1 DEF FirstComeFirstServed
<1> QED
  BY <1>5, <1>8, <1>9, <1>10, <1>11 DEF IInv

\* Every step keeps the invariant.
LEMMA NextIInv == IInv /\ [Next]_vars => IInv'
<1> SUFFICES ASSUME IInv, [Next]_vars
             PROVE  IInv'
  OBVIOUS
<1> USE DEF lvars
<1>1. ASSUME NEW c \in CPUs, Call(c)
      PROVE  IInv'
  <2>1. PICK l \in {"lock", "try"} : Goto(c, l)
    BY <1>1 DEF Call
  <2>2. pc[c] = "out" /\ UNCHANGED <<ticket, serving_now, link, llt, lls, my_ticket, order>>
    BY <1>1 DEF Call
  <2> QED
    BY <2>1, <2>2, IdleMove DEF IInv, TypeOK, LinkInv
<1>2. ASSUME NEW c \in CPUs, NEW l \in {"lock_sc", "try_sc"}, pc[c] \in {"lock", "try"}, Load(c, l)
      PROVE  IInv'
  <2>1. /\ UNCHANGED <<ticket, serving_now, my_ticket, order>> /\ Goto(c, l)
        /\ link' = link \cup {c}
        /\ llt' = [llt EXCEPT ![c] = ticket] /\ lls' = [lls EXCEPT ![c] = serving_now]
    BY <1>2 DEF Load
  <2>2. DrawnInv' /\ TicketInv' /\ FirstComeFirstServed' /\ pc' \in [CPUs -> {"out", "lock", "lock_sc", "try", "try_sc", "spin", "in"}]
    BY <1>2, <2>1, IdleMove
  <2>3. TypeOK'
    <3>1. llt' \in [CPUs -> 0..Wrap-1] /\ lls' \in [CPUs -> 0..Wrap-1]
      BY <2>1 DEF IInv, TypeOK
    <3> QED
      BY <2>1, <2>2, <3>1 DEF IInv, TypeOK
  <2>4. LinkInv'
    BY <2>1 DEF IInv, TypeOK, LinkInv
  <2> QED
    BY <2>2, <2>3, <2>4 DEF IInv
<1>3. ASSUME NEW c \in CPUs, LockLoad(c) \/ TryLoad(c)
      PROVE  IInv'
  BY <1>2, <1>3 DEF LockLoad, TryLoad
<1>4. ASSUME NEW c \in CPUs, LockStore(c)
      PROVE  IInv'
  BY <1>4, StoreIInv DEF LockStore
<1>5. ASSUME NEW c \in CPUs, TryStore(c)
      PROVE  IInv'
  BY <1>5, StoreIInv DEF TryStore, TryFree
<1>6. ASSUME NEW c \in CPUs, TryFails(c)
      PROVE  IInv'
  <2>1. pc[c] = "try_sc" /\ Goto(c, "out") /\ UNCHANGED <<ticket, serving_now, link, llt, lls, my_ticket, order>>
    BY <1>6 DEF TryFails
  <2> QED
    BY <2>1, IdleMove DEF IInv, TypeOK, LinkInv
<1>7. ASSUME NEW c \in CPUs, Retry(c)
      PROVE  IInv'
  <2>1. PICK l \in {"lock", "try"} : Goto(c, l)
    BY <1>7 DEF Retry
  <2>2. /\ pc[c] \in {"lock_sc", "try_sc"} /\ link' = link \ {c}
        /\ UNCHANGED <<ticket, serving_now, llt, lls, my_ticket, order>>
    BY <1>7 DEF Retry
  <2> QED
    BY <2>1, <2>2, IdleMove DEF IInv, TypeOK, LinkInv
<1>8. CASE UNCHANGED vars
  BY <1>8 DEF vars, IInv, TypeOK, DrawnInv, TicketInv, LinkInv, FirstComeFirstServed, u16
<1> QED
  BY <1>1, <1>3, <1>4, <1>5, <1>6, <1>7, <1>8, SpinIInv, UnlockIInv DEF Next, Step

\* The invariant holds throughout.
LEMMA Invariance == Spec => []IInv
  BY InitIInv, NextIInv, PTL DEF Spec

-----------------------------------------------------------------------------
\* TypeOK holds for any number of CPUs below Wrap: the 16-bit halves of the word
\* stay in range and no CPU holds two tickets.
THEOREM TypeCorrect == Spec => []TypeOK
<1>1. IInv => TypeOK
  BY DEF IInv
<1> QED
  BY <1>1, Invariance, PTL

\* FirstComeFirstServed: __raw_spin_lock() and __raw_spin_trylock() let in only
\* the CPU with the oldest ticket, so at most one, although __raw_spin_unlock()
\* stores one half of a word that the others store as a whole.
THEOREM ServedInOrder == Spec => []FirstComeFirstServed
<1>1. IInv => FirstComeFirstServed
  BY DEF IInv
<1> QED
  BY <1>1, Invariance, PTL

\* WordTellsState: __raw_spin_is_locked() and __raw_spin_is_contended() read the
\* number of tickets that are out off the two halves, wherever these wrap.
THEOREM WordCorrect == Spec => []WordTellsState
<1>1. ASSUME IInv PROVE WordTellsState
  <2> DEFINE n == Len(order)
  <2>1. n \in Nat /\ n < Wrap
    BY <1>1, FewTickets DEF IInv, TypeOK
  <2>2. ticket = u16(serving_now + n) /\ serving_now \in 0..Wrap-1
    BY <1>1 DEF IInv, TypeOK, TicketInv
  <2> HIDE DEF n
  <2>3. u16(ticket + Wrap - serving_now) = n
    BY <2>1, <2>2, TicketAssumption DEF u16
  <2>4. ticket # serving_now <=> n > 0
    BY <2>1, <2>2, TicketAssumption DEF u16
  <2> QED
    BY <2>3, <2>4 DEF WordTellsState, spin_is_locked, spin_is_contended, n
<1> QED
  BY <1>1, Invariance, PTL
-----------------------------------------------------------------------------
(* kfifo.  Indices that run on and wrap.                                   *)

\* How far index y is ahead of index x, as an unsigned int; where the k-th byte
\* after index x is; and the n bytes from there on.
Dist(x, y) == (IndexWrap + y - x) % IndexWrap
Slot(x, k) == (x + k) % Size
Bytes(b, x, n) == [i \in 1..n |-> b[(x + i - 1) % Size]]

\* How many bytes there are, and the queue that the fifo stands for.
Used == Dist(out, in)
Queue == Bytes(buffer, out, Used)

\* What the assumptions say of the constants.
LEMMA FHyp ==
  /\ Size \in Nat \ {0} /\ IndexWrap \in Nat \ {0} /\ IndexWrap % Size = 0
  /\ Size < IndexWrap /\ MaxLen \in Nat
BY FifoAssumption DEF Bare!KfifoAssumption

\* The size of the buffer divides the number at which the indices wrap.
LEMMA WrapsWhole ==
  ASSUME NEW x \in Multiples(IndexWrap)
  PROVE  x \in Multiples(Size)
<1>1. PICK j \in Int : x = IndexWrap * j
  BY DEF Multiples
<1>2. PICK d \in Int : IndexWrap - 0 = Size * d
  <2>1. IndexWrap - (IndexWrap % Size) \in Multiples(Size)
    BY FHyp, ModIs
  <2> QED
    BY <2>1, FHyp DEF Multiples
<1>3. x = Size * (d * j) /\ d * j \in Int
  <2>1. IndexWrap = Size * d
    BY <1>2, FHyp
  <2> QED
    BY <1>1, <2>1, FHyp
<1> QED
  BY <1>3 DEF Multiples

\* The distance between two indices, as an unsigned int.
LEMMA Distance ==
  ASSUME NEW x \in 0..IndexWrap-1, NEW y \in 0..IndexWrap-1, NEW u
  PROVE  Dist(x, y) = u
           <=> u \in 0..IndexWrap-1 /\ (y - x) - u \in Multiples(IndexWrap)
<1> DEFINE W == IndexWrap
           z == W + y - x
<1>1. W \in Nat \ {0} /\ z \in Int /\ x \in Int /\ y \in Int /\ z = W + (y - x)
  BY FHyp
<1> HIDE DEF z, W
<1>2. z % W \in 0..W-1 /\ z - (z % W) \in Multiples(W)
  BY <1>1, ModIs
<1>3. \A v \in 0..W-1 : z - v \in Multiples(W) => z % W = v
  BY <1>1, ModUnique
<1>4. ASSUME NEW v \in 0..W-1
      PROVE  z - v \in Multiples(W) <=> (y - x) - v \in Multiples(W)
  <2>1. W \in Multiples(W)
    BY <1>1, MultipleUnits
  <2>2. z - v = ((y - x) - v) + W /\ (y - x) - v = (z - v) - W
    BY <1>1
  <2> QED
    BY <1>1, <2>1, <2>2, MultipleSum
<1> QED
  BY <1>2, <1>3, <1>4 DEF z, W, Dist

\* A copy goes on at the beginning of the buffer when it has come to the end.
LEMMA CopyOffset ==
  ASSUME NEW x \in Int, NEW n \in 0..Size, NEW i \in 0..n-1
  PROVE  Bare!Offset(x, i, n) = Slot(x, i) /\ Slot(x, i) \in 0..Size-1
<1> DEFINE r == x % Size
<1>1. r \in 0..Size-1 /\ x - r \in Multiples(Size) /\ Size \in Nat \ {0}
  BY FHyp, ModIs
<1> HIDE DEF r
<1>2. PICK y \in Int : y = x + i
  OBVIOUS
<1>3. CASE i < Size - r
  <2>1. y - (r + i) = x - r /\ r + i \in 0..Size-1
    BY <1>1, <1>2, <1>3
  <2>2. y % Size = r + i
    <3>1. PICK v \in 0..Size-1 : v = r + i
      BY <2>1
    <3> QED
      BY <1>1, <2>1, <3>1, ModUnique
  <2>3. Bare!Offset(x, i, n) = r + i
    BY <1>1, <1>3 DEF Bare!Offset, Bare!Smaller, r
  <2> QED
    BY <1>2, <2>1, <2>2, <2>3 DEF Slot
<1>4. CASE ~(i < Size - r)
  <2>1. PICK v \in 0..Size-1 : v = i - (Size - r)
    BY <1>1, <1>4
  <2>2. (x - r) + Size \in Multiples(Size) /\ y - v = (x - r) + Size
    BY <1>1, <1>2, <2>1, MultipleUnits, MultipleSum
  <2>3. y % Size = v
    BY <1>1, <2>2, ModUnique
  <2>4. Bare!Offset(x, i, n) = v
    BY <1>1, <1>4, <2>1 DEF Bare!Offset, Bare!Smaller, r
  <2> QED
    BY <1>2, <2>3, <2>4 DEF Slot
<1> QED
  BY <1>3, <1>4

\* Two bytes less than a buffer apart are in different places.
LEMMA SlotsDiffer ==
  ASSUME NEW x \in Int, NEW i \in 0..Size-1, NEW j \in 0..Size-1, Slot(x, i) = Slot(x, j)
  PROVE  i = j
<1>1. PICK y \in Int, z \in Int : y = x + i /\ z = x + j
  OBVIOUS
<1>2. PICK v \in 0..Size-1 : v = y % Size /\ v = z % Size
  BY <1>1, FHyp, ModIs DEF Slot
<1>3. (y - v) - (z - v) \in Multiples(Size)
  BY <1>2, FHyp, ModIs, MultipleSum
<1>4. (y - v) - (z - v) = i - j /\ -Size < i - j /\ i - j < Size
  BY <1>1, FHyp
<1>5. i - j = 0
  BY <1>3, <1>4, FHyp, MultipleSmall
<1> QED
  BY <1>5

\* Indices that are the same but for a turn have the same places.
LEMMA SlotMoves ==
  ASSUME NEW x \in Int, NEW y \in Int, NEW k \in Nat, NEW i \in Nat,
         (y - x) - k \in Multiples(IndexWrap)
  PROVE  Slot(y, i) = Slot(x, k + i)
<1>1. PICK a \in Int, b \in Int : a = y + i /\ b = x + (k + i)
  OBVIOUS
<1>2. PICK v \in 0..Size-1 : v = b % Size /\ b - v \in Multiples(Size)
  BY FHyp, ModIs
<1>3. (y - x) - k \in Multiples(Size)
  BY WrapsWhole
<1>4. ((y - x) - k) + (b - v) \in Multiples(Size)
  BY <1>2, <1>3, FHyp, MultipleSum
<1>5. ((y - x) - k) + (b - v) = a - v
  BY <1>1
<1>6. a % Size = v
  BY <1>4, <1>5, FHyp, ModUnique
<1> QED
  BY <1>1, <1>2, <1>6 DEF Slot

-----------------------------------------------------------------------------
(* The invariant of the fifo, with its lock or without.                    *)

\* A put in progress has room, and a get in progress has its bytes.
RoomInv == Used + wlen <= Size /\ rlen <= Used

\* Both have copied what is in the buffer from their index on.
CopyInv ==
  /\ \A i \in 1..Len(wbuf) : wbuf[i] = buffer[Slot(in, i - 1)]
  /\ \A i \in 1..Len(rbuf) : rbuf[i] = buffer[Slot(out, i - 1)]

RestInv ==
  /\ wpc = "idle" => wlen = 0 /\ wbuf = <<>>
  /\ rpc = "idle" => rlen = 0 /\ rbuf = <<>>

FInv == Bare!TypeOK /\ RoomInv /\ CopyInv /\ RestInv

\* With the lock only its owner copies.
HeldInv == (wpc = "copy" <=> lock = "put") /\ (rpc = "copy" <=> lock = "get")

\* s is the queue of n bytes between the indices x and y.
IsQueue(s, n, x, y, b) ==
  /\ n \in Nat /\ (y - x) - n \in Multiples(IndexWrap)
  /\ s \in Seq(Byte) /\ Len(s) = n
  /\ \A i \in 1..n : s[i] = b[Slot(x, i - 1)]

\* The bytes between two indices are a queue.
LEMMA QueueIs ==
  ASSUME NEW x \in 0..IndexWrap-1, NEW y \in 0..IndexWrap-1, NEW b \in [0..Size-1 -> Byte],
         NEW n, n = Dist(x, y), NEW s, s = Bytes(b, x, n)
  PROVE  IsQueue(s, n, x, y, b)
<1>1. n \in Nat /\ x \in Int /\ (y - x) - n \in Multiples(IndexWrap)
  BY Distance, FHyp
<1>2. ASSUME NEW i \in 1..n
      PROVE  (x + i - 1) % Size = Slot(x, i - 1) /\ Slot(x, i - 1) \in 0..Size-1
  <2>1. PICK z \in Int : z = x + (i - 1) /\ z = x + i - 1
    BY <1>1
  <2>2. z % Size \in 0..Size-1
    BY FHyp, ModIs
  <2> QED
    BY <2>1, <2>2 DEF Slot
<1>3. \A i \in 1..n : s[i] = b[Slot(x, i - 1)] /\ b[Slot(x, i - 1)] \in Byte
  BY <1>2 DEF Bytes
<1>4. s \in [1..n -> Byte]
  BY <1>3 DEF Bytes
<1>5. s \in Seq(Byte) /\ Len(s) = n
  BY <1>1, <1>4
<1> QED
  BY <1>1, <1>3, <1>5 DEF IsQueue

\* The queue before a step and after it.
LEMMA BothQueues ==
  ASSUME Bare!TypeOK, Bare!TypeOK'
  PROVE  IsQueue(Queue, Used, out, in, buffer) /\ IsQueue(Queue', Used', out', in', buffer')
<1>1. Queue = Bytes(buffer, out, Used) /\ Queue' = Bytes(buffer', out', Used')
  BY DEF Queue, Bytes
<1>2. Used = Dist(out, in) /\ Used' = Dist(out', in')
  BY DEF Used, Dist
<1>3. /\ in \in 0..IndexWrap-1 /\ out \in 0..IndexWrap-1 /\ buffer \in [0..Size-1 -> Byte]
      /\ in' \in 0..IndexWrap-1 /\ out' \in 0..IndexWrap-1 /\ buffer' \in [0..Size-1 -> Byte]
  BY DEF Bare!TypeOK
<1> QED
  BY <1>1, <1>2, <1>3, QueueIs

\* The last queue and the next, step by step.
Same == Queue' = Queue /\ moved' = moved
Appended == Queue' = Queue \o moved' /\ Len(Queue') <= Size
Taken == Queue = moved' \o Queue'
Cleared == Queue' = <<>> /\ moved' = moved

-----------------------------------------------------------------------------
(* The steps of a put.                                                     *)

\* Facts about the state that every step uses.
LEMMA FState ==
  ASSUME FInv
  PROVE  /\ in \in Int /\ out \in Int /\ in \in 0..IndexWrap-1 /\ out \in 0..IndexWrap-1
         /\ Used \in Nat /\ wlen \in Nat /\ rlen \in Nat
         /\ Used + wlen <= Size /\ rlen <= Used /\ Used <= Size
         /\ (in - out) - Used \in Multiples(IndexWrap)
         /\ Len(wbuf) \in Nat /\ Len(rbuf) \in Nat /\ Len(wbuf) <= wlen /\ Len(rbuf) <= rlen
<1>1. Bare!TypeOK /\ RoomInv
  BY DEF FInv
<1>2. in \in 0..IndexWrap-1 /\ out \in 0..IndexWrap-1 /\ wlen \in Nat /\ rlen \in Nat
  BY <1>1, FHyp DEF Bare!TypeOK
<1>3. Used \in 0..IndexWrap-1 /\ (in - out) - Used \in Multiples(IndexWrap)
  BY <1>2, Distance DEF Used
<1>4. Len(wbuf) \in Nat /\ Len(rbuf) \in Nat /\ Len(wbuf) <= wlen /\ Len(rbuf) <= rlen
  BY <1>1 DEF Bare!TypeOK
<1> QED
  BY <1>1, <1>2, <1>3, <1>4, FHyp DEF RoomInv

\* What __kfifo_put() takes for the room left is that.
LEMMA FreeIs ==
  ASSUME FInv
  PROVE  Bare!Free = Size - Used
<1>1. PICK u \in Nat, i \in Int, o \in Int :
        u = Used /\ i = in /\ o = out /\ u <= Size /\ (i - o) - u \in Multiples(IndexWrap)
  BY FState
<1>2. PICK x \in Int : x = IndexWrap + Size - i + o
  BY FHyp
<1>3. IndexWrap - ((i - o) - u) \in Multiples(IndexWrap)
  BY <1>1, FHyp, MultipleUnits, MultipleSum
<1>4. PICK y \in 0..IndexWrap-1 : y = Size - u
  BY <1>1, FHyp
<1>5. x - y = IndexWrap - ((i - o) - u)
  BY <1>2, <1>4, FHyp
<1>6. x % IndexWrap = y
  BY <1>3, <1>5, FHyp, ModUnique
<1> QED
  BY <1>1, <1>2, <1>4, <1>6 DEF Bare!Free

\* len = min(len, fifo->size - fifo->in + fifo->out)
LEMMA PutBeginStep ==
  ASSUME FInv, NEW len \in 0..MaxLen, wlen' = Bare!Smaller(len, Bare!Free),
         wpc' = "copy", wbuf' = <<>>, lock' \in {"free", "put", "get"},
         UNCHANGED <<in, out, buffer, rpc, rlen, rbuf, moved>>
  PROVE  FInv' /\ Same
<1>1. Bare!TypeOK /\ RoomInv /\ CopyInv /\ RestInv
  BY DEF FInv
<1>2. Used' = Used /\ Queue' = Queue
  BY DEF Used, Queue, Dist, Bytes
<1>3. wlen' \in 0..Size /\ Used + wlen' <= Size
  <2>1. PICK u \in Nat, f \in Int : u = Used /\ f = Bare!Free /\ f = Size - u /\ u <= Size
    BY FreeIs, FState, FHyp
  <2>2. wlen' = IF len < f THEN len ELSE f
    BY <2>1 DEF Bare!Smaller
  <2> QED
    BY <2>1, <2>2, FHyp
<1>4. Len(<<>>) = 0 /\ <<>> \in Seq(Byte)
  OBVIOUS
<1>5. Bare!TypeOK'
  BY <1>1, <1>3, <1>4 DEF Bare!TypeOK
<1>6. RoomInv' /\ RestInv'
  BY <1>1, <1>2, <1>3 DEF RoomInv, RestInv
<1>7. CopyInv'
  BY <1>1, <1>4 DEF CopyInv, Slot
<1> QED
  BY <1>2, <1>5, <1>6, <1>7 DEF FInv, Same

\* A byte goes behind those in the queue and those already copied.
LEMMA PutByteStep ==
  ASSUME FInv, Len(wbuf) < wlen, wpc = "copy", NEW b \in Byte,
         buffer' = [buffer EXCEPT ![Bare!Offset(in, Len(wbuf), wlen)] = b],
         wbuf' = Append(wbuf, b),
         UNCHANGED <<in, out, lock, wpc, wlen, rpc, rlen, rbuf, moved>>
  PROVE  FInv' /\ Same
<1>1. Bare!TypeOK /\ RoomInv /\ CopyInv /\ RestInv
  BY DEF FInv
<1>2. Used' = Used
  BY DEF Used, Dist
<1>3. PICK k \in Nat, u \in Nat : k = Len(wbuf) /\ u = Used /\ k < wlen /\ u + k < Size
  BY FState, FHyp
<1>4. PICK t \in 0..Size-1 : t = Bare!Offset(in, k, wlen) /\ t = Slot(in, k) /\ t = Slot(out, u + k)
  <2>1. wlen \in 0..Size /\ k \in 0..wlen-1 /\ in \in Int /\ out \in Int
    BY <1>1, <1>3, FState DEF Bare!TypeOK
  <2>2. Slot(in, k) = Slot(out, u + k)
    BY <1>3, <2>1, FState, SlotMoves
  <2> QED
    BY <2>1, <2>2, CopyOffset
<1>5. buffer' = [buffer EXCEPT ![t] = b] /\ buffer'[t] = b
  BY <1>1, <1>3, <1>4 DEF Bare!TypeOK
<1>6. \A i \in 1..k : buffer'[Slot(in, i - 1)] = buffer[Slot(in, i - 1)]
  <2>1. \A i \in 1..k : i - 1 \in 0..Size-1 /\ k \in 0..Size-1 /\ i - 1 # k
    BY <1>3, FHyp
  <2>2. \A i \in 1..k : Slot(in, i - 1) # t
    BY <1>4, <2>1, FState, SlotsDiffer
  <2> QED
    BY <1>1, <1>5, <2>2 DEF Bare!TypeOK
<1>7. \A i \in 1..u : buffer'[Slot(out, i - 1)] = buffer[Slot(out, i - 1)]
  <2>1. \A i \in 1..u : i - 1 \in 0..Size-1 /\ u + k \in 0..Size-1 /\ i - 1 # u + k
    BY <1>3, FHyp
  <2>2. \A i \in 1..u : Slot(out, i - 1) # t
    BY <1>4, <2>1, FState, SlotsDiffer
  <2> QED
    BY <1>1, <1>5, <2>2 DEF Bare!TypeOK
<1>8. /\ wbuf' \in Seq(Byte) /\ Len(wbuf') = k + 1 /\ wbuf'[k + 1] = b
      /\ \A i \in 1..k : wbuf'[i] = wbuf[i]
  BY <1>1, <1>3 DEF Bare!TypeOK
<1>9. Bare!TypeOK'
  <2>1. k + 1 <= wlen
    BY <1>3, FState
  <2>2. buffer' \in [0..Size-1 -> Byte]
    BY <1>1, <1>5 DEF Bare!TypeOK
  <2> QED
    BY <1>1, <1>8, <2>1, <2>2 DEF Bare!TypeOK
<1>10. RoomInv' /\ RestInv'
  BY <1>1, <1>2 DEF RoomInv, RestInv
<1>11. CopyInv'
  <2>1. \A i \in 1..k+1 : i \in 1..k \/ (i = k + 1 /\ i - 1 = k)
    BY <1>3
  <2>2. \A i \in 1..k+1 : wbuf'[i] = buffer'[Slot(in, i - 1)]
    BY <1>1, <1>3, <1>4, <1>5, <1>6, <1>8, <2>1 DEF CopyInv
  <2>3. \A i \in 1..Len(rbuf) : i \in 1..u
    BY <1>3, FState
  <2>4. \A i \in 1..Len(rbuf) : rbuf[i] = buffer'[Slot(out, i - 1)]
    BY <1>1, <1>7, <2>3 DEF CopyInv
  <2> QED
    BY <1>8, <2>2, <2>4 DEF CopyInv, Slot
<1>12. Queue' = Queue
  <2>1. IsQueue(Queue, u, out, in, buffer) /\ IsQueue(Queue', u, out, in, buffer')
    BY <1>1, <1>2, <1>3, <1>9, BothQueues
  <2>2. \A i \in 1..u : Queue'[i] = Queue[i]
    BY <1>7, <2>1 DEF IsQueue
  <2> QED
    BY <2>1, <2>2, SeqEqual DEF IsQueue
<1> QED
  BY <1>9, <1>10, <1>11, <1>12 DEF FInv, Same

\* s is a with b behind it.
LEMMA Joined ==
  ASSUME NEW a \in Seq(Byte), NEW b \in Seq(Byte), NEW s \in Seq(Byte),
         Len(s) = Len(a) + Len(b),
         \A i \in 1..Len(a) : s[i] = a[i],
         \A i \in 1..Len(b) : s[Len(a) + i] = b[i]
  PROVE  s = a \o b
<1>1. PICK m \in Nat, n \in Nat : m = Len(a) /\ n = Len(b)
  OBVIOUS
<1>2. /\ a \o b \in Seq(Byte) /\ Len(a \o b) = m + n
      /\ \A i \in 1..m + n : (a \o b)[i] = IF i <= m THEN a[i] ELSE b[i - m]
  BY <1>1, ConcatProperties
<1>3. ASSUME NEW i \in 1..m + n
      PROVE  s[i] = (a \o b)[i]
  <2>1. CASE i <= m
    BY <1>1, <1>2, <2>1
  <2>2. CASE ~(i <= m)
    <3>1. PICK j \in 1..n : j = i - m /\ i = m + j
      BY <2>2
    <3> QED
      BY <1>1, <1>2, <2>2, <3>1
  <2> QED
    BY <2>1, <2>2
<1> QED
  BY <1>1, <1>2, <1>3, SeqEqual

\* fifo->in += len: what has been copied is in the queue.
LEMMA PutEndStep ==
  ASSUME FInv, Len(wbuf) = wlen, in' = (in + wlen) % IndexWrap, moved' = wbuf,
         wpc' = "idle", wlen' = 0, wbuf' = <<>>, lock' = "free",
         UNCHANGED <<out, buffer, rpc, rlen, rbuf>>
  PROVE  FInv' /\ Appended
<1>1. Bare!TypeOK /\ RoomInv /\ CopyInv /\ RestInv
  BY DEF FInv
<1>2. PICK u \in Nat, l \in Nat, x \in Int, y \in Int :
        /\ u = Used /\ l = wlen /\ x = out /\ y = in /\ u + l <= Size
        /\ (y - x) - u \in Multiples(IndexWrap)
  BY FState
<1>3. PICK z \in 0..IndexWrap-1 : z = in' /\ (y + l) - z \in Multiples(IndexWrap)
  <2>1. PICK v \in Int : v = y + l
    OBVIOUS
  <2>2. v % IndexWrap \in 0..IndexWrap-1 /\ v - (v % IndexWrap) \in Multiples(IndexWrap)
    BY FHyp, ModIs
  <2> QED
    BY <1>2, <2>1, <2>2
<1>4. Used' = u + l
  <2>1. ((y - x) - u) - ((y + l) - z) \in Multiples(IndexWrap)
    BY <1>2, <1>3, FHyp, MultipleSum
  <2>2. ((y - x) - u) - ((y + l) - z) = (z - x) - (u + l)
    BY <1>3, FHyp
  <2>3. u + l \in 0..IndexWrap-1 /\ x \in 0..IndexWrap-1
    BY <1>2, FHyp, FState
  <2>4. Dist(x, z) = u + l
    BY <2>1, <2>2, <2>3, Distance
  <2> QED
    BY <1>2, <1>3, <2>4 DEF Used, Dist
<1>5. Len(<<>>) = 0 /\ <<>> \in Seq(Byte)
  OBVIOUS
<1>6. Bare!TypeOK'
  BY <1>1, <1>3, <1>5, FHyp DEF Bare!TypeOK
<1>7. RoomInv' /\ RestInv'
  <2>1. rlen <= u + l /\ u + l + 0 <= Size
    BY <1>2, FState, FHyp
  <2> QED
    BY <1>1, <1>4, <2>1 DEF RoomInv, RestInv
<1>8. CopyInv'
  BY <1>1, <1>5 DEF CopyInv, Slot
<1>9. /\ IsQueue(Queue, u, x, y, buffer) /\ IsQueue(Queue', u + l, x, z, buffer)
      /\ wbuf \in Seq(Byte) /\ Len(wbuf) = l
  BY <1>1, <1>2, <1>3, <1>4, <1>6, BothQueues DEF Bare!TypeOK
<1>10. ASSUME NEW i \in 1..l
       PROVE  Queue'[u + i] = wbuf[i]
  <2>1. PICK j \in Nat : j = i - 1 /\ (u + i) - 1 = u + j /\ u + i \in 1..u + l
    OBVIOUS
  <2>2. Slot(y, j) = Slot(x, u + j)
    <3>1. (y - x) - u \in Multiples(IndexWrap)
      BY <1>2
    <3> QED
      BY <3>1, SlotMoves
  <2>3. wbuf[i] = buffer[Slot(y, i - 1)]
    BY <1>1, <1>2, <1>9 DEF CopyInv
  <2> QED
    BY <1>9, <2>1, <2>2, <2>3 DEF IsQueue
<1>11. \A i \in 1..u : Queue'[i] = Queue[i]
  <2>1. \A i \in 1..u : i \in 1..u + l
    OBVIOUS
  <2> QED
    BY <1>9, <2>1 DEF IsQueue
<1>12. Len(Queue') = Len(Queue) + Len(wbuf) /\ Len(Queue') <= Size
  BY <1>2, <1>9 DEF IsQueue
<1>13. Queue' = Queue \o wbuf
  BY <1>9, <1>10, <1>11, <1>12, Joined DEF IsQueue
<1> QED
  BY <1>6, <1>7, <1>8, <1>12, <1>13 DEF FInv, Appended

-----------------------------------------------------------------------------
(* The steps of a get.                                                     *)

\* len = min(len, fifo->in - fifo->out)
LEMMA GetBeginStep ==
  ASSUME FInv, NEW len \in 0..MaxLen, rlen' = Bare!Smaller(len, Bare!kfifo_len),
         rpc' = "copy", rbuf' = <<>>, lock' \in {"free", "put", "get"},
         UNCHANGED <<in, out, buffer, wpc, wlen, wbuf, moved>>
  PROVE  FInv' /\ Same
<1>1. Bare!TypeOK /\ RoomInv /\ CopyInv /\ RestInv
  BY DEF FInv
<1>2. Used' = Used /\ Queue' = Queue
  BY DEF Used, Queue, Dist, Bytes
<1>3. rlen' \in 0..Size /\ rlen' <= Used
  <2>1. PICK u \in Nat : u = Used /\ u = Bare!kfifo_len /\ u <= Size
    BY FState DEF Used, Dist, Bare!kfifo_len
  <2>2. rlen' = IF len < u THEN len ELSE u
    BY <2>1 DEF Bare!Smaller
  <2> QED
    BY <2>1, <2>2, FHyp
<1>4. Len(<<>>) = 0 /\ <<>> \in Seq(Byte)
  OBVIOUS
<1>5. Bare!TypeOK'
  BY <1>1, <1>3, <1>4 DEF Bare!TypeOK
<1>6. RoomInv' /\ RestInv'
  BY <1>1, <1>2, <1>3 DEF RoomInv, RestInv
<1>7. CopyInv'
  BY <1>1, <1>4 DEF CopyInv, Slot
<1> QED
  BY <1>2, <1>5, <1>6, <1>7 DEF FInv, Same

\* The next byte of the queue.
LEMMA GetByteStep ==
  ASSUME FInv, Len(rbuf) < rlen, rpc = "copy",
         rbuf' = Append(rbuf, buffer[Bare!Offset(out, Len(rbuf), rlen)]),
         UNCHANGED <<in, out, buffer, lock, wpc, wlen, wbuf, rpc, rlen, moved>>
  PROVE  FInv' /\ Same
<1>1. Bare!TypeOK /\ RoomInv /\ CopyInv /\ RestInv
  BY DEF FInv
<1>2. Used' = Used /\ Queue' = Queue
  BY DEF Used, Queue, Dist, Bytes
<1>3. PICK k \in Nat : k = Len(rbuf) /\ k < rlen /\ k + 1 <= rlen
  BY FState
<1>4. PICK t \in 0..Size-1 : t = Bare!Offset(out, k, rlen) /\ t = Slot(out, k)
  <2>1. rlen \in 0..Size /\ k \in 0..rlen-1 /\ out \in Int
    BY <1>1, <1>3, FState DEF Bare!TypeOK
  <2> QED
    BY <2>1, CopyOffset
<1>5. /\ rbuf' \in Seq(Byte) /\ Len(rbuf') = k + 1 /\ rbuf'[k + 1] = buffer[t]
      /\ \A i \in 1..k : rbuf'[i] = rbuf[i]
  <2>1. buffer[t] \in Byte /\ rbuf \in Seq(Byte)
    BY <1>1, <1>4 DEF Bare!TypeOK
  <2> QED
    BY <1>3, <1>4, <2>1
<1>6. Bare!TypeOK'
  BY <1>1, <1>3, <1>5 DEF Bare!TypeOK
<1>7. RoomInv' /\ RestInv'
  BY <1>1, <1>2 DEF RoomInv, RestInv
<1>8. CopyInv'
  <2>1. \A i \in 1..k+1 : i \in 1..k \/ (i = k + 1 /\ i - 1 = k)
    BY <1>3
  <2>2. \A i \in 1..k+1 : rbuf'[i] = buffer[Slot(out, i - 1)]
    BY <1>1, <1>3, <1>4, <1>5, <2>1 DEF CopyInv
  <2> QED
    BY <1>1, <1>5, <2>2 DEF CopyInv, Slot
<1> QED
  BY <1>2, <1>6, <1>7, <1>8 DEF FInv, Same

\* fifo->out += len: what has been copied is no longer in the queue.
LEMMA GetEndStep ==
  ASSUME FInv, Len(rbuf) = rlen, out' = (out + rlen) % IndexWrap, moved' = rbuf,
         rpc' = "idle", rlen' = 0, rbuf' = <<>>, lock' = "free",
         UNCHANGED <<in, buffer, wpc, wlen, wbuf>>
  PROVE  FInv' /\ Taken
<1>1. Bare!TypeOK /\ RoomInv /\ CopyInv /\ RestInv
  BY DEF FInv
<1>2. PICK u \in Nat, l \in Nat, x \in Int, y \in Int :
        /\ u = Used /\ l = rlen /\ x = out /\ y = in /\ l <= u /\ u <= Size /\ u + wlen <= Size
        /\ (y - x) - u \in Multiples(IndexWrap)
  BY FState
<1>3. PICK z \in 0..IndexWrap-1 : z = out' /\ (x + l) - z \in Multiples(IndexWrap)
  <2>1. PICK v \in Int : v = x + l
    OBVIOUS
  <2>2. v % IndexWrap \in 0..IndexWrap-1 /\ v - (v % IndexWrap) \in Multiples(IndexWrap)
    BY FHyp, ModIs
  <2> QED
    BY <1>2, <2>1, <2>2
<1>4. PICK w \in Nat : w = u - l /\ Used' = w
  <2>1. ((y - x) - u) + ((x + l) - z) \in Multiples(IndexWrap)
    BY <1>2, <1>3, FHyp, MultipleSum
  <2>2. PICK w \in Nat : w = u - l
    BY <1>2
  <2>3. ((y - x) - u) + ((x + l) - z) = (y - z) - w
    BY <1>3, <2>2, FHyp
  <2>4. w \in 0..IndexWrap-1 /\ y \in 0..IndexWrap-1
    BY <1>2, <2>2, FHyp, FState
  <2>5. Dist(z, y) = w
    BY <2>1, <2>3, <2>4, Distance
  <2> QED
    BY <1>2, <1>3, <2>2, <2>5 DEF Used, Dist
<1>5. Len(<<>>) = 0 /\ <<>> \in Seq(Byte)
  OBVIOUS
<1>6. Bare!TypeOK'
  BY <1>1, <1>3, <1>5, FHyp DEF Bare!TypeOK
<1>7. RoomInv' /\ RestInv'
  <2>1. w + wlen <= Size /\ 0 <= w
    BY <1>2, <1>4, FState, FHyp
  <2> QED
    BY <1>1, <1>4, <2>1 DEF RoomInv, RestInv
<1>8. CopyInv'
  BY <1>1, <1>5 DEF CopyInv, Slot
<1>9. /\ IsQueue(Queue, u, x, y, buffer) /\ IsQueue(Queue', w, z, y, buffer)
      /\ rbuf \in Seq(Byte) /\ Len(rbuf) = l
  BY <1>1, <1>2, <1>3, <1>4, <1>6, BothQueues DEF Bare!TypeOK
<1>10. ASSUME NEW i \in 1..w
       PROVE  Queue[l + i] = Queue'[i]
  <2>1. PICK j \in Nat : j = i - 1 /\ (l + i) - 1 = l + j /\ l + i \in 1..u
    BY <1>4
  <2>2. (z - x) - l \in Multiples(IndexWrap)
    <3>1. 0 - ((x + l) - z) \in Multiples(IndexWrap)
      BY <1>3, FHyp, MultipleUnits, MultipleSum
    <3>2. 0 - ((x + l) - z) = (z - x) - l
      BY <1>3, FHyp
    <3> QED
      BY <3>1, <3>2
  <2>3. z \in Int
    BY FHyp
  <2>4. Slot(z, j) = Slot(x, l + j)
    BY <2>2, <2>3, SlotMoves
  <2> QED
    BY <1>9, <2>1, <2>4 DEF IsQueue
<1>11. \A i \in 1..l : Queue[i] = rbuf[i]
  <2>1. \A i \in 1..l : i \in 1..u
    BY <1>2
  <2> QED
    BY <1>1, <1>2, <1>9, <2>1 DEF IsQueue, CopyInv
<1>12. Len(Queue) = Len(rbuf) + Len(Queue')
  BY <1>2, <1>4, <1>9 DEF IsQueue
<1>13. Queue = rbuf \o Queue'
  BY <1>9, <1>10, <1>11, <1>12, Joined DEF IsQueue
<1> QED
  BY <1>6, <1>7, <1>8, <1>13 DEF FInv, Taken

\* The get of kfifo_get() that empties the fifo: both indices are set back.
LEMMA GetLastStep ==
  ASSUME FInv, Len(rbuf) = rlen, (out + rlen) % IndexWrap = in, wpc = "idle",
         in' = 0, out' = 0, moved' = rbuf,
         rpc' = "idle", rlen' = 0, rbuf' = <<>>, lock' = "free",
         UNCHANGED <<buffer, wpc, wlen, wbuf>>
  PROVE  FInv' /\ Taken
<1>1. Bare!TypeOK /\ RoomInv /\ CopyInv /\ RestInv
  BY DEF FInv
<1>2. PICK u \in Nat, l \in Nat, x \in Int, y \in Int :
        /\ u = Used /\ l = rlen /\ x = out /\ y = in /\ l <= u /\ u <= Size
        /\ x \in 0..IndexWrap-1 /\ y \in 0..IndexWrap-1
  BY FState
<1>3. u = l
  <2>1. PICK v \in Int : v = x + l
    OBVIOUS
  <2>2. v - y \in Multiples(IndexWrap)
    BY <1>2, <2>1, FHyp, ModIs
  <2>3. 0 - (v - y) \in Multiples(IndexWrap) /\ 0 - (v - y) = (y - x) - l
    BY <2>1, <2>2, FHyp, MultipleUnits, MultipleSum
  <2>4. l \in 0..IndexWrap-1
    BY <1>2, FHyp
  <2> QED
    BY <1>2, <2>3, <2>4, Distance DEF Used
<1>4. Used' = 0
  <2>1. 0 \in 0..IndexWrap-1 /\ (0 - 0) - 0 \in Multiples(IndexWrap)
    BY FHyp, MultipleUnits
  <2>2. Dist(0, 0) = 0
    BY <2>1, Distance
  <2> QED
    BY <2>2 DEF Used, Dist
<1>5. Len(<<>>) = 0 /\ <<>> \in Seq(Byte)
  OBVIOUS
<1>6. Bare!TypeOK'
  BY <1>1, <1>5, FHyp DEF Bare!TypeOK
<1>7. RoomInv' /\ RestInv'
  BY <1>1, <1>4, FHyp DEF RoomInv, RestInv
<1>8. CopyInv'
  BY <1>1, <1>5 DEF CopyInv, RestInv
<1>9. /\ IsQueue(Queue, l, x, y, buffer) /\ Queue' \in Seq(Byte) /\ Len(Queue') = 0
      /\ rbuf \in Seq(Byte) /\ Len(rbuf) = l
  BY <1>1, <1>2, <1>3, <1>4, <1>6, BothQueues DEF Bare!TypeOK, IsQueue
<1>10. \A i \in 1..l : Queue[i] = rbuf[i]
  BY <1>1, <1>2, <1>9 DEF IsQueue, CopyInv
<1>11. Len(Queue) = Len(rbuf) + Len(Queue') /\ 1..Len(Queue') = {}
  BY <1>9 DEF IsQueue
<1>12. Queue = rbuf \o Queue'
  BY <1>9, <1>10, <1>11, Joined DEF IsQueue
<1> QED
  BY <1>6, <1>7, <1>8, <1>12 DEF FInv, Taken

\* kfifo_reset(), while nobody copies.
LEMMA ResetStep ==
  ASSUME FInv, wpc = "idle", rpc = "idle", in' = 0, out' = 0,
         UNCHANGED <<buffer, lock, wpc, wlen, wbuf, rpc, rlen, rbuf, moved>>
  PROVE  FInv' /\ Cleared
<1>1. Bare!TypeOK /\ RoomInv /\ CopyInv /\ RestInv
  BY DEF FInv
<1>2. Used' = 0
  <2>1. 0 \in 0..IndexWrap-1 /\ (0 - 0) - 0 \in Multiples(IndexWrap)
    BY FHyp, MultipleUnits
  <2>2. Dist(0, 0) = 0
    BY <2>1, Distance
  <2> QED
    BY <2>2 DEF Used, Dist
<1>3. Len(<<>>) = 0
  OBVIOUS
<1>4. Bare!TypeOK'
  BY <1>1, FHyp DEF Bare!TypeOK
<1>5. RoomInv' /\ RestInv'
  BY <1>1, <1>2, FHyp DEF RoomInv, RestInv
<1>6. CopyInv'
  BY <1>1, <1>3 DEF CopyInv, RestInv
<1>7. Queue' = <<>>
  <2>1. Queue' \in Seq(Byte) /\ Len(Queue') = 0
    BY <1>1, <1>2, <1>4, BothQueues DEF IsQueue
  <2> QED
    BY <2>1
<1> QED
  BY <1>4, <1>5, <1>6, <1>7 DEF FInv, Cleared

\* A new fifo.
LEMMA FInitInv ==
  ASSUME Bare!Init
  PROVE  FInv /\ Queue = <<>> /\ moved = <<>>
<1>1. /\ in = 0 /\ out = 0 /\ lock = "free" /\ buffer \in [0..Size-1 -> Byte]
      /\ wpc = "idle" /\ wlen = 0 /\ wbuf = <<>>
      /\ rpc = "idle" /\ rlen = 0 /\ rbuf = <<>> /\ moved = <<>>
  BY DEF Bare!Init, Bare!kfifo_init
<1>2. 0 \in 0..IndexWrap-1 /\ 0 \in 0..Size /\ Len(<<>>) = 0 /\ <<>> \in Seq(Byte)
  BY FHyp
<1>3. Bare!TypeOK
  BY <1>1, <1>2 DEF Bare!TypeOK
<1>4. Used = 0
  <2>1. (0 - 0) - 0 \in Multiples(IndexWrap)
    BY FHyp, MultipleUnits
  <2>2. Dist(0, 0) = 0
    BY <1>2, <2>1, Distance
  <2> QED
    BY <1>1, <2>2 DEF Used
<1>5. RoomInv /\ CopyInv /\ RestInv
  BY <1>1, <1>2, <1>4, FHyp DEF RoomInv, CopyInv, RestInv
<1>6. Queue = <<>>
  BY <1>4 DEF Queue, Bytes
<1> QED
  BY <1>1, <1>3, <1>5, <1>6 DEF FInv

-----------------------------------------------------------------------------
(* The refinement.                                                         *)

\* A step of the fifo, as a step of the bounded queue.
FifoStep == Same \/ Appended \/ Taken \/ Cleared

\* A step that leaves the fifo alone.
LEMMA FStutter ==
  ASSUME FInv, UNCHANGED <<in, out, buffer, lock, wpc, wlen, wbuf, rpc, rlen, rbuf, moved>>
  PROVE  FInv' /\ Same
<1>1. Used' = Used /\ Queue' = Queue
  BY DEF Used, Queue, Dist, Bytes
<1> QED
  BY <1>1 DEF FInv, Same, Bare!TypeOK, RoomInv, CopyInv, RestInv, Slot

\* __kfifo_put() and __kfifo_get() side by side: nobody resets the fifo.
LEMMA BareStep ==
  ASSUME FInv, [Bare!Next]_Bare!vars
  PROVE  FInv' /\ FifoStep
<1> USE DEF FifoStep, Bare!wvars, Bare!rvars
<1>1. CASE Bare!PutBegin
  <2>1. lock' \in {"free", "put", "get"}
    BY <1>1 DEF Bare!PutBegin, Bare!Acquire
  <2> QED
    BY <1>1, <2>1, PutBeginStep DEF Bare!PutBegin
<1>2. CASE Bare!PutByte
  BY <1>2, PutByteStep DEF Bare!PutByte
<1>3. CASE Bare!PutEnd
  BY <1>3, PutEndStep DEF Bare!PutEnd
<1>4. CASE Bare!GetBegin
  <2>1. lock' \in {"free", "put", "get"}
    BY <1>4 DEF Bare!GetBegin, Bare!Acquire
  <2> QED
    BY <1>4, <2>1, GetBeginStep DEF Bare!GetBegin
<1>5. CASE Bare!GetByte
  BY <1>5, GetByteStep DEF Bare!GetByte
<1>6. CASE Bare!GetEnd
  BY <1>6, GetEndStep DEF Bare!GetEnd, Bare!NewOut
<1>7. CASE Bare!kfifo_reset
  BY <1>7 DEF Bare!kfifo_reset
<1>8. CASE UNCHANGED Bare!vars
  BY <1>8, FStutter DEF Bare!vars
<1> QED
  BY <1>1, <1>2, <1>3, <1>4, <1>5, <1>6, <1>7, <1>8 DEF Bare!Next

\* kfifo_put(), kfifo_get() and kfifo_reset(), one at a time.
LEMMA LockedStep ==
  ASSUME FInv, HeldInv, [Locked!Next]_Locked!vars
  PROVE  FInv' /\ HeldInv' /\ FifoStep
<1> USE DEF FifoStep, Locked!wvars, Locked!rvars
<1>0. wpc \in {"idle", "copy"} /\ rpc \in {"idle", "copy"} /\ lock \in {"free", "put", "get"}
  BY DEF FInv, Bare!TypeOK
<1>1. CASE Locked!PutBegin
  <2>1. PICK len \in 0..MaxLen : wlen' = Bare!Smaller(len, Bare!Free)
    BY <1>1 DEF Locked!PutBegin, Locked!Smaller, Locked!Free, Bare!Smaller, Bare!Free
  <2>2. lock = "free" /\ lock' = "put" /\ wpc' = "copy" /\ rpc' = rpc
    BY <1>1 DEF Locked!PutBegin, Locked!Acquire
  <2>3. FInv' /\ Same
    BY <1>1, <2>1, <2>2, PutBeginStep DEF Locked!PutBegin
  <2> QED
    BY <1>0, <2>2, <2>3 DEF HeldInv
<1>2. CASE Locked!PutByte
  <2>1. PICK b \in Byte : /\ buffer' = [buffer EXCEPT ![Bare!Offset(in, Len(wbuf), wlen)] = b]
                          /\ wbuf' = Append(wbuf, b)
    BY <1>2 DEF Locked!PutByte, Locked!Offset, Locked!Smaller, Bare!Offset, Bare!Smaller
  <2>2. FInv' /\ Same
    BY <1>2, <2>1, PutByteStep DEF Locked!PutByte
  <2> QED
    BY <1>2, <2>2 DEF Locked!PutByte, HeldInv
<1>3. CASE Locked!PutEnd
  <2>1. FInv' /\ Appended
    BY <1>3, PutEndStep DEF Locked!PutEnd
  <2>2. wpc = "copy" /\ wpc' = "idle" /\ rpc' = rpc /\ lock' = "free"
    BY <1>3 DEF Locked!PutEnd
  <2> QED
    BY <1>0, <2>1, <2>2 DEF HeldInv
<1>4. CASE Locked!GetBegin
  <2>1. PICK len \in 0..MaxLen : rlen' = Bare!Smaller(len, Bare!kfifo_len)
    BY <1>4 DEF Locked!GetBegin, Locked!Smaller, Locked!kfifo_len, Bare!Smaller, Bare!kfifo_len
  <2>2. lock = "free" /\ lock' = "get" /\ rpc' = "copy" /\ wpc' = wpc
    BY <1>4 DEF Locked!GetBegin, Locked!Acquire
  <2>3. FInv' /\ Same
    BY <1>4, <2>1, <2>2, GetBeginStep DEF Locked!GetBegin
  <2> QED
    BY <1>0, <2>2, <2>3 DEF HeldInv
<1>5. CASE Locked!GetByte
  <2>1. rbuf' = Append(rbuf, buffer[Bare!Offset(out, Len(rbuf), rlen)])
    BY <1>5 DEF Locked!GetByte, Locked!Offset, Locked!Smaller, Bare!Offset, Bare!Smaller
  <2>2. FInv' /\ Same
    BY <1>5, <2>1, GetByteStep DEF Locked!GetByte
  <2> QED
    BY <1>5, <2>2 DEF Locked!GetByte, HeldInv
<1>6. CASE Locked!GetEnd
  <2>1. rpc = "copy" /\ rpc' = "idle" /\ wpc' = wpc /\ lock' = "free" /\ wpc = "idle"
    BY <1>0, <1>6 DEF Locked!GetEnd, HeldInv
  <2>2. FInv' /\ Taken
    <3>1. CASE Locked!Emptied
      BY <1>6, <2>1, <3>1, GetLastStep DEF Locked!GetEnd, Locked!Emptied, Locked!NewOut
    <3>2. CASE ~Locked!Emptied
      BY <1>6, <3>2, GetEndStep DEF Locked!GetEnd, Locked!NewOut
    <3> QED
      BY <3>1, <3>2
  <2> QED
    BY <2>1, <2>2 DEF HeldInv
<1>7. CASE Locked!kfifo_reset
  <2>1. lock = "free" /\ wpc = "idle" /\ rpc = "idle"
    BY <1>0, <1>7 DEF Locked!kfifo_reset, HeldInv
  <2>2. FInv' /\ Cleared
    BY <1>7, <2>1, ResetStep DEF Locked!kfifo_reset
  <2> QED
    BY <1>7, <2>2 DEF Locked!kfifo_reset, HeldInv
<1>8. CASE UNCHANGED Locked!vars
  BY <1>8, FStutter DEF Locked!vars, HeldInv
<1> QED
  BY <1>1, <1>2, <1>3, <1>4, <1>5, <1>6, <1>7, <1>8 DEF Locked!Next

\* The queue is the one that Kfifo maps the fifo to.
LEMMA QueueMaps ==
  /\ Bare!Contents = Queue /\ (Bare!Contents)' = Queue'
  /\ Queue = <<>> /\ moved = <<>> => Bare!Fifo!Init
  /\ FifoStep => [Bare!Fifo!Put \/ Bare!Fifo!Get \/ Bare!Fifo!Reset]_<<Bare!Contents, moved>>
<1>1. Bare!Contents = Queue /\ (Bare!Contents)' = Queue'
  BY DEF Bare!Contents, Bare!kfifo_len, Queue, Bytes, Used, Dist
<1>2. Queue = <<>> /\ moved = <<>> => Bare!Fifo!Init
  BY <1>1 DEF Bare!Fifo!Init
<1>3. Same => UNCHANGED <<Bare!Contents, moved>>
  BY <1>1 DEF Same
<1>4. Appended => Bare!Fifo!Put
  BY <1>1 DEF Appended, Bare!Fifo!Put
<1>5. Taken => Bare!Fifo!Get
  BY <1>1 DEF Taken, Bare!Fifo!Get
<1>6. Cleared => Bare!Fifo!Reset
  BY <1>1 DEF Cleared, Bare!Fifo!Reset
<1> QED
  BY <1>1, <1>2, <1>3, <1>4, <1>5, <1>6 DEF FifoStep

\* __kfifo_put() and __kfifo_get(), called by one writer and one reader without a
\* lock, make a bounded queue: a put appends what it was given, a get returns what
\* was put first, for every size of the buffer and wherever the indices wrap.
THEOREM UnlockedFifoIsQueue == Bare!Spec => ImplementsFifo
<1>1. Bare!Init => FInv /\ Bare!Fifo!Init
  BY FInitInv, QueueMaps
<1>2. FInv /\ [Bare!Next]_Bare!vars
        => FInv' /\ [Bare!Fifo!Put \/ Bare!Fifo!Get \/ Bare!Fifo!Reset]_<<Bare!Contents, moved>>
  BY BareStep, QueueMaps
<1> QED
  BY <1>1, <1>2, PTL DEF Bare!Spec, ImplementsFifo, Bare!ImplementsFifo, Bare!Fifo!Spec

\* So do kfifo_put(), kfifo_get() and kfifo_reset() with fifo->lock, although
\* kfifo_get() sets the indices of a fifo back that it finds empty.
THEOREM LockedFifoIsQueue == Locked!Spec => ImplementsFifo
<1>1. Locked!Init => FInv /\ HeldInv /\ Bare!Fifo!Init
  <2>1. Locked!Init => Bare!Init
    BY DEF Locked!Init, Locked!kfifo_init, Bare!Init, Bare!kfifo_init
  <2>2. Locked!Init => HeldInv
    BY DEF Locked!Init, Locked!kfifo_init, HeldInv
  <2> QED
    BY <2>1, <2>2, FInitInv, QueueMaps
<1>2. FInv /\ HeldInv /\ [Locked!Next]_Locked!vars
        => /\ FInv' /\ HeldInv'
           /\ [Bare!Fifo!Put \/ Bare!Fifo!Get \/ Bare!Fifo!Reset]_<<Bare!Contents, moved>>
  BY LockedStep, QueueMaps
<1> QED
  BY <1>1, <1>2, PTL DEF Locked!Spec, ImplementsFifo, Bare!ImplementsFifo, Bare!Fifo!Spec
=============================================================================
