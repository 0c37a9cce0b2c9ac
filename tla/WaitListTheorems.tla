-------------------------- MODULE WaitListTheorems --------------------------
(***************************************************************************)
(* What linking and unlinking a waiter does to a wait list, for every list *)
(* and every waiter; and how words that wrap are counted with.             *)
(***************************************************************************)
EXTENDS WaitList, Integers, WellFoundedInduction, TLAPS

\* list_add_tail() of a waiter that is not on the list: it becomes the last
\* one, and nobody is linked twice.
LEMMA AddTail ==
  ASSUME NEW W, NEW list, IsWaitList(list, W), NEW w \in W,
         w \notin Elems(list)
  PROVE  /\ IsWaitList(list_add_tail(list, w), W)
         /\ Elems(list_add_tail(list, w)) = Elems(list) \cup {w}
         /\ list_add_tail(list, w) # <<>>
<1> DEFINE new == list_add_tail(list, w)
<1>1. /\ new \in Seq(W)
      /\ Len(new) = Len(list) + 1
      /\ \A i \in 1 .. Len(list) : new[i] = list[i]
      /\ new[Len(list) + 1] = w
  BY DEF list_add_tail, IsWaitList
<1>2. Len(list) \in Nat /\ list \in Seq(W)
  BY DEF IsWaitList
<1>3. \A i \in 1 .. Len(new) : i \in 1 .. Len(list) \/ i = Len(list) + 1
  BY <1>1, <1>2
<1>4. \A i \in 1 .. Len(list) : list[i] # w
  BY DEF Elems
<1>5. \A i, j \in 1 .. Len(new) : new[i] = new[j] => i = j
  BY <1>1, <1>2, <1>3, <1>4 DEF IsWaitList
<1>6. Elems(new) = Elems(list) \cup {w}
  <2>1. \A i \in 1 .. Len(list) : i \in 1 .. Len(new)
    BY <1>1, <1>2
  <2>2. Len(list) + 1 \in 1 .. Len(new)
    BY <1>1, <1>2
  <2> HIDE DEF new
  <2> QED
    BY <1>1, <1>3, <2>1, <2>2 DEF Elems
<1>7. new # <<>>
  BY <1>1, <1>2
<1> QED
  BY <1>1, <1>5, <1>6, <1>7 DEF IsWaitList

\* list_del() of a waiter that is on the list: it is gone, everybody else is
\* still there, once.
LEMMA Del ==
  ASSUME NEW W, NEW list, IsWaitList(list, W), NEW w \in Elems(list)
  PROVE  /\ IsWaitList(list_del(list, w), W)
         /\ Elems(list_del(list, w)) = Elems(list) \ {w}
<1> DEFINE n == Len(list)
           p == CHOOSE i \in 1 .. Len(list) : list[i] = w
           new == list_del(list, w)
<1>1. n \in Nat /\ list \in Seq(W)
  BY DEF IsWaitList
<1>2. p \in 1 .. n /\ list[p] = w
  BY DEF Elems
<1>3. \A i \in 1 .. n : list[i] = w => i = p
  BY <1>2 DEF IsWaitList
<1>4. \A i \in 1 .. n : list[i] \in W
  BY <1>1
<1> HIDE DEF p
<1>5. new = [i \in 1 .. n - 1 |-> IF i < p THEN list[i] ELSE list[i + 1]]
  BY DEF list_del, p
<1>6. n - 1 \in Nat
  BY <1>1, <1>2
<1>7. \A i \in 1 .. n - 1 : /\ i \in 1 .. n
                            /\ i + 1 \in 1 .. n
  BY <1>1
<1>8. new \in Seq(W) /\ Len(new) = n - 1
  <2>1. \A i \in 1 .. n - 1 : new[i] \in W
    BY <1>4, <1>5, <1>7
  <2>2. new \in [1 .. n - 1 -> W]
    BY <1>5, <2>1
  <2> QED
    BY <1>6, <2>2
<1>9. \A i \in 1 .. n - 1 :
        new[i] = IF i < p THEN list[i] ELSE list[i + 1]
  BY <1>5
<1> HIDE DEF new, n
<1>10. \A i, j \in 1 .. Len(new) : new[i] = new[j] => i = j
  <2> SUFFICES ASSUME NEW i \in 1 .. n - 1, NEW j \in 1 .. n - 1,
                      new[i] = new[j]
               PROVE  i = j
    BY <1>8
  <2>1. \A k, l \in 1 .. n : list[k] = list[l] => k = l
    BY DEF IsWaitList, n
  <2>2. CASE i < p /\ j < p
    BY <1>7, <1>9, <2>1, <2>2
  <2>3. CASE i < p /\ ~(j < p)
    BY <1>1, <1>2, <1>7, <1>9, <2>1, <2>3
  <2>4. CASE ~(i < p) /\ j < p
    BY <1>1, <1>2, <1>7, <1>9, <2>1, <2>4
  <2>5. CASE ~(i < p) /\ ~(j < p)
    BY <1>1, <1>7, <1>9, <2>1, <2>5
  <2> QED
    BY <2>2, <2>3, <2>4, <2>5
<1>11. Elems(new) \subseteq Elems(list) \ {w}
  <2> SUFFICES ASSUME NEW i \in 1 .. n - 1
               PROVE  new[i] \in Elems(list) /\ new[i] # w
    BY <1>8 DEF Elems
  <2>1. CASE i < p
    BY <1>2, <1>3, <1>7, <1>9, <2>1 DEF Elems, n
  <2>2. CASE ~(i < p)
    BY <1>1, <1>2, <1>3, <1>7, <1>9, <2>2 DEF Elems, n
  <2> QED
    BY <2>1, <2>2
<1>12. Elems(list) \ {w} \subseteq Elems(new)
  <2> SUFFICES ASSUME NEW k \in 1 .. n, list[k] # w
               PROVE  \E i \in 1 .. n - 1 : new[i] = list[k]
    BY <1>8 DEF Elems, n
  <2>1. CASE k < p
    BY <1>1, <1>2, <1>9, <2>1
  <2>2. CASE k > p
    <3>1. k - 1 \in 1 .. n - 1 /\ ~(k - 1 < p) /\ k - 1 + 1 = k
      BY <1>1, <1>2, <2>2
    <3> QED
      BY <1>9, <3>1
  <2> QED
    BY <1>1, <1>2, <2>1, <2>2
<1> QED
  BY <1>8, <1>10, <1>11, <1>12 DEF IsWaitList, new

\* The first entry of a non-empty list is on it.
LEMMA First ==
  ASSUME NEW W, NEW list, IsWaitList(list, W), ~list_empty(list)
  PROVE  /\ list_first_entry(list) \in Elems(list)
         /\ Elems(list) \subseteq W
BY DEF IsWaitList, list_empty, list_first_entry, Elems

\* A list nobody is on is empty.
LEMMA Empty ==
  ASSUME NEW W, NEW list, IsWaitList(list, W)
  PROVE  /\ list_empty(list) <=> Elems(list) = {}
         /\ Elems(list) \subseteq W
<1>1. list \in Seq(W) /\ Len(list) \in Nat
  BY DEF IsWaitList
<1>2. Elems(list) \subseteq W
  BY <1>1 DEF Elems
<1>3. ASSUME list # <<>>
      PROVE  list[1] \in Elems(list)
  <2>1. 1 \in 1 .. Len(list)
    BY <1>1, <1>3
  <2> QED
    BY <2>1 DEF Elems
<1>4. ASSUME list = <<>>
      PROVE  Elems(list) = {}
  BY <1>4 DEF Elems
<1> QED
  BY <1>2, <1>3, <1>4 DEF list_empty

\* The first one leaves: everybody else moves up by one place.
LEMMA Pop ==
  ASSUME NEW W, NEW list, IsWaitList(list, W), list # <<>>
  PROVE  /\ IsWaitList(Tail(list), W)
         /\ Len(Tail(list)) = Len(list) - 1
         /\ \A i \in 1 .. Len(list) - 1 : Tail(list)[i] = list[i + 1]
         /\ Elems(Tail(list)) = Elems(list) \ {Head(list)}
<1> DEFINE n == Len(list)
           new == Tail(list)
<1>1. n \in Nat /\ list \in Seq(W) /\ n > 0 /\ Head(list) = list[1]
  BY DEF IsWaitList
<1>2. /\ new \in Seq(W)
      /\ Len(new) = n - 1
      /\ \A i \in 1 .. n - 1 : new[i] = list[i + 1]
  BY <1>1
<1>3. \A i \in 1 .. n - 1 : i + 1 \in 1 .. n
  BY <1>1
<1>4. \A i \in 1 .. n : i = 1 \/ (i - 1 \in 1 .. n - 1 /\ new[i - 1] = list[i])
  <2> SUFFICES ASSUME NEW i \in 1 .. n, i # 1
               PROVE  i - 1 \in 1 .. n - 1 /\ new[i - 1] = list[i]
    OBVIOUS
  <2>1. i - 1 \in 1 .. n - 1 /\ (i - 1) + 1 = i
    BY <1>1
  <2> HIDE DEF new
  <2> QED
    BY <1>2, <2>1
<1>5. \A i, j \in 1 .. n : list[i] = list[j] => i = j
  BY DEF IsWaitList
<1> HIDE DEF new, n
<1>6. \A i, j \in 1 .. n - 1 : new[i] = new[j] => i = j
  BY <1>1, <1>2, <1>3, <1>5
<1>7. Elems(new) = Elems(list) \ {Head(list)}
  <2>1. \A i \in 1 .. n - 1 : list[i + 1] # list[1]
    BY <1>1, <1>3, <1>5
  <2>2. Elems(list) = {list[i] : i \in 1 .. n} /\ Elems(new) = {new[i] : i \in 1 .. n - 1}
    BY <1>2 DEF Elems, n
  <2>3. \A x \in Elems(new) : x \in Elems(list) /\ x # Head(list)
    BY <1>1, <1>2, <1>3, <2>1, <2>2
  <2>4. \A x \in Elems(list) : x # Head(list) => x \in Elems(new)
    BY <1>1, <1>2, <1>4, <2>2
  <2> QED
    BY <2>3, <2>4
<1> QED
  BY <1>2, <1>6, <1>7 DEF IsWaitList, n, new

\* A non-empty set of naturals has a least element.
LEMMA Least ==
  ASSUME NEW T \in SUBSET Nat, T # {}
  PROVE  \E m \in T : \A k \in T : m <= k
<1>1. PICK m \in T : \A k \in T : ~(<<k, m>> \in OpToRel(<, Nat))
  BY NatLessThanWellFounded, WFMin
<1>2. ASSUME NEW k \in T
      PROVE  m <= k
  <2>1. ~(<<k, m>> \in OpToRel(<, Nat))
    BY <1>1
  <2>2. <<k, m>> \in Nat \X Nat
    OBVIOUS
  <2>3. ~(k < m)
    BY <2>1, <2>2 DEF OpToRel
  <2> QED
    BY <2>3
<1> QED
  BY <1>2

-----------------------------------------------------------------------------
(* Lists on which an entry may be linked more than once, and their order.  *)

Once(list, x) == \A i, j \in 1 .. Len(list) : list[i] = x /\ list[j] = x => i = j
Before(list, x, y) == \E i, j \in 1 .. Len(list) : i < j /\ list[i] = x /\ list[j] = y

\* new is list with x linked in behind its first k entries.
Inserted(list, new, x, k) ==
  /\ k \in 0 .. Len(list) /\ Len(new) = Len(list) + 1 /\ new[k + 1] = x
  /\ \A i \in 1 .. Len(list) : new[IF i <= k THEN i ELSE i + 1] = list[i]

\* What linking x in keeps, and what taking it out keeps.
Grows(list, new, x) ==
  /\ Elems(new) = Elems(list) \cup {x}
  /\ \A y : y # x /\ Once(list, y) => Once(new, y)
  /\ x \notin Elems(list) => Once(new, x)
  /\ \A y, z : Before(list, y, z) => Before(new, y, z)
Shrinks(list, new, x) ==
  /\ x \in Elems(list) /\ Elems(list) = Elems(new) \cup {x}
  /\ \A y : Once(list, y) => Once(new, y)
  /\ Once(list, x) => x \notin Elems(new)
  /\ \A y, z : y # x /\ z # x /\ Before(list, y, z) => Before(new, y, z)

\* The order of the other entries and how often each is linked stay.
LEMMA InsertedIs ==
  ASSUME NEW W, NEW list \in Seq(W), NEW new \in Seq(W), NEW x, NEW k, Inserted(list, new, x, k)
  PROVE  Grows(list, new, x) /\ Shrinks(new, list, x)
<1> DEFINE n == Len(list)
           f(i) == IF i <= k THEN i ELSE i + 1
<1>1. n \in Nat /\ k \in 0 .. n /\ Len(new) = n + 1 /\ new[k + 1] = x
  BY DEF Inserted
<1>2. \A i \in 1 .. n : f(i) \in 1 .. n + 1 /\ f(i) # k + 1 /\ new[f(i)] = list[i]
  BY <1>1 DEF Inserted
<1>3. \A i, j \in 1 .. n : i < j <=> f(i) < f(j)
  BY <1>1
<1>4. \A i \in 1 .. n + 1 : i # k + 1 => \E j \in 1 .. n : f(j) = i
  <2> SUFFICES ASSUME NEW i \in 1 .. n + 1, i # k + 1
               PROVE  \E j \in 1 .. n : f(j) = i
    OBVIOUS
  <2>1. CASE i <= k
    BY <1>1, <2>1
  <2>2. CASE i > k + 1
    <3>1. i - 1 \in 1 .. n /\ f(i - 1) = i
      BY <1>1, <2>2
    <3> QED
      BY <3>1
  <2> QED
    BY <1>1, <2>1, <2>2
<1>5. \A i, j \in 1 .. n : f(i) = f(j) => i = j
  BY <1>1
<1> HIDE DEF f
<1>6. k + 1 \in 1 .. n + 1
  BY <1>1
<1>7. Elems(new) = Elems(list) \cup {x}
  <2>1. \A y \in Elems(new) : y \in Elems(list) \cup {x}
    BY <1>1, <1>2, <1>4 DEF Elems
  <2>2. \A y \in Elems(list) : y \in Elems(new)
    BY <1>1, <1>2 DEF Elems
  <2>3. x \in Elems(new)
    BY <1>1, <1>6 DEF Elems
  <2> QED
    BY <2>1, <2>2, <2>3
<1>8. \A y : y # x /\ Once(list, y) => Once(new, y)
  <2> SUFFICES ASSUME NEW y, y # x, Once(list, y),
                      NEW i \in 1 .. n + 1, NEW j \in 1 .. n + 1, new[i] = y, new[j] = y
               PROVE  i = j
    BY <1>1 DEF Once
  <2>1. PICK a \in 1 .. n : f(a) = i
    BY <1>1, <1>4
  <2>2. PICK b \in 1 .. n : f(b) = j
    BY <1>1, <1>4
  <2> QED
    BY <1>2, <2>1, <2>2 DEF Once
<1>9. x \notin Elems(list) => Once(new, x)
  <2> SUFFICES ASSUME x \notin Elems(list), NEW i \in 1 .. n + 1, new[i] = x
               PROVE  i = k + 1
    BY <1>1 DEF Once
  <2>1. ASSUME NEW a \in 1 .. n, f(a) = i PROVE FALSE
    BY <1>2, <2>1 DEF Elems
  <2> QED
    BY <1>4, <2>1
<1>10. \A y, z : Before(list, y, z) => Before(new, y, z)
  <2> SUFFICES ASSUME NEW y, NEW z, Before(list, y, z) PROVE Before(new, y, z)
    OBVIOUS
  <2>1. PICK i \in 1 .. n, j \in 1 .. n : i < j /\ list[i] = y /\ list[j] = z
    BY DEF Before
  <2>2. f(i) < f(j) /\ new[f(i)] = y /\ new[f(j)] = z /\ f(i) \in 1 .. n + 1 /\ f(j) \in 1 .. n + 1
    BY <1>2, <1>3, <2>1
  <2> QED
    BY <1>1, <2>2 DEF Before
<1>11. \A y : Once(new, y) => Once(list, y)
  <2> SUFFICES ASSUME NEW y, Once(new, y),
                      NEW i \in 1 .. n, NEW j \in 1 .. n, list[i] = y, list[j] = y
               PROVE  i = j
    BY DEF Once
  <2>1. f(i) = f(j)
    BY <1>1, <1>2 DEF Once
  <2> QED
    BY <1>5, <2>1
<1>12. Once(new, x) => x \notin Elems(list)
  <2> SUFFICES ASSUME Once(new, x), NEW i \in 1 .. n, list[i] = x PROVE FALSE
    BY DEF Elems
  <2> QED
    BY <1>1, <1>2, <1>6 DEF Once
<1>13. \A y, z : y # x /\ z # x /\ Before(new, y, z) => Before(list, y, z)
  <2> SUFFICES ASSUME NEW y, NEW z, y # x, z # x, NEW i \in 1 .. n + 1, NEW j \in 1 .. n + 1,
                      i < j, new[i] = y, new[j] = z
               PROVE  \E a, b \in 1 .. n : a < b /\ list[a] = y /\ list[b] = z
    BY <1>1 DEF Before
  <2>1. PICK a \in 1 .. n : f(a) = i
    BY <1>1, <1>4
  <2>2. PICK b \in 1 .. n : f(b) = j
    BY <1>1, <1>4
  <2> QED
    BY <1>2, <1>3, <2>1, <2>2
<1> QED
  BY <1>7, <1>8, <1>9, <1>10, <1>11, <1>12, <1>13 DEF Grows, Shrinks

\* list_add_tail(): everything is before the new entry.
LEMMA GrowTail ==
  ASSUME NEW W, NEW list \in Seq(W), NEW x \in W
  PROVE  /\ list_add_tail(list, x) \in Seq(W) /\ Grows(list, list_add_tail(list, x), x)
         /\ \A y \in Elems(list) : Before(list_add_tail(list, x), y, x)
<1> DEFINE n == Len(list)
           new == list_add_tail(list, x)
<1>1. n \in Nat /\ new \in Seq(W) /\ Len(new) = n + 1 /\ new[n + 1] = x
      /\ \A i \in 1 .. n : new[i] = list[i]
  BY DEF list_add_tail
<1> HIDE DEF new
<1>2. Inserted(list, new, x, n)
  BY <1>1 DEF Inserted
<1>3. ASSUME NEW y \in Elems(list) PROVE Before(new, y, x)
  <2>1. PICK i \in 1 .. n : list[i] = y
    BY DEF Elems
  <2>2. i \in 1 .. n + 1 /\ n + 1 \in 1 .. n + 1 /\ i < n + 1
    BY <1>1
  <2> QED
    BY <1>1, <2>1, <2>2 DEF Before
<1> QED
  BY <1>1, <1>2, <1>3, InsertedIs DEF new

\* list_add() at the head.
LEMMA GrowHead ==
  ASSUME NEW W, NEW list \in Seq(W), NEW x \in W
  PROVE  (<<x>> \o list) \in Seq(W) /\ Grows(list, <<x>> \o list, x)
<1> DEFINE n == Len(list)
           new == <<x>> \o list
<1>1. n \in Nat /\ new \in Seq(W) /\ Len(new) = n + 1 /\ new[1] = x
  OBVIOUS
<1>2. \A i \in 1 .. n : new[i + 1] = list[i]
  OBVIOUS
<1> HIDE DEF new
<1>3. Inserted(list, new, x, 0)
  BY <1>1, <1>2 DEF Inserted
<1> QED
  BY <1>1, <1>3, InsertedIs DEF new

\* list_add() behind the entry at place p.
LEMMA GrowBehind ==
  ASSUME NEW W, NEW list \in Seq(W), NEW x \in W, NEW p \in 1 .. Len(list)
  PROVE  LET new == SubSeq(list, 1, p) \o <<x>> \o SubSeq(list, p + 1, Len(list))
         IN  new \in Seq(W) /\ Grows(list, new, x)
<1> DEFINE n == Len(list)
           a == SubSeq(list, 1, p)
           b == SubSeq(list, p + 1, n)
           new == a \o <<x>> \o b
<1>1. n \in Nat /\ p \in 1 .. n
  OBVIOUS
<1>2. a \in Seq(W) /\ Len(a) = p /\ \A i \in 1 .. p : a[i] = list[i]
  BY <1>1
<1>3. b \in Seq(W) /\ Len(b) = n - p /\ \A i \in 1 .. n - p : b[i] = list[p + i]
  BY <1>1
<1> HIDE DEF a, b
<1> DEFINE m == a \o <<x>>
<1>4. m \in Seq(W) /\ Len(m) = p + 1 /\ m[p + 1] = x /\ \A i \in 1 .. p : m[i] = list[i]
  BY <1>1, <1>2
<1>5. new = m \o b
  OBVIOUS
<1> HIDE DEF m, new
<1>6. new \in Seq(W) /\ Len(new) = n + 1
  <2>1. m \in Seq(W) /\ b \in Seq(W)
    BY <1>3, <1>4
  <2>2. new \in Seq(W)
    BY <1>5, <2>1
  <2>3. Len(new) = Len(m) + Len(b)
    BY <1>5, <2>1
  <2> QED
    BY <1>1, <1>3, <1>4, <2>2, <2>3
<1>7. new[p + 1] = x /\ \A i \in 1 .. p : new[i] = list[i]
  BY <1>1, <1>3, <1>4, <1>5
<1>8. \A i \in 1 .. n - p : new[p + 1 + i] = list[p + i]
  BY <1>1, <1>3, <1>4, <1>5
<1>9. \A i \in 1 .. n : i > p => new[i + 1] = list[i]
  <2> SUFFICES ASSUME NEW i \in 1 .. n, i > p PROVE new[i + 1] = list[i]
    OBVIOUS
  <2>1. i - p \in 1 .. n - p /\ p + 1 + (i - p) = i + 1 /\ p + (i - p) = i
    BY <1>1
  <2> QED
    BY <1>8, <2>1
<1>10. Inserted(list, new, x, p)
  BY <1>1, <1>6, <1>7, <1>9 DEF Inserted
<1> QED
  BY <1>6, <1>10, InsertedIs DEF new, a, b

\* The first entry leaves; nothing was before it if it was linked once.
LEMMA ShrinkHead ==
  ASSUME NEW W, NEW list \in Seq(W), list # <<>>
  PROVE  /\ Tail(list) \in Seq(W) /\ Shrinks(list, Tail(list), Head(list))
         /\ Head(list) \in W
         /\ Once(list, Head(list)) => \A y : ~Before(list, y, Head(list))
<1> DEFINE n == Len(list)
           new == Tail(list)
<1>1. n \in Nat /\ n > 0 /\ new \in Seq(W) /\ Len(new) = n - 1 /\ Head(list) = list[1]
      /\ list[1] \in W
  OBVIOUS
<1>2. \A i \in 1 .. n - 1 : list[i + 1] = new[i]
  OBVIOUS
<1> HIDE DEF new
<1>3. Inserted(new, list, Head(list), 0)
  BY <1>1, <1>2 DEF Inserted
<1>4. Once(list, Head(list)) => \A y : ~Before(list, y, Head(list))
  BY <1>1 DEF Once, Before
<1> QED
  BY <1>1, <1>3, <1>4, InsertedIs DEF new

\* list_del()
LEMMA ShrinkDel ==
  ASSUME NEW W, NEW list \in Seq(W), NEW x \in Elems(list)
  PROVE  list_del(list, x) \in Seq(W) /\ Shrinks(list, list_del(list, x), x)
<1> DEFINE n == Len(list)
           p == CHOOSE i \in 1 .. Len(list) : list[i] = x
           new == list_del(list, x)
<1>1. n \in Nat /\ \A i \in 1 .. n : list[i] \in W
  OBVIOUS
<1>2. p \in 1 .. n /\ list[p] = x
  BY DEF Elems
<1> HIDE DEF p
<1>3. new = [i \in 1 .. n - 1 |-> IF i < p THEN list[i] ELSE list[i + 1]]
  BY DEF list_del, p
<1>4. n - 1 \in Nat /\ p - 1 \in 0 .. n - 1 /\ (p - 1) + 1 = p
  BY <1>1, <1>2
<1>5. \A i \in 1 .. n - 1 : i \in 1 .. n /\ i + 1 \in 1 .. n
  BY <1>1
<1>6. new \in [1 .. n - 1 -> W]
  BY <1>1, <1>3, <1>5
<1>7. new \in Seq(W) /\ Len(new) = n - 1
  BY <1>4, <1>6
<1>8. \A i \in 1 .. n - 1 : new[i] = IF i < p THEN list[i] ELSE list[i + 1]
  BY <1>3
<1> HIDE DEF new
<1>9. \A i \in 1 .. n - 1 : list[IF i <= p - 1 THEN i ELSE i + 1] = new[i]
  BY <1>1, <1>2, <1>8
<1>10. Inserted(new, list, x, p - 1)
  BY <1>1, <1>2, <1>4, <1>7, <1>9 DEF Inserted
<1> QED
  BY <1>7, <1>10, InsertedIs DEF new

-----------------------------------------------------------------------------
(* Counting with words that wrap: numbers are the same modulo M if their   *)
(* difference is a multiple of M.                                          *)

Multiples(M) == {M * j : j \in Int}

\* What % returns.
LEMMA ModIs ==
  ASSUME NEW M \in Nat \ {0}, NEW x \in Int
  PROVE  x % M \in 0 .. M-1 /\ x - (x % M) \in Multiples(M)
<1>1. x % M \in 0 .. M-1 /\ x = M * (x \div M) + (x % M) /\ x \div M \in Int
  OBVIOUS
<1> QED
  BY <1>1 DEF Multiples

\* Multiples add up.
LEMMA MultipleSum ==
  ASSUME NEW M \in Nat \ {0}, NEW x \in Multiples(M), NEW y \in Multiples(M)
  PROVE  x \in Int /\ y \in Int /\ x + y \in Multiples(M) /\ x - y \in Multiples(M)
<1>1. PICK i \in Int : x = M * i
  BY DEF Multiples
<1>2. PICK j \in Int : y = M * j
  BY DEF Multiples
<1>3. x + y = M * (i + j) /\ x - y = M * (i - j)
  BY <1>1, <1>2
<1> QED
  BY <1>1, <1>2, <1>3 DEF Multiples

\* 0 and M are multiples.
LEMMA MultipleUnits ==
  ASSUME NEW M \in Nat \ {0}
  PROVE  0 \in Multiples(M) /\ M \in Multiples(M)
<1>1. 0 = M * 0 /\ M = M * 1
  OBVIOUS
<1> QED
  BY <1>1 DEF Multiples

\* Two numbers that are the same modulo M and less than M apart are equal.
LEMMA MultipleSmall ==
  ASSUME NEW M \in Nat \ {0}, NEW x \in Multiples(M), -M < x, x < M
  PROVE  x = 0
<1>1. PICK i \in Int : x = M * i
  BY DEF Multiples
<1>2. CASE i >= 1
  <2>1. M * i >= M
    BY <1>2
  <2> QED
    BY <2>1, <1>1
<1>3. CASE i <= -1
  <2>1. M * i <= -M
    BY <1>3
  <2> QED
    BY <2>1, <1>1
<1>4. CASE i = 0
  BY <1>4, <1>1
<1> QED
  BY <1>2, <1>3, <1>4

\* x % M is the only number below M that is the same modulo M.
LEMMA ModUnique ==
  ASSUME NEW M \in Nat \ {0}, NEW x \in Int, NEW y \in 0 .. M-1, x - y \in Multiples(M)
  PROVE  x % M = y
<1>1. x % M \in 0 .. M-1 /\ x - (x % M) \in Multiples(M)
  BY ModIs
<1> DEFINE r == x % M
<1> HIDE DEF r
<1>2. (x - r) - (x - y) \in Multiples(M)
  BY <1>1, MultipleSum DEF r
<1>3. (x - r) - (x - y) = y - r /\ r \in 0 .. M-1
  BY <1>1 DEF r
<1>4. y - r = 0
  BY <1>2, <1>3, MultipleSmall
<1> QED
  BY <1>3, <1>4 DEF r
=============================================================================
