-------------------------- MODULE QuiescenceProofs --------------------------
(***************************************************************************)
(* Proofs about sleepable RCU (Srcu): synchronize_srcu() returns when the  *)
(* readers it found have left, for every number of CPUs, every finite set  *)
(* of readers, every set of updaters and every width of the counters.      *)
(* And about stop_machine() (StopMachine, its names are prefixed S!), for  *)
(* every number of CPUs and every set of users: the stoppers, which nobody *)
(* coordinates, go through the states in lock-step.                        *)
(***************************************************************************)
EXTENDS MCQuiescence, WaitListTheorems, WellFoundedInduction, FiniteSetTheorems, TLAPS

-----------------------------------------------------------------------------
(* Sleepable RCU.  A reader is counted in a rank between the steps that    *)
(* change a counter for it.                                                *)

Counted(i) == {r \in Readers : rpc[r] = "in" /\ ridx[r] = i}

\* The tally of a row of counters: p[k] is how many were counted minus how many
\* were uncounted on the CPUs up to k.  A counter alone may be negative, or has
\* wrapped, since readers leave on other CPUs than they came on.
Tally(row, n, p) ==
  /\ p \in [0..NCpu -> Int] /\ p[0] = 0 /\ p[NCpu] = n
  /\ \A k \in CPUs : (p[k] - p[k - 1]) - row[k] \in Multiples(CWrap)

\* What the scan of u has added up is the tally of the CPUs it has passed, plus e
\* readers that have left on one of these since it passed.
ScanSum(u, p, e) ==
  /\ (p[cpu[u] - 1] + e) - sum[u] \in Multiples(CWrap)
  /\ e + p[NCpu] <= Cardinality(Readers)

TallyInv ==
  \A i \in 0..1 : \E p \in [0..NCpu -> Int] :
    /\ Tally(c[i], Cardinality(Counted(i)), p)
    /\ \A u \in Updaters : upc[u] = "scan" /\ uidx[u] = i => \E e \in Nat : ScanSum(u, p, e)

\* Whoever is past mutex_lock() has the mutex, and only a scan has a sum.
MutexInv ==
  /\ \A u \in Updaters : upc[u] \in {"sync1", "sync2", "scan", "sync3"} <=> mutex = u
  /\ \A u \in Updaters : upc[u] # "scan" => cpu[u] = 1 /\ sum[u] = 0

AliveInv ==
  ~alive => (\A r \in Readers : rpc[r] = "out") /\ (\A u \in Updaters : upc[u] = "idle")

\* A reader is inside srcu_read_lock() or srcu_read_unlock() with preemption off, and
\* no call waits for one that is outside of its section.
ReaderInv ==
  \A r \in Readers : /\ rcpu[r] # 0 <=> rpc[r] \in {"enter", "sampled", "leave"}
                     /\ rpc[r] = "out" => \A u \in Updaters : r \notin pre[u]

\* Readers are in the rank in use, but for the time in which an updater waits for
\* those in the other one.  Then nobody counts himself there any more, except
\* before the end of the second synchronize_sched().
Flipped(v) == upc[v] \in {"sync2", "scan"}
RankInv ==
  /\ (\A v \in Updaters : ~Flipped(v)) =>
       \A r \in Readers : rpc[r] \in {"sampled", "in"} => ridx[r] = completed % 2
  /\ \A v \in Updaters : Flipped(v) =>
       /\ uidx[v] = 1 - (completed % 2)
       /\ \A r \in Readers : rpc[r] = "sampled" /\ ridx[r] = uidx[v]
                               => upc[v] = "sync2" /\ r \in wait[v]

\* The work of v also serves the call of u: its first synchronize_sched() began
\* after that call, so no reader u waits for may enter the new rank ...
Covered(u, v) ==
  upc[v] = "sync1" => \A r \in pre[u] : rpc[r] \in {"enter", "sampled"} => r \in wait[v]
\* ... and those that are left are in the old one, or on their way out.
Progress(u, v) ==
  /\ Flipped(v) => \A r \in pre[u] : rpc[r] = "leave" \/ r \in Counted(uidx[v])
  /\ upc[v] = "sync3" => \A r \in pre[u] : rpc[r] = "leave" /\ r \in wait[v]

HoldInv == \A u \in Updaters : mutex = u => Covered(u, u) /\ Progress(u, u)

\* While u waits for the mutex: nobody has flipped the ranks since it looked; or
\* once, by an updater that may have begun before u did; or the present holder has
\* begun after u did; or such a holder has finished.
EarlyInv ==
  \A u \in Updaters : upc[u] = "lock" =>
    \/ completed = uidx[u]
    \/ completed = (uidx[u] + 1) % Wrap /\ \A v \in Updaters : mutex = v => Covered(u, v)
    \/ \E v \in Updaters : mutex = v /\ upc[v] # "sync1" /\ Progress(u, v)
    \/ pre[u] = {}

OrderInv == MutexInv /\ AliveInv /\ ReaderInv /\ RankInv /\ HoldInv /\ EarlyInv /\ GracePeriod

RInv == TypeOK /\ OrderInv /\ TallyInv

-----------------------------------------------------------------------------
(* Counters.                                                               *)

\* What the assumptions say of the constants.
LEMMA RHyp ==
  /\ CWrap \in Nat \ {0} /\ NCpu \in Nat \ {0} /\ CPUs = 1..NCpu
  /\ IsFiniteSet(Readers) /\ Cardinality(Readers) \in Nat /\ Cardinality(Readers) < CWrap
  /\ Wrap \in Nat /\ Wrap >= 2 /\ Wrap % 2 = 0
  /\ None \notin Updaters
<1>1. Cardinality(Readers) \in Nat
  BY SrcuAssumption, FS_CardinalityType
<1>2. CWrap # 0
  BY <1>1, SrcuAssumption
<1>3. Wrap >= 2
  BY SrcuAssumption
<1> QED
  BY <1>1, <1>2, <1>3, SrcuAssumption DEF CPUs

\* How many readers a rank may have.
LEMMA CountedFew ==
  ASSUME NEW i
  PROVE  /\ IsFiniteSet(Counted(i)) /\ Cardinality(Counted(i)) \in Nat
         /\ Cardinality(Counted(i)) <= Cardinality(Readers)
         /\ Cardinality(Counted(i)) = 0 => Counted(i) = {}
<1>1. Counted(i) \subseteq Readers
  BY DEF Counted
<1>2. IsFiniteSet(Counted(i)) /\ Cardinality(Counted(i)) <= Cardinality(Readers)
  BY <1>1, RHyp, FS_Subset
<1> QED
  BY <1>2, FS_CardinalityType, FS_EmptySet

\* One counter goes up or down by one, and may wrap.
LEMMA TallyStep ==
  ASSUME NEW row \in [CPUs -> Int], NEW n \in Int, NEW p, Tally(row, n, p),
         NEW m \in CPUs, NEW d \in Int, NEW new, NEW q,
         new[m] = (row[m] + d) % CWrap, \A k \in CPUs : k # m => new[k] = row[k],
         q = [k \in 0..NCpu |-> IF k >= m THEN p[k] + d ELSE p[k]]
  PROVE  Tally(new, n + d, q)
<1>1. q \in [0..NCpu -> Int] /\ q[0] = 0 /\ q[NCpu] = n + d
  <2>1. p \in [0..NCpu -> Int] /\ p[0] = 0 /\ p[NCpu] = n
    BY DEF Tally
  <2>2. 0 \in 0..NCpu /\ NCpu \in 0..NCpu /\ NCpu >= m /\ ~(0 >= m)
    BY RHyp
  <2> QED
    BY <2>1, <2>2
<1>2. ASSUME NEW k \in CPUs, k # m
      PROVE  (q[k] - q[k - 1]) - new[k] = (p[k] - p[k - 1]) - row[k]
  <2>0. k \in 0..NCpu /\ k - 1 \in 0..NCpu /\ new[k] = row[k]
    BY <1>2, RHyp
  <2>1. p[k] \in Int /\ p[k - 1] \in Int /\ row[k] \in Int
    BY <2>0 DEF Tally
  <2>2. (k >= m /\ k - 1 >= m) \/ (~(k >= m) /\ ~(k - 1 >= m))
    BY <1>2, RHyp
  <2> QED
    BY <2>0, <2>1, <2>2
<1>3. (q[m] - q[m - 1]) - new[m] \in Multiples(CWrap)
  <2> DEFINE x == (row[m] + d) % CWrap
  <2>1. row[m] \in Int /\ row[m] + d \in Int /\ new[m] = x
    OBVIOUS
  <2>2. x \in 0 .. CWrap-1 /\ (row[m] + d) - x \in Multiples(CWrap)
    <3> DEFINE y == row[m] + d
    <3>1. y \in Int
      BY <2>1
    <3> HIDE DEF y
    <3>2. y % CWrap \in 0 .. CWrap-1 /\ y - (y % CWrap) \in Multiples(CWrap)
      BY <3>1, RHyp, ModIs
    <3> QED
      BY <3>2 DEF y
  <2>3. (p[m] - p[m - 1]) - row[m] \in Multiples(CWrap)
    BY DEF Tally
  <2>4. ((p[m] - p[m - 1]) - row[m]) + ((row[m] + d) - x) \in Multiples(CWrap)
    BY <2>2, <2>3, RHyp, MultipleSum
  <2>0. m \in 0..NCpu /\ m - 1 \in 0..NCpu /\ m \in Int
    BY RHyp
  <2>5. q[m] = p[m] + d /\ q[m - 1] = p[m - 1] /\ p[m] \in Int /\ p[m - 1] \in Int
    BY <2>0 DEF Tally
  <2> HIDE DEF x
  <2>6. ((p[m] - p[m - 1]) - row[m]) + ((row[m] + d) - x) = (q[m] - q[m - 1]) - new[m]
    BY <2>1, <2>2, <2>5
  <2> QED
    BY <2>4, <2>6
<1> QED
  BY <1>1, <1>2, <1>3 DEF Tally

\* A step that leaves the counters, the ranks of counted readers and all scans.
LEMMA TallyStays ==
  ASSUME TallyInv, c' = c, \A i \in 0..1 : Counted(i)' = Counted(i),
         \A u \in Updaters : upc'[u] = "scan" =>
           upc[u] = "scan" /\ uidx'[u] = uidx[u] /\ cpu'[u] = cpu[u] /\ sum'[u] = sum[u]
  PROVE  TallyInv'
BY DEF TallyInv, Tally, ScanSum

-----------------------------------------------------------------------------
(* Readers.                                                                *)

\* srcu_read_lock() begins.
LEMMA EnterInv ==
  ASSUME RInv, NEW r \in Readers, ReadEnter(r)
  PROVE  RInv'
<1>1. PICK k \in CPUs : rcpu' = [rcpu EXCEPT ![r] = k]
  BY DEF ReadEnter, preempt_disable
<1>2. /\ alive /\ rpc[r] = "out" /\ rpc' = [rpc EXCEPT ![r] = "enter"] /\ k # 0
      /\ UNCHANGED <<alive, completed, c, mutex, ridx, upc, uidx, cpu, sum, wait, pre>>
  BY RHyp DEF ReadEnter, uvars
<1>3. TypeOK /\ OrderInv
  BY DEF RInv
<1>4. TypeOK'
  BY <1>1, <1>2, <1>3 DEF TypeOK
<1>5. /\ rpc'[r] = "enter" /\ rcpu'[r] = k
      /\ \A s \in Readers \ {r} : rpc'[s] = rpc[s] /\ rcpu'[s] = rcpu[s]
  BY <1>1, <1>2, <1>3 DEF TypeOK
<1>6. \A i : Counted(i)' = Counted(i)
  BY <1>2, <1>5 DEF Counted
<1>7. \A u \in Updaters : r \notin pre[u]
  BY <1>2, <1>3 DEF OrderInv, ReaderInv
<1>8. MutexInv' /\ AliveInv' /\ ReaderInv' /\ RankInv' /\ GracePeriod'
  BY <1>2, <1>3, <1>5, <1>7 DEF OrderInv, MutexInv, AliveInv, ReaderInv, RankInv, Flipped, GracePeriod
<1>9. \A u, v \in Updaters : (Covered(u, v) => Covered(u, v)') /\ (Progress(u, v) => Progress(u, v)')
  BY <1>2, <1>3, <1>5, <1>6, <1>7 DEF Covered, Progress, Flipped, TypeOK
<1>10. HoldInv' /\ EarlyInv'
  BY <1>2, <1>3, <1>9 DEF OrderInv, HoldInv, EarlyInv
<1>11. TallyInv'
  BY <1>2, <1>6, TallyStays DEF RInv
<1> QED
  BY <1>4, <1>8, <1>10, <1>11 DEF RInv, OrderInv

\* idx = sp->completed & 0x1
LEMMA SampleInv ==
  ASSUME RInv, NEW r \in Readers, Sample(r)
  PROVE  RInv'
<1>1. /\ rpc[r] = "enter" /\ rpc' = [rpc EXCEPT ![r] = "sampled"]
      /\ ridx' = [ridx EXCEPT ![r] = completed % 2]
      /\ UNCHANGED <<alive, completed, c, mutex, rcpu, upc, uidx, cpu, sum, wait, pre>>
  BY DEF Sample, uvars
<1>2. TypeOK /\ OrderInv
  BY DEF RInv
<1>3. completed % 2 \in 0..1 /\ completed % 2 # 1 - (completed % 2)
  BY <1>2 DEF TypeOK
<1>4. TypeOK'
  BY <1>1, <1>2, <1>3 DEF TypeOK
<1>5. /\ rpc'[r] = "sampled" /\ ridx'[r] = completed % 2
      /\ \A s \in Readers \ {r} : rpc'[s] = rpc[s] /\ ridx'[s] = ridx[s]
  BY <1>1, <1>2 DEF TypeOK
<1>6. \A i : Counted(i)' = Counted(i)
  BY <1>1, <1>5 DEF Counted
<1>7. MutexInv' /\ AliveInv' /\ ReaderInv' /\ GracePeriod'
  BY <1>1, <1>2, <1>5 DEF OrderInv, MutexInv, AliveInv, ReaderInv, GracePeriod
<1>8. RankInv'
  BY <1>1, <1>2, <1>3, <1>5 DEF OrderInv, RankInv, Flipped
<1>9. \A u, v \in Updaters : (Covered(u, v) => Covered(u, v)') /\ (Progress(u, v) => Progress(u, v)')
  BY <1>1, <1>2, <1>5, <1>6 DEF Covered, Progress, Flipped, TypeOK
<1>10. HoldInv' /\ EarlyInv'
  BY <1>1, <1>2, <1>9 DEF OrderInv, HoldInv, EarlyInv
<1>11. TallyInv'
  BY <1>1, <1>6, TallyStays DEF RInv
<1> QED
  BY <1>4, <1>7, <1>8, <1>10, <1>11 DEF RInv, OrderInv

\* What c[i][k] += d does to the two rows.
LEMMA RowStep ==
  ASSUME TypeOK, NEW i \in 0..1, NEW k \in CPUs, NEW d \in {1, -1},
         c' = [c EXCEPT ![i][k] = (@ + d) % CWrap]
  PROVE  /\ c' \in [0..1 -> [CPUs -> 0..CWrap-1]] /\ c[i] \in [CPUs -> Int]
         /\ c'[i][k] = (c[i][k] + d) % CWrap /\ \A l \in CPUs : l # k => c'[i][l] = c[i][l]
         /\ \A j \in 0..1 : j # i => c'[j] = c[j]
<1>1. c \in [0..1 -> [CPUs -> 0..CWrap-1]]
  BY DEF TypeOK
<1> DEFINE y == c[i][k] + d
<1>2. y \in Int
  BY <1>1, RHyp
<1> HIDE DEF y
<1>3. y % CWrap \in 0..CWrap-1
  BY <1>2, RHyp, ModIs
<1> DEFINE z == (c[i][k] + d) % CWrap
<1>4. z \in 0..CWrap-1 /\ c' = [c EXCEPT ![i][k] = z]
  BY <1>3 DEF y
<1> HIDE DEF z
<1>5. /\ c' \in [0..1 -> [CPUs -> 0..CWrap-1]]
      /\ c'[i][k] = z /\ \A l \in CPUs : l # k => c'[i][l] = c[i][l]
      /\ \A j \in 0..1 : j # i => c'[j] = c[j]
  BY <1>1, <1>4
<1>6. c[i] \in [CPUs -> Int]
  BY <1>1, RHyp
<1> QED
  BY <1>5, <1>6 DEF z

\* A reader that is counted or uncounted: the tally goes with it.  In a rank that
\* is being scanned readers only leave.
LEMMA TallyMove ==
  ASSUME TypeOK, TallyInv, NEW i \in 0..1, NEW k \in CPUs, NEW d \in {1, -1},
         c' = [c EXCEPT ![i][k] = (@ + d) % CWrap], UNCHANGED <<upc, uidx, cpu, sum>>,
         Cardinality(Counted(i)') = Cardinality(Counted(i)) + d,
         \A j \in 0..1 : j # i => Counted(j)' = Counted(j),
         \A u \in Updaters : upc[u] = "scan" /\ uidx[u] = i => d = -1
  PROVE  TallyInv'
<1>1. /\ c[i] \in [CPUs -> Int] /\ c'[i][k] = (c[i][k] + d) % CWrap
      /\ \A l \in CPUs : l # k => c'[i][l] = c[i][l]
      /\ \A j \in 0..1 : j # i => c'[j] = c[j]
  BY RowStep
<1>2. PICK p \in [0..NCpu -> Int] :
        /\ Tally(c[i], Cardinality(Counted(i)), p)
        /\ \A u \in Updaters : upc[u] = "scan" /\ uidx[u] = i => \E e \in Nat : ScanSum(u, p, e)
  BY DEF TallyInv
<1> DEFINE q == [l \in 0..NCpu |-> IF l >= k THEN p[l] + d ELSE p[l]]
<1>3. Cardinality(Counted(i)) \in Int
  BY CountedFew
<1>4. d \in Int
  OBVIOUS
<1>5. Tally(c'[i], Cardinality(Counted(i)'), q)
  <2> DEFINE n == Cardinality(Counted(i))
             row == c[i]
             new == c'[i]
  <2>1. /\ row \in [CPUs -> Int] /\ n \in Int /\ Tally(row, n, p)
        /\ new[k] = (row[k] + d) % CWrap /\ \A l \in CPUs : l # k => new[l] = row[l]
    BY <1>1, <1>2, <1>3
  <2> HIDE DEF n, row, new
  <2>2. Tally(new, n + d, q)
    BY <1>4, <2>1, TallyStep
  <2> QED
    BY <2>2 DEF n, row, new
<1>6. q \in [0..NCpu -> Int] /\ q[NCpu] = p[NCpu] + d
  BY <1>4, RHyp
<1>7. ASSUME NEW u \in Updaters, upc[u] = "scan", uidx[u] = i
      PROVE  \E e \in Nat : ScanSum(u, q, e)'
  <2>1. PICK e \in Nat : ScanSum(u, p, e)
    BY <1>2, <1>7
  <2>2. PICK n \in CPUs : cpu[u] = n
    BY DEF TypeOK
  <2>3. d = -1 /\ n - 1 \in 0..NCpu /\ n \in Int /\ k \in Int /\ NCpu \in 0..NCpu
    BY <1>7, RHyp
  <2>4. PICK y \in Int : sum[u] = y
    BY RHyp DEF TypeOK
  <2>5. p[n - 1] \in Int /\ p[NCpu] \in Int
    BY <2>3
  <2>6. (p[n - 1] + e) - y \in Multiples(CWrap) /\ e + p[NCpu] <= Cardinality(Readers)
    BY <2>1, <2>2, <2>4 DEF ScanSum
  <2>7. CASE n - 1 >= k
    <3>1. q[n - 1] = p[n - 1] - 1 /\ q[NCpu] = p[NCpu] - 1
      BY <1>6, <2>3, <2>5, <2>7
    <3> HIDE DEF q
    <3> DEFINE a == p[n - 1]
               b == p[NCpu]
    <3>2. a \in Int /\ b \in Int /\ q[n - 1] = a - 1 /\ q[NCpu] = b - 1
      BY <2>5, <3>1
    <3> HIDE DEF a, b
    <3>4. ((a - 1) + (e + 1)) - y = (a + e) - y /\ (e + 1) + (b - 1) = e + b
      BY <3>2
    <3>5. (q[n - 1] + (e + 1)) - y = (p[n - 1] + e) - y /\ (e + 1) + q[NCpu] = e + p[NCpu]
      BY <3>2, <3>4 DEF a, b
    <3>3. ScanSum(u, q, e + 1)'
      BY <2>2, <2>4, <2>6, <3>5 DEF ScanSum
    <3> QED
      BY <3>3
  <2>8. CASE ~(n - 1 >= k)
    <3>1. q[n - 1] = p[n - 1] /\ q[NCpu] = p[NCpu] - 1
      BY <1>6, <2>3, <2>5, <2>8
    <3> HIDE DEF q
    <3>2. (q[n - 1] + e) - y = (p[n - 1] + e) - y /\ e + q[NCpu] <= Cardinality(Readers)
      BY <2>5, <2>6, <3>1, RHyp
    <3>3. ScanSum(u, q, e)'
      BY <2>2, <2>4, <2>6, <3>2 DEF ScanSum
    <3> QED
      BY <3>3
  <2> QED
    BY <2>7, <2>8
<1> HIDE DEF q
<1>8. ASSUME NEW j \in 0..1
      PROVE  \E pp \in [0..NCpu -> Int] :
               /\ Tally(c'[j], Cardinality(Counted(j)'), pp)
               /\ \A u \in Updaters : upc'[u] = "scan" /\ uidx'[u] = j => \E e \in Nat : ScanSum(u, pp, e)'
  <2>1. CASE j = i
    <3>1. \A u \in Updaters : upc'[u] = "scan" /\ uidx'[u] = j => \E e \in Nat : ScanSum(u, q, e)'
      BY <2>1, <1>7
    <3>2. Tally(c'[j], Cardinality(Counted(j)'), q)
      BY <2>1, <1>5
    <3> QED
      BY <1>6, <3>1, <3>2
  <2>2. CASE j # i
    <3>1. PICK pp \in [0..NCpu -> Int] :
            /\ Tally(c[j], Cardinality(Counted(j)), pp)
            /\ \A u \in Updaters : upc[u] = "scan" /\ uidx[u] = j => \E e \in Nat : ScanSum(u, pp, e)
      BY DEF TallyInv
    <3>2. \A u \in Updaters, e \in Nat : ScanSum(u, pp, e) => ScanSum(u, pp, e)'
      BY DEF ScanSum
    <3>3. Tally(c'[j], Cardinality(Counted(j)'), pp)
      BY <2>2, <1>1, <3>1
    <3>4. \A u \in Updaters : upc'[u] = "scan" /\ uidx'[u] = j => \E e \in Nat : ScanSum(u, pp, e)'
      BY <3>1, <3>2
    <3> QED
      BY <3>3, <3>4
  <2> QED
    BY <2>1, <2>2
<1> QED
  BY <1>8 DEF TallyInv, Tally

\* c[idx]++; srcu_read_lock() returns.  Nobody scans this rank.
LEMMA CountInvar ==
  ASSUME RInv, NEW r \in Readers, Count(r)
  PROVE  RInv'
<1>1. /\ rpc[r] = "sampled" /\ rpc' = [rpc EXCEPT ![r] = "in"]
      /\ c' = [c EXCEPT ![ridx[r]][rcpu[r]] = (@ + 1) % CWrap]
      /\ rcpu' = [rcpu EXCEPT ![r] = 0] /\ wait' = [u \in Updaters |-> wait[u] \ {r}]
      /\ UNCHANGED <<alive, completed, mutex, ridx, upc, uidx, cpu, sum, pre>>
  BY DEF Count, preempt_enable, uvars
<1>2. TypeOK /\ OrderInv
  BY DEF RInv
<1>3. ridx[r] \in 0..1 /\ rcpu[r] \in CPUs
  BY <1>1, <1>2 DEF TypeOK, OrderInv, ReaderInv
<1>4. c' \in [0..1 -> [CPUs -> 0..CWrap-1]]
  BY <1>1, <1>2, <1>3, RowStep
<1>5. TypeOK'
  BY <1>1, <1>2, <1>4 DEF TypeOK
<1>6. /\ rpc'[r] = "in" /\ rcpu'[r] = 0 /\ \A u \in Updaters : wait'[u] = wait[u] \ {r}
      /\ \A s \in Readers \ {r} : rpc'[s] = rpc[s] /\ rcpu'[s] = rcpu[s]
  BY <1>1, <1>2 DEF TypeOK
<1>7. MutexInv' /\ AliveInv' /\ ReaderInv' /\ GracePeriod'
  BY <1>1, <1>2, <1>6 DEF OrderInv, MutexInv, AliveInv, ReaderInv, GracePeriod
<1>8. RankInv'
  BY <1>1, <1>2, <1>6 DEF OrderInv, RankInv, Flipped
<1>9. \A u, v \in Updaters : (Covered(u, v) => Covered(u, v)') /\ (Progress(u, v) => Progress(u, v)')
  BY <1>1, <1>2, <1>6 DEF Covered, Progress, Flipped, Counted, TypeOK
<1>10. HoldInv' /\ EarlyInv'
  BY <1>1, <1>2, <1>9 DEF OrderInv, HoldInv, EarlyInv
<1>11. TallyInv'
  <2>1. PICK i \in 0..1, k \in CPUs : ridx[r] = i /\ rcpu[r] = k
    BY <1>3
  <2>2. /\ Counted(i)' = Counted(i) \cup {r} /\ r \notin Counted(i)
        /\ \A j \in 0..1 : j # i => Counted(j)' = Counted(j)
    BY <1>1, <1>6, <2>1 DEF Counted
  <2>3. Cardinality(Counted(i)') = Cardinality(Counted(i)) + 1
    BY <2>2, CountedFew, FS_AddElement
  <2>4. \A u \in Updaters : ~(upc[u] = "scan" /\ uidx[u] = i)
    BY <1>1, <1>2, <2>1 DEF OrderInv, RankInv, Flipped
  <2>5. c' = [c EXCEPT ![i][k] = (@ + 1) % CWrap]
    BY <1>1, <2>1
  <2> QED
    BY <1>1, <1>2, <2>2, <2>3, <2>4, <2>5, TallyMove DEF RInv
<1> QED
  BY <1>5, <1>7, <1>8, <1>10, <1>11 DEF RInv, OrderInv

\* c[idx]-- on whatever CPU the reader is on now.
LEMMA UncountInv ==
  ASSUME RInv, NEW r \in Readers, Uncount(r)
  PROVE  RInv'
<1>1. PICK k \in CPUs : rcpu' = [rcpu EXCEPT ![r] = k]
  BY DEF Uncount, preempt_disable
<1>2. TypeOK /\ OrderInv
  BY DEF RInv
<1>3. PICK i \in 0..1 : ridx[r] = i
  BY <1>2 DEF TypeOK
<1>4. /\ rpc[r] = "in" /\ rpc' = [rpc EXCEPT ![r] = "leave"] /\ rcpu'[r] = k /\ k # 0
      /\ UNCHANGED <<alive, completed, mutex, ridx, upc, uidx, cpu, sum, wait, pre>>
  BY <1>1, <1>2, RHyp DEF Uncount, uvars, TypeOK
<1>5. c' = [c EXCEPT ![i][k] = (@ + (-1)) % CWrap]
  <2>1. c[i][k] \in Int
    BY <1>2, RHyp DEF TypeOK
  <2>2. c[i][k] - 1 = c[i][k] + (-1)
    BY <2>1
  <2>3. c' = [c EXCEPT ![i][k] = (c[i][k] - 1) % CWrap]
    BY <1>3, <1>4 DEF Uncount, UnlockIdx
  <2> QED
    BY <2>2, <2>3
<1>6. c' \in [0..1 -> [CPUs -> 0..CWrap-1]]
  BY <1>2, <1>5, RowStep
<1>7. TypeOK'
  BY <1>1, <1>2, <1>4, <1>6 DEF TypeOK
<1>8. /\ rpc'[r] = "leave"
      /\ \A s \in Readers \ {r} : rpc'[s] = rpc[s] /\ rcpu'[s] = rcpu[s]
  BY <1>1, <1>2, <1>4 DEF TypeOK
<1>9. MutexInv' /\ AliveInv' /\ ReaderInv' /\ GracePeriod'
  BY <1>2, <1>4, <1>8 DEF OrderInv, MutexInv, AliveInv, ReaderInv, GracePeriod
<1>10. RankInv'
  BY <1>2, <1>4, <1>8 DEF OrderInv, RankInv, Flipped
<1>11. \A u, v \in Updaters : (Covered(u, v) => Covered(u, v)') /\ (Progress(u, v) => Progress(u, v)')
  BY <1>2, <1>4, <1>8 DEF Covered, Progress, Flipped, Counted, TypeOK
<1>12. HoldInv' /\ EarlyInv'
  BY <1>2, <1>4, <1>11 DEF OrderInv, HoldInv, EarlyInv
<1>13. TallyInv'
  <2>1. /\ Counted(i)' = Counted(i) \ {r} /\ r \in Counted(i)
        /\ \A j \in 0..1 : j # i => Counted(j)' = Counted(j)
    BY <1>3, <1>4, <1>8 DEF Counted
  <2>2. Cardinality(Counted(i)') = Cardinality(Counted(i)) - 1
    BY <2>1, CountedFew, FS_RemoveElement
  <2>3. Cardinality(Counted(i)') = Cardinality(Counted(i)) + (-1)
    BY <2>2, CountedFew
  <2> QED
    BY <1>2, <1>4, <1>5, <2>1, <2>3, TallyMove DEF RInv
<1> QED
  BY <1>7, <1>9, <1>10, <1>12, <1>13 DEF RInv, OrderInv

\* srcu_read_unlock() returns.
LEMMA ExitInv ==
  ASSUME RInv, NEW r \in Readers, ReadExit(r)
  PROVE  RInv'
<1>1. /\ rpc[r] = "leave" /\ rpc' = [rpc EXCEPT ![r] = "out"] /\ rcpu' = [rcpu EXCEPT ![r] = 0]
      /\ ridx' = [ridx EXCEPT ![r] = 0]
      /\ wait' = [u \in Updaters |-> wait[u] \ {r}] /\ pre' = [u \in Updaters |-> pre[u] \ {r}]
      /\ UNCHANGED <<alive, completed, c, mutex, upc, uidx, cpu, sum>>
  BY DEF ReadExit, preempt_enable, uvars
<1>2. TypeOK /\ OrderInv
  BY DEF RInv
<1>3. TypeOK'
  BY <1>1, <1>2 DEF TypeOK
<1>4. /\ rpc'[r] = "out" /\ rcpu'[r] = 0
      /\ \A u \in Updaters : wait'[u] = wait[u] \ {r} /\ pre'[u] = pre[u] \ {r}
      /\ \A s \in Readers \ {r} : rpc'[s] = rpc[s] /\ rcpu'[s] = rcpu[s] /\ ridx'[s] = ridx[s]
  BY <1>1, <1>2 DEF TypeOK
<1>5. \A i : Counted(i)' = Counted(i)
  BY <1>1, <1>4 DEF Counted
<1>6. MutexInv' /\ AliveInv' /\ ReaderInv' /\ GracePeriod'
  BY <1>1, <1>2, <1>4 DEF OrderInv, MutexInv, AliveInv, ReaderInv, GracePeriod
<1>7. RankInv'
  BY <1>1, <1>2, <1>4 DEF OrderInv, RankInv, Flipped
<1>8. \A u, v \in Updaters : (Covered(u, v) => Covered(u, v)') /\ (Progress(u, v) => Progress(u, v)')
  BY <1>1, <1>2, <1>4, <1>5 DEF Covered, Progress, Flipped, TypeOK
<1>9. HoldInv'
  BY <1>1, <1>2, <1>8 DEF OrderInv, HoldInv
<1>10. EarlyInv'
  BY <1>1, <1>2, <1>4, <1>8 DEF OrderInv, EarlyInv
<1>11. TallyInv'
  BY <1>1, <1>5, TallyStays DEF RInv
<1> QED
  BY <1>3, <1>6, <1>7, <1>9, <1>10, <1>11 DEF RInv, OrderInv

-----------------------------------------------------------------------------
(* Updaters.                                                               *)

\* synchronize_srcu() is called.
LEMMA CallInv ==
  ASSUME RInv, NEW u \in Updaters, Call(u)
  PROVE  RInv'
<1>1. /\ alive /\ upc[u] = "idle" /\ upc' = [upc EXCEPT ![u] = "lock"]
      /\ uidx' = [uidx EXCEPT ![u] = completed]
      /\ pre' = [pre EXCEPT ![u] = {r \in Readers : rpc[r] # "out"}]
      /\ UNCHANGED <<alive, completed, c, mutex, rpc, rcpu, ridx, cpu, sum, wait>>
  BY DEF Call, Goto, rvars
<1>2. TypeOK /\ OrderInv
  BY DEF RInv
<1>3. TypeOK'
  BY <1>1, <1>2 DEF TypeOK
<1>4. /\ upc'[u] = "lock" /\ uidx'[u] = completed /\ pre'[u] = {r \in Readers : rpc[r] # "out"}
      /\ \A v \in Updaters \ {u} : upc'[v] = upc[v] /\ uidx'[v] = uidx[v] /\ pre'[v] = pre[v]
  BY <1>1, <1>2 DEF TypeOK
<1>5. mutex # u
  BY <1>1, <1>2 DEF OrderInv, MutexInv
<1>6. \A i : Counted(i)' = Counted(i)
  BY <1>1 DEF Counted
<1>7. MutexInv' /\ AliveInv' /\ ReaderInv' /\ GracePeriod'
  BY <1>1, <1>2, <1>4 DEF OrderInv, MutexInv, AliveInv, ReaderInv, GracePeriod
<1>8. RankInv'
  BY <1>1, <1>2, <1>4 DEF OrderInv, RankInv, Flipped
<1>9. \A v \in Updaters : v # u =>
        \A w \in Updaters : w # u => (Covered(v, w) => Covered(v, w)') /\ (Progress(v, w) => Progress(v, w)')
  BY <1>1, <1>2, <1>4, <1>6 DEF Covered, Progress, Flipped, TypeOK
<1>10. HoldInv'
  BY <1>1, <1>2, <1>5, <1>9 DEF OrderInv, HoldInv
<1>11. EarlyInv'
  BY <1>1, <1>2, <1>4, <1>5, <1>9 DEF OrderInv, EarlyInv
<1>12. TallyInv'
  BY <1>1, <1>4, <1>6, TallyStays DEF RInv
<1> QED
  BY <1>3, <1>7, <1>8, <1>10, <1>11, <1>12 DEF RInv, OrderInv

\* The difference of sp->completed and what u saw of it, after at most one flip.
LEMMA FewFlips ==
  ASSUME TypeOK, NEW u \in Updaters,
         completed = uidx[u] \/ completed = (uidx[u] + 1) % Wrap
  PROVE  ~DoneForUs(u)
<1>1. PICK x \in 0..Wrap-1 : uidx[u] = x
  BY DEF TypeOK
<1>2. PICK y \in 0..Wrap-1 : completed = y
  BY DEF TypeOK
<1>3. Wrap \in Nat \ {0} /\ Wrap >= 2 /\ Wrap \div 2 \in Nat /\ Wrap \div 2 >= 1
  BY RHyp
<1>4. y - x \in Int /\ 0 \in 0..Wrap-1 /\ 1 \in 0..Wrap-1
  BY <1>3
<1>5. (y - x) % Wrap \in {0, 1}
  <2>1. CASE y = x
    <3>1. (y - x) - 0 = 0
      BY <2>1
    <3>2. (y - x) % Wrap = 0
      BY <1>3, <1>4, <3>1, ModUnique, MultipleUnits
    <3> QED
      BY <3>2
  <2>2. CASE y = (x + 1) % Wrap
    <3>1. x + 1 \in Int
      OBVIOUS
    <3> DEFINE z == x + 1
    <3>2. z \in Int /\ y = z % Wrap
      BY <2>2
    <3> HIDE DEF z
    <3>3. z - y \in Multiples(Wrap)
      BY <1>3, <3>2, ModIs
    <3>4. 0 - (z - y) \in Multiples(Wrap)
      BY <1>3, <3>3, MultipleUnits, MultipleSum
    <3>5. 0 - (z - y) = (y - x) - 1
      BY DEF z
    <3>6. (y - x) % Wrap = 1
      BY <1>3, <1>4, <3>4, <3>5, ModUnique
    <3> QED
      BY <3>6
  <2> QED
    BY <2>1, <2>2, <1>1, <1>2
<1> DEFINE m == (y - x) % Wrap
<1>6. DoneForUs(u) => (IF m < Wrap \div 2 THEN m ELSE m - Wrap) >= 2
  BY <1>1, <1>2 DEF DoneForUs, Signed
<1>7. m \in {0, 1}
  BY <1>5
<1> HIDE DEF m
<1> QED
  BY <1>3, <1>6, <1>7

\* mutex_lock(), with the early exit.
LEMMA LockInvar ==
  ASSUME RInv, NEW u \in Updaters, Lock(u)
  PROVE  RInv'
<1>1. /\ upc[u] = "lock" /\ mutex = None
      /\ UNCHANGED <<alive, completed, c, rpc, rcpu, ridx, cpu, sum, pre>>
  BY DEF Lock, rvars
<1>2. TypeOK /\ OrderInv /\ mutex \notin Updaters
  BY <1>1, RHyp DEF RInv
<1>3. \A i : Counted(i)' = Counted(i)
  BY <1>1 DEF Counted
<1>4. \A v \in Updaters : upc[v] \in {"idle", "lock"}
  BY <1>2 DEF OrderInv, MutexInv, TypeOK
<1>5. CASE /\ DoneForUs(u) /\ upc' = [upc EXCEPT ![u] = "idle"]
           /\ uidx' = [uidx EXCEPT ![u] = 0] /\ UNCHANGED <<mutex, wait>>
  <2>1. pre[u] = {}
    BY <1>1, <1>2, <1>5, FewFlips DEF OrderInv, EarlyInv
  <2>2. TypeOK'
    <3>1. 0 \in 0..Wrap-1
      BY RHyp
    <3> QED
      BY <1>1, <1>2, <1>5, <3>1 DEF TypeOK
  <2>3. /\ upc'[u] = "idle"
        /\ \A v \in Updaters \ {u} : upc'[v] = upc[v] /\ uidx'[v] = uidx[v]
    BY <1>2, <1>5 DEF TypeOK
  <2>4. MutexInv' /\ AliveInv' /\ ReaderInv' /\ GracePeriod'
    BY <1>1, <1>2, <1>5, <2>1, <2>3 DEF OrderInv, MutexInv, AliveInv, ReaderInv, GracePeriod
  <2>5. RankInv'
    BY <1>1, <1>2, <1>4, <2>3 DEF OrderInv, RankInv, Flipped
  <2>6. HoldInv'
    BY <1>2, <1>5 DEF HoldInv
  <2>7. EarlyInv'
    BY <1>1, <1>2, <1>5, <2>3 DEF OrderInv, EarlyInv
  <2>8. TallyInv'
    BY <1>1, <1>3, <1>4, <2>3, TallyStays DEF RInv
  <2> QED
    BY <2>2, <2>4, <2>5, <2>6, <2>7, <2>8 DEF RInv, OrderInv
<1>6. CASE /\ mutex' = u /\ wait' = [wait EXCEPT ![u] = NonPreempt]
           /\ upc' = [upc EXCEPT ![u] = "sync1"] /\ UNCHANGED uidx
  <2>1. NonPreempt \subseteq Readers
    BY DEF NonPreempt
  <2>2. TypeOK'
    BY <1>1, <1>2, <1>6, <2>1 DEF TypeOK
  <2>3. /\ upc'[u] = "sync1" /\ wait'[u] = NonPreempt
        /\ \A v \in Updaters \ {u} : upc'[v] = upc[v] /\ wait'[v] = wait[v]
    BY <1>2, <1>6 DEF TypeOK
  <2>4. AliveInv' /\ ReaderInv' /\ GracePeriod'
    BY <1>1, <1>2, <1>6, <2>3 DEF OrderInv, AliveInv, ReaderInv, GracePeriod
  <2>5. MutexInv'
    BY <1>1, <1>2, <1>4, <1>6, <2>3 DEF OrderInv, MutexInv
  <2>6. RankInv'
    BY <1>1, <1>2, <1>4, <1>6, <2>3 DEF OrderInv, RankInv, Flipped
  <2>7. \A w \in Updaters : Covered(w, u)' /\ Progress(w, u)'
    BY <1>1, <1>2, <2>3 DEF OrderInv, ReaderInv, Covered, Progress, Flipped, NonPreempt, TypeOK
  <2>8. HoldInv'
    BY <1>6, <2>7 DEF HoldInv
  <2>9. EarlyInv'
    BY <1>1, <1>2, <1>6, <2>3, <2>7 DEF OrderInv, EarlyInv
  <2>10. TallyInv'
    BY <1>1, <1>3, <1>4, <1>6, <2>3, TallyStays DEF RInv
  <2> QED
    BY <2>2, <2>4, <2>5, <2>6, <2>8, <2>9, <2>10 DEF RInv, OrderInv
<1> QED
  BY <1>5, <1>6 DEF Lock, Return, Goto, synchronize_sched

\* The two ranks change places with every flip, also when completed wraps.
LEMMA Parity ==
  ASSUME NEW x \in 0..Wrap-1
  PROVE  (x + 1) % Wrap \in 0..Wrap-1 /\ ((x + 1) % Wrap) % 2 = 1 - (x % 2)
<1>1. CASE x + 1 < Wrap
  <2>1. x + 1 \in 0..Wrap-1 /\ (x + 1) - (x + 1) = 0 /\ Wrap \in Nat \ {0}
    BY <1>1, RHyp
  <2> DEFINE z == x + 1
  <2>2. z \in 0..Wrap-1 /\ z - z \in Multiples(Wrap) /\ z \in Int
    BY <2>1, MultipleUnits
  <2> HIDE DEF z
  <2>3. z % Wrap = z
    BY <2>1, <2>2, ModUnique
  <2> QED
    BY <2>1, <2>3 DEF z
<1>2. CASE x + 1 = Wrap
  <2>1. Wrap \in Nat \ {0} /\ 0 \in 0..Wrap-1 /\ Wrap - 0 = Wrap /\ Wrap \in Int
    BY RHyp
  <2>2. Wrap % Wrap = 0
    BY <2>1, ModUnique, MultipleUnits
  <2>3. x % 2 = 1
    BY <1>2, RHyp
  <2> QED
    BY <1>2, <2>1, <2>2, <2>3
<1> QED
  BY <1>1, <1>2, RHyp

\* The ranks are flipped.
LEMMA FlipInv ==
  ASSUME RInv, NEW u \in Updaters, Flip(u)
  PROVE  RInv'
<1>1. /\ upc[u] = "sync1" /\ wait[u] = {} /\ upc' = [upc EXCEPT ![u] = "sync2"]
      /\ uidx' = [uidx EXCEPT ![u] = completed % 2] /\ completed' = (completed + 1) % Wrap
      /\ wait' = [wait EXCEPT ![u] = NonPreempt]
      /\ UNCHANGED <<alive, c, mutex, rpc, rcpu, ridx, cpu, sum, pre>>
  BY DEF Flip, Goto, OldRank, synchronize_sched, rvars
<1>2. TypeOK /\ OrderInv
  BY DEF RInv
<1>3. /\ completed' \in 0..Wrap-1 /\ completed' % 2 = 1 - (completed % 2)
      /\ completed % 2 \in 0..1 /\ completed % 2 = 1 - (completed' % 2)
  <2>1. PICK x \in 0..Wrap-1 : completed = x
    BY <1>2 DEF TypeOK
  <2>2. PICK y \in 0..Wrap-1 : completed' = y /\ y % 2 = 1 - (x % 2)
    BY <1>1, <2>1, Parity
  <2>3. x % 2 \in 0..1 /\ x % 2 = 1 - (y % 2)
    BY <2>2
  <2> QED
    BY <2>1, <2>2, <2>3
<1>4. mutex = u /\ \A v \in Updaters \ {u} : upc[v] \in {"idle", "lock"}
  BY <1>1, <1>2 DEF OrderInv, MutexInv, TypeOK
<1>5. TypeOK'
  <2>1. 0..1 \subseteq 0..Wrap-1 /\ NonPreempt \subseteq Readers
    BY RHyp DEF NonPreempt
  <2> QED
    BY <1>1, <1>2, <1>3, <2>1 DEF TypeOK
<1>6. /\ upc'[u] = "sync2" /\ wait'[u] = NonPreempt /\ uidx'[u] = completed % 2
      /\ \A v \in Updaters \ {u} : upc'[v] = upc[v] /\ wait'[v] = wait[v] /\ uidx'[v] = uidx[v]
  BY <1>1, <1>2 DEF TypeOK
<1>7. \A i : Counted(i)' = Counted(i)
  BY <1>1 DEF Counted
<1>8. AliveInv' /\ ReaderInv' /\ GracePeriod' /\ MutexInv'
  BY <1>1, <1>2, <1>4, <1>6 DEF OrderInv, AliveInv, ReaderInv, GracePeriod, MutexInv
<1>9. \A r \in Readers : rpc[r] \in {"sampled", "in"} => ridx[r] = completed % 2
  BY <1>1, <1>2, <1>4 DEF OrderInv, RankInv, Flipped
<1>10. RankInv'
  <2>1. \A r \in Readers : rpc[r] = "sampled" => r \in NonPreempt
    BY <1>2 DEF OrderInv, ReaderInv, NonPreempt
  <2>2. \A v \in Updaters : Flipped(v)' => v = u
    BY <1>4, <1>6 DEF Flipped
  <2>3. Flipped(u)'
    BY <1>6 DEF Flipped
  <2> QED
    BY <1>1, <1>3, <1>6, <2>1, <2>2, <2>3 DEF RankInv
<1>11. ASSUME NEW w \in Updaters, Covered(w, u)
       PROVE  Progress(w, u)'
  <2>1. \A r \in pre[w] : r \in Readers /\ rpc[r] \in {"in", "leave"}
    BY <1>1, <1>2, <1>11 DEF Covered, TypeOK, OrderInv, ReaderInv
  <2>2. \A r \in pre[w] : rpc[r] = "leave" \/ r \in Counted(completed % 2)
    BY <1>9, <2>1 DEF Counted
  <2>3. PICK i \in 0..1 : completed % 2 = i
    BY <1>3
  <2>4. \A r \in pre[w] : rpc'[r] = "leave" \/ r \in Counted(i)'
    BY <1>1, <1>7, <2>2, <2>3
  <2>5. uidx'[u] = i /\ pre'[w] = pre[w]
    BY <1>1, <1>6, <2>3
  <2>6. Counted(uidx[u])' = Counted(i)'
    BY <2>5 DEF Counted
  <2> QED
    BY <1>6, <2>4, <2>5, <2>6 DEF Progress
<1>12. HoldInv'
  <2>1. Covered(u, u)'
    BY <1>6 DEF Covered
  <2> QED
    BY <1>1, <1>2, <1>4, <1>11, <2>1 DEF OrderInv, HoldInv
<1>13. EarlyInv'
  <2> SUFFICES ASSUME NEW w \in Updaters, upc'[w] = "lock"
               PROVE  \/ completed' = uidx'[w]
                      \/ completed' = (uidx'[w] + 1) % Wrap
                           /\ \A v \in Updaters : mutex' = v => Covered(w, v)'
                      \/ \E v \in Updaters : mutex' = v /\ upc'[v] # "sync1" /\ Progress(w, v)'
                      \/ pre'[w] = {}
    BY DEF EarlyInv
  <2>1. w # u /\ upc[w] = "lock" /\ uidx'[w] = uidx[w]
    BY <1>6
  <2>2. \A v \in Updaters : mutex' = v => Covered(w, v)'
    BY <1>1, <1>4, <1>6 DEF Covered
  <2>3. CASE completed = uidx[w]
    BY <1>1, <2>1, <2>2, <2>3
  <2>4. CASE Covered(w, u)
    BY <1>1, <1>4, <1>6, <1>11, <2>4
  <2>5. CASE pre[w] = {}
    BY <1>1, <2>5
  <2> QED
    BY <1>1, <1>2, <1>4, <2>1, <2>3, <2>4, <2>5 DEF OrderInv, EarlyInv
<1>14. TallyInv'
  BY <1>1, <1>4, <1>6, <1>7, TallyStays DEF RInv
<1> QED
  BY <1>5, <1>8, <1>10, <1>12, <1>13, <1>14 DEF RInv, OrderInv

\* One more counter is added up.
LEMMA ScanAdds ==
  ASSUME TypeOK, NEW u \in Updaters, NEW i \in 0..1, NEW p, NEW n, NEW e \in Nat, NEW m \in CPUs,
         Tally(c[i], n, p), ScanSum(u, p, e), cpu[u] = m
  PROVE  /\ (sum[u] + c[i][m]) % CWrap \in 0..CWrap-1
         /\ (p[m] + e) - ((sum[u] + c[i][m]) % CWrap) \in Multiples(CWrap)
<1>1. PICK y \in Int : sum[u] = y
  BY RHyp DEF TypeOK
<1>2. PICK x \in Int : c[i][m] = x
  BY RHyp DEF TypeOK
<1>3. m \in 0..NCpu /\ m - 1 \in 0..NCpu
  BY RHyp
<1>4. PICK a \in Int, b \in Int : p[m - 1] = a /\ p[m] = b
  BY <1>3 DEF Tally
<1>5. (b - a) - x \in Multiples(CWrap)
  BY <1>2, <1>4 DEF Tally
<1>6. (a + e) - y \in Multiples(CWrap)
  BY <1>1, <1>4 DEF ScanSum
<1>7. PICK z \in Int : z = y + x
  OBVIOUS
<1>8. z % CWrap \in 0..CWrap-1 /\ z - (z % CWrap) \in Multiples(CWrap)
  BY RHyp, ModIs
<1>9. PICK s \in 0..CWrap-1 : z % CWrap = s
  BY <1>8
<1>10. ((b - a) - x) + ((a + e) - y) \in Multiples(CWrap)
  BY <1>5, <1>6, RHyp, MultipleSum
<1>11. (((b - a) - x) + ((a + e) - y)) + (z - s) \in Multiples(CWrap)
  BY <1>8, <1>9, <1>10, RHyp, MultipleSum
<1>12. (((b - a) - x) + ((a + e) - y)) + (z - s) = (b + e) - s
  BY <1>7, RHyp
<1> QED
  BY <1>1, <1>2, <1>4, <1>7, <1>9, <1>11, <1>12

\* An updater that begins to scan, or goes on with it.
LEMMA TallyScans ==
  ASSUME TypeOK, TallyInv, c' = c, \A i \in 0..1 : Counted(i)' = Counted(i), NEW u \in Updaters,
         \A w \in Updaters : w # u /\ upc'[w] = "scan" =>
           upc[w] = "scan" /\ uidx'[w] = uidx[w] /\ cpu'[w] = cpu[w] /\ sum'[w] = sum[w],
         \/ upc'[u] # "scan"
         \/ cpu'[u] = 1 /\ sum'[u] = 0
         \/ /\ upc[u] = "scan" /\ cpu[u] < NCpu /\ cpu'[u] = cpu[u] + 1 /\ uidx'[u] = uidx[u]
            /\ sum'[u] = (sum[u] + c[uidx[u]][cpu[u]]) % CWrap
  PROVE  TallyInv'
<1>1. ASSUME NEW i \in 0..1
      PROVE  \E p \in [0..NCpu -> Int] :
               /\ Tally(c'[i], Cardinality(Counted(i)'), p)
               /\ \A w \in Updaters : upc'[w] = "scan" /\ uidx'[w] = i => \E e \in Nat : ScanSum(w, p, e)'
  <2>1. PICK p \in [0..NCpu -> Int] :
          /\ Tally(c[i], Cardinality(Counted(i)), p)
          /\ \A w \in Updaters : upc[w] = "scan" /\ uidx[w] = i => \E e \in Nat : ScanSum(w, p, e)
    BY DEF TallyInv
  <2>2. Tally(c'[i], Cardinality(Counted(i)'), p)
    BY <2>1
  <2>3. ASSUME NEW w \in Updaters, w # u, upc'[w] = "scan", uidx'[w] = i
        PROVE  \E e \in Nat : ScanSum(w, p, e)'
    <3>1. PICK e \in Nat : ScanSum(w, p, e)
      BY <2>1, <2>3
    <3>2. ScanSum(w, p, e)'
      BY <2>3, <3>1 DEF ScanSum
    <3> QED
      BY <3>2
  <2>4. ASSUME upc'[u] = "scan", uidx'[u] = i
        PROVE  \E e \in Nat : ScanSum(u, p, e)'
    <3>1. CASE cpu'[u] = 1 /\ sum'[u] = 0
      <4>1. /\ p[0] = 0 /\ p[NCpu] = Cardinality(Counted(i)) /\ p[NCpu] \in Nat
            /\ p[NCpu] <= Cardinality(Readers)
        BY <2>1, CountedFew DEF Tally
      <4>2. (p[1 - 1] + 0) - 0 = 0 /\ 0 + p[NCpu] <= Cardinality(Readers)
        BY <4>1
      <4>3. 0 \in Multiples(CWrap)
        BY RHyp, MultipleUnits
      <4>4. ScanSum(u, p, 0)'
        BY <3>1, <4>2, <4>3 DEF ScanSum
      <4> QED
        BY <4>4
    <3>2. CASE /\ upc[u] = "scan" /\ cpu[u] < NCpu /\ cpu'[u] = cpu[u] + 1 /\ uidx'[u] = uidx[u]
               /\ sum'[u] = (sum[u] + c[uidx[u]][cpu[u]]) % CWrap
      <4>1. PICK e \in Nat : ScanSum(u, p, e)
        BY <2>1, <2>4, <3>2
      <4>2. PICK m \in CPUs : cpu[u] = m
        BY DEF TypeOK
      <4>3. (p[m] + e) - ((sum[u] + c[i][m]) % CWrap) \in Multiples(CWrap)
        BY <2>1, <4>1, <4>2, ScanAdds
      <4>4. (m + 1) - 1 = m /\ cpu'[u] = m + 1
        BY <3>2, <4>2, RHyp
      <4>5. sum'[u] = (sum[u] + c[i][m]) % CWrap
        BY <2>4, <3>2, <4>2
      <4>6. e + p[NCpu] <= Cardinality(Readers)
        BY <4>1 DEF ScanSum
      <4>7. ScanSum(u, p, e)'
        BY <4>3, <4>4, <4>5, <4>6 DEF ScanSum
      <4> QED
        BY <4>7
    <3> QED
      BY <2>4, <3>1, <3>2
  <2>5. \A w \in Updaters : upc'[w] = "scan" /\ uidx'[w] = i => \E e \in Nat : ScanSum(w, p, e)'
    BY <2>3, <2>4
  <2> QED
    BY <2>2, <2>5
<1> QED
  BY <1>1 DEF TallyInv, Tally

\* Zero is found only if nobody is left in the rank.
LEMMA ZeroIsEmpty ==
  ASSUME TypeOK, TallyInv, NEW u \in Updaters, upc[u] = "scan", uidx[u] \in 0..1, cpu[u] = NCpu,
         (sum[u] + c[uidx[u]][cpu[u]]) % CWrap = 0
  PROVE  Counted(uidx[u]) = {}
<1>1. PICK i \in 0..1 : uidx[u] = i
  OBVIOUS
<1>2. PICK p \in [0..NCpu -> Int] :
        /\ Tally(c[i], Cardinality(Counted(i)), p)
        /\ \A w \in Updaters : upc[w] = "scan" /\ uidx[w] = i => \E e \in Nat : ScanSum(w, p, e)
  BY DEF TallyInv
<1>3. PICK e \in Nat : ScanSum(u, p, e)
  BY <1>1, <1>2
<1>4. NCpu \in CPUs
  BY RHyp
<1>5. (p[NCpu] + e) - ((sum[u] + c[i][NCpu]) % CWrap) \in Multiples(CWrap)
  BY <1>2, <1>3, <1>4, ScanAdds
<1>6. PICK n \in Nat : n = Cardinality(Counted(i)) /\ n = p[NCpu]
  BY <1>2, CountedFew DEF Tally
<1>7. (n + e) - 0 \in Multiples(CWrap)
  BY <1>1, <1>5, <1>6
<1>8. (n + e) - 0 = n + e /\ n + e < CWrap /\ -CWrap < n + e
  BY <1>3, <1>6, RHyp DEF ScanSum
<1>9. n + e = 0
  BY <1>7, <1>8, RHyp, MultipleSmall
<1>10. n = 0
  BY <1>9
<1>11. Counted(i) = {}
  BY <1>6, <1>10, CountedFew
<1> QED
  BY <1>1, <1>11

\* srcu_readers_active_idx() begins: all who may still count themselves have done so.
LEMMA ScanInv ==
  ASSUME RInv, NEW u \in Updaters, Scan(u)
  PROVE  RInv'
<1>1. /\ upc[u] = "sync2" /\ wait[u] = {} /\ upc' = [upc EXCEPT ![u] = "scan"]
      /\ UNCHANGED <<alive, completed, c, mutex, rpc, rcpu, ridx, uidx, cpu, sum, wait, pre>>
  BY DEF Scan, Goto, rvars
<1>2. TypeOK /\ OrderInv
  BY DEF RInv
<1>3. TypeOK'
  BY <1>1, <1>2 DEF TypeOK
<1>4. upc'[u] = "scan" /\ \A v \in Updaters \ {u} : upc'[v] = upc[v]
  BY <1>1, <1>2 DEF TypeOK
<1>5. \A i : Counted(i)' = Counted(i)
  BY <1>1 DEF Counted
<1>6. MutexInv' /\ AliveInv' /\ ReaderInv' /\ GracePeriod'
  BY <1>1, <1>2, <1>4 DEF OrderInv, MutexInv, AliveInv, ReaderInv, GracePeriod
<1>7. RankInv'
  BY <1>1, <1>2, <1>4 DEF OrderInv, RankInv, Flipped
<1>8. \A v, w \in Updaters : (Covered(v, w) => Covered(v, w)') /\ (Progress(v, w) => Progress(v, w)')
  BY <1>1, <1>2, <1>4, <1>5 DEF Covered, Progress, Flipped, TypeOK
<1>9. HoldInv' /\ EarlyInv'
  BY <1>1, <1>2, <1>4, <1>8 DEF OrderInv, HoldInv, EarlyInv
<1>10. TallyInv'
  <2>1. cpu[u] = 1 /\ sum[u] = 0
    BY <1>1, <1>2 DEF OrderInv, MutexInv
  <2> QED
    BY <1>1, <1>2, <1>4, <1>5, <2>1, TallyScans DEF RInv
<1> QED
  BY <1>3, <1>6, <1>7, <1>9, <1>10 DEF RInv, OrderInv

\* One turn of for_each_possible_cpu().
LEMMA ScanCpuInv ==
  ASSUME RInv, NEW u \in Updaters, ScanCpu(u)
  PROVE  RInv'
<1> DEFINE s == (sum[u] + c[uidx[u]][cpu[u]]) % CWrap
<1> HIDE DEF s
<1>1. /\ upc[u] = "scan"
      /\ UNCHANGED <<alive, completed, c, mutex, rpc, rcpu, ridx, uidx, pre>>
  BY DEF ScanCpu, rvars
<1>2. TypeOK /\ OrderInv /\ TallyInv
  BY DEF RInv
<1>3. /\ mutex = u /\ \A v \in Updaters \ {u} : upc[v] \in {"idle", "lock"}
      /\ uidx[u] = 1 - (completed % 2) /\ uidx[u] \in 0..1
      /\ \A r \in Readers : ~(rpc[r] = "sampled" /\ ridx[r] = uidx[u])
  <2>1. completed % 2 \in 0..1
    BY <1>2 DEF TypeOK
  <2>2. mutex = u /\ \A v \in Updaters \ {u} : upc[v] \in {"idle", "lock"}
    BY <1>1, <1>2 DEF OrderInv, MutexInv, TypeOK
  <2>3. uidx[u] = 1 - (completed % 2) /\ \A r \in Readers : ~(rpc[r] = "sampled" /\ ridx[r] = uidx[u])
    BY <1>1, <1>2 DEF OrderInv, RankInv, Flipped
  <2> QED
    BY <2>1, <2>2, <2>3
<1>4. s \in 0..CWrap-1
  <2>1. PICK i \in 0..1, m \in CPUs : uidx[u] = i /\ cpu[u] = m
    BY <1>2, <1>3 DEF TypeOK
  <2>2. PICK a \in 0..CWrap-1, b \in 0..CWrap-1 : sum[u] = a /\ c[i][m] = b
    BY <1>2 DEF TypeOK
  <2>3. PICK y \in Int : y = a + b
    BY RHyp
  <2>4. s = y % CWrap
    BY <2>1, <2>2, <2>3 DEF s
  <2> QED
    BY <2>4, RHyp, ModIs
<1>5. \A i : Counted(i)' = Counted(i)
  BY <1>1 DEF Counted
<1>6. CASE /\ cpu' = [cpu EXCEPT ![u] = cpu'[u]] /\ sum' = [sum EXCEPT ![u] = sum'[u]]
           /\ UNCHANGED <<upc, wait>>
           /\ \/ cpu[u] < NCpu /\ cpu'[u] = cpu[u] + 1 /\ sum'[u] = s
              \/ cpu'[u] = 1 /\ sum'[u] = 0
  <2>1. cpu'[u] \in CPUs /\ sum'[u] \in 0..CWrap-1
    <3>1. 1 \in CPUs /\ 0 \in 0..CWrap-1 /\ \A m \in CPUs : m < NCpu => m + 1 \in CPUs
      BY RHyp
    <3>2. cpu[u] \in CPUs
      BY <1>2 DEF TypeOK
    <3> QED
      BY <1>4, <1>6, <3>1, <3>2
  <2>2. TypeOK'
    BY <1>1, <1>2, <1>6, <2>1 DEF TypeOK
  <2>3. \A v \in Updaters \ {u} : cpu'[v] = cpu[v] /\ sum'[v] = sum[v]
    BY <1>2, <1>6 DEF TypeOK
  <2>4. MutexInv' /\ AliveInv' /\ ReaderInv' /\ GracePeriod' /\ RankInv'
    BY <1>1, <1>2, <1>6, <2>3 DEF OrderInv, MutexInv, AliveInv, ReaderInv, GracePeriod, RankInv, Flipped
  <2>5. HoldInv' /\ EarlyInv'
    BY <1>1, <1>2, <1>5, <1>6 DEF OrderInv, HoldInv, EarlyInv, Covered, Progress, Flipped
  <2>6. TallyInv'
    BY <1>1, <1>2, <1>5, <1>6, <2>3, TallyScans DEF s
  <2> QED
    BY <2>2, <2>4, <2>5, <2>6 DEF RInv, OrderInv
<1>7. CASE /\ cpu[u] = NCpu /\ s = 0
           /\ sum' = [sum EXCEPT ![u] = 0] /\ cpu' = [cpu EXCEPT ![u] = 1]
           /\ upc' = [upc EXCEPT ![u] = "sync3"] /\ wait' = [wait EXCEPT ![u] = NonPreempt]
  <2>1. Counted(uidx[u]) = {}
    BY <1>1, <1>2, <1>3, <1>7, ZeroIsEmpty DEF s
  <2>2. TypeOK'
    <3>1. 1 \in CPUs /\ 0 \in 0..CWrap-1 /\ NonPreempt \subseteq Readers
      BY RHyp DEF NonPreempt
    <3> QED
      BY <1>1, <1>2, <1>7, <3>1 DEF TypeOK
  <2>3. /\ upc'[u] = "sync3" /\ wait'[u] = NonPreempt /\ cpu'[u] = 1 /\ sum'[u] = 0
        /\ \A v \in Updaters \ {u} : upc'[v] = upc[v] /\ wait'[v] = wait[v] /\ cpu'[v] = cpu[v] /\ sum'[v] = sum[v]
    BY <1>2, <1>7 DEF TypeOK
  <2>4. MutexInv' /\ AliveInv' /\ ReaderInv' /\ GracePeriod'
    BY <1>1, <1>2, <1>3, <2>3 DEF OrderInv, MutexInv, AliveInv, ReaderInv, GracePeriod
  <2>5. RankInv'
    <3>1. \A v \in Updaters : ~Flipped(v)'
      BY <1>3, <2>3 DEF Flipped
    <3>2. \A r \in Readers : rpc[r] \in {"sampled", "in"} => ridx[r] # uidx[u]
      BY <1>3, <2>1 DEF Counted
    <3>3. completed % 2 \in 0..1 /\ \A r \in Readers : ridx[r] \in 0..1
      BY <1>2 DEF TypeOK
    <3>4. \A r \in Readers : rpc[r] \in {"sampled", "in"} => ridx[r] = completed % 2
      BY <1>3, <3>2, <3>3
    <3> QED
      BY <1>1, <3>1, <3>4 DEF RankInv
  <2>6. ASSUME NEW w \in Updaters, Progress(w, u)
        PROVE  Progress(w, u)'
    <3>1. \A r \in pre[w] : r \in Readers /\ rpc[r] = "leave"
      BY <1>1, <1>2, <2>1, <2>6 DEF Progress, Flipped, TypeOK
    <3>2. \A r \in pre[w] : r \in NonPreempt
      BY <1>2, <3>1 DEF OrderInv, ReaderInv, NonPreempt
    <3> QED
      BY <1>1, <2>3, <3>1, <3>2 DEF Progress, Flipped
  <2>7. \A w \in Updaters : Covered(w, u)'
    BY <2>3 DEF Covered
  <2>8. HoldInv'
    BY <1>1, <1>2, <1>3, <2>6, <2>7 DEF OrderInv, HoldInv
  <2>9. EarlyInv'
    BY <1>1, <1>2, <1>3, <2>3, <2>6, <2>7 DEF OrderInv, EarlyInv
  <2>10. TallyInv'
    BY <1>1, <1>2, <1>5, <2>3, TallyScans
  <2> QED
    BY <2>2, <2>4, <2>5, <2>8, <2>9, <2>10 DEF RInv, OrderInv
<1> QED
  <2>1. u \in DOMAIN cpu /\ u \in DOMAIN sum
    BY <1>2 DEF TypeOK
  <2>2. CASE /\ cpu[u] < NCpu /\ sum' = [sum EXCEPT ![u] = s]
             /\ cpu' = [cpu EXCEPT ![u] = @ + 1] /\ UNCHANGED <<upc, wait>>
    BY <1>6, <2>1, <2>2
  <2>3. CASE /\ cpu[u] = NCpu /\ sum' = [sum EXCEPT ![u] = 0]
             /\ cpu' = [cpu EXCEPT ![u] = 1] /\ UNCHANGED <<upc, wait>>
    BY <1>6, <2>1, <2>3
  <2> QED
    BY <1>7, <2>2, <2>3 DEF ScanCpu, Goto, synchronize_sched, s

\* mutex_unlock(): the calls that this one has served are over.
LEMMA UnlockInv ==
  ASSUME RInv, NEW u \in Updaters, Unlock(u)
  PROVE  RInv'
<1>1. /\ upc[u] = "sync3" /\ wait[u] = {} /\ mutex' = None /\ upc' = [upc EXCEPT ![u] = "idle"]
      /\ uidx' = [uidx EXCEPT ![u] = 0]
      /\ UNCHANGED <<alive, completed, c, rpc, rcpu, ridx, cpu, sum, wait, pre>>
  BY DEF Unlock, Return, Goto, rvars
<1>2. TypeOK /\ OrderInv
  BY DEF RInv
<1>3. TypeOK'
  <2>1. 0 \in 0..Wrap-1
    BY RHyp
  <2> QED
    BY <1>1, <1>2, <2>1 DEF TypeOK
<1>4. /\ upc'[u] = "idle"
      /\ \A v \in Updaters \ {u} : upc'[v] = upc[v] /\ uidx'[v] = uidx[v] /\ upc[v] \in {"idle", "lock"}
      /\ mutex = u
  BY <1>1, <1>2 DEF OrderInv, MutexInv, TypeOK
<1>5. \A w \in Updaters : Progress(w, u) => pre[w] = {}
  BY <1>1 DEF Progress
<1>6. pre[u] = {}
  BY <1>2, <1>4, <1>5 DEF OrderInv, HoldInv
<1>7. \A i : Counted(i)' = Counted(i)
  BY <1>1 DEF Counted
<1>8. MutexInv' /\ AliveInv' /\ ReaderInv' /\ GracePeriod'
  BY <1>1, <1>2, <1>4, <1>6, RHyp DEF OrderInv, MutexInv, AliveInv, ReaderInv, GracePeriod
<1>9. RankInv'
  BY <1>1, <1>2, <1>4 DEF OrderInv, RankInv, Flipped
<1>10. HoldInv'
  BY <1>1, RHyp DEF HoldInv
<1>11. EarlyInv'
  BY <1>1, <1>2, <1>4, <1>5, RHyp DEF OrderInv, EarlyInv
<1>12. TallyInv'
  BY <1>1, <1>4, <1>7, TallyStays DEF RInv
<1> QED
  BY <1>3, <1>8, <1>9, <1>10, <1>11, <1>12 DEF RInv, OrderInv

-----------------------------------------------------------------------------
(* The life of the structure.                                              *)

\* The tally of zeroed counters.
LEMMA ZeroTally == \E p \in [0..NCpu -> Int] : Tally([k \in CPUs |-> 0], 0, p)
<1> DEFINE p == [k \in 0..NCpu |-> 0]
<1>1. /\ p \in [0..NCpu -> Int] /\ p[0] = 0 /\ p[NCpu] = 0
      /\ \A k \in CPUs : p[k] = 0 /\ p[k - 1] = 0
  BY RHyp
<1> HIDE DEF p
<1>2. 0 \in Multiples(CWrap) /\ (0 - 0) - 0 = 0
  BY RHyp, MultipleUnits
<1>3. Tally([k \in CPUs |-> 0], 0, p)
  BY <1>1, <1>2 DEF Tally
<1> QED
  BY <1>1, <1>3

\* Before the first reader.
LEMMA RInitInv == Init => RInv
<1> SUFFICES ASSUME Init PROVE RInv
  OBVIOUS
<1>1. 0 \in 0..Wrap-1 /\ 0 \in 0..CWrap-1 /\ 1 \in CPUs
  BY RHyp
<1>2. TypeOK
  BY <1>1 DEF Init, TypeOK
<1>3. MutexInv /\ AliveInv /\ ReaderInv /\ RankInv /\ HoldInv /\ EarlyInv /\ GracePeriod
  BY RHyp DEF Init, MutexInv, AliveInv, ReaderInv, RankInv, Flipped, HoldInv, EarlyInv, GracePeriod
<1>4. TallyInv
  <2>1. \A i \in 0..1 : Cardinality(Counted(i)) = 0
    BY FS_EmptySet DEF Init, Counted
  <2>2. (\A u \in Updaters : upc[u] # "scan") /\ \A i \in 0..1 : c[i] = [k \in CPUs |-> 0]
    BY DEF Init
  <2> QED
    BY <2>1, <2>2, ZeroTally DEF TallyInv
<1> QED
  BY <1>2, <1>3, <1>4 DEF RInv, OrderInv

\* cleanup_srcu_struct() and init_srcu_struct(): nobody is inside.
LEMMA LifeInv ==
  ASSUME RInv, cleanup_srcu_struct \/ init_srcu_struct
  PROVE  RInv'
<1>1. TypeOK /\ OrderInv
  BY DEF RInv
<1>2. /\ \A r \in Readers : rpc[r] = "out"
      /\ \A u \in Updaters : upc[u] = "idle"
      /\ UNCHANGED <<rpc, rcpu, ridx, upc, uidx, cpu, sum, wait, pre>>
  BY <1>1 DEF cleanup_srcu_struct, init_srcu_struct, OrderInv, AliveInv, rvars, uvars
<1>3. alive' \in BOOLEAN
  BY DEF cleanup_srcu_struct, init_srcu_struct
<1>4. /\ mutex' \notin Updaters /\ mutex' \in Updaters \cup {None} /\ completed' \in 0..Wrap-1
      /\ c' \in [0..1 -> [CPUs -> 0..CWrap-1]]
  <2>1. 0 \in 0..Wrap-1 /\ 0 \in 0..CWrap-1
    BY RHyp
  <2>2. mutex \notin Updaters
    BY <1>1, <1>2 DEF OrderInv, MutexInv
  <2> QED
    BY <1>1, <2>1, <2>2, RHyp DEF cleanup_srcu_struct, init_srcu_struct, TypeOK
<1>5. TypeOK'
  BY <1>1, <1>2, <1>3, <1>4 DEF TypeOK
<1>6. MutexInv' /\ AliveInv' /\ ReaderInv' /\ GracePeriod' /\ RankInv' /\ HoldInv' /\ EarlyInv'
  BY <1>1, <1>2, <1>4 DEF OrderInv, MutexInv, AliveInv, ReaderInv, GracePeriod, RankInv, Flipped,
                          HoldInv, EarlyInv
<1>7. CASE c' = c
  <2>1. \A i : Counted(i)' = Counted(i)
    BY <1>2 DEF Counted
  <2> QED
    BY <1>2, <1>5, <1>6, <1>7, <2>1, TallyStays DEF RInv, OrderInv
<1>8. CASE c' = [i \in 0..1 |-> [k \in CPUs |-> 0]]
  <2>1. TallyInv'
    <3>1. \A i \in 0..1 : Cardinality(Counted(i)') = 0
      BY <1>2, FS_EmptySet DEF Counted
    <3>2. (\A u \in Updaters : upc'[u] # "scan") /\ \A i \in 0..1 : c'[i] = [k \in CPUs |-> 0]
      BY <1>2, <1>8
    <3>3. \A i \in 0..1 : \E p \in [0..NCpu -> Int] : Tally(c'[i], Cardinality(Counted(i)'), p)
      BY <3>1, <3>2, ZeroTally
    <3> QED
      BY <3>2, <3>3 DEF TallyInv, Tally
  <2> QED
    BY <1>5, <1>6, <2>1 DEF RInv, OrderInv
<1> QED
  BY <1>7, <1>8 DEF cleanup_srcu_struct, init_srcu_struct

\* No action of sleepable RCU breaks the invariant.
LEMMA RInvariance == Spec => []RInv
<1>1. ASSUME RInv, [Next]_vars PROVE RInv'
  <2>1. ASSUME NEW r \in Readers, ReadEnter(r) PROVE RInv'
    BY <1>1, <2>1, EnterInv
  <2>2. ASSUME NEW r \in Readers, Sample(r) PROVE RInv'
    BY <1>1, <2>2, SampleInv
  <2>3. ASSUME NEW r \in Readers, Count(r) PROVE RInv'
    BY <1>1, <2>3, CountInvar
  <2>4. ASSUME NEW r \in Readers, Uncount(r) PROVE RInv'
    BY <1>1, <2>4, UncountInv
  <2>5. ASSUME NEW r \in Readers, ReadExit(r) PROVE RInv'
    BY <1>1, <2>5, ExitInv
  <2>6. ASSUME NEW u \in Updaters, Call(u) PROVE RInv'
    BY <1>1, <2>6, CallInv
  <2>7. ASSUME NEW u \in Updaters, Lock(u) PROVE RInv'
    BY <1>1, <2>7, LockInvar
  <2>8. ASSUME NEW u \in Updaters, Flip(u) PROVE RInv'
    BY <1>1, <2>8, FlipInv
  <2>9. ASSUME NEW u \in Updaters, Scan(u) PROVE RInv'
    BY <1>1, <2>9, ScanInv
  <2>10. ASSUME NEW u \in Updaters, ScanCpu(u) PROVE RInv'
    BY <1>1, <2>10, ScanCpuInv
  <2>11. ASSUME NEW u \in Updaters, Unlock(u) PROVE RInv'
    BY <1>1, <2>11, UnlockInv
  <2>12. CASE cleanup_srcu_struct \/ init_srcu_struct
    BY <1>1, <2>12, LifeInv
  <2>13. CASE UNCHANGED vars
    <3>1. UNCHANGED <<alive, completed, c, mutex, rpc, rcpu, ridx, upc, uidx, cpu, sum, wait, pre>>
      BY <2>13 DEF vars, rvars, uvars
    <3>2. TypeOK'
      BY <1>1, <3>1 DEF RInv, TypeOK
    <3>3. OrderInv'
      BY <1>1, <3>1 DEF RInv, OrderInv, MutexInv, AliveInv, ReaderInv, RankInv, Flipped, HoldInv,
                        EarlyInv, Covered, Progress, Counted, GracePeriod
    <3>4. \A i : Counted(i)' = Counted(i)
      BY <3>1 DEF Counted
    <3>5. TallyInv'
      BY <1>1, <3>1, <3>4, TallyStays DEF RInv
    <3> QED
      BY <3>2, <3>3, <3>5 DEF RInv
  <2> QED
    BY <1>1, <2>1, <2>2, <2>3, <2>4, <2>5, <2>6, <2>7, <2>8, <2>9, <2>10, <2>11, <2>12, <2>13 DEF Next
<1> QED
  BY <1>1, RInitInv, PTL DEF Spec

\* synchronize_srcu() has returned: every reader that was inside when it was
\* called has left, for every number of CPUs, readers and updaters and every
\* width of the counters that can count the readers.
THEOREM GracePeriodIsOver == Spec => []GracePeriod
<1>1. RInv => GracePeriod
  BY DEF RInv, OrderInv
<1> QED
  BY <1>1, RInvariance, PTL

-----------------------------------------------------------------------------
(* stop_machine().  Counting CPUs.                                         *)

Cpus == 1..MCpu

\* StopMachine's own copies of library operators.
LEMMA SSets ==
  /\ \A T : S!Cardinality(T) = Cardinality(T)
  /\ S!CPUs = Cpus /\ IsFiniteSet(Cpus) /\ Cpus \subseteq Nat
  /\ MCpu \in Nat /\ None \notin Users
<1>1. ASSUME NEW T PROVE S!Cardinality(T) = Cardinality(T)
  BY Zenon DEF S!Cardinality, Cardinality
<1>2. MCpu \in Nat /\ None \notin Users
  BY StopAssumption DEF S!StopAssumption
<1>3. IsFiniteSet(Cpus)
  BY <1>2, FS_Interval DEF Cpus
<1> QED
  BY <1>1, <1>2, <1>3 DEF S!CPUs, Cpus

\* The least CPU of a set.
LEMMA SMin ==
  ASSUME NEW T \in SUBSET Nat, T # {}
  PROVE  S!Min(T) \in T
<1>1. PICK m \in T : \A k \in T : ~(<<k, m>> \in OpToRel(<, Nat))
  BY NatLessThanWellFounded, WFMin
<1>2. ASSUME NEW k \in T
      PROVE  m <= k
  <2>1. <<k, m>> \in Nat \X Nat /\ ~(<<k, m>> \in OpToRel(<, Nat))
    BY <1>1
  <2>2. ~(k < m)
    BY <2>1 DEF OpToRel
  <2> QED
    BY <2>2
<1> QED
  BY <1>2 DEF S!Min

-----------------------------------------------------------------------------
(* The invariant.                                                          *)

USE DEF S!NONE, S!PREPARE, S!DISABLE_IRQ, S!RUN, S!EXIT

STypeOK ==
  /\ lock \in Users \cup {None}
  /\ userpc \in [Users -> {"idle", "ready", "queue", "flush"}]
  /\ todo \subseteq Cpus /\ online \subseteq Cpus /\ round \subseteq Cpus
  /\ spc \in [Cpus -> {"none", "queued", "loop", "run", "ack", "set_ack", "set_state", "exit"}]
  /\ curstate \in [Cpus -> 0..4]
  /\ active \in [Cpus -> BOOLEAN] /\ irqs \in [Cpus -> BOOLEAN]

\* Whoever is inside __stop_machine() has the lock; it is queueing as long as there
\* is a CPU to queue to, and without it no stopper is about.
LockInv ==
  /\ \A u \in Users : /\ userpc[u] \in {"queue", "flush"} <=> lock = u
                      /\ userpc[u] = "queue" => todo # {}
                      /\ userpc[u] = "flush" => todo = {}
  /\ lock = None => \A k \in Cpus : spc[k] = "none"

\* Where the stopper of CPU j is with respect to the state that is published:
\* not started; in the state before; at work in it; through with it; the last one
\* that is through with it and publishes the next; gone.
Waiting(j) == /\ state = 1
              /\ \/ j \in todo /\ spc[j] = "none"
                 \/ j \notin todo /\ spc[j] = "queued"
Behind(j)  == j \notin todo /\ state \in 1..4 /\ spc[j] = "loop" /\ curstate[j] = state - 1
Working(j) == /\ j \notin todo /\ state \in 1..4 /\ curstate[j] = state
              /\ spc[j] = "ack" \/ (spc[j] = "run" /\ state = 3)
Through(j) == /\ j \notin todo /\ curstate[j] = state
              /\ \/ state \in 1..3 /\ spc[j] = "loop"
                 \/ state = 4 /\ spc[j] \in {"exit", "none"}
Setter(j)  == /\ j \notin todo /\ state \in 1..4 /\ curstate[j] = state
              /\ spc[j] \in {"set_ack", "set_state"}
Gone(j)    == j \notin todo /\ state = 5 /\ curstate[j] = 4 /\ spc[j] \in {"exit", "none"}

Pends(j) == Waiting(j) \/ Behind(j) \/ Working(j)
Pending == {j \in round : Pends(j)}

RoundInv ==
  /\ round # {} /\ todo \subseteq round /\ num_threads = Cardinality(round)
  /\ \A k \in Cpus : k \notin round => spc[k] = "none"
  /\ state \in 1..5
  /\ \A j \in round : Pends(j) \/ Through(j) \/ Setter(j) \/ Gone(j)

\* thread_ack counts those who have still to acknowledge the state; the last one
\* finds zero and is alone until it has published the next state.
CountInv ==
  \/ /\ state \in 1..4 /\ Pending # {} /\ thread_ack = Cardinality(Pending)
     /\ \A j \in round : ~Setter(j)
  \/ /\ state \in 1..4 /\ Pending = {}
     /\ \A i, j \in round : Setter(i) /\ Setter(j) => i = j
     /\ \E k \in round : Setter(k)
     /\ \A k \in round : Setter(k) /\ spc[k] = "set_state" => thread_ack = num_threads
  \/ state = 5

\* Interrupts are off from STOPMACHINE_DISABLE_IRQ on.
IrqInv ==
  \A j \in round : spc[j] \notin {"none", "queued"} /\ curstate[j] >= 2 => irqs[j] = FALSE

\* Where fn is to run, and where it has.
Asked(j) == IF active_cpus = {} THEN j = S!Min(round) ELSE j \in active_cpus
HasRun(j) == state > 3 \/ (state = 3 /\ curstate[j] = 3 /\ spc[j] # "run")
RunInv ==
  /\ active_cpus \subseteq round
  /\ state <= 2 => online = round
  /\ \A j \in round : ~Waiting(j) => (active[j] <=> Asked(j))
  /\ ran = {j \in round : Asked(j) /\ HasRun(j)}

FailInv == fnret = failed /\ failed \in BOOLEAN

InsideInv == RoundInv /\ CountInv /\ IrqInv /\ RunInv

SInv == STypeOK /\ LockInv /\ FailInv /\ (lock # None => InsideInv)

-----------------------------------------------------------------------------
(* Users.                                                                  *)

\* The invariant holds initially.
LEMMA SInitInv == S!Init => SInv
<1> SUFFICES ASSUME S!Init PROVE SInv
  OBVIOUS
<1>1. STypeOK
  BY SSets DEF S!Init, STypeOK
<1>2. LockInv
  BY SSets DEF S!Init, LockInv
<1>3. FailInv
  <2>1. fnret = FALSE /\ failed = FALSE
    BY DEF S!Init
  <2> QED
    BY <2>1 DEF FailInv
<1>4. lock = None
  BY DEF S!Init
<1> QED
  BY <1>1, <1>2, <1>3, <1>4 DEF SInv

roundvars == <<online, state, thread_ack, num_threads, active_cpus, spc, curstate,
            active, irqs, round, ran>>

\* As long as nothing of the round changes, neither does what is known of it.
LEMMA SameRound ==
  ASSUME InsideInv, todo' = todo, UNCHANGED roundvars
  PROVE  InsideInv'
BY DEF roundvars, InsideInv, RoundInv, CountInv, IrqInv, RunInv, Pends, Pending, Waiting, Behind,
       Working, Through, Setter, Gone, Asked, HasRun

\* stop_machine_create(), stop_machine_destroy() and cpu_up().
LEMMA SOutsideInv ==
  ASSUME SInv, \/ \E u \in Users : S!stop_machine_create(u) \/ S!stop_machine_destroy(u)
               \/ \E k \in Cpus : S!CpuUp(k)
  PROVE  SInv'
<1>1. ASSUME NEW u \in Users, S!stop_machine_create(u) \/ S!stop_machine_destroy(u)
      PROVE  SInv'
  <2>1. /\ userpc[u] \in {"idle", "ready"} /\ lock' = lock /\ todo' = todo
        /\ UNCHANGED roundvars /\ UNCHANGED <<fnret, failed>>
        /\ \E l \in {"idle", "ready"} : userpc' = [userpc EXCEPT ![u] = l] \/ userpc' = userpc
    BY <1>1 DEF S!stop_machine_create, S!stop_machine_destroy, S!svars, S!gvars, S!fvars, roundvars
  <2>2. STypeOK' /\ LockInv' /\ FailInv'
    BY <2>1 DEF roundvars, SInv, STypeOK, LockInv, FailInv
  <2> QED
    BY <2>1, <2>2, SameRound DEF SInv
<1>2. ASSUME NEW k \in Cpus, S!CpuUp(k)
      PROVE  SInv'
  <2>1. /\ lock = None /\ lock' = None /\ online' = online \cup {k}
        /\ UNCHANGED <<todo, userpc, spc, curstate, active, irqs, round, fnret, failed>>
    BY <1>2 DEF S!CpuUp, S!uvars, S!svars, S!gvars, S!fvars
  <2> QED
    BY <2>1 DEF SInv, STypeOK, LockInv, FailInv
<1> QED
  BY <1>1, <1>2

\* __stop_machine() begins: everybody waits.
LEMMA SBeginInv ==
  ASSUME SInv, NEW u \in Users, S!Begin(u)
  PROVE  SInv'
<1>1. /\ userpc[u] = "ready" /\ lock = None /\ lock' = u /\ userpc' = [userpc EXCEPT ![u] = "queue"]
      /\ online # {} /\ online' = online /\ active_cpus' \in SUBSET online
      /\ num_threads' = Cardinality(online) /\ thread_ack' = num_threads' /\ state' = 1
      /\ todo' = online /\ round' = online /\ fnret' = FALSE /\ ran' = {} /\ failed' = FALSE
      /\ UNCHANGED <<spc, curstate, active, irqs>>
  BY SSets DEF S!Begin, S!svars
<1>2. /\ STypeOK /\ LockInv /\ \A k \in Cpus : spc[k] = "none"
  BY <1>1 DEF SInv, LockInv
<1>3. STypeOK'
  BY <1>1, <1>2 DEF STypeOK
<1>4. LockInv'
  BY <1>1, <1>2, SSets DEF LockInv, STypeOK
<1>5. FailInv'
  BY <1>1, Zenon DEF FailInv
<1>6. /\ \A j \in round' : Waiting(j)' /\ spc'[j] = "none"
      /\ \A k \in Cpus : spc'[k] = "none"
  BY <1>1, <1>2 DEF Waiting, STypeOK
<1>7. Pending' = round'
  BY <1>6 DEF Pending, Pends
<1>8. RoundInv'
  BY <1>1, <1>6 DEF RoundInv, Pends
<1>9. CountInv'
  <2>1. thread_ack' = Cardinality(Pending') /\ Pending' # {}
    BY <1>1, <1>7
  <2>2. \A j \in round' : ~Setter(j)'
    BY <1>6 DEF Setter
  <2> QED
    BY <1>1, <2>1, <2>2 DEF CountInv
<1>10. IrqInv' /\ RunInv'
  BY <1>1, <1>6 DEF IrqInv, RunInv, HasRun
<1> QED
  BY <1>3, <1>4, <1>5, <1>8, <1>9, <1>10 DEF SInv, InsideInv

\* A CPU is queued to.
LEMMA SQueueInv ==
  ASSUME SInv, NEW u \in Users, S!Queue(u)
  PROVE  SInv'
<1>1. STypeOK /\ LockInv /\ FailInv /\ RoundInv /\ CountInv /\ IrqInv /\ RunInv
  BY SSets DEF SInv, InsideInv, S!Queue
<1>2. todo # {} /\ todo \in SUBSET Nat
  BY <1>1, SSets DEF LockInv, STypeOK, S!Queue
<1>3. PICK m \in todo : m = S!Min(todo)
  BY <1>2, SMin
<1>4. /\ lock = u /\ userpc[u] = "queue" /\ lock' = lock
      /\ spc' = [spc EXCEPT ![m] = "queued"] /\ todo' = todo \ {m}
      /\ userpc' = IF todo' = {} THEN [userpc EXCEPT ![u] = "flush"] ELSE userpc
      /\ UNCHANGED <<curstate, active, irqs, state, thread_ack, num_threads, active_cpus, round,
                     online, fnret, ran, failed>>
  BY <1>3 DEF S!Queue, S!gvars, S!fvars
<1>5. m \in round /\ m \in Cpus /\ Waiting(m) /\ state = 1
  BY <1>1, <1>3 DEF RoundInv, STypeOK, Pends, Waiting, Behind, Working, Through, Setter, Gone
<1>6. spc'[m] = "queued" /\ \A j \in Cpus : j # m => spc'[j] = spc[j]
  BY <1>1, <1>5, <1>4 DEF STypeOK
<1>7. STypeOK'
  BY <1>4, <1>1 DEF STypeOK
<1>8. LockInv'
  BY <1>4, <1>1, SSets DEF LockInv, STypeOK
<1>9. FailInv'
  BY <1>4, <1>1 DEF FailInv
<1>10. /\ Waiting(m)'
       /\ \A j \in round : j # m => /\ Waiting(j)' <=> Waiting(j)
                                    /\ Behind(j)' <=> Behind(j)
                                    /\ Working(j)' <=> Working(j)
                                    /\ Through(j)' <=> Through(j)
                                    /\ Setter(j)' <=> Setter(j)
                                    /\ Gone(j)' <=> Gone(j)
  BY <1>4, <1>1, <1>5, <1>6 DEF STypeOK, Waiting, Behind, Working, Through, Setter, Gone
<1>11. Pending' = Pending
  BY <1>4, <1>5, <1>10 DEF Pending, Pends
<1>12. RoundInv'
  BY <1>4, <1>1, <1>5, <1>6, <1>10 DEF RoundInv, Pends, STypeOK
<1>13. ~Setter(m) /\ ~Setter(m)'
  BY <1>3, <1>6 DEF Setter
<1>14. CountInv'
  <2>1. \A j \in round : Setter(j)' <=> Setter(j)
    BY <1>10, <1>13
  <2>2. \A j \in round : Setter(j) => spc'[j] = spc[j]
    BY <1>1, <1>6, <1>13 DEF STypeOK
  <2> QED
    BY <1>4, <1>1, <1>11, <2>1, <2>2 DEF CountInv
<1>15. IrqInv'
  BY <1>4, <1>1, <1>6 DEF IrqInv, STypeOK
<1>16. RunInv'
  <2>1. \A j \in round : HasRun(j)' <=> HasRun(j)
    BY <1>4, <1>5 DEF HasRun
  <2>2. \A j : Asked(j)' <=> Asked(j)
    BY <1>4 DEF Asked
  <2> QED
    BY <1>4, <1>1, <1>5, <1>10, <2>1, <2>2 DEF RunInv
<1> QED
  BY <1>7, <1>8, <1>9, <1>12, <1>14, <1>15, <1>16 DEF SInv, InsideInv

\* The user inside is let go: no stopper is about any more.
LEMMA SFlushInv ==
  ASSUME SInv, NEW u \in Users, S!Flush(u)
  PROVE  SInv'
<1>1. /\ lock = u /\ userpc[u] = "flush" /\ lock' = None
      /\ \A k \in Cpus : spc[k] = "none"
      /\ userpc' = [userpc EXCEPT ![u] = "ready"]
      /\ UNCHANGED <<todo, spc, curstate, active, irqs, round, online, fnret, failed>>
  BY SSets DEF S!Flush, S!svars, S!gvars, S!fvars
<1>2. STypeOK'
  BY <1>1 DEF SInv, STypeOK
<1>3. LockInv' /\ FailInv'
  BY <1>1, SSets DEF SInv, STypeOK, LockInv, FailInv
<1> QED
  BY <1>1, <1>2, <1>3 DEF SInv

-----------------------------------------------------------------------------
(* Stoppers.                                                               *)

\* What a stopper's step leaves alone.
LEMMA StopperFrame ==
  ASSUME SInv, NEW k \in Cpus, S!StopperStep(k)
  PROVE  /\ lock' = lock /\ lock # None /\ k \in round /\ spc[k] # "none"
         /\ UNCHANGED <<userpc, todo, num_threads, active_cpus, round>>
         /\ STypeOK /\ LockInv /\ FailInv /\ RoundInv /\ CountInv /\ IrqInv /\ RunInv
         /\ \A j \in Cpus : j # k => spc'[j] = spc[j] /\ curstate'[j] = curstate[j]
<1>1. spc[k] # "none"
  BY DEF S!StopperStep, S!Start, S!See, S!RunEnds, S!Ack, S!SetAck, S!SetState, S!Exit
<1>2. lock # None
  BY <1>1 DEF SInv, LockInv
<1>3. STypeOK /\ LockInv /\ FailInv /\ RoundInv /\ CountInv /\ IrqInv /\ RunInv
  BY <1>2 DEF SInv, InsideInv
<1>4. k \in round
  BY <1>1, <1>3 DEF RoundInv
<1>5. UNCHANGED <<lock, userpc, todo, num_threads, active_cpus, round>>
  BY DEF S!StopperStep, S!Start, S!See, S!RunEnds, S!Ack, S!SetAck, S!SetState, S!Exit,
         S!uvars, S!gvars, S!fvars
<1>6. \A j \in Cpus : j # k => spc'[j] = spc[j]
  BY <1>3 DEF S!StopperStep, S!Start, S!See, S!RunEnds, S!Ack, S!SetAck, S!SetState, S!Exit,
              S!LoopEnd, STypeOK
<1>7. \A j \in Cpus : j # k => curstate'[j] = curstate[j]
  BY <1>3 DEF S!StopperStep, S!Start, S!See, S!RunEnds, S!Ack, S!SetAck, S!SetState, S!Exit,
              STypeOK
<1> QED
  BY <1>1, <1>2, <1>3, <1>4, <1>5, <1>6, <1>7

\* A step of the stopper of k within the same state: the others are where they were.
LEMMA OthersStay ==
  ASSUME NEW k \in Cpus, round \subseteq Cpus, UNCHANGED <<todo, state, round>>,
         \A j \in Cpus : j # k => spc'[j] = spc[j] /\ curstate'[j] = curstate[j]
  PROVE  \A j \in round : j # k => /\ Waiting(j)' <=> Waiting(j)
                                   /\ Pends(j)' <=> Pends(j)
                                   /\ Through(j)' <=> Through(j)
                                   /\ Setter(j)' <=> Setter(j)
                                   /\ Gone(j)' <=> Gone(j)
                                   /\ HasRun(j)' <=> HasRun(j)
<1> SUFFICES ASSUME NEW j \in round, j # k
             PROVE  /\ Waiting(j)' <=> Waiting(j)
                    /\ Pends(j)' <=> Pends(j)
                    /\ Through(j)' <=> Through(j)
                    /\ Setter(j)' <=> Setter(j)
                    /\ Gone(j)' <=> Gone(j)
                    /\ HasRun(j)' <=> HasRun(j)
  OBVIOUS
<1>1. j \in Cpus /\ spc'[j] = spc[j] /\ curstate'[j] = curstate[j]
  OBVIOUS
<1> QED
  BY <1>1 DEF Waiting, Pends, Behind, Working, Through, Setter, Gone, HasRun

\* A stopper is in one place only.
LEMMA OnePlace ==
  ASSUME NEW j
  PROVE  /\ Pends(j) => ~Setter(j) /\ ~Through(j) /\ ~Gone(j)
         /\ Setter(j) => ~Through(j) /\ ~Gone(j)
BY DEF Waiting, Pends, Behind, Working, Through, Setter, Gone

\* A stopper that pends and goes on to pend: nobody else is concerned.
LEMMA StillPends ==
  ASSUME RoundInv, CountInv, round \subseteq Cpus, NEW k \in round, Pends(k), Pends(k)',
         UNCHANGED <<todo, state, round, thread_ack, num_threads>>,
         \A j \in Cpus : j # k => spc'[j] = spc[j] /\ curstate'[j] = curstate[j]
  PROVE  RoundInv' /\ CountInv'
<1>1. \A j \in round : j # k => /\ Waiting(j)' <=> Waiting(j)
                                /\ Pends(j)' <=> Pends(j)
                                /\ Through(j)' <=> Through(j)
                                /\ Setter(j)' <=> Setter(j)
                                /\ Gone(j)' <=> Gone(j)
  BY OthersStay
<1>2. Pending' = Pending /\ k \in Pending
  BY <1>1 DEF Pending
<1>3. ~Setter(k) /\ ~Setter(k)' /\ state \in 1..4
  BY OnePlace DEF Setter, Pends, Waiting, Behind, Working
<1>4. RoundInv'
  BY <1>1 DEF RoundInv
<1>5. CountInv'
  BY <1>1, <1>2, <1>3 DEF CountInv
<1> QED
  BY <1>4, <1>5

\* The stopper of k starts: it is one state behind.
LEMMA SStartInv ==
  ASSUME SInv, NEW k \in Cpus, S!Start(k)
  PROVE  SInv'
<1>0. /\ lock' = lock /\ lock # None /\ k \in round /\ spc[k] # "none"
      /\ UNCHANGED <<userpc, todo, num_threads, active_cpus, round>>
      /\ STypeOK /\ LockInv /\ FailInv /\ RoundInv /\ CountInv /\ IrqInv /\ RunInv
      /\ \A j \in Cpus : j # k => spc'[j] = spc[j] /\ curstate'[j] = curstate[j]
  BY StopperFrame DEF S!StopperStep
<1>1. /\ spc[k] = "queued" /\ spc' = [spc EXCEPT ![k] = "loop"]
      /\ curstate' = [curstate EXCEPT ![k] = 0] /\ active' = [active EXCEPT ![k] = S!RunsFn(k)]
      /\ UNCHANGED <<irqs, state, thread_ack, online, fnret, ran, failed>>
  BY DEF S!Start, S!gvars
<1>2. k \notin todo /\ state = 1 /\ Waiting(k)
  BY <1>0, <1>1 DEF RoundInv, Pends, Waiting, Behind, Working, Through, Setter, Gone
<1>3. spc'[k] = "loop" /\ curstate'[k] = 0
  BY <1>0, <1>1 DEF STypeOK
<1>4. S!RunsFn(k) \in BOOLEAN /\ (S!RunsFn(k) <=> Asked(k))
  <2>1. online = round
    BY <1>0, <1>2 DEF RunInv
  <2>2. S!RunsFn(k) <=> Asked(k)
    BY <2>1 DEF S!RunsFn, Asked
  <2>3. CASE active_cpus = {}
    BY <2>2, <2>3 DEF S!RunsFn
  <2>4. CASE active_cpus # {}
    <3>1. S!RunsFn(k) = (k \in active_cpus)
      BY <2>4 DEF S!RunsFn
    <3>2. (k \in active_cpus) \in BOOLEAN
      OBVIOUS
    <3> QED
      BY <2>2, <3>1, <3>2
  <2> QED
    BY <2>2, <2>3, <2>4
<1>5. STypeOK' /\ LockInv' /\ FailInv'
  <2>1. active' \in [Cpus -> BOOLEAN]
    BY <1>0, <1>1, <1>4 DEF STypeOK
  <2>2. spc' \in [Cpus -> {"none", "queued", "loop", "run", "ack", "set_ack", "set_state", "exit"}]
    BY <1>0, <1>1 DEF STypeOK
  <2>3. curstate' \in [Cpus -> 0..4]
    BY <1>0, <1>1 DEF STypeOK
  <2> QED
    BY <1>0, <1>1, <2>1, <2>2, <2>3 DEF STypeOK, LockInv, FailInv
<1>6. Pends(k) /\ Pends(k)'
  BY <1>0, <1>1, <1>2, <1>3 DEF Pends, Behind
<1>7. RoundInv' /\ CountInv'
  BY <1>0, <1>1, <1>6, StillPends DEF STypeOK
<1>8. IrqInv'
  BY <1>0, <1>1, <1>3 DEF IrqInv, STypeOK
<1>9. \A j : Asked(j)' <=> Asked(j)
  BY <1>0 DEF Asked
<1>10. RunInv'
  <2>1. \A j \in round : HasRun(j)' <=> HasRun(j)
    BY <1>1, <1>2 DEF HasRun
  <2>2. \A j \in round : j # k => (Waiting(j)' <=> Waiting(j))
    BY <1>0, <1>1, OthersStay DEF STypeOK
  <2>3. \A j \in round : ~Waiting(j)' => (active'[j] <=> Asked(j))
    BY <1>0, <1>1, <1>4, <2>2 DEF RunInv, STypeOK
  <2> QED
    BY <1>0, <1>1, <1>9, <2>1, <2>3 DEF RunInv
<1> QED
  BY <1>5, <1>7, <1>8, <1>10 DEF SInv, InsideInv

\* It sees the state that is published and does what that asks for.
LEMMA SSeeInv ==
  ASSUME SInv, NEW k \in Cpus, S!See(k)
  PROVE  SInv'
<1>0. /\ lock' = lock /\ lock # None /\ k \in round /\ spc[k] # "none"
      /\ UNCHANGED <<userpc, todo, num_threads, active_cpus, round>>
      /\ STypeOK /\ LockInv /\ FailInv /\ RoundInv /\ CountInv /\ IrqInv /\ RunInv
      /\ \A j \in Cpus : j # k => spc'[j] = spc[j] /\ curstate'[j] = curstate[j]
  BY StopperFrame DEF S!StopperStep
<1>1. /\ spc[k] = "loop" /\ state # curstate[k]
      /\ curstate' = [curstate EXCEPT ![k] = state]
      /\ irqs' = [irqs EXCEPT ![k] = irqs[k] /\ state # 2]
      /\ spc' = [spc EXCEPT ![k] = IF state = 3 THEN "run" ELSE "ack"]
      /\ UNCHANGED <<active, state, thread_ack, online, fnret, ran, failed>>
  BY DEF S!See, S!gvars
<1>2. Behind(k)
  BY <1>0, <1>1 DEF RoundInv, Pends, Waiting, Behind, Working, Through, Setter, Gone
<1>3. /\ spc'[k] = (IF state = 3 THEN "run" ELSE "ack") /\ curstate'[k] = state
      /\ k \notin todo /\ state \in 1..4 /\ curstate[k] = state - 1
  BY <1>0, <1>1, <1>2 DEF STypeOK, Behind
<1>4. STypeOK' /\ LockInv' /\ FailInv'
  <2>1. irqs' \in [Cpus -> BOOLEAN]
    <3>1. (irqs[k] /\ state # 2) \in BOOLEAN
      OBVIOUS
    <3> QED
      BY <1>0, <1>1, <3>1 DEF STypeOK
  <2>2. spc' \in [Cpus -> {"none", "queued", "loop", "run", "ack", "set_ack", "set_state", "exit"}]
    BY <1>0, <1>1 DEF STypeOK
  <2>3. curstate' \in [Cpus -> 0..4]
    BY <1>0, <1>1, <1>3 DEF STypeOK
  <2> QED
    BY <1>0, <1>1, <2>1, <2>2, <2>3 DEF STypeOK, LockInv, FailInv
<1>5. Pends(k) /\ Pends(k)'
  BY <1>0, <1>1, <1>2, <1>3 DEF Pends, Working
<1>6. RoundInv' /\ CountInv'
  BY <1>0, <1>1, <1>5, StillPends DEF STypeOK
<1>7. IrqInv'
  <2>1. state >= 2 => irqs'[k] = FALSE
    <3>1. state = 2 => irqs'[k] = FALSE
      BY <1>0, <1>1 DEF STypeOK
    <3>2. state >= 3 => irqs[k] = FALSE
      BY <1>0, <1>1, <1>3 DEF IrqInv
    <3> QED
      BY <1>0, <1>1, <1>3, <3>1, <3>2 DEF STypeOK
  <2>2. \A j \in Cpus : j # k => irqs'[j] = irqs[j]
    BY <1>0, <1>1 DEF STypeOK
  <2> QED
    BY <1>0, <1>3, <2>1, <2>2 DEF IrqInv, STypeOK
<1>8. \A j : Asked(j)' <=> Asked(j)
  BY <1>0 DEF Asked
<1>9. RunInv'
  <2>1. HasRun(k)' <=> HasRun(k)
    BY <1>1, <1>3 DEF HasRun
  <2>2. \A j \in round : j # k => (Waiting(j)' <=> Waiting(j)) /\ (HasRun(j)' <=> HasRun(j))
    BY <1>0, <1>1, OthersStay DEF STypeOK
  <2>3. ~Waiting(k)
    BY <1>1 DEF Waiting
  <2>4. \A j \in round : ~Waiting(j)' => (active'[j] <=> Asked(j))
    BY <1>0, <1>1, <2>2, <2>3 DEF RunInv
  <2> QED
    BY <1>0, <1>1, <1>8, <2>1, <2>2, <2>4 DEF RunInv
<1> QED
  BY <1>4, <1>6, <1>7, <1>9 DEF SInv, InsideInv

\* fn or chill() returns.
LEMMA SRunEndsInv ==
  ASSUME SInv, NEW k \in Cpus, S!RunEnds(k)
  PROVE  SInv'
<1>0. /\ lock' = lock /\ lock # None /\ k \in round /\ spc[k] # "none"
      /\ UNCHANGED <<userpc, todo, num_threads, active_cpus, round>>
      /\ STypeOK /\ LockInv /\ FailInv /\ RoundInv /\ CountInv /\ IrqInv /\ RunInv
      /\ \A j \in Cpus : j # k => spc'[j] = spc[j] /\ curstate'[j] = curstate[j]
  BY StopperFrame DEF S!StopperStep
<1>1. /\ spc[k] = "run" /\ spc' = [spc EXCEPT ![k] = "ack"]
      /\ ran' = IF active[k] THEN ran \cup {k} ELSE ran
      /\ online' \in SUBSET online
      /\ UNCHANGED <<curstate, active, irqs, state, thread_ack>>
  <2>1. \/ ~active[k] /\ UNCHANGED <<online, ran>>
        \/ active[k] /\ ran' = ran \cup {k} /\ online' \in {online, online \ {k}}
    BY DEF S!RunEnds
  <2> QED
    BY <2>1 DEF S!RunEnds, S!gvars
<1>2. FailInv'
  <2>1. CASE UNCHANGED <<fnret, failed>>
    BY <1>0, <2>1 DEF FailInv
  <2>2. ASSUME NEW err \in BOOLEAN, fnret' = (fnret \/ err), failed' = (failed \/ err)
        PROVE  FailInv'
    BY <1>0, <2>2 DEF FailInv
  <2> QED
    BY <2>1, <2>2 DEF S!RunEnds, S!NewRet
<1>3. Working(k) /\ state = 3 /\ curstate[k] = 3 /\ k \notin todo
  BY <1>0, <1>1 DEF RoundInv, Pends, Waiting, Behind, Working, Through, Setter, Gone
<1>4. spc'[k] = "ack"
  BY <1>0, <1>1 DEF STypeOK
<1>5. STypeOK' /\ LockInv'
  <2>1. spc' \in [Cpus -> {"none", "queued", "loop", "run", "ack", "set_ack", "set_state", "exit"}]
    BY <1>0, <1>1 DEF STypeOK
  <2> QED
    BY <1>0, <1>1, <2>1 DEF STypeOK, LockInv
<1>6. Pends(k) /\ Pends(k)'
  BY <1>0, <1>1, <1>3, <1>4 DEF Pends, Working
<1>7. RoundInv' /\ CountInv'
  BY <1>0, <1>1, <1>6, StillPends DEF STypeOK
<1>8. IrqInv'
  BY <1>0, <1>1 DEF IrqInv, STypeOK
<1>9. \A j : Asked(j)' <=> Asked(j)
  BY <1>0 DEF Asked
<1>10. RunInv'
  <2>1. ~HasRun(k) /\ HasRun(k)' /\ ~Waiting(k) /\ ~Waiting(k)'
    BY <1>1, <1>3, <1>4 DEF HasRun, Waiting
  <2>2. \A j \in round : j # k => (Waiting(j)' <=> Waiting(j)) /\ (HasRun(j)' <=> HasRun(j))
    BY <1>0, <1>1, OthersStay DEF STypeOK
  <2>3. active[k] <=> Asked(k)
    BY <1>0, <2>1 DEF RunInv
  <2>4. ran' = {j \in round : Asked(j) /\ HasRun(j)'}
    BY <1>0, <1>1, <2>1, <2>2, <2>3 DEF RunInv
  <2>5. \A j \in round : ~Waiting(j)' => (active'[j] <=> Asked(j))
    BY <1>0, <1>1, <2>1, <2>2 DEF RunInv
  <2> QED
    BY <1>0, <1>1, <1>3, <1>9, <2>4, <2>5 DEF RunInv
<1> QED
  BY <1>2, <1>5, <1>7, <1>8, <1>10 DEF SInv, InsideInv

\* Steps of a stopper that is through with the state, or becomes so: interrupts and
\* what has run stay as they are.
LEMMA SameWork ==
  ASSUME STypeOK, IrqInv, RunInv, NEW k \in round, ~Waiting(k),
         UNCHANGED <<todo, state, round, active_cpus, curstate, active, irqs, online, ran>>,
         spc[k] \notin {"none", "queued", "run"}, spc'[k] \notin {"none", "queued", "run"},
         \A j \in Cpus : j # k => spc'[j] = spc[j] /\ curstate'[j] = curstate[j]
  PROVE  IrqInv' /\ RunInv'
<1>1. k \in Cpus /\ round \subseteq Cpus
  BY DEF STypeOK
<1>2. \A j \in round : j # k => (Waiting(j)' <=> Waiting(j)) /\ (HasRun(j)' <=> HasRun(j))
  BY <1>1, OthersStay
<1>3. HasRun(k)' <=> HasRun(k)
  BY DEF HasRun
<1>4. \A j : Asked(j)' <=> Asked(j)
  BY DEF Asked
<1>5. IrqInv'
  BY <1>1 DEF IrqInv
<1>6. RunInv'
  <2>1. \A j \in round : ~Waiting(j)' => (active'[j] <=> Asked(j))
    BY <1>2 DEF RunInv
  <2>2. ran' = {j \in round : Asked(j) /\ HasRun(j)'}
    BY <1>2, <1>3 DEF RunInv
  <2> QED
    BY <1>4, <2>1, <2>2 DEF RunInv
<1> QED
  BY <1>5, <1>6

\* ack_state(): the last one to acknowledge finds the counter at zero.
LEMMA SAckInv ==
  ASSUME SInv, NEW k \in Cpus, S!Ack(k)
  PROVE  SInv'
<1>0. /\ lock' = lock /\ lock # None /\ k \in round /\ spc[k] # "none"
      /\ UNCHANGED <<userpc, todo, num_threads, active_cpus, round>>
      /\ STypeOK /\ LockInv /\ FailInv /\ RoundInv /\ CountInv /\ IrqInv /\ RunInv
      /\ \A j \in Cpus : j # k => spc'[j] = spc[j] /\ curstate'[j] = curstate[j]
  BY StopperFrame DEF S!StopperStep
<1>1. /\ spc[k] = "ack" /\ thread_ack' = thread_ack - 1
      /\ spc' = [spc EXCEPT ![k] = IF thread_ack' = 0 THEN "set_ack"
                                   ELSE IF curstate[k] = 4 THEN "exit" ELSE "loop"]
      /\ UNCHANGED <<curstate, active, irqs, state, online, fnret, ran, failed>>
  BY DEF S!Ack, S!LastAck, S!LoopEnd
<1>2. Working(k) /\ k \notin todo /\ state \in 1..4 /\ curstate[k] = state /\ ~Waiting(k)
  BY <1>0, <1>1 DEF RoundInv, Pends, Waiting, Behind, Working, Through, Setter, Gone
<1>3. spc'[k] = IF thread_ack' = 0 THEN "set_ack" ELSE IF state = 4 THEN "exit" ELSE "loop"
  BY <1>0, <1>1, <1>2 DEF STypeOK
<1>4. STypeOK' /\ LockInv' /\ FailInv'
  <2>1. spc' \in [Cpus -> {"none", "queued", "loop", "run", "ack", "set_ack", "set_state", "exit"}]
    BY <1>0, <1>1 DEF STypeOK
  <2> QED
    BY <1>0, <1>1, <2>1 DEF STypeOK, LockInv, FailInv
<1>5. IrqInv' /\ RunInv'
  BY <1>0, <1>1, <1>2, <1>3, SameWork
<1>6. \A j \in round : j # k => /\ Pends(j)' <=> Pends(j)
                                /\ Through(j)' <=> Through(j)
                                /\ Setter(j)' <=> Setter(j)
                                /\ Gone(j)' <=> Gone(j)
  BY <1>0, <1>1, OthersStay DEF STypeOK
<1>7. ~Pends(k)' /\ (thread_ack' = 0 => Setter(k)') /\ (thread_ack' # 0 => Through(k)')
  BY <1>0, <1>1, <1>2, <1>3 DEF Pends, Waiting, Behind, Working, Setter, Through
<1>8. RoundInv'
  BY <1>0, <1>1, <1>6, <1>7 DEF RoundInv
<1>9. k \in Pending /\ Pending' = Pending \ {k}
  BY <1>0, <1>2, <1>6, <1>7 DEF Pending, Pends
<1>10. IsFiniteSet(Pending)
  <2>1. Pending \in SUBSET Cpus
    BY <1>0 DEF Pending, STypeOK
  <2> QED
    BY <2>1, SSets, FS_Subset
<1>11. /\ Cardinality(Pending') = Cardinality(Pending) - 1 /\ IsFiniteSet(Pending')
       /\ Cardinality(Pending) \in Nat
  BY <1>9, <1>10, FS_RemoveElement, FS_CardinalityType
<1>12. thread_ack = Cardinality(Pending) /\ \A j \in round : ~Setter(j)
  BY <1>0, <1>2, <1>9 DEF CountInv
<1>13. thread_ack' = Cardinality(Pending') /\ (thread_ack' = 0 <=> Pending' = {})
  BY <1>1, <1>11, <1>12, FS_EmptySet
<1>14. \A j \in round : j # k => ~Setter(j)'
  BY <1>6, <1>12
<1>15. CASE thread_ack' = 0
  <2>1. spc'[k] = "set_ack" /\ Setter(k)' /\ Pending' = {}
    BY <1>3, <1>7, <1>13, <1>15
  <2>2. CountInv'
    BY <1>0, <1>1, <1>2, <1>14, <2>1 DEF CountInv
  <2> QED
    BY <1>0, <1>4, <1>5, <1>8, <2>2 DEF SInv, InsideInv
<1>16. CASE thread_ack' # 0
  <2>1. Pending' # {} /\ ~Setter(k)'
    BY <1>7, <1>13, <1>16, OnePlace DEF Through, Setter
  <2>2. CountInv'
    BY <1>0, <1>1, <1>2, <1>13, <1>14, <2>1 DEF CountInv
  <2> QED
    BY <1>0, <1>4, <1>5, <1>8, <2>2 DEF SInv, InsideInv
<1> QED
  BY <1>15, <1>16

\* set_state(): the counter is set while nobody looks at it ...
LEMMA SSetAckInv ==
  ASSUME SInv, NEW k \in Cpus, S!SetAck(k)
  PROVE  SInv'
<1>0. /\ lock' = lock /\ lock # None /\ k \in round /\ spc[k] # "none"
      /\ UNCHANGED <<userpc, todo, num_threads, active_cpus, round>>
      /\ STypeOK /\ LockInv /\ FailInv /\ RoundInv /\ CountInv /\ IrqInv /\ RunInv
      /\ \A j \in Cpus : j # k => spc'[j] = spc[j] /\ curstate'[j] = curstate[j]
  BY StopperFrame DEF S!StopperStep
<1>1. /\ spc[k] = "set_ack" /\ thread_ack' = num_threads
      /\ spc' = [spc EXCEPT ![k] = "set_state"]
      /\ UNCHANGED <<curstate, active, irqs, state, online, fnret, ran, failed>>
  BY DEF S!SetAck
<1>2. Setter(k) /\ ~Waiting(k)
  BY <1>0, <1>1 DEF RoundInv, Pends, Waiting, Behind, Working, Through, Setter, Gone
<1>3. spc'[k] = "set_state"
  BY <1>0, <1>1 DEF STypeOK
<1>4. STypeOK' /\ LockInv' /\ FailInv'
  <2>1. spc' \in [Cpus -> {"none", "queued", "loop", "run", "ack", "set_ack", "set_state", "exit"}]
    BY <1>0, <1>1 DEF STypeOK
  <2> QED
    BY <1>0, <1>1, <2>1 DEF STypeOK, LockInv, FailInv
<1>5. IrqInv' /\ RunInv'
  BY <1>0, <1>1, <1>2, <1>3, SameWork
<1>6. \A j \in round : j # k => /\ Pends(j)' <=> Pends(j)
                                /\ Through(j)' <=> Through(j)
                                /\ Setter(j)' <=> Setter(j)
                                /\ Gone(j)' <=> Gone(j)
  BY <1>0, <1>1, OthersStay DEF STypeOK
<1>7. Setter(k)' /\ ~Pends(k) /\ ~Pends(k)'
  BY <1>0, <1>1, <1>2, <1>3 DEF Setter, Pends, Waiting, Behind, Working
<1>8. RoundInv'
  BY <1>0, <1>1, <1>6, <1>7 DEF RoundInv
<1>9. Pending' = Pending
  BY <1>0, <1>6, <1>7 DEF Pending
<1>10. /\ state \in 1..4 /\ Pending = {}
       /\ \A i, j \in round : Setter(i) /\ Setter(j) => i = j
  BY <1>0, <1>2 DEF CountInv, Setter
<1>11. CountInv'
  BY <1>0, <1>1, <1>2, <1>6, <1>7, <1>9, <1>10 DEF CountInv
<1> QED
  BY <1>0, <1>4, <1>5, <1>8, <1>11 DEF SInv, InsideInv

\* ... and then the state: everybody is behind, or gone.
LEMMA SSetStateInv ==
  ASSUME SInv, NEW k \in Cpus, S!SetState(k)
  PROVE  SInv'
<1>0. /\ lock' = lock /\ lock # None /\ k \in round /\ spc[k] # "none"
      /\ UNCHANGED <<userpc, todo, num_threads, active_cpus, round>>
      /\ STypeOK /\ LockInv /\ FailInv /\ RoundInv /\ CountInv /\ IrqInv /\ RunInv
      /\ \A j \in Cpus : j # k => spc'[j] = spc[j] /\ curstate'[j] = curstate[j]
  BY StopperFrame DEF S!StopperStep
<1>1. /\ spc[k] = "set_state" /\ state' = state + 1
      /\ spc' = [spc EXCEPT ![k] = IF curstate[k] = 4 THEN "exit" ELSE "loop"]
      /\ UNCHANGED <<curstate, active, irqs, thread_ack, online, fnret, ran, failed>>
  BY DEF S!SetState, S!LoopEnd
<1>2. Setter(k) /\ state \in 1..4 /\ curstate[k] = state /\ k \notin todo
  BY <1>0, <1>1 DEF RoundInv, Pends, Waiting, Behind, Working, Through, Setter, Gone
<1>3. /\ Pending = {} /\ \A i, j \in round : Setter(i) /\ Setter(j) => i = j
      /\ thread_ack = num_threads
  BY <1>0, <1>1, <1>2 DEF CountInv
<1>4. \A j \in round : j # k => Through(j)
  BY <1>0, <1>2, <1>3 DEF RoundInv, Pending, Gone
<1>5. spc'[k] = IF state = 4 THEN "exit" ELSE "loop"
  BY <1>0, <1>1, <1>2 DEF STypeOK
<1>6. STypeOK' /\ LockInv' /\ FailInv'
  <2>1. spc' \in [Cpus -> {"none", "queued", "loop", "run", "ack", "set_ack", "set_state", "exit"}]
    BY <1>0, <1>1 DEF STypeOK
  <2> QED
    BY <1>0, <1>1, <2>1 DEF STypeOK, LockInv, FailInv
<1>7. /\ state < 4 => \A j \in round : Behind(j)'
      /\ state = 4 => \A j \in round : Gone(j)'
  <2> SUFFICES ASSUME NEW j \in round
               PROVE  (state < 4 => Behind(j)') /\ (state = 4 => Gone(j)')
    OBVIOUS
  <2>1. CASE j = k
    BY <1>0, <1>1, <1>2, <1>5, <2>1 DEF Behind, Gone
  <2>2. CASE j # k
    <3>1. Through(j) /\ spc'[j] = spc[j] /\ curstate'[j] = curstate[j]
      BY <1>0, <1>4, <2>2 DEF STypeOK
    <3> QED
      BY <1>0, <1>1, <1>2, <3>1 DEF Through, Behind, Gone
  <2> QED
    BY <2>1, <2>2
<1>8. RoundInv'
  <2>1. \A j \in Cpus : j \notin round => spc'[j] = "none"
    BY <1>0 DEF RoundInv
  <2>2. \A j \in round : Pends(j)' \/ Gone(j)'
    BY <1>2, <1>7 DEF Pends
  <2> QED
    BY <1>0, <1>1, <1>2, <2>1, <2>2 DEF RoundInv
<1>9. CountInv'
  <2>1. CASE state < 4
    <3>1. Pending' = round
      BY <1>0, <1>7, <2>1 DEF Pending, Pends
    <3>2. \A j \in round : ~Setter(j)'
      BY <1>7, <2>1 DEF Behind, Setter
    <3> QED
      BY <1>0, <1>1, <1>2, <1>3, <2>1, <3>1, <3>2 DEF CountInv, RoundInv
  <2>2. CASE state = 4
    BY <1>1, <2>2 DEF CountInv
  <2> QED
    BY <1>2, <2>1, <2>2
<1>10. IrqInv'
  BY <1>0, <1>1, <1>2 DEF IrqInv, STypeOK
<1>11. \A j : Asked(j)' <=> Asked(j)
  BY <1>0 DEF Asked
<1>12. RunInv'
  <2>1. \A j \in round : ~Waiting(j) /\ curstate[j] = state /\ spc[j] # "run"
    BY <1>1, <1>2, <1>4 DEF Through, Waiting
  <2>2. \A j \in round : HasRun(j)' <=> HasRun(j)
    <3> SUFFICES ASSUME NEW j \in round PROVE HasRun(j)' <=> HasRun(j)
      OBVIOUS
    <3>1. curstate'[j] = state /\ curstate[j] = state /\ spc[j] # "run"
      BY <1>1, <2>1
    <3> QED
      BY <1>1, <1>2, <3>1 DEF HasRun
  <2>3. \A j \in round : active'[j] <=> Asked(j)
    BY <1>0, <1>1, <2>1 DEF RunInv
  <2>4. state' <= 2 => online' = round'
    BY <1>0, <1>1, <1>2 DEF RunInv
  <2> QED
    BY <1>0, <1>1, <1>11, <2>2, <2>3, <2>4 DEF RunInv
<1> QED
  BY <1>0, <1>6, <1>8, <1>9, <1>10, <1>12 DEF SInv, InsideInv

\* The stopper of k leaves.
LEMMA SExitInv ==
  ASSUME SInv, NEW k \in Cpus, S!Exit(k)
  PROVE  SInv'
<1>0. /\ lock' = lock /\ lock # None /\ k \in round /\ spc[k] # "none"
      /\ UNCHANGED <<userpc, todo, num_threads, active_cpus, round>>
      /\ STypeOK /\ LockInv /\ FailInv /\ RoundInv /\ CountInv /\ IrqInv /\ RunInv
      /\ \A j \in Cpus : j # k => spc'[j] = spc[j] /\ curstate'[j] = curstate[j]
  BY StopperFrame DEF S!StopperStep
<1>1. /\ spc[k] = "exit" /\ spc' = [spc EXCEPT ![k] = "none"]
      /\ irqs' = [irqs EXCEPT ![k] = TRUE]
      /\ UNCHANGED <<curstate, active, state, thread_ack, online, fnret, ran, failed>>
  BY DEF S!Exit, S!gvars
<1>2. Through(k) \/ Gone(k)
  BY <1>0, <1>1 DEF RoundInv, Pends, Waiting, Behind, Working, Setter
<1>3. spc'[k] = "none" /\ k \notin todo /\ state \in 4..5 /\ curstate[k] = 4
  BY <1>0, <1>1, <1>2 DEF STypeOK, Through, Gone
<1>4. STypeOK' /\ LockInv' /\ FailInv'
  <2>1. spc' \in [Cpus -> {"none", "queued", "loop", "run", "ack", "set_ack", "set_state", "exit"}]
    BY <1>0, <1>1 DEF STypeOK
  <2>2. irqs' \in [Cpus -> BOOLEAN]
    BY <1>0, <1>1 DEF STypeOK
  <2> QED
    BY <1>0, <1>1, <2>1, <2>2 DEF STypeOK, LockInv, FailInv
<1>5. \A j \in round : j # k => /\ Pends(j)' <=> Pends(j)
                                /\ Through(j)' <=> Through(j)
                                /\ Setter(j)' <=> Setter(j)
                                /\ Gone(j)' <=> Gone(j)
  BY <1>0, <1>1, OthersStay DEF STypeOK
<1>6. /\ Through(k)' \/ Gone(k)'
      /\ ~Setter(k) /\ ~Setter(k)' /\ ~Pends(k) /\ ~Pends(k)'
  BY <1>0, <1>1, <1>3 DEF Through, Gone, Setter, Pends, Waiting, Behind, Working
<1>7. RoundInv'
  BY <1>0, <1>1, <1>5, <1>6 DEF RoundInv
<1>8. CountInv'
  <2>1. Pending' = Pending
    BY <1>0, <1>5, <1>6 DEF Pending
  <2>2. \A j \in round : (Setter(j)' <=> Setter(j)) /\ (Setter(j) => spc'[j] = spc[j])
    BY <1>0, <1>5, <1>6 DEF STypeOK
  <2> QED
    BY <1>0, <1>1, <2>1, <2>2 DEF CountInv
<1>9. IrqInv'
  BY <1>0, <1>1, <1>3 DEF IrqInv, STypeOK
<1>10. \A j : Asked(j)' <=> Asked(j)
  BY <1>0 DEF Asked
<1>11. RunInv'
  <2>1. \A j \in round : HasRun(j)' /\ HasRun(j) /\ ~Waiting(j) /\ ~Waiting(j)'
    BY <1>1, <1>3 DEF HasRun, Waiting
  <2> QED
    BY <1>0, <1>1, <1>3, <1>10, <2>1 DEF RunInv
<1> QED
  BY <1>0, <1>4, <1>7, <1>8, <1>9, <1>11 DEF SInv, InsideInv

-----------------------------------------------------------------------------
(* Theorems.                                                               *)

\* Every step keeps the invariant, and so it always holds.
LEMMA SInvariance == S!Spec => []SInv
<1>1. ASSUME SInv, [S!Next]_S!vars
      PROVE  SInv'
  <2>1. CASE S!Next
    <3>1. \/ \E u \in Users : \/ S!stop_machine_create(u) \/ S!stop_machine_destroy(u)
                              \/ S!Begin(u) \/ S!UserStep(u)
          \/ \E k \in Cpus : S!CpuUp(k) \/ S!StopperStep(k)
      BY <2>1, SSets DEF S!Next
    <3> QED
      BY <1>1, <3>1, SOutsideInv, SBeginInv, SQueueInv, SFlushInv, SStartInv, SSeeInv, SRunEndsInv,
         SAckInv, SSetAckInv, SSetStateInv, SExitInv DEF S!UserStep, S!StopperStep
  <2>2. CASE UNCHANGED S!vars
    <3>1. lock' = lock /\ userpc' = userpc /\ todo' = todo /\ UNCHANGED roundvars
          /\ UNCHANGED <<fnret, failed>>
      BY <2>2 DEF S!vars, S!uvars, S!svars, S!gvars, S!fvars, roundvars
    <3>2. STypeOK' /\ LockInv' /\ FailInv'
      BY <1>1, <3>1 DEF SInv, STypeOK, LockInv, FailInv, roundvars
    <3> QED
      BY <1>1, <3>1, <3>2, SameRound DEF SInv
  <2> QED
    BY <1>1, <2>1, <2>2
<1> QED
  BY <1>1, SInitInv, PTL DEF S!Spec

\* While fn runs anywhere, every CPU is in its stopper with interrupts off and has
\* not begun to leave, for every number of CPUs.
THEOREM FunctionRunsAlone == S!Spec => []Frozen
<1>1. ASSUME SInv
      PROVE  Frozen
  <2> SUFFICES ASSUME NEW k \in Cpus, spc[k] = "run", NEW j \in round
               PROVE  S!Stopping(j) /\ ~irqs[j] /\ curstate[j] \in {2, 3}
    BY SSets DEF Frozen, S!Frozen
  <2>1. /\ STypeOK /\ RoundInv /\ CountInv /\ IrqInv
    BY <1>1 DEF SInv, InsideInv, LockInv
  <2>2. k \in round
    BY <2>1 DEF RoundInv
  <2>3. state = 3 /\ Pends(k)
    BY <2>1, <2>2 DEF RoundInv, Pends, Waiting, Behind, Working, Through, Setter, Gone
  <2>4. ~Setter(j)
    BY <2>1, <2>2, <2>3 DEF CountInv, Pending
  <2>5. Behind(j) \/ Working(j) \/ Through(j)
    BY <2>1, <2>3, <2>4 DEF RoundInv, Pends, Waiting, Gone
  <2>6. spc[j] \in {"loop", "ack", "run"} /\ curstate[j] \in {2, 3}
    BY <2>3, <2>5 DEF Behind, Working, Through
  <2>7. irqs[j] = FALSE
    BY <2>1, <2>6 DEF IrqInv
  <2> QED
    BY <2>6, <2>7 DEF S!Stopping
<1> QED
  BY <1>1, SInvariance, PTL

\* When flush_workqueue() lets __stop_machine() go, fn has run on the CPUs asked for
\* and nowhere else, and its result tells whether any of them failed.
THEOREM RunsWhereAsked == S!Spec => []RanWhereAsked
<1>1. ASSUME SInv
      PROVE  RanWhereAsked
  <2> SUFFICES ASSUME NEW u \in Users, userpc[u] = "flush", \A k \in Cpus : spc[k] = "none"
               PROVE  /\ IF active_cpus = {} THEN Cardinality(ran) = 1 ELSE ran = active_cpus
                      /\ fnret = failed
    BY SSets DEF RanWhereAsked, S!RanWhereAsked
  <2>1. lock = u
    BY <1>1 DEF SInv, LockInv
  <2>2. STypeOK /\ RoundInv /\ CountInv /\ RunInv /\ todo = {}
    BY <1>1, <2>1, SSets DEF SInv, InsideInv, LockInv
  <2>3. \A j \in round : ~Pends(j) \/ Waiting(j)
    BY <2>2 DEF Pends, Behind, Working, STypeOK
  <2>4. \A j \in round : ~Waiting(j) /\ ~Setter(j)
    BY <2>2 DEF Waiting, Setter, STypeOK
  <2>5. state = 5
    BY <2>2, <2>3, <2>4 DEF CountInv, Pending
  <2>6. ran = {j \in round : Asked(j)} /\ active_cpus \subseteq round
    BY <2>2, <2>5 DEF RunInv, HasRun
  <2>7. S!Min(round) \in round
    BY <2>2, SSets, SMin DEF RoundInv, STypeOK
  <2>8. CASE active_cpus = {}
    <3>1. ran = {S!Min(round)}
      BY <2>6, <2>7, <2>8 DEF Asked
    <3>2. Cardinality({S!Min(round)}) = 1
      BY FS_Singleton
    <3> QED
      BY <1>1, <2>8, <3>1, <3>2 DEF SInv, FailInv
  <2>9. CASE active_cpus # {}
    <3>1. ran = active_cpus
      BY <2>6, <2>9 DEF Asked
    <3> QED
      BY <1>1, <2>9, <3>1 DEF SInv, FailInv
  <2> QED
    BY <2>8, <2>9
<1> QED
  BY <1>1, SInvariance, PTL
=============================================================================
