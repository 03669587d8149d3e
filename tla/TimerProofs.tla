----------------------------- MODULE TimerProofs ------------------------------
(***************************************************************************)
(* Timer: the times the list stores are exact and the list is sorted, for  *)
(* every set of timeouts, every modulus and every bound on the clock.      *)
(*                                                                         *)
(* The inductive invariant says that the timestamp of a linked timeout is  *)
(* its due time modulo Modulus and that the due time is in a window around *)
(* the clock, within half the range on either side.  Within that window    *)
(* diff() is the true difference (DiffExact), so an insertion that         *)
(* compares wrapped times finds the place that the due times call for.     *)
(***************************************************************************)
EXTENDS Timer, SequenceFacts

\* A timestamp that stands for a due time, which is no more than MaxLate behind the time
\* `at' and no more than `ahead' in front of it.
Within(stamp, d, at, ahead) == /\ stamp = d % Modulus
                               /\ at - MaxLate <= d /\ d <= at + ahead

InWindow(t, ahead) == Within(time[t], due[t], clock, ahead)

WindowInv == \A t \in Timeouts : Linked(t) => InWindow(t, MaxDelay)

TimerInv == TimerTypeOK /\ WindowInv /\ SortedByDue

\* The place of a timeout due at d in a list, seen from the time `at', and the list with it.
PlaceOf(list, d, at) == InsertPosition(list, d % Modulus, at % Modulus)
Added(list, t, d, at) == InsertAt(list, PlaceOf(list, d, at), t)

\* A list is in the order of a function of its elements.
Sorted(list, f) == \A i, j \in DOMAIN list : i < j => f[list[i]] <= f[list[j]]

-------------------------------------------------------------------------------
\* diff(), static_cast<int32_t>(a - b) on wrapped counters, is the true difference of two
\* times that are less than half the range apart.
LEMMA DiffExact ==
  ASSUME NEW a \in Int, NEW b \in Int, a - b \in -Half .. Half - 1
  PROVE  Diff(a % Modulus, b % Modulus) = a - b
<1>1. Modulus \in Nat \ {0} /\ Half \in Nat \ {0} /\ Half * 2 = Modulus
  BY TimerAssumption DEF Half
<1>. DEFINE d == a - b  e == (a % Modulus) - (b % Modulus)
<1>2. e % Modulus = d % Modulus
  BY <1>1, ModSum
<1>3. d \in Int /\ -Half <= d /\ d < Half
  BY <1>1
<1>4. Diff(a % Modulus, b % Modulus) = IF e % Modulus >= Half THEN (e % Modulus) - Modulus
                                       ELSE e % Modulus
  BY DEF Diff
<1>. HIDE DEF d, e
<1>5. CASE d >= 0
  <2>1. d % Modulus = d
    BY <1>1, <1>3, <1>5, ModSmall
  <2>2. Diff(a % Modulus, b % Modulus) = d
    BY <1>1, <1>2, <1>3, <1>4, <2>1
  <2>. QED BY <2>2 DEF d
<1>6. CASE d < 0
  <2>1. d % Modulus = d + Modulus
    BY <1>1, <1>3, <1>6, ModSmall
  <2>2. Diff(a % Modulus, b % Modulus) = d
    BY <1>1, <1>2, <1>3, <1>4, <2>1
  <2>. QED BY <2>2 DEF d
<1>. QED BY <1>3, <1>5, <1>6

\* The loop of addTimeout() finds a place, and when diff() is exact it is the one that
\* separates what is due no later than the new timeout from what is due later.
LEMMA InsertPositionFacts ==
  ASSUME NEW list \in Seq(Timeouts), NEW absolute, NEW ref, NEW at \in Int, NEW d \in Int,
         due \in [Timeouts -> Int],
         Diff(absolute, ref) = d - at,
         \A i \in 1 .. Len(list) : Diff(time[list[i]], ref) = due[list[i]] - at,
         Sorted(list, due)
  PROVE  /\ InsertPosition(list, absolute, ref) \in 1 .. Len(list) + 1
         /\ \A i \in 1 .. Len(list) :
              /\ i < InsertPosition(list, absolute, ref) => due[list[i]] <= d
              /\ i >= InsertPosition(list, absolute, ref) => due[list[i]] > d
<1>. DEFINE later == {i \in DOMAIN list : Diff(time[list[i]], ref) > Diff(absolute, ref)}
            p == InsertPosition(list, absolute, ref)
<1>1. p = IF later = {} THEN Len(list) + 1 ELSE CHOOSE i \in later : \A j \in later : i <= j
  BY DEF InsertPosition
<1>2. DOMAIN list = 1 .. Len(list) /\ \A i \in 1 .. Len(list) : due[list[i]] \in Int
  OBVIOUS
<1>3. later \in SUBSET (1 .. Len(list)) /\ \A i \in 1 .. Len(list) : i \in later <=> due[list[i]] > d
  BY <1>2
<1>. HIDE DEF later, p
<1>4. CASE later = {}
  BY <1>1, <1>2, <1>3, <1>4 DEF p
<1>5. CASE later # {}
  <2>1. \E i \in later : \A j \in later : i <= j
    BY <1>3, <1>5, LeastNumber
  <2>2. p \in later /\ \A j \in later : p <= j
    BY <1>1, <1>5, <2>1
  <2>3. \A i \in 1 .. Len(list) : i >= p => due[list[i]] > d
    <3>1. p \in 1 .. Len(list) /\ due[list[p]] > d
      BY <1>3, <2>2
    <3>2. \A i \in 1 .. Len(list) : p < i => due[list[p]] <= due[list[i]]
      BY <1>2, <3>1 DEF Sorted
    <3>3. \A i \in 1 .. Len(list) : p < i => due[list[i]] > d
      BY <1>2, <3>1, <3>2
    <3>. QED BY <3>1, <3>3
  <2>4. \A i \in 1 .. Len(list) : i < p => due[list[i]] <= d
    BY <1>2, <1>3, <2>2
  <2>5. p \in 1 .. Len(list)
    BY <1>3, <2>2
  <2>. QED BY <2>3, <2>4, <2>5 DEF p
<1>. QED BY <1>4, <1>5

\* Inserted there, a timeout that is not in the list leaves it without repetitions and
\* sorted; f is the due times, with the new one.
LEMMA InsertKeepsOrder ==
  ASSUME NEW list \in Seq(Timeouts), IsInjective(list), NEW t \in Timeouts, ~Contains(list, t),
         NEW f \in [Timeouts -> Int], Sorted(list, f), NEW p \in 1 .. Len(list) + 1,
         \A i \in 1 .. Len(list) : (i < p => f[list[i]] <= f[t]) /\ (i >= p => f[list[i]] > f[t])
  PROVE  /\ InsertAt(list, p, t) \in Seq(Timeouts)
         /\ IsInjective(InsertAt(list, p, t))
         /\ Sorted(InsertAt(list, p, t), f)
         /\ \A u \in Timeouts : Contains(InsertAt(list, p, t), u) <=> u = t \/ Contains(list, u)
<1>. DEFINE l == InsertAt(list, p, t)  new(i) == IF i < p THEN i ELSE i + 1
<1>1. /\ l \in Seq(Timeouts) /\ Len(l) = Len(list) + 1 /\ l[p] = t
      /\ \A i \in 1 .. Len(list) : i < p => l[i] = list[i]
      /\ \A i \in 1 .. Len(list) : i >= p => l[i + 1] = list[i]
  <2>1. InsertAt(list, p, t) \in Seq(Timeouts) /\ Inserted(InsertAt(list, p, t), list, p, t)
    BY ONLY InsertAtFacts, list \in Seq(Timeouts), t \in Timeouts, p \in 1 .. Len(list) + 1
  <2>. HIDE DEF l
  <2>2. l \in Seq(Timeouts) /\ Inserted(l, list, p, t)
    BY ONLY <2>1 DEF l
  <2>. QED BY ONLY <2>2 DEF Inserted
<1>2. /\ Len(list) \in Nat /\ DOMAIN list = 1 .. Len(list)
      /\ \A i \in 1 .. Len(list) : list[i] \in Timeouts /\ list[i] # t
  BY DEF Contains
<1>. HIDE DEF l
<1>3. DOMAIN l = 1 .. Len(list) + 1
  BY <1>1
<1>4. ASSUME NEW i \in 1 .. Len(list)
      PROVE  new(i) \in 1 .. Len(list) + 1 /\ new(i) # p /\ l[new(i)] = list[i]
  BY SMTT(60), <1>1, <1>2
<1>5. ASSUME NEW k \in 1 .. Len(list) + 1, k # p
      PROVE  \E i \in 1 .. Len(list) : k = new(i)
  <2>1. k < p => k \in 1 .. Len(list) /\ k = new(k)
    BY <1>2
  <2>2. k > p => k - 1 \in 1 .. Len(list) /\ k = new(k - 1)
    BY <1>2
  <2>. QED BY SMTT(60), <1>5, <2>1, <2>2
<1>6. ASSUME NEW i \in 1 .. Len(list), NEW j \in 1 .. Len(list)
      PROVE  /\ new(i) < new(j) => i < j
             /\ new(i) < p => i < p
             /\ p < new(i) => i >= p
  BY <1>2
<1>. HIDE DEF new
<1>7. IsInjective(l)
  <2>1. SUFFICES ASSUME NEW k \in 1 .. Len(list) + 1, NEW m \in 1 .. Len(list) + 1, l[k] = l[m]
                 PROVE  k = m
    BY <1>3 DEF IsInjective
  <2>2. \A i, j \in 1 .. Len(list) : list[i] = list[j] => i = j
    BY <1>2 DEF IsInjective
  <2>3. CASE k # p /\ m # p
    <3>1. PICK i \in 1 .. Len(list), j \in 1 .. Len(list) : k = new(i) /\ m = new(j)
      BY <1>5, <2>3
    <3>. QED BY <1>4, <2>1, <2>2, <3>1
  <2>4. CASE k = p /\ m # p
    <3>1. PICK j \in 1 .. Len(list) : m = new(j)
      BY <1>5, <2>4
    <3>. QED BY <1>1, <1>2, <1>4, <2>1, <2>4, <3>1
  <2>5. CASE k # p /\ m = p
    <3>1. PICK j \in 1 .. Len(list) : k = new(j)
      BY <1>5, <2>5
    <3>. QED BY <1>1, <1>2, <1>4, <2>1, <2>5, <3>1
  <2>. QED BY <2>3, <2>4, <2>5
<1>8. Sorted(l, f)
  <2>1. SUFFICES ASSUME NEW k \in 1 .. Len(list) + 1, NEW m \in 1 .. Len(list) + 1, k < m
                 PROVE  f[l[k]] <= f[l[m]]
    BY <1>3 DEF Sorted
  <2>2. \A i, j \in 1 .. Len(list) : i < j => f[list[i]] <= f[list[j]]
    BY <1>2 DEF Sorted
  <2>3. f[t] \in Int /\ \A i \in 1 .. Len(list) : f[list[i]] \in Int
    BY <1>2
  <2>4. CASE k # p /\ m # p
    <3>1. PICK i \in 1 .. Len(list), j \in 1 .. Len(list) : k = new(i) /\ m = new(j)
      BY <1>5, <2>4
    <3>2. l[k] = list[i] /\ l[m] = list[j] /\ i < j
      BY <1>4, <1>6, <2>1, <3>1
    <3>. QED BY <2>2, <3>2
  <2>5. CASE k = p /\ m # p
    <3>1. PICK j \in 1 .. Len(list) : m = new(j)
      BY <1>5, <2>5
    <3>2. l[k] = t /\ l[m] = list[j] /\ j >= p
      BY <1>1, <1>4, <1>6, <2>1, <2>5, <3>1
    <3>3. f[list[j]] > f[t]
      BY <3>2
    <3>. QED BY <2>3, <3>2, <3>3
  <2>6. CASE k # p /\ m = p
    <3>1. PICK i \in 1 .. Len(list) : k = new(i)
      BY <1>5, <2>6
    <3>2. l[m] = t /\ l[k] = list[i] /\ i < p
      BY <1>1, <1>4, <1>6, <2>1, <2>6, <3>1
    <3>. QED BY <3>2
  <2>. QED BY <2>1, <2>4, <2>5, <2>6
<1>9. ASSUME NEW u \in Timeouts PROVE Contains(l, u) <=> u = t \/ Contains(list, u)
  <2>1. ASSUME Contains(l, u), u # t PROVE Contains(list, u)
    <3>1. PICK k \in 1 .. Len(list) + 1 : l[k] = u
      BY <1>1, <2>1 DEF Contains
    <3>2. PICK i \in 1 .. Len(list) : k = new(i)
      BY <1>1, <1>5, <2>1, <3>1
    <3>. QED BY <1>4, <3>1, <3>2 DEF Contains
  <2>2. Contains(l, t)
    BY <1>1 DEF Contains
  <2>3. ASSUME Contains(list, u) PROVE Contains(l, u)
    <3>1. PICK i \in 1 .. Len(list) : list[i] = u
      BY <2>3 DEF Contains
    <3>. QED BY <1>1, <1>4, <3>1 DEF Contains
  <2>. QED BY <2>1, <2>2, <2>3
<1>. QED BY <1>1, <1>7, <1>8, <1>9 DEF l

\* A list stays without repetitions and sorted when one of its elements is taken out.
LEMMA RemoveKeepsOrder ==
  ASSUME NEW list \in Seq(Timeouts), IsInjective(list),
         NEW f \in [Timeouts -> Int], Sorted(list, f), NEW p \in 1 .. Len(list)
  PROVE  /\ RemoveAt(list, p) \in Seq(Timeouts)
         /\ IsInjective(RemoveAt(list, p))
         /\ Sorted(RemoveAt(list, p), f)
         /\ \A u \in Timeouts : Contains(RemoveAt(list, p), u) <=> u # list[p] /\ Contains(list, u)
<1>. DEFINE l == RemoveAt(list, p)
<1>1. /\ l \in Seq(Timeouts) /\ Len(l) = Len(list) - 1
      /\ \A i \in 1 .. Len(list) - 1 : l[i] = IF i < p THEN list[i] ELSE list[i + 1]
  BY RemoveAtFacts
<1>2. /\ Len(list) \in Nat /\ DOMAIN list = 1 .. Len(list)
      /\ \A a, b \in 1 .. Len(list) : list[a] = list[b] => a = b
  BY DEF IsInjective
<1>3. DOMAIN l = 1 .. Len(list) - 1
  BY <1>1
<1>. HIDE DEF l
<1>. DEFINE old(i) == IF i < p THEN i ELSE i + 1
<1>4. ASSUME NEW i \in 1 .. Len(list) - 1
      PROVE  old(i) \in 1 .. Len(list) /\ old(i) # p /\ l[i] = list[old(i)]
  BY SMTT(60), <1>1, <1>2
<1>5. ASSUME NEW i \in 1 .. Len(list) - 1, NEW j \in 1 .. Len(list) - 1
      PROVE  (i < j => old(i) < old(j)) /\ (old(i) = old(j) => i = j)
  BY <1>2
<1>. HIDE DEF old
<1>6. IsInjective(l)
  <2>1. SUFFICES ASSUME NEW i \in 1 .. Len(list) - 1, NEW j \in 1 .. Len(list) - 1, l[i] = l[j]
                 PROVE  i = j
    BY <1>3 DEF IsInjective
  <2>2. old(i) = old(j)
    BY <1>2, <1>4, <2>1
  <2>. QED BY <1>5, <2>2
<1>7. Sorted(l, f)
  <2>1. SUFFICES ASSUME NEW i \in 1 .. Len(list) - 1, NEW j \in 1 .. Len(list) - 1, i < j
                 PROVE  f[l[i]] <= f[l[j]]
    BY <1>3 DEF Sorted
  <2>2. \A a, b \in 1 .. Len(list) : a < b => f[list[a]] <= f[list[b]]
    BY <1>2 DEF Sorted
  <2>3. old(i) \in 1 .. Len(list) /\ old(j) \in 1 .. Len(list) /\ old(i) < old(j)
    BY <1>4, <1>5, <2>1
  <2>. QED BY <1>4, <2>2, <2>3
<1>8. ASSUME NEW u \in Timeouts PROVE Contains(l, u) <=> u # list[p] /\ Contains(list, u)
  <2>1. ASSUME Contains(l, u) PROVE u # list[p] /\ Contains(list, u)
    <3>1. PICK i \in 1 .. Len(list) - 1 : l[i] = u
      BY <1>1, <2>1 DEF Contains
    <3>. QED BY <1>2, <1>4, <3>1 DEF Contains
  <2>2. ASSUME u # list[p], Contains(list, u) PROVE Contains(l, u)
    <3>1. PICK i \in 1 .. Len(list) : list[i] = u /\ i # p
      BY <2>2 DEF Contains
    <3>2. i < p => l[i] = u /\ i \in 1 .. Len(l)
      BY SMTT(60), <1>1, <3>1
    <3>3. i > p => l[i - 1] = u /\ i - 1 \in 1 .. Len(l)
      BY SMTT(60), <1>1, <3>1
    <3>. QED BY <3>1, <3>2, <3>3 DEF Contains
  <2>. QED BY <2>1, <2>2
<1>. QED BY <1>1, <1>6, <1>7, <1>8 DEF l

\* addTimeout() seen from the time `at', which need not be the present: as long as all due
\* times are within half the range of it, the list with the new timeout is sorted.  When
\* addTimeout() says that the timeout is not the first to expire the first one is the old one.
LEMMA AddFacts ==
  ASSUME NEW list \in Seq(Timeouts), IsInjective(list), due \in [Timeouts -> Nat],
         Sorted(list, due), NEW at \in Int,
         NEW t \in Timeouts, ~Contains(list, t), NEW d \in Nat, d - at \in -Half .. Half - 1,
         \A u \in Timeouts : Contains(list, u) =>
            time[u] = due[u] % Modulus /\ due[u] - at \in -Half .. Half - 1
  PROVE  /\ Added(list, t, d, at) \in Seq(Timeouts) /\ IsInjective(Added(list, t, d, at))
         /\ Sorted(Added(list, t, d, at), [due EXCEPT ![t] = d])
         /\ \A u \in Timeouts : Contains(Added(list, t, d, at), u) <=> u = t \/ Contains(list, u)
         /\ Added(list, t, d, at) # <<>>
         /\ IF PlaceOf(list, d, at) = 1 THEN Head(Added(list, t, d, at)) = t
            ELSE list # <<>> /\ Head(Added(list, t, d, at)) = Head(list)
<1>. DEFINE f == [due EXCEPT ![t] = d]  p == PlaceOf(list, d, at)  l == Added(list, t, d, at)
<1>0. p = InsertPosition(list, d % Modulus, at % Modulus) /\ l = InsertAt(list, p, t)
  BY DEF PlaceOf, Added
<1>. HIDE DEF p, l
<1>1. /\ Len(list) \in Nat
      /\ \A i \in 1 .. Len(list) : list[i] \in Timeouts /\ Contains(list, list[i]) /\ list[i] # t
  BY DEF Contains
<1>2. Diff(d % Modulus, at % Modulus) = d - at
  BY DiffExact
<1>3. \A i \in 1 .. Len(list) : Diff(time[list[i]], at % Modulus) = due[list[i]] - at
  <2>1. TAKE i \in 1 .. Len(list)
  <2>2. /\ due[list[i]] \in Int /\ time[list[i]] = due[list[i]] % Modulus
        /\ due[list[i]] - at \in -Half .. Half - 1
    BY <1>1
  <2>. QED BY <2>2, DiffExact
<1>4. due \in [Timeouts -> Int]
  OBVIOUS
<1>5. /\ p \in 1 .. Len(list) + 1
      /\ \A i \in 1 .. Len(list) : (i < p => due[list[i]] <= d) /\ (i >= p => due[list[i]] > d)
  <2>1. d \in Int
    OBVIOUS
  <2>. QED BY ONLY <1>0, <1>2, <1>3, <1>4, <2>1, InsertPositionFacts, list \in Seq(Timeouts),
             at \in Int, Sorted(list, due), Zenon
<1>6. f \in [Timeouts -> Int] /\ f[t] = d /\ \A i \in 1 .. Len(list) : f[list[i]] = due[list[i]]
  BY <1>1, <1>4
<1>7. Sorted(list, f)
  <2>1. DOMAIN list = 1 .. Len(list)
    OBVIOUS
  <2>. QED BY <1>6, <2>1 DEF Sorted
<1>. HIDE DEF f
<1>8. \A i \in 1 .. Len(list) : (i < p => f[list[i]] <= f[t]) /\ (i >= p => f[list[i]] > f[t])
  BY <1>5, <1>6
<1>9. /\ l \in Seq(Timeouts) /\ IsInjective(l) /\ Sorted(l, f)
      /\ \A u \in Timeouts : Contains(l, u) <=> u = t \/ Contains(list, u)
  <2>1. f \in [Timeouts -> Int] /\ p \in 1 .. Len(list) + 1
    BY <1>5, <1>6
  <2>2. /\ InsertAt(list, p, t) \in Seq(Timeouts) /\ IsInjective(InsertAt(list, p, t))
        /\ Sorted(InsertAt(list, p, t), f)
        /\ \A u \in Timeouts : Contains(InsertAt(list, p, t), u) <=> u = t \/ Contains(list, u)
    BY ONLY <1>7, <1>8, <2>1, InsertKeepsOrder, list \in Seq(Timeouts), IsInjective(list),
       t \in Timeouts, ~Contains(list, t), Zenon
  <2>. QED BY ONLY <1>0, <2>2
<1>10. /\ Len(l) = Len(list) + 1 /\ l[p] = t
       /\ \A i \in 1 .. Len(list) : i < p => l[i] = list[i]
  <2>1. p \in 1 .. Len(list) + 1
    BY <1>5
  <2>2. /\ Len(InsertAt(list, p, t)) = Len(list) + 1 /\ InsertAt(list, p, t)[p] = t
        /\ \A i \in 1 .. Len(list) : i < p => InsertAt(list, p, t)[i] = list[i]
    <3>1. Inserted(InsertAt(list, p, t), list, p, t)
      BY ONLY <2>1, InsertAtFacts, list \in Seq(Timeouts), t \in Timeouts
    <3>. QED BY ONLY <3>1 DEF Inserted
  <2>. QED BY <1>0, <2>2
<1>11. p # 1 => list # <<>> /\ Head(l) = Head(list)
  <2>1. SUFFICES ASSUME p # 1 PROVE list # <<>> /\ Head(l) = Head(list)
    OBVIOUS
  <2>2. Len(list) >= 1 /\ 1 < p
    BY <1>1, <1>5, <2>1
  <2>3. l[1] = list[1]
    BY <1>1, <1>10, <2>2
  <2>. QED BY <1>9, <1>10, <2>2, <2>3
<1>12. (p = 1 => Head(l) = t) /\ l # <<>>
  BY <1>1, <1>9, <1>10
<1>. QED BY <1>9, <1>11, <1>12 DEF f, p, l

\* Taking the first timeout off the list.
LEMMA TailFacts ==
  ASSUME NEW list \in Seq(Timeouts), list # <<>>, IsInjective(list),
         NEW f \in [Timeouts -> Int], Sorted(list, f)
  PROVE  /\ Tail(list) \in Seq(Timeouts) /\ IsInjective(Tail(list)) /\ Sorted(Tail(list), f)
         /\ Head(list) \in Timeouts /\ Contains(list, Head(list))
         /\ \A u \in Timeouts : Contains(Tail(list), u) <=> u # Head(list) /\ Contains(list, u)
         /\ \A u \in Timeouts : Contains(list, u) => f[Head(list)] <= f[u]
<1>1. 1 \in 1 .. Len(list) /\ Head(list) = list[1] /\ list[1] \in Timeouts
  BY EmptySeq
<1>2. RemoveAt(list, 1) = Tail(list)
  <2>1. SubSeq(list, 1, 0) = <<>> /\ Tail(list) = SubSeq(list, 2, Len(list))
    BY SubSeqEmpty, TailIsSubSeq
  <2>2. Tail(list) \in Seq(Timeouts)
    OBVIOUS
  <2>3. <<>> \o Tail(list) = Tail(list)
    BY <2>2, ConcatEmptySeq
  <2>. QED BY <2>1, <2>3 DEF RemoveAt
<1>3. Contains(list, Head(list))
  BY <1>1 DEF Contains
<1>4. ASSUME NEW u \in Timeouts, Contains(list, u) PROVE f[Head(list)] <= f[u]
  <2>1. PICK i \in 1 .. Len(list) : list[i] = u
    BY <1>4 DEF Contains
  <2>2. i > 1 => f[list[1]] <= f[list[i]]
    BY <1>1 DEF Sorted
  <2>. QED BY <1>1, <2>1, <2>2
<1>5. /\ RemoveAt(list, 1) \in Seq(Timeouts) /\ IsInjective(RemoveAt(list, 1))
      /\ Sorted(RemoveAt(list, 1), f)
      /\ \A u \in Timeouts : Contains(RemoveAt(list, 1), u) <=> u # list[1] /\ Contains(list, u)
  BY <1>1, RemoveKeepsOrder
<1>. QED BY <1>1, <1>2, <1>3, <1>4, <1>5
-------------------------------------------------------------------------------
\* The first part of the invariant is what SortedByDue says of the list.
LEMMA SortedDef == SortedByDue <=> Sorted(timeoutList, due)
  BY DEF SortedByDue, Sorted

\* set() and setCyclic() keep the invariant.
LEMMA AddKeepsInv ==
  ASSUME TimerInv, NEW t \in Timeouts, NEW delay \in 0 .. MaxDelay, NEW period \in 0 .. MaxDelay,
         AddTimeout(t, (delay + now) % Modulus, clock + delay, period), UNCHANGED clock
  PROVE  TimerInv'
<1>1. /\ Modulus \in Nat \ {0} /\ Half \in Nat \ {0} /\ MaxDelay \in Nat /\ MaxDelay < Half
      /\ MaxLate \in Nat /\ MaxLate <= Half
  BY TimerAssumption DEF Half
<1>2. /\ timeoutList \in Seq(Timeouts) /\ IsInjective(timeoutList) /\ clock \in Nat
      /\ due \in [Timeouts -> Nat] /\ time \in [Timeouts -> 0 .. Modulus - 1]
      /\ cycle \in [Timeouts -> 0 .. MaxDelay] /\ clock \in 0 .. MaxClock
      /\ Sorted(timeoutList, due)
  BY TimerAssumption, SortedDef DEF TimerInv, TimerTypeOK
<1>. DEFINE d == clock + delay
<1>3. d \in Nat /\ d - clock \in -Half .. Half - 1 /\ (delay + now) % Modulus = d % Modulus
  <2>0. delay \in Int /\ clock \in Int
    BY <1>1, <1>2
  <2>1. (delay + (clock % Modulus)) % Modulus = (delay + clock) % Modulus
    BY <1>1, <2>0, ModSum
  <2>. QED BY <1>1, <1>2, <2>1 DEF now
<1>4. ASSUME NEW u \in Timeouts, Contains(timeoutList, u)
      PROVE  time[u] = due[u] % Modulus /\ due[u] - clock \in -Half .. Half - 1
  <2>1. InWindow(u, MaxDelay) /\ due[u] \in Nat
    BY <1>2, <1>4 DEF TimerInv, WindowInv, Linked
  <2>2. clock - MaxLate <= due[u] /\ due[u] <= clock + MaxDelay /\ time[u] = due[u] % Modulus
    BY <2>1 DEF InWindow, Within
  <2>3. due[u] - clock \in -Half .. Half - 1
    BY ONLY SMTT(60), <1>1, <1>2, <2>1, <2>2
  <2>. QED BY <2>2, <2>3
<1>5. /\ ~Contains(timeoutList, t) /\ clock' = clock
      /\ time' = [time EXCEPT ![t] = d % Modulus] /\ cycle' = [cycle EXCEPT ![t] = period]
      /\ due' = [due EXCEPT ![t] = d] /\ timeoutList' = Added(timeoutList, t, d, clock)
  BY <1>3 DEF AddTimeout, Linked, now, Added, PlaceOf
<1>. HIDE DEF d
<1>6. /\ timeoutList' \in Seq(Timeouts) /\ IsInjective(timeoutList')
      /\ Sorted(timeoutList', due')
      /\ \A u \in Timeouts : Contains(timeoutList', u) <=> u = t \/ Contains(timeoutList, u)
  <2>1. clock \in Int
    BY <1>2
  <2>. DEFINE l == Added(timeoutList, t, d, clock)
  <2>2. /\ l \in Seq(Timeouts) /\ IsInjective(l) /\ Sorted(l, [due EXCEPT ![t] = d])
        /\ \A u \in Timeouts : Contains(l, u) <=> u = t \/ Contains(timeoutList, u)
    BY ONLY <1>2, <1>3, <1>4, <1>5, <2>1, t \in Timeouts, AddFacts
  <2>. QED BY ONLY <1>5, <2>2
<1>7. d % Modulus \in 0 .. Modulus - 1
  BY <1>1, <1>3, DivMod
<1>8. TimerTypeOK'
  BY <1>2, <1>3, <1>5, <1>6, <1>7 DEF TimerTypeOK
<1>9. ASSUME NEW u \in Timeouts, Linked(u)' PROVE InWindow(u, MaxDelay)'
  <2>1. CASE u = t
    <3>1. clock - MaxLate <= d /\ d <= clock + MaxDelay
      BY <1>1, <1>2 DEF d
    <3>. QED BY <1>2, <1>5, <2>1, <3>1 DEF InWindow, Within
  <2>2. CASE u # t
    <3>1. InWindow(u, MaxDelay)
      BY <1>6, <1>9, <2>2 DEF TimerInv, WindowInv, Linked
    <3>. QED BY <1>2, <1>5, <2>2, <3>1 DEF InWindow, Within
  <2>. QED BY <2>1, <2>2
<1>. QED BY <1>6, <1>8, <1>9 DEF TimerInv, WindowInv, SortedByDue, Sorted

\* The same for a step that leaves everything but the list alone and takes timeouts out of it.
LEMMA ShorterKeepsInv ==
  ASSUME TimerInv, UNCHANGED <<time, cycle, due, clock>>,
         timeoutList' \in Seq(Timeouts), IsInjective(timeoutList'), Sorted(timeoutList', due),
         \A u \in Timeouts : Contains(timeoutList', u) => Contains(timeoutList, u)
  PROVE  TimerInv'
<1>1. TimerTypeOK'
  BY DEF TimerInv, TimerTypeOK
<1>2. SortedByDue'
  BY DEF SortedByDue, Sorted
<1>3. WindowInv'
  BY DEF TimerInv, WindowInv, Linked, InWindow, Within
<1>. QED BY <1>1, <1>2, <1>3 DEF TimerInv

\* Every step of the timer keeps the invariant.
LEMMA TimerInvInductive ==
  /\ TimerInit => TimerInv
  /\ TimerInv /\ [TimerNext]_<<timerVars, clock>> => TimerInv'
<1>1. /\ Modulus \in Nat \ {0} /\ Half \in Nat \ {0} /\ MaxDelay \in Nat /\ MaxDelay < Half
      /\ MaxLate \in Nat /\ MaxLate <= Half /\ MaxClock \in Nat
  BY TimerAssumption DEF Half
<1>2. ASSUME TimerInit PROVE TimerInv
  <2>1. TimerTypeOK
    <3>1. timeoutList = <<>> /\ timeoutList \in Seq(Timeouts) /\ IsInjective(timeoutList)
      BY <1>2 DEF TimerInit, IsInjective
    <3>. QED BY <1>1, <1>2, <3>1 DEF TimerTypeOK, TimerInit
  <2>2. timeoutList = <<>> /\ \A t : ~Contains(timeoutList, t)
    BY <1>2 DEF TimerInit, Contains
  <2>3. SortedByDue
    BY <2>2 DEF SortedByDue
  <2>. QED BY <2>1, <2>2, <2>3 DEF TimerInv, WindowInv, Linked
<1>3. ASSUME TimerInv, [TimerNext]_<<timerVars, clock>> PROVE TimerInv'
  <2>1. /\ timeoutList \in Seq(Timeouts) /\ IsInjective(timeoutList) /\ clock \in Nat
        /\ due \in [Timeouts -> Nat] /\ due \in [Timeouts -> Int]
        /\ time \in [Timeouts -> 0 .. Modulus - 1]
        /\ cycle \in [Timeouts -> 0 .. MaxDelay] /\ clock \in 0 .. MaxClock
        /\ Sorted(timeoutList, due)
    BY <1>1, <1>3, SortedDef DEF TimerInv, TimerTypeOK
  <2>2. CASE Tick
    <3>1. clock' = clock + 1 /\ clock < MaxClock /\ UNCHANGED <<timeoutList, time, cycle, due>>
      BY <2>2 DEF Tick, TickAllowed, timerVars
    <3>2. TimerTypeOK'
      <4>1. clock' \in 0 .. MaxClock
        BY <1>1, <2>1, <3>1
      <4>. QED BY <1>3, <3>1, <4>1 DEF TimerInv, TimerTypeOK
    <3>3. ASSUME NEW u \in Timeouts, Linked(u)' PROVE InWindow(u, MaxDelay)'
      <4>1. Linked(u) /\ InWindow(u, MaxDelay) /\ clock < due[u] + MaxLate /\ due[u] \in Nat
        BY <1>3, <2>1, <2>2, <3>1, <3>3 DEF TimerInv, WindowInv, Linked, Tick, TickAllowed
      <4>2. clock + 1 - MaxLate <= due[u] /\ due[u] <= clock + 1 + MaxDelay
        <5>1. due[u] <= clock + MaxDelay
          BY <4>1 DEF InWindow, Within
        <5>. QED BY ONLY <1>1, <2>1, <4>1, <5>1
      <4>3. time'[u] = due'[u] % Modulus
        BY <3>1, <4>1 DEF InWindow, Within
      <4>4. clock' - MaxLate <= due'[u] /\ due'[u] <= clock' + MaxDelay
        BY ONLY <1>1, <2>1, <3>1, <4>1, <4>2
      <4>. QED BY <4>3, <4>4 DEF InWindow, Within
    <3>4. SortedByDue'
      BY <1>3, <3>1 DEF TimerInv, SortedByDue
    <3>. QED BY <3>2, <3>3, <3>4 DEF TimerInv, WindowInv
  <2>3. CASE \E t \in Timeouts : /\ \/ \E d \in 0 .. MaxDelay : Set(t, d)
                                    \/ \E d \in 1 .. MaxDelay : SetCyclic(t, d)
                                 /\ UNCHANGED clock
    <3>1. ASSUME NEW t \in Timeouts, NEW d \in 0 .. MaxDelay, Set(t, d), UNCHANGED clock
          PROVE  TimerInv'
      <4>1. 0 \in 0 .. MaxDelay
        BY <1>1
      <4>. QED BY <1>3, <3>1, <4>1, AddKeepsInv DEF Set
    <3>2. ASSUME NEW t \in Timeouts, NEW d \in 1 .. MaxDelay, SetCyclic(t, d), UNCHANGED clock
          PROVE  TimerInv'
      <4>1. d \in 0 .. MaxDelay
        BY <1>1
      <4>. QED BY <1>3, <3>2, <4>1, AddKeepsInv DEF SetCyclic
    <3>. QED BY <2>3, <3>1, <3>2
  <2>4. ASSUME NEW t \in Timeouts, Linked(t), Cancel(t), UNCHANGED clock PROVE TimerInv'
    <3>1. PICK p \in 1 .. Len(timeoutList) : timeoutList' = RemoveAt(timeoutList, p)
      BY <2>1, <2>4, RemoveFirstFacts DEF Linked, Contains, Cancel
    <3>. DEFINE l == RemoveAt(timeoutList, p)
    <3>2. /\ l \in Seq(Timeouts) /\ IsInjective(l) /\ Sorted(l, due)
          /\ \A u \in Timeouts : Contains(l, u) => Contains(timeoutList, u)
      BY <2>1, RemoveKeepsOrder
    <3>. HIDE DEF l
    <3>3. timeoutList' = l
      BY <3>1 DEF l
    <3>. QED BY <1>3, <2>4, <3>2, <3>3, ShorterKeepsInv DEF Cancel
  <2>5. CASE ProcessNextTimeout
    <3>. DEFINE t == Head(timeoutList)  rest == Tail(timeoutList)  d == due[t] + cycle[t]
    <3>1. timeoutList # <<>> /\ Diff(time[t], now) <= 0 /\ clock' = clock
      BY <2>5 DEF ProcessNextTimeout, FrontDue
    <3>2. /\ rest \in Seq(Timeouts) /\ IsInjective(rest) /\ Sorted(rest, due)
          /\ t \in Timeouts /\ Contains(timeoutList, t)
          /\ \A u \in Timeouts : Contains(rest, u) <=> u # t /\ Contains(timeoutList, u)
      BY <2>1, <3>1, TailFacts
    <3>3. CASE ~(cycle[t] > 0)
      <4>1. timeoutList' = rest /\ UNCHANGED <<time, cycle, due, clock>>
        BY <2>5, <3>3 DEF ProcessNextTimeout
      <4>. HIDE DEF rest
      <4>. QED BY <1>3, <3>2, <4>1, ShorterKeepsInv
    <3>4. CASE cycle[t] > 0
      <4>1. /\ time' = [time EXCEPT ![t] = Rescheduled(t)]
            /\ due' = [due EXCEPT ![t] = due[t] + cycle[t]]
            /\ UNCHANGED <<cycle, clock>>
            /\ timeoutList' = InsertAt(rest, InsertPosition(rest, Rescheduled(t), now), t)
        BY <2>5, <3>4 DEF ProcessNextTimeout
      <4>. HIDE DEF t, rest, d
      <4>2. /\ due[t] \in Nat /\ cycle[t] \in 0 .. MaxDelay /\ time[t] = due[t] % Modulus
            /\ clock - MaxLate <= due[t] /\ due[t] <= clock + MaxDelay
        BY <1>3, <2>1, <3>2 DEF TimerInv, WindowInv, InWindow, Within, Linked
      <4>3. due[t] <= clock
        <5>1. due[t] \in Int /\ clock \in Int /\ due[t] - clock \in -Half .. Half - 1
          BY ONLY SMTT(60), <1>1, <2>1, <4>2
        <5>2. Diff(due[t] % Modulus, clock % Modulus) = due[t] - clock
          BY <5>1, DiffExact
        <5>. QED BY <3>1, <4>2, <5>1, <5>2 DEF now
      <4>4. /\ d \in Nat /\ clock - MaxLate <= d /\ d <= clock + MaxDelay
            /\ d - clock \in -Half .. Half - 1
        <5>1. d = due[t] + cycle[t]
          BY DEF d
        <5>2. due[t] \in Nat /\ cycle[t] \in 0 .. MaxDelay /\ clock - MaxLate <= due[t]
          BY <4>2
        <5>3. clock \in Nat
          BY <2>1
        <5>. QED BY ONLY <1>1, <4>3, <5>1, <5>2, <5>3
      <4>5. Rescheduled(t) = d % Modulus
        <5>1. cycle[t] \in Int /\ due[t] \in Int
          BY <4>2
        <5>2. (cycle[t] + (due[t] % Modulus)) % Modulus = (cycle[t] + due[t]) % Modulus
          BY <1>1, <5>1, ModSum
        <5>3. cycle[t] + due[t] = d
          BY <5>1 DEF d
        <5>. QED BY <4>2, <5>2, <5>3 DEF Rescheduled
      <4>6. d % Modulus \in 0 .. Modulus - 1
        BY <1>1, <4>4, DivMod
      <4>7. timeoutList' = Added(rest, t, d, clock) /\ due' = [due EXCEPT ![t] = d]
        BY <4>1, <4>5 DEF Added, PlaceOf, now, d
      <4>8. ASSUME NEW u \in Timeouts, Contains(rest, u)
            PROVE  time[u] = due[u] % Modulus /\ due[u] - clock \in -Half .. Half - 1
        <5>1. InWindow(u, MaxDelay) /\ due[u] \in Nat
          BY <1>3, <2>1, <3>2, <4>8 DEF TimerInv, WindowInv, Linked
        <5>2. clock - MaxLate <= due[u] /\ due[u] <= clock + MaxDelay /\ time[u] = due[u] % Modulus
          BY <5>1 DEF InWindow, Within
        <5>3. due[u] - clock \in -Half .. Half - 1
          BY ONLY SMTT(60), <1>1, <2>1, <5>1, <5>2
        <5>. QED BY <5>2, <5>3
      <4>9. /\ timeoutList' \in Seq(Timeouts) /\ IsInjective(timeoutList')
            /\ Sorted(timeoutList', due')
            /\ \A u \in Timeouts : Contains(timeoutList', u) <=> u = t \/ Contains(rest, u)
        <5>1. clock \in Int /\ ~Contains(rest, t)
          BY <2>1, <3>2
        <5>. DEFINE l == Added(rest, t, d, clock)
        <5>2. /\ l \in Seq(Timeouts) /\ IsInjective(l) /\ Sorted(l, [due EXCEPT ![t] = d])
              /\ \A u \in Timeouts : Contains(l, u) <=> u = t \/ Contains(rest, u)
          BY ONLY <2>1, <3>2, <4>4, <4>8, <5>1, AddFacts
        <5>. QED BY ONLY <4>7, <5>2
      <4>10. TimerTypeOK'
        BY <2>1, <3>2, <4>1, <4>4, <4>5, <4>6, <4>7, <4>9 DEF TimerTypeOK
      <4>11. ASSUME NEW u \in Timeouts, Linked(u)' PROVE InWindow(u, MaxDelay)'
        <5>1. CASE u = t
          BY <2>1, <3>2, <4>1, <4>4, <4>5, <4>7, <5>1 DEF InWindow, Within
        <5>2. CASE u # t
          <6>1. InWindow(u, MaxDelay)
            BY <1>3, <3>2, <4>9, <4>11, <5>2 DEF TimerInv, WindowInv, Linked
          <6>. QED BY <2>1, <4>1, <4>7, <5>2, <6>1 DEF InWindow, Within
        <5>. QED BY <5>1, <5>2
      <4>. QED BY <4>9, <4>10, <4>11 DEF TimerInv, WindowInv, SortedByDue, Sorted
    <3>. QED BY <3>3, <3>4
  <2>6. CASE UNCHANGED <<timerVars, clock>>
    <3>1. UNCHANGED <<timeoutList, time, cycle, due, clock>>
      BY <2>6 DEF timerVars
    <3>. QED BY <1>3, <2>1, <3>1, ShorterKeepsInv
  <2>. QED BY <1>3, <2>2, <2>3, <2>4, <2>5, <2>6 DEF TimerNext
<1>. QED BY <1>2, <1>3

\* While the due times are in a window narrower than half the range, what is stored is exact
\* and getNextDelta() is the true time left of the first timeout.
LEMMA WindowIsExact ==
  ASSUME timeoutList \in Seq(Timeouts), IsInjective(timeoutList), clock \in Nat,
         due \in [Timeouts -> Nat], SortedByDue, NEW ahead \in Nat, ahead < Half,
         \A t \in Timeouts : Linked(t) => InWindow(t, ahead)
  PROVE  /\ TimesAreExact
         /\ timeoutList # <<>> =>
              NextDelta = IF due[Head(timeoutList)] < clock THEN 0
                          ELSE due[Head(timeoutList)] - clock
<1>1. /\ Modulus \in Nat \ {0} /\ Half \in Nat \ {0} /\ Half * 2 = Modulus
      /\ MaxLate \in Nat /\ MaxLate <= Half
  BY TimerAssumption DEF Half
<1>2. due \in [Timeouts -> Int] /\ Sorted(timeoutList, due)
  BY SortedDef
<1>3. ASSUME NEW t \in Timeouts, Linked(t)
      PROVE  /\ time[t] = due[t] % Modulus /\ due[t] \in Nat
             /\ due[t] - clock \in -Half .. Half - 1
             /\ Diff(time[t], now) = due[t] - clock
  <2>1. /\ time[t] = due[t] % Modulus /\ due[t] \in Nat
        /\ clock - MaxLate <= due[t] /\ due[t] <= clock + ahead
    BY <1>2, <1>3 DEF InWindow, Within
  <2>2. due[t] \in Int /\ clock \in Int /\ due[t] - clock \in -Half .. Half - 1
    BY ONLY <1>1, <1>2, <2>1, clock \in Nat, ahead \in Nat, ahead < Half
  <2>3. Diff(due[t] % Modulus, clock % Modulus) = due[t] - clock
    BY <2>2, DiffExact
  <2>. QED BY <2>1, <2>2, <2>3 DEF now
<1>4. ASSUME timeoutList # <<>>
      PROVE  NextDelta = IF due[Head(timeoutList)] < clock THEN 0
                         ELSE due[Head(timeoutList)] - clock
  <2>. DEFINE h == Head(timeoutList)
  <2>1. h \in Timeouts /\ Linked(h)
    BY <1>2, <1>4, TailFacts DEF Linked
  <2>. HIDE DEF h
  <2>2. /\ time[h] = due[h] % Modulus /\ due[h] \in Int /\ Diff(time[h], now) = due[h] - clock
        /\ due[h] - clock \in -Half .. Half - 1 /\ clock \in Int
    BY <1>2, <1>3, <2>1
  <2>3. ((due[h] % Modulus) - (clock % Modulus)) % Modulus = (due[h] - clock) % Modulus
    BY <1>1, <2>2, ModSum
  <2>4. due[h] >= clock => (due[h] - clock) % Modulus = due[h] - clock
    <3>1. due[h] >= clock => due[h] - clock \in Int /\ due[h] - clock \in 0 .. Modulus - 1
      BY ONLY <1>1, <2>2
    <3>. QED BY <1>1, <3>1, ModSmall
  <2>5. NextDelta = IF due[h] - clock < 0 THEN 0 ELSE (due[h] - clock) % Modulus
    BY <2>2, <2>3 DEF NextDelta, h, now
  <2>6. NextDelta = IF due[h] < clock THEN 0 ELSE due[h] - clock
    BY <2>2, <2>4, <2>5
  <2>. QED BY <2>6 DEF h
<1>5. TimeLeftIsExact
  BY <1>3 DEF TimeLeftIsExact
<1>6. ASSUME timeoutList # <<>>, NEW t \in Timeouts, Linked(t)
      PROVE  NextDelta <= IF due[t] > clock THEN due[t] - clock ELSE 0
  <2>. DEFINE x == due[Head(timeoutList)]  y == due[t]
  <2>1. x \in Int /\ x <= y /\ y \in Int
    BY <1>2, <1>6, TailFacts DEF Linked
  <2>2. NextDelta = IF x < clock THEN 0 ELSE x - clock
    BY <1>4, <1>6
  <2>. HIDE DEF x, y
  <2>3. NextDelta <= IF y > clock THEN y - clock ELSE 0
    BY ONLY <2>1, <2>2, clock \in Nat
  <2>. QED BY <2>3 DEF y
<1>7. NextDeltaIsExact
  BY <1>6 DEF NextDeltaIsExact
<1>. QED BY <1>4, <1>5, <1>7 DEF TimesAreExact

\* The invariant says what the properties do.
LEMMA TimerInvImplies ==
  ASSUME TimerInv PROVE TimesAreExact /\ SortedByDue
<1>1. MaxDelay \in Nat /\ MaxDelay < Half /\ MaxClock \in Nat
  BY TimerAssumption DEF Half
<1>2. /\ timeoutList \in Seq(Timeouts) /\ IsInjective(timeoutList) /\ clock \in Nat
      /\ due \in [Timeouts -> Nat] /\ SortedByDue
      /\ \A t \in Timeouts : Linked(t) => InWindow(t, MaxDelay)
  BY <1>1 DEF TimerInv, TimerTypeOK, WindowInv
<1>. QED BY <1>1, <1>2, WindowIsExact

-------------------------------------------------------------------------------
\* The inductive invariant of the timer of one context.
THEOREM TimerInvariant == TimerSpec => []TimerInv
  BY TimerInvInductive, PTL DEF TimerSpec

\* diff(), getNextDelta(): the wrapped timestamps of the linked timeouts stand for the true
\* time left and the task is told to wait no longer than that, at every wrap of the counter,
\* for every modulus, every set of timeouts and delays below half the range.
THEOREM ExactTimes == TimerSpec => []TimesAreExact
  BY TimerInvariant, TimerInvImplies, PTL

\* addTimeout(): the list is in the order of the true due times.
THEOREM ListInOrder == TimerSpec => []SortedByDue
  BY TimerInvariant, TimerInvImplies, PTL
===============================================================================
