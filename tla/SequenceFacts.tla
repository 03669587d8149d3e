---------------------------- MODULE SequenceFacts -----------------------------
(***************************************************************************)
(* Facts about numbers and sequences that the proofs of several components *)
(* use: the least number of a set, remainders, what it does to a sequence  *)
(* to insert, to remove, to choose or to sort its elements.                *)
(***************************************************************************)
EXTENDS Integers, SequencesExt, Subsequences, SequenceTheorems, FiniteSetTheorems,
        WellFoundedInduction, TLAPS

\* A non-empty set of natural numbers has a least element.
LEMMA LeastNumber ==
  ASSUME NEW S \in SUBSET Nat, S # {}
  PROVE  \E i \in S : \A j \in S : i <= j
<1>. DEFINE R == {ss \in Nat \X Nat : ss[1] < ss[2]}
<1>1. IsWellFoundedOn(R, Nat)
  BY NatLessThanWellFounded, Zenon DEF OpToRel
<1>2. \A i, j \in Nat : j < i => <<j, i>> \in R
  OBVIOUS
<1>. HIDE DEF R
<1>3. PICK i \in S : \A j \in S : ~(<<j, i>> \in R)
  BY <1>1, WFMin, Zenon
<1>4. \A j \in S : ~(j < i)
  BY <1>2, <1>3, Zenon
<1>5. \A j \in S : i <= j
  BY <1>4
<1>. QED BY <1>5

\* Induction over the natural numbers, as a fact about a set.
LEMMA InductionOverSet ==
  ASSUME NEW S, 0 \in S, \A n \in Nat : n \in S => n + 1 \in S
  PROVE  Nat \subseteq S
<1>1. SUFFICES ASSUME Nat \ S # {} PROVE FALSE
  OBVIOUS
<1>2. PICK i \in Nat \ S : \A j \in Nat \ S : i <= j
  BY <1>1, LeastNumber
<1>3. i # 0 /\ i - 1 \in Nat /\ i - 1 \in S
  BY <1>2
<1>. QED BY <1>2, <1>3

\* A number is its quotient and its remainder.
LEMMA DivMod ==
  ASSUME NEW a \in Int, NEW M \in Nat \ {0}
  PROVE  /\ a \div M \in Int /\ a % M \in 0 .. M - 1
         /\ a = M * (a \div M) + (a % M)
  BY SMT

\* The remainder is the only number in the range that differs by a multiple.
LEMMA ModUnique ==
  ASSUME NEW M \in Nat \ {0}, NEW q \in Int, NEW r \in 0 .. M - 1
  PROVE  (M * q + r) % M = r
  BY SMT

\* A sum of remainders has the remainder of the sum, and a difference that of the difference.
LEMMA ModSum ==
  ASSUME NEW M \in Nat \ {0}, NEW a \in Int, NEW b \in Int
  PROVE  /\ (a + (b % M)) % M = (a + b) % M
         /\ ((a % M) - (b % M)) % M = (a - b) % M
<1>. DEFINE qa == a \div M  qb == b \div M  ra == a % M  rb == b % M
<1>1. /\ qa \in Int /\ ra \in Int /\ a = M * qa + ra
      /\ qb \in Int /\ rb \in Int /\ b = M * qb + rb
  BY DivMod
<1>. HIDE DEF qa, qb, ra, rb
<1>2. ASSUME NEW x \in Int, NEW q \in Int
      PROVE  (x - M * q) % M = x % M
  <2>1. PICK p \in Int, r \in 0 .. M - 1 : x = M * p + r /\ x % M = r
    BY DivMod
  <2>2. x - M * q = M * (p - q) + r /\ p - q \in Int
    BY <2>1
  <2>. QED BY <2>1, <2>2, ModUnique
<1>3. (a + rb) % M = (a + b) % M
  <2>1. a + rb = (a + b) - M * qb
    BY <1>1
  <2>. QED BY <1>1, <1>2, <2>1
<1>4. (ra - rb) % M = (a - b) % M
  <2>. DEFINE x == a - b  q == qa - qb
  <2>1. x \in Int /\ q \in Int /\ ra - rb = x - M * q
    BY <1>1
  <2>. HIDE DEF x, q
  <2>2. (ra - rb) % M = x % M
    BY <1>2, <2>1
  <2>. QED BY <2>2 DEF x
<1>. QED BY <1>3, <1>4 DEF ra, rb

\* A difference below a multiple of one modulus is its own remainder, or one modulus off.
LEMMA ModSmall ==
  ASSUME NEW M \in Nat \ {0}, NEW d \in Int
  PROVE  /\ d \in 0 .. M - 1 => d % M = d
         /\ d \in -M .. -1 => d % M = d + M
<1>1. d \in 0 .. M - 1 => (M * 0 + d) % M = d
  BY ModUnique
<1>2. ASSUME d \in -M .. -1 PROVE d % M = d + M
  <2>1. M * (-1) + (d + M) = d /\ d + M \in 0 .. M - 1
    BY <1>2
  <2>. QED BY <2>1, ModUnique
<1>. QED BY <1>1, <1>2

\* Division rounds down and keeps the order.
LEMMA DivOrder ==
  ASSUME NEW L \in Nat \ {0}, NEW a \in Nat, NEW b \in Nat, a <= b
  PROVE  /\ a \div L \in Nat /\ L * (a \div L) <= a
         /\ a \div L <= b \div L
<1>. DEFINE p == a \div L  q == b \div L
<1>1. p \in Int /\ a % L \in 0 .. L - 1 /\ a = L * p + (a % L)
  BY DivMod
<1>2. q \in Int /\ b % L \in 0 .. L - 1 /\ b = L * q + (b % L)
  BY DivMod
<1>. DEFINE r == a % L  s == b % L
<1>. HIDE DEF p, q, r, s
<1>3. p \in Nat /\ L * p <= a /\ p <= q
  <2>0. p \in Int /\ q \in Int /\ r \in 0 .. L - 1 /\ s \in 0 .. L - 1 /\ a = L * p + r /\ b = L * q + s
    BY <1>1, <1>2 DEF r, s
  <2>1. ASSUME p < 0 PROVE FALSE
    <3>1. L * p <= -L
      BY ONLY <2>0, <2>1, L \in Nat \ {0}
    <3>. QED BY ONLY <2>0, <3>1, L \in Nat \ {0}, a \in Nat
  <2>2. ASSUME q < p PROVE FALSE
    <3>1. L * q <= L * p - L
      BY ONLY <2>0, <2>2, L \in Nat \ {0}
    <3>. QED BY ONLY <2>0, <3>1, L \in Nat \ {0}, a \in Nat, b \in Nat, a <= b
  <2>3. L * p \in Int
    BY ONLY <2>0, L \in Nat \ {0}
  <2>. QED BY ONLY <2>0, <2>1, <2>2, <2>3, L \in Nat \ {0}, a \in Nat
<1>. QED BY <1>3 DEF p, q

\* l is s with e at place p: the elements before the place stay, the others move up by one.
Inserted(l, s, p, e) == /\ Len(l) = Len(s) + 1 /\ l[p] = e
                        /\ \A i \in 1 .. Len(s) : i < p => l[i] = s[i]
                        /\ \A i \in 1 .. Len(s) : i >= p => l[i + 1] = s[i]

\* InsertAt.
LEMMA InsertAtFacts ==
  ASSUME NEW S, NEW s \in Seq(S), NEW p \in 1 .. Len(s) + 1, NEW e \in S
  PROVE  InsertAt(s, p, e) \in Seq(S) /\ Inserted(InsertAt(s, p, e), s, p, e)
<1>. DEFINE a == SubSeq(s, 1, p - 1)  b == SubSeq(s, p, Len(s))  ae == a \o <<e>>
<1>1. /\ a \in Seq(S) /\ Len(a) = p - 1
      /\ \A i \in 1 .. p - 1 : a[i] = s[i]
  BY SubSeqProperties
<1>2. /\ b \in Seq(S) /\ Len(b) = Len(s) - p + 1
      /\ \A i \in 1 .. Len(s) - p + 1 : b[i] = s[p + i - 1]
  BY SubSeqProperties
<1>. HIDE DEF a, b
<1>3. /\ ae \in Seq(S) /\ Len(ae) = p
      /\ \A i \in 1 .. p : ae[i] = IF i < p THEN s[i] ELSE e
  <2>1. <<e>> \in Seq(S) /\ Len(<<e>>) = 1 /\ <<e>>[1] = e
    OBVIOUS
  <2>. QED BY <1>1, <2>1, ConcatProperties
<1>. HIDE DEF ae
<1>4. /\ ae \o b \in Seq(S) /\ Len(ae \o b) = Len(s) + 1
      /\ \A i \in 1 .. Len(s) + 1 : (ae \o b)[i] = IF i <= p THEN ae[i] ELSE b[i - p]
  BY <1>2, <1>3, ConcatProperties
<1>5. (ae \o b)[p] = e
  BY <1>3, <1>4
<1>6. ASSUME NEW i \in 1 .. Len(s), i < p PROVE (ae \o b)[i] = s[i]
  BY <1>3, <1>4, <1>6
<1>7. ASSUME NEW i \in 1 .. Len(s), i >= p PROVE (ae \o b)[i + 1] = s[i]
  <2>1. i + 1 \in 1 .. Len(s) + 1 /\ ~(i + 1 <= p) /\ (i + 1) - p \in 1 .. Len(s) - p + 1
    BY <1>7
  <2>2. (ae \o b)[i + 1] = b[(i + 1) - p]
    BY <1>4, <2>1
  <2>3. b[(i + 1) - p] = s[p + ((i + 1) - p) - 1]
    BY <1>2, <2>1
  <2>4. p + ((i + 1) - p) - 1 = i
    OBVIOUS
  <2>. QED BY <2>2, <2>3, <2>4
<1>8. Inserted(ae \o b, s, p, e)
  BY <1>4, <1>5, <1>6, <1>7 DEF Inserted
<1>. QED BY <1>4, <1>8 DEF InsertAt, a, b, ae

\* RemoveAt: the elements before the place stay, the others move down by one.
LEMMA RemoveAtFacts ==
  ASSUME NEW S, NEW s \in Seq(S), NEW p \in 1 .. Len(s)
  PROVE  /\ RemoveAt(s, p) \in Seq(S)
         /\ Len(RemoveAt(s, p)) = Len(s) - 1
         /\ \A i \in 1 .. Len(s) - 1 : RemoveAt(s, p)[i] = IF i < p THEN s[i] ELSE s[i + 1]
<1>. DEFINE a == SubSeq(s, 1, p - 1)  b == SubSeq(s, p + 1, Len(s))
<1>1. /\ a \in Seq(S) /\ Len(a) = p - 1
      /\ \A i \in 1 .. p - 1 : a[i] = s[i]
  BY SubSeqProperties
<1>2. /\ b \in Seq(S) /\ Len(b) = Len(s) - p
      /\ \A i \in 1 .. Len(s) - p : b[i] = s[p + i]
  <2>1. \A i \in p + 1 .. Len(s) : s[i] \in S
    OBVIOUS
  <2>2. /\ b \in Seq(S) /\ Len(b) = IF p + 1 <= Len(s) THEN Len(s) - (p + 1) + 1 ELSE 0
        /\ \A i \in 1 .. Len(s) - (p + 1) + 1 : b[i] = s[(p + 1) + i - 1]
    BY <2>1, SubSeqProperties
  <2>. HIDE DEF b
  <2>. QED BY <2>2
<1>. HIDE DEF a, b
<1>3. /\ a \o b \in Seq(S) /\ Len(a \o b) = Len(s) - 1
      /\ \A i \in 1 .. Len(s) - 1 : (a \o b)[i] = IF i <= p - 1 THEN a[i] ELSE b[i - (p - 1)]
  BY <1>1, <1>2, ConcatProperties
<1>4. \A i \in 1 .. Len(s) - 1 : (a \o b)[i] = IF i < p THEN s[i] ELSE s[i + 1]
  BY <1>1, <1>2, <1>3
<1>. QED BY <1>3, <1>4 DEF RemoveAt, a, b

\* RemoveFirst of an element that occurs takes it out at one of its places.
LEMMA RemoveFirstFacts ==
  ASSUME NEW S, NEW s \in Seq(S), NEW e, \E i \in 1 .. Len(s) : s[i] = e
  PROVE  \E p \in 1 .. Len(s) : s[p] = e /\ RemoveFirst(s, e) = RemoveAt(s, p)
<1>. DEFINE I == {i \in 1 .. Len(s) : s[i] = e}  p == Min(I)
<1>1. \E i \in I : \A j \in I : i <= j
  <2>1. I \in SUBSET Nat /\ I # {}
    OBVIOUS
  <2>. HIDE DEF I
  <2>. QED BY <2>1, LeastNumber
<1>2. p \in I
  BY <1>1 DEF Min
<1>3. RemoveFirst(s, e) = RemoveAt(s, p)
  BY DEF RemoveFirst, SelectInSeq
<1>. QED BY <1>2, <1>3

\* The recursive function behind Chosen exists.
LEMMA ChosenExists ==
  ASSUME NEW T, NEW s \in Seq(T), NEW S
  PROVE  \E f : f = [i \in 0 .. Len(s) |-> IF i = 0 THEN <<>>
                                           ELSE IF s[i] \in S THEN Append(f[i - 1], s[i])
                                           ELSE f[i - 1]]
<1>. DEFINE G(f, i) == IF i = 0 THEN <<>> ELSE IF s[i] \in S THEN Append(f[i - 1], s[i]) ELSE f[i - 1]
            K == {k \in Nat : \E f : f = [i \in 0 .. k |-> G(f, i)]}
<1>1. 0 \in K
  <2>. DEFINE f == [i \in 0 .. 0 |-> <<>>]
  <2>1. \A i \in 0 .. 0 : G(f, i) = <<>>
    OBVIOUS
  <2>2. f = [i \in 0 .. 0 |-> G(f, i)]
    BY <2>1
  <2>. QED BY <2>2
<1>2. ASSUME NEW k \in Nat, k \in K PROVE k + 1 \in K
  <2>1. PICK f : f = [i \in 0 .. k |-> G(f, i)]
    BY <1>2
  <2>. DEFINE x == IF s[k + 1] \in S THEN Append(f[k], s[k + 1]) ELSE f[k]
              g == [i \in 0 .. k + 1 |-> IF i = k + 1 THEN x ELSE f[i]]
  <2>. HIDE DEF x
  <2>2. g[k + 1] = x /\ \A i \in 0 .. k : g[i] = f[i]
    OBVIOUS
  <2>3. \A i \in 0 .. k : f[i] = G(f, i)
    BY <2>1
  <2>4. \A i \in 0 .. k + 1 : g[i] = G(g, i)
    <3>. SUFFICES ASSUME NEW i \in 0 .. k + 1 PROVE g[i] = G(g, i)
      OBVIOUS
    <3>1. CASE i = k + 1
      <4>1. i # 0 /\ i - 1 = k /\ g[k] = f[k]
        BY <3>1, <2>2
      <4>. HIDE DEF g
      <4>. QED BY <3>1, <4>1, <2>2 DEF x
    <3>2. CASE i = 0
      BY <3>2, <2>2, <2>3
    <3>3. CASE i \in 1 .. k
      <4>1. i - 1 \in 0 .. k /\ i \in 0 .. k /\ i # 0
        BY <3>3
      <4>2. g[i - 1] = f[i - 1] /\ g[i] = f[i]
        BY <2>2, <4>1
      <4>3. f[i] = G(f, i)
        BY <2>3, <4>1
      <4>. HIDE DEF g
      <4>. QED BY <4>1, <4>2, <4>3
    <3>. QED BY <3>1, <3>2, <3>3
  <2>5. g = [i \in 0 .. k + 1 |-> g[i]]
    OBVIOUS
  <2>. HIDE DEF g
  <2>6. g = [i \in 0 .. k + 1 |-> G(g, i)]
    BY <2>4, <2>5
  <2>. QED BY SMTT(60), <2>6
<1>. HIDE DEF K
<1>3. Nat \subseteq K
  BY <1>1, <1>2, InductionOverSet
<1>4. Len(s) \in K
  BY <1>3
<1>. QED BY <1>4 DEF K

\* The elements chosen are those of the set, and none occurs more often than before.
LEMMA ChosenFacts ==
  ASSUME NEW T, NEW s \in Seq(T), NEW S
  PROVE  /\ Chosen(s, S) \in Seq(T)
         /\ ToSet(Chosen(s, S)) = ToSet(s) \cap S
         /\ IsInjective(s) => IsInjective(Chosen(s, S))
<1>. DEFINE n == Len(s)
            G(f, i) == IF i = 0 THEN <<>> ELSE IF s[i] \in S THEN Append(f[i - 1], s[i]) ELSE f[i - 1]
            c == CHOOSE f : f = [i \in 0 .. n |-> G(f, i)]
<1>1. c = [i \in 0 .. n |-> G(c, i)]
  <2>1. \E f : f = [i \in 0 .. n |-> G(f, i)]
    BY ZenonT(60), ChosenExists
  <2>. QED BY <2>1
<1>2. Chosen(s, S) = c[n]
  BY DEF Chosen
<1>3. n \in Nat /\ DOMAIN s = 1 .. n /\ \A i \in 1 .. n : s[i] \in T
  OBVIOUS
<1>. HIDE DEF c, n
<1>4. c[0] = <<>>
  BY <1>1, <1>3
<1>5. \A i \in 0 .. n - 1 : c[i + 1] = IF s[i + 1] \in S THEN Append(c[i], s[i + 1]) ELSE c[i]
  <2>. SUFFICES ASSUME NEW i \in 0 .. n - 1
                PROVE  c[i + 1] = IF s[i + 1] \in S THEN Append(c[i], s[i + 1]) ELSE c[i]
    OBVIOUS
  <2>1. i + 1 \in 0 .. n /\ i + 1 # 0 /\ (i + 1) - 1 = i
    BY <1>3
  <2>2. c[i + 1] = G(c, i + 1)
    BY <1>1, <2>1
  <2>. QED BY <2>1, <2>2
<1>. DEFINE Part(t, k) ==
              /\ t \in Seq(T)
              /\ {t[x] : x \in DOMAIN t} = {s[i] : i \in 1 .. k} \cap S
              /\ IsInjective(s) => IsInjective(t)
            K == {k \in Nat : k <= n => Part(c[k], k)}
<1>. HIDE DEF Part
<1>6. 0 \in K
  <2>1. <<>> \in Seq(T) /\ DOMAIN <<>> = {} /\ 1 .. 0 = {}
    OBVIOUS
  <2>2. {<<>>[x] : x \in DOMAIN <<>>} = {} /\ {s[i] : i \in 1 .. 0} = {} /\ IsInjective(<<>>)
    BY <2>1 DEF IsInjective
  <2>3. Part(<<>>, 0)
    BY <2>1, <2>2 DEF Part
  <2>. QED BY <1>4, <2>3
<1>7. ASSUME NEW k \in Nat, k \in K PROVE k + 1 \in K
  <2>. SUFFICES ASSUME k + 1 <= n PROVE Part(c[k + 1], k + 1)
    OBVIOUS
  <2>. DEFINE t == c[k]  x == s[k + 1]
  <2>1. Part(t, k) /\ k + 1 \in 1 .. n /\ k \in 0 .. n - 1 /\ x \in T
    BY <1>3, <1>7
  <2>. USE DEF Part
  <2>2. c[k + 1] = IF x \in S THEN Append(t, x) ELSE t
    BY <1>5, <2>1
  <2>3. {s[i] : i \in 1 .. k + 1} = {s[i] : i \in 1 .. k} \cup {x}
    <3>1. \A i \in 1 .. k + 1 : i \in 1 .. k \/ i = k + 1
      OBVIOUS
    <3>2. k + 1 \in 1 .. k + 1 /\ \A i \in 1 .. k : i \in 1 .. k + 1
      OBVIOUS
    <3>. QED BY <3>1, <3>2
  <2>. DEFINE u == Append(t, x)
  <2>. HIDE DEF t, x
  <2>4. CASE x \notin S
    BY <2>1, <2>2, <2>3, <2>4
  <2>5. CASE x \in S
    <3>1. /\ u \in Seq(T) /\ DOMAIN u = 1 .. Len(t) + 1 /\ DOMAIN t = 1 .. Len(t) /\ Len(t) \in Nat
          /\ u[Len(t) + 1] = x /\ \A i \in 1 .. Len(t) : u[i] = t[i]
      BY <2>1
    <3>. DEFINE l == Len(t)
    <3>. HIDE DEF u, l
    <3>2. /\ \A i \in DOMAIN u : i \in DOMAIN t \/ i = l + 1
          /\ l + 1 \in DOMAIN u /\ \A i \in DOMAIN t : i \in DOMAIN u
      BY <3>1 DEF l
    <3>3. u[l + 1] = x /\ \A i \in DOMAIN t : u[i] = t[i]
      BY <3>1 DEF l
    <3>4. {u[i] : i \in DOMAIN u} = {t[i] : i \in DOMAIN t} \cup {x}
      BY <3>2, <3>3
    <3>5. {u[i] : i \in DOMAIN u} = {s[i] : i \in 1 .. k + 1} \cap S
      BY <2>1, <2>3, <2>5, <3>4
    <3>6. IsInjective(s) => IsInjective(u)
      <4>. SUFFICES ASSUME IsInjective(s) PROVE IsInjective(u)
        OBVIOUS
      <4>1. x \notin {s[i] : i \in 1 .. k}
        <5>1. \A i \in 1 .. k : i \in DOMAIN s /\ k + 1 \in DOMAIN s /\ i # k + 1
          BY <1>3, <2>1
        <5>. QED BY <5>1 DEF IsInjective, x
      <4>2. \A i \in DOMAIN t : t[i] # x
        BY <2>1, <4>1
      <4>3. \A i, j \in DOMAIN t : t[i] = t[j] => i = j
        BY <2>1 DEF IsInjective
      <4>. QED BY <3>2, <3>3, <4>2, <4>3 DEF IsInjective
    <3>. QED BY SMTT(60), <2>2, <2>5, <3>1, <3>5, <3>6 DEF u
  <2>. QED BY <2>4, <2>5
<1>. HIDE DEF K
<1>8. Nat \subseteq K
  BY <1>6, <1>7, InductionOverSet
<1>9. Part(c[n], n)
  <2>1. n \in K
    BY <1>3, <1>8
  <2>. QED BY <1>3, <2>1 DEF K
<1>10. ToSet(c[n]) = ToSet(s) \cap S
  BY <1>3, <1>9 DEF ToSet, Part
<1>. QED BY SMTT(60), <1>2, <1>9, <1>10 DEF Part

\* The places of the elements of c in s, in their order.
Ordered(c, s, g) ==
  \A x \in DOMAIN c : /\ g[x] \in DOMAIN s /\ c[x] = s[g[x]]
                      /\ \A y \in DOMAIN c : x < y => g[x] < g[y]

\* c is a part of s in its order.
PartOf(c, s) == \E g : Ordered(c, s, g)

\* The elements chosen keep their order, and are no more than those they are chosen from.
LEMMA ChosenOrder ==
  ASSUME NEW T, NEW s \in Seq(T), NEW S
  PROVE  PartOf(Chosen(s, S), s) /\ Len(Chosen(s, S)) <= Len(s)
<1>. DEFINE n == Len(s)
            G(f, i) == IF i = 0 THEN <<>> ELSE IF s[i] \in S THEN Append(f[i - 1], s[i]) ELSE f[i - 1]
            c == CHOOSE f : f = [i \in 0 .. n |-> G(f, i)]
<1>1. c = [i \in 0 .. n |-> G(c, i)]
  <2>1. \E f : f = [i \in 0 .. n |-> G(f, i)]
    BY ZenonT(60), ChosenExists
  <2>. QED BY <2>1
<1>2. Chosen(s, S) = c[n]
  BY DEF Chosen
<1>3. n \in Nat /\ DOMAIN s = 1 .. n /\ \A i \in 1 .. n : s[i] \in T
  OBVIOUS
<1>. HIDE DEF c, n
<1>4. c[0] = <<>>
  BY <1>1, <1>3
<1>5. \A i \in 0 .. n - 1 : c[i + 1] = IF s[i + 1] \in S THEN Append(c[i], s[i + 1]) ELSE c[i]
  <2>. SUFFICES ASSUME NEW i \in 0 .. n - 1
                PROVE  c[i + 1] = IF s[i + 1] \in S THEN Append(c[i], s[i + 1]) ELSE c[i]
    OBVIOUS
  <2>1. i + 1 \in 0 .. n /\ i + 1 # 0 /\ (i + 1) - 1 = i
    BY <1>3
  <2>2. c[i + 1] = G(c, i + 1)
    BY <1>1, <2>1
  <2>. QED BY <2>1, <2>2
<1>. DEFINE Part(t, k, g) ==
              /\ t \in Seq(T) /\ Len(t) <= k
              /\ \A x \in DOMAIN t : /\ g[x] \in 1 .. k /\ t[x] = s[g[x]]
                                     /\ \A y \in DOMAIN t : x < y => g[x] < g[y]
            K == {k \in Nat : k <= n => \E g : Part(c[k], k, g)}
<1>. HIDE DEF Part
<1>6. 0 \in K
  <2>1. <<>> \in Seq(T) /\ DOMAIN <<>> = {} /\ Len(<<>>) = 0
    OBVIOUS
  <2>2. Part(<<>>, 0, <<>>)
    BY <2>1 DEF Part
  <2>. QED BY <1>4, <2>2
<1>7. ASSUME NEW k \in Nat, k \in K PROVE k + 1 \in K
  <2>. SUFFICES ASSUME k + 1 <= n PROVE \E g : Part(c[k + 1], k + 1, g)
    OBVIOUS
  <2>. DEFINE t == c[k]  x == s[k + 1]
  <2>0. k <= n
    BY <1>3
  <2>1. PICK g : Part(t, k, g)
    BY <1>7, <2>0
  <2>2. k + 1 \in 1 .. n /\ k \in 0 .. n - 1 /\ x \in T
    BY <1>3
  <2>3. c[k + 1] = IF x \in S THEN Append(t, x) ELSE t
    BY <1>5, <2>2
  <2>. HIDE DEF t, x
  <2>4. /\ t \in Seq(T) /\ Len(t) <= k
        /\ \A z \in DOMAIN t : /\ g[z] \in 1 .. k /\ t[z] = s[g[z]]
                               /\ \A y \in DOMAIN t : z < y => g[z] < g[y]
    BY <2>1 DEF Part
  <2>5. CASE x \notin S
    <3>1. Part(t, k + 1, g)
      <4>1. Len(t) \in Nat
        BY <2>4
      <4>2. Len(t) <= k + 1 /\ 1 .. k \subseteq 1 .. k + 1
        BY <2>4, <4>1
      <4>. QED BY <2>4, <4>2 DEF Part
    <3>. QED BY <2>3, <2>5, <3>1
  <2>6. CASE x \in S
    <3>. DEFINE u == Append(t, x)  l == Len(t)  h == [z \in 1 .. l + 1 |-> IF z = l + 1 THEN k + 1 ELSE g[z]]
    <3>1. /\ u \in Seq(T) /\ DOMAIN u = 1 .. l + 1 /\ DOMAIN t = 1 .. l /\ l \in Nat /\ l <= k
          /\ Len(u) = l + 1 /\ u[l + 1] = x /\ \A i \in 1 .. l : u[i] = t[i]
      BY <2>2, <2>4
    <3>. HIDE DEF u, l
    <3>2. h[l + 1] = k + 1 /\ \A z \in 1 .. l : h[z] = g[z]
      BY <3>1
    <3>. HIDE DEF h
    <3>3. \A z \in 1 .. l + 1 : z \in 1 .. l \/ z = l + 1
      BY <3>1
    <3>4. ASSUME NEW z \in 1 .. l + 1
          PROVE  /\ h[z] \in 1 .. k + 1 /\ u[z] = s[h[z]]
                 /\ \A y \in 1 .. l + 1 : z < y => h[z] < h[y]
      <4>1. CASE z = l + 1
        <5>1. \A y \in 1 .. l + 1 : ~(z < y)
          BY <3>1, <4>1
        <5>. QED BY <3>1, <3>2, <4>1, <5>1 DEF x
      <4>2. CASE z \in 1 .. l
        <5>1. g[z] \in 1 .. k /\ t[z] = s[g[z]] /\ \A y \in 1 .. l : z < y => g[z] < g[y]
          BY <2>4, <3>1, <4>2
        <5>2. h[z] = g[z] /\ u[z] = t[z] /\ g[z] \in 1 .. k + 1 /\ g[z] < k + 1
          BY <3>1, <3>2, <4>2, <5>1
        <5>3. \A y \in 1 .. l + 1 : z < y => h[z] < h[y]
          BY <3>2, <3>3, <5>1, <5>2
        <5>. QED BY <5>1, <5>2, <5>3
      <4>. QED BY <3>3, <4>1, <4>2
    <3>5. Part(u, k + 1, h)
      <4>1. Len(u) <= k + 1
        BY <3>1
      <4>. QED BY <3>1, <3>4, <4>1 DEF Part
    <3>6. c[k + 1] = u
      BY <2>3, <2>6 DEF u
    <3>. QED BY <3>5, <3>6
  <2>. QED BY <2>5, <2>6
<1>. HIDE DEF K
<1>8. Nat \subseteq K
  BY <1>6, <1>7, InductionOverSet
<1>9. PICK g : Part(c[n], n, g)
  <2>1. n \in K
    BY <1>3, <1>8
  <2>. QED BY <1>3, <2>1 DEF K
<1>10. Ordered(c[n], s, g) /\ Len(c[n]) <= n
  BY <1>3, <1>9 DEF Ordered, Part
<1>. QED BY <1>2, <1>10 DEF PartOf, n

\* The first element of a set in a sequence.
LEMMA FirstFacts ==
  ASSUME NEW T, NEW s \in Seq(T), NEW S, NEW x \in First(s, S)
  PROVE  /\ x \in ToSet(s) /\ x \in S /\ First(s, S) = {x}
<1>1. PICK k \in DOMAIN s : x = s[k] /\ s[k] \in S /\ \A h \in 1 .. k - 1 : s[h] \notin S
  BY DEF First
<1>2. x \in ToSet(s) /\ x \in S
  BY <1>1 DEF ToSet
<1>3. DOMAIN s = 1 .. Len(s) /\ Len(s) \in Nat
  OBVIOUS
<1>4. ASSUME NEW j \in DOMAIN s, s[j] \in S, \A h \in 1 .. j - 1 : s[h] \notin S
      PROVE  j = k
  <2>1. ~(j \in 1 .. k - 1) /\ ~(k \in 1 .. j - 1)
    BY <1>1, <1>4
  <2>. QED BY <1>3, <2>1
<1>. QED BY <1>1, <1>2, <1>4 DEF First

\* The places of a sequence, ranked by a strict total order, are a permutation of them.
LEMMA RanksAreOrder ==
  ASSUME NEW n \in Nat, NEW R, NEW rank,
         \A i \in 1 .. n : <<i, i>> \notin R,
         \A i, j, k \in 1 .. n : <<i, j>> \in R /\ <<j, k>> \in R => <<i, k>> \in R,
         \A i, j \in 1 .. n : i # j => <<i, j>> \in R \/ <<j, i>> \in R,
         \A k \in 1 .. n : rank[k] = Cardinality({i \in 1 .. n : <<i, k>> \in R}) + 1
  PROVE  /\ \A k \in 1 .. n : rank[k] \in 1 .. n
         /\ \A i, k \in 1 .. n : <<i, k>> \in R <=> rank[i] < rank[k]
         /\ \A r \in 1 .. n : \E k \in 1 .. n : rank[k] = r
<1>. DEFINE D == 1 .. n  Below(k) == {i \in D : <<i, k>> \in R}
<1>1. IsFiniteSet(D) /\ Cardinality(D) = n
  BY FS_Interval
<1>2. \A k \in D : Below(k) \subseteq D /\ k \notin Below(k) /\ k \in D
  OBVIOUS
<1>3. ASSUME NEW k \in D PROVE IsFiniteSet(Below(k)) /\ Cardinality(Below(k)) \in Nat
  <2>1. Below(k) \in SUBSET D
    BY <1>2
  <2>. HIDE DEF Below, D
  <2>2. IsFiniteSet(Below(k))
    BY <1>1, <2>1, FS_Subset
  <2>. QED BY <2>2, FS_CardinalityType
<1>4. \A k \in D : rank[k] = Cardinality(Below(k)) + 1
  OBVIOUS
<1>5. ASSUME NEW i \in D, NEW k \in D, <<i, k>> \in R PROVE rank[i] < rank[k]
  <2>1. Below(i) \subseteq Below(k) /\ i \in Below(k) /\ i \notin Below(i)
    BY <1>5
  <2>. HIDE DEF Below
  <2>2. Below(i) \in SUBSET Below(k) /\ Below(i) # Below(k)
    BY <2>1
  <2>3. Cardinality(Below(i)) <= Cardinality(Below(k)) /\ Cardinality(Below(i)) # Cardinality(Below(k))
    BY <1>3, <2>2, FS_Subset
  <2>4. /\ Cardinality(Below(i)) \in Nat /\ Cardinality(Below(k)) \in Nat
        /\ rank[i] = Cardinality(Below(i)) + 1 /\ rank[k] = Cardinality(Below(k)) + 1
    BY <1>3, <1>4
  <2>. QED BY ONLY <2>3, <2>4
<1>6. \A k \in D : rank[k] \in 1 .. n
  <2>. SUFFICES ASSUME NEW k \in D PROVE rank[k] \in 1 .. n
    OBVIOUS
  <2>1. Below(k) \in SUBSET D /\ Below(k) # D
    BY <1>2
  <2>. HIDE DEF Below, D
  <2>2. Cardinality(Below(k)) <= Cardinality(D) /\ Cardinality(Below(k)) # Cardinality(D)
    BY <1>1, <2>1, FS_Subset
  <2>. QED BY <1>1, <1>3, <1>4, <2>2
<1>7. \A i, k \in D : rank[i] = rank[k] => i = k
  <2>. SUFFICES ASSUME NEW i \in D, NEW k \in D, rank[i] = rank[k], i # k PROVE FALSE
    OBVIOUS
  <2>1. <<i, k>> \in R \/ <<k, i>> \in R
    OBVIOUS
  <2>2. rank[i] < rank[k] \/ rank[k] < rank[i]
    BY <1>5, <2>1
  <2>3. rank[i] \in Int /\ rank[k] \in Int
    BY <1>6
  <2>. QED BY <2>2, <2>3
<1>8. \A i, k \in D : <<i, k>> \in R <=> rank[i] < rank[k]
  <2>. SUFFICES ASSUME NEW i \in D, NEW k \in D, rank[i] < rank[k] PROVE <<i, k>> \in R
    BY <1>5
  <2>1. rank[i] \in Int /\ rank[k] \in Int
    BY <1>6
  <2>2. i # k /\ ~(rank[k] < rank[i])
    BY <2>1
  <2>3. <<k, i>> \notin R
    BY <1>5, <2>2
  <2>. QED BY <2>2, <2>3
<1>9. \A r \in D : \E k \in D : rank[k] = r
  <2>. DEFINE f == [k \in D |-> rank[k]]
  <2>1. f \in Injection(D, D)
    BY <1>6, <1>7 DEF Injection, IsInjective
  <2>2. f \in Surjection(D, D)
    BY <1>1, <2>1, FS_Injection
  <2>3. \A r \in D : \E k \in D : f[k] = r
    BY <2>2 DEF Surjection
  <2>. QED BY <2>3
<1>. QED BY <1>6, <1>8, <1>9

\* q is s in the order of the ranks: p[r] is the place in s of the element of rank r.
Ranked(q, s, rank, p) ==
  /\ \A k \in DOMAIN s : rank[k] \in DOMAIN s
  /\ \A i, k \in DOMAIN s : rank[i] = rank[k] => i = k
  /\ \A r \in DOMAIN s : p[r] \in DOMAIN s /\ rank[p[r]] = r /\ q[r] = s[p[r]]

\* A sequence sorted by rank has the same elements.
LEMMA RankedSequence ==
  ASSUME NEW T, NEW s \in Seq(T), NEW rank, NEW p, NEW q \in [DOMAIN s -> T],
         Ranked(q, s, rank, p)
  PROVE  /\ q \in Seq(T) /\ DOMAIN q = DOMAIN s /\ ToSet(q) = ToSet(s)
         /\ \A k \in DOMAIN s : q[rank[k]] = s[k]
         /\ IsInjective(s) => IsInjective(q)
<1>. DEFINE D == DOMAIN s
<1>1. \A r \in D : p[r] \in D /\ rank[p[r]] = r
  BY DEF Ranked
<1>2. \A r \in D : q[r] = s[p[r]]
  BY DEF Ranked
<1>3. DOMAIN q = D /\ D = 1 .. Len(s) /\ Len(s) \in Nat /\ \A k \in D : s[k] \in T
  OBVIOUS
<1>4. \A k \in D : p[rank[k]] = k
  BY <1>1 DEF Ranked
<1>5. q \in Seq(T)
  <2>1. q \in [1 .. Len(s) -> T]
    BY <1>1, <1>2, <1>3
  <2>. HIDE DEF D
  <2>. QED BY ONLY <1>3, <2>1
<1>6. \A k \in D : q[rank[k]] = s[k]
  BY <1>2, <1>4 DEF Ranked
<1>7. ToSet(q) = ToSet(s)
  <2>1. \A r \in D : \E k \in D : q[r] = s[k]
    BY <1>1, <1>2
  <2>2. \A k \in D : \E r \in D : q[r] = s[k]
    BY <1>6 DEF Ranked
  <2>3. ToSet(q) = {q[r] : r \in D} /\ ToSet(s) = {s[k] : k \in D}
    BY <1>3 DEF ToSet
  <2>. HIDE DEF D
  <2>. QED BY ONLY <2>1, <2>2, <2>3
<1>8. IsInjective(s) => IsInjective(q)
  <2>. SUFFICES ASSUME IsInjective(s), NEW a \in D, NEW b \in D, q[a] = q[b] PROVE a = b
    BY <1>3 DEF IsInjective
  <2>1. p[a] \in DOMAIN s /\ p[b] \in DOMAIN s /\ s[p[a]] = s[p[b]]
    BY <1>1, <1>2
  <2>2. p[a] = p[b]
    BY ONLY <2>1, IsInjective(s) DEF IsInjective
  <2>3. rank[p[a]] = a /\ rank[p[b]] = b
    BY <1>1
  <2>. QED BY ONLY <2>2, <2>3
<1>. QED BY <1>3, <1>5, <1>6, <1>7, <1>8
===============================================================================
