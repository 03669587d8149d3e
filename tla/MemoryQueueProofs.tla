-------------------------- MODULE MemoryQueueProofs ---------------------------
(***************************************************************************)
(* MemoryQueue: what the reader peeks is intact, an allocation is free and *)
(* the queue implements Fifo, for every capacity, element size and size    *)
(* field.                                                                  *)
(*                                                                         *)
(* The indices of the code run modulo twice the capacity.  The inductive   *)
(* invariant says that they stand for places on a line: there are places   *)
(* a[1] < ... < a[n], each the end of the slice before it, no further      *)
(* apart than the capacity, none of them with less than Room bytes to the  *)
(* end of the array; a[1] is the reader's index, a[n] the writer's         *)
(* (Layout).  Nobody stores these places: that is the existential          *)
(* quantifier of the invariant.                                            *)
(***************************************************************************)
EXTENDS MemoryQueue, SequenceFacts

\* advanceIndex() on the line: past the slice, and past the end of the array if too little is
\* left of it.
Skip(y) == (2 * Capacity - (y % (2 * Capacity))) % Capacity
Rounded(y) == IF Skip(y) < Room THEN y + Skip(y) ELSE y
After(x, size) == Rounded(x + size + SizeBytes)

\* The size field of the slice at a place.
SizeIn(d, x) == d[x % Capacity].value

\* The places of the stored slices in the array d, from the reader's index r to the writer's, w.
Layout(a, d, r, w) ==
  /\ a \in Seq(Nat) /\ Len(a) >= 1
  /\ a[1] % (2 * Capacity) = r /\ a[Len(a)] % (2 * Capacity) = w
  /\ a[Len(a)] <= a[1] + Capacity
  /\ \A i \in 1 .. Len(a) : (a[i] % Capacity) + Room <= Capacity
  /\ \A i \in 1 .. Len(a) - 1 : SizeIn(d, a[i]) \in Sizes /\ a[i + 1] = After(a[i], SizeIn(d, a[i]))
  /\ \A i, j \in 1 .. Len(a) : i < j => a[i] + (j - i) <= a[j]

LayoutInv == \E a : Layout(a, data, received, sent)

\* The writer: an allocation has room, what has been filled in is there, and commit() has
\* stored the size.
WriterInv ==
  /\ allocated > 0 => UsedBytes(sent, received) + Room <= Capacity
  /\ allocated > 0 /\ filled # Blank =>
       \A k \in 1 .. allocated :
         data[(sent % Capacity) + SizeBytes + k - 1] = [tag |-> filled, value |-> k]
  /\ committing => allocated > 0 /\ filled # Blank /\ SizeAt(sent) = allocated

\* The reader: a slice that has been peeked is the one at its index.
ReaderInv ==
  span # NoSpan =>
    /\ ~Empty
    /\ span = [index |-> ((received % Capacity) + SizeBytes) % Capacity, size |-> SizeAt(received)]

QueueInv == TypeOK /\ LayoutInv /\ WriterInv /\ ReaderInv

\* Position, Slice and Stored of given indices and a given array.
PositionOf(r, w, d) ==
  CHOOSE f : f = [n \in 0 .. Capacity |->
                    IF n = 0 THEN r
                    ELSE IF f[n - 1] = w THEN w
                    ELSE AdvanceIndex(f[n - 1], d[f[n - 1] % Capacity].value)]

SliceOf(d, index, size) == [k \in 1 .. size |-> d[(index + k - 1) % Capacity]]

CountOf(f, w) == CHOOSE n \in 0 .. Capacity + 1 : /\ n <= Capacity => f[n] = w
                                                 /\ \A k \in 0 .. n - 1 : f[k] # w

StoredOf(f, w, d) ==
  [n \in 1 .. CountOf(f, w) |-> SliceOf(d, (f[n - 1] % Capacity) + SizeBytes,
                                        d[f[n - 1] % Capacity].value)]

\* The array e differs from d in the bytes in front of the writer's index w only.
Spares(d, e, w) ==
  \A k \in 0 .. Capacity - 1 : (k < w % Capacity \/ k >= (w % Capacity) + Room) => e[k] = d[k]

\* The slices at the places a are the same in both arrays, byte by byte.
SameSlices(a, d, e) ==
  \A i \in 1 .. Len(a) - 1 :
    /\ SizeIn(e, a[i]) = SizeIn(d, a[i])
    /\ \A m \in 0 .. SizeBytes + SizeIn(d, a[i]) - 1 :
         e[(a[i] % Capacity) + m] = d[(a[i] % Capacity) + m]

\* The slices at the places of a layout.
Contents(a, d) ==
  [n \in 1 .. Len(a) - 1 |-> SliceOf(d, (a[n] % Capacity) + SizeBytes, SizeIn(d, a[n]))]
-------------------------------------------------------------------------------
\* What the static_assert says of the constants.
LEMMA QueueConstants ==
  /\ Capacity \in Nat \ {0} /\ 2 * Capacity \in Nat \ {0} /\ SizeBytes \in Nat \ {0}
  /\ MaxElement \in Nat \ {0} /\ Room = MaxElement + SizeBytes /\ Room \in Nat /\ Room <= Capacity
  BY QueueAssumption DEF Room

\* Two places less than a modulus apart have different remainders.
LEMMA ModApart ==
  ASSUME NEW M \in Nat \ {0}, NEW x \in Int, NEW y \in Int, x < y, y - x < M
  PROVE  x % M # y % M
<1>1. SUFFICES ASSUME x % M = y % M PROVE FALSE
  OBVIOUS
<1>2. ((y % M) - (x % M)) % M = (y - x) % M
  BY ModSum
<1>3. (y % M) - (x % M) = 0
  <2>1. y % M \in Int
    BY DivMod
  <2>. QED BY <1>1, <2>1
<1>4. 0 % M = 0 /\ (y - x) % M = y - x
  <2>1. y - x \in Int /\ y - x \in 0 .. M - 1 /\ 0 \in Int /\ 0 \in 0 .. M - 1
    OBVIOUS
  <2>. QED BY ONLY <2>1, M \in Nat \ {0}, ModSmall
<1>5. y - x = 0
  BY ONLY <1>2, <1>3, <1>4
<1>. QED BY <1>5

\* A remainder by the capacity may be taken after one by twice the capacity.
LEMMA ModTwice ==
  ASSUME NEW y \in Int
  PROVE  /\ (y % (2 * Capacity)) % Capacity = y % Capacity
         /\ y % Capacity = 0 => Skip(y) = 0
         /\ y % Capacity # 0 => Skip(y) = Capacity - (y % Capacity)
<1>. DEFINE C == Capacity  q == y \div (2 * C)  u == y % (2 * C)  h == u \div C  v == u % C
<1>0. C \in Nat \ {0} /\ 2 * C \in Nat \ {0}
  BY QueueConstants
<1>1. q \in Int /\ u \in 0 .. 2 * C - 1 /\ y = (2 * C) * q + u
  BY <1>0, DivMod
<1>2. h \in Int /\ v \in 0 .. C - 1 /\ u = C * h + v
  <2>1. u \in Int
    BY <1>0, <1>1
  <2>. QED BY ONLY <1>0, <2>1, DivMod
<1>. HIDE DEF C, q, h
<1>3. y % C = v
  <2>. HIDE DEF u, v
  <2>1. y = C * (2 * q + h) + v /\ 2 * q + h \in Int
    <3>1. C * (2 * q + h) = (2 * C) * q + C * h
      BY ONLY <1>0, <1>1, <1>2
    <3>. QED BY ONLY <1>0, <1>1, <1>2, <3>1
  <2>2. (C * (2 * q + h) + v) % C = v
    BY ONLY <1>0, <1>2, <2>1, ModUnique
  <2>. QED BY ONLY <2>1, <2>2
<1>4. (2 * C - u) % C = IF v = 0 THEN 0 ELSE C - v
  <2>. HIDE DEF u, v
  <2>1. CASE v = 0
    <3>1. 2 * C - u = C * (2 - h) + 0 /\ 2 - h \in Int
      BY ONLY <1>0, <1>1, <1>2, <2>1
    <3>2. (C * (2 - h) + 0) % C = 0
      <4>1. 0 \in 0 .. C - 1
        BY <1>0
      <4>. QED BY ONLY <1>0, <3>1, <4>1, ModUnique
    <3>. QED BY ONLY <2>1, <3>1, <3>2
  <2>2. CASE v # 0
    <3>1. 2 * C - u = C * (1 - h) + (C - v) /\ 1 - h \in Int /\ C - v \in 0 .. C - 1
      <4>1. C * (1 - h) = C - C * h /\ C * h \in Int
        BY ONLY <1>0, <1>2
      <4>. QED BY ONLY <1>0, <1>1, <1>2, <2>2, <4>1
    <3>2. (C * (1 - h) + (C - v)) % C = C - v
      BY ONLY <1>0, <3>1, ModUnique
    <3>. QED BY ONLY <2>2, <3>1, <3>2
  <2>. QED BY <2>1, <2>2
<1>. QED BY <1>3, <1>4 DEF Skip, C

\* advanceIndex() leaves an index with at least Room bytes to the end of the array.
LEMMA RoundedFacts ==
  ASSUME NEW y \in Nat
  PROVE  /\ Rounded(y) \in Nat /\ y <= Rounded(y)
         /\ (Rounded(y) % Capacity) + Room <= Capacity
         /\ Rounded(y) # y => Rounded(y) - y < Room /\ Rounded(y) % Capacity = 0
<1>. DEFINE C == Capacity  v == y % C  s == Skip(y)  k == y \div C
<1>0. C \in Nat \ {0} /\ Room \in Nat /\ Room <= C
  BY QueueConstants
<1>1. k \in Int /\ v \in 0 .. C - 1 /\ y = C * k + v
  BY <1>0, DivMod
<1>2. (v = 0 => s = 0) /\ (v # 0 => s = C - v)
  BY ModTwice
<1>3. Rounded(y) = IF s < Room THEN y + s ELSE y
  BY DEF Rounded
<1>. HIDE DEF C, v, s, k
<1>4. s \in 0 .. C - 1
  BY ONLY <1>0, <1>1, <1>2
<1>5. (y + s) % C = 0
  <2>1. CASE v = 0
    <3>1. y + s = C * k + 0 /\ 0 \in 0 .. C - 1
      BY ONLY <1>0, <1>1, <1>2, <2>1
    <3>2. (C * k + 0) % C = 0
      BY ONLY <1>0, <1>1, <3>1, ModUnique
    <3>. QED BY ONLY <3>1, <3>2
  <2>2. CASE v # 0
    <3>1. y + s = C * (k + 1) + 0 /\ 0 \in 0 .. C - 1 /\ k + 1 \in Int
      <4>1. C * (k + 1) = C * k + C /\ C * k \in Int
        BY ONLY <1>0, <1>1
      <4>. QED BY ONLY <1>0, <1>1, <1>2, <2>2, <4>1
    <3>2. (C * (k + 1) + 0) % C = 0
      BY ONLY <1>0, <3>1, ModUnique
    <3>. QED BY ONLY <3>1, <3>2
  <2>. QED BY <2>1, <2>2
<1>6. CASE s < Room
  <2>1. Rounded(y) = y + s
    BY <1>3, <1>6
  <2>2. /\ y + s \in Nat /\ y <= y + s /\ y + s - y < Room
    BY ONLY <1>0, <1>4, <1>6, y \in Nat
  <2>3. Rounded(y) % C = 0 /\ 0 + Room <= C
    BY <1>0, <1>5, <2>1
  <2>4. Rounded(y) \in Nat /\ y <= Rounded(y) /\ Rounded(y) - y < Room
    BY ONLY <1>0, <1>4, <2>1, <2>2, y \in Nat
  <2>5. Rounded(y) % Capacity = 0 /\ 0 + Room <= Capacity
    BY <2>3 DEF C
  <2>. QED BY ONLY <2>4, <2>5
<1>7. CASE ~(s < Room)
  <2>1. Rounded(y) = y
    BY <1>3, <1>7
  <2>2. v + Room <= C
    <3>1. 0 < Room
      BY QueueConstants
    <3>. QED BY ONLY <1>0, <1>1, <1>2, <1>4, <1>7, <3>1
  <2>3. y <= y /\ y \in Nat
    OBVIOUS
  <2>4. (y % Capacity) + Room <= Capacity
    BY <2>2 DEF C, v
  <2>. QED BY ONLY <2>1, <2>3, <2>4
<1>. QED BY <1>6, <1>7

\* advanceIndex() is the move along the line.
LEMMA AdvanceOnLine ==
  ASSUME NEW x \in Nat, NEW size \in Nat
  PROVE  AdvanceIndex(x % (2 * Capacity), size) = After(x, size) % (2 * Capacity)
<1>. DEFINE D == 2 * Capacity  y == x + size + SizeBytes
<1>0. D \in Nat \ {0} /\ SizeBytes \in Nat
  BY QueueConstants
<1>1. ((x % D) + size + SizeBytes) % D = y % D
  <2>1. (size + SizeBytes) + (x % D) = (x % D) + size + SizeBytes /\ (size + SizeBytes) + x = y
    <3>. HIDE DEF D
    <3>1. x % D \in Int
      BY <1>0, DivMod
    <3>. QED BY ONLY <1>0, <3>1, x \in Nat, size \in Nat DEF y
  <2>2. ((size + SizeBytes) + (x % D)) % D = ((size + SizeBytes) + x) % D
    <3>1. size + SizeBytes \in Int /\ x \in Int
      BY <1>0
    <3>. HIDE DEF D
    <3>. QED BY ONLY <1>0, <3>1, ModSum
  <2>. QED BY ONLY <2>1, <2>2
<1>. DEFINE s == Skip(y)
<1>2. y \in Int /\ s \in Int
  <2>1. y \in Int /\ 2 * Capacity - (y % (2 * Capacity)) \in Int
    <3>1. y \in Int
      BY <1>0
    <3>2. y % D \in Int
      <4>. HIDE DEF D, y
      <4>. QED BY <1>0, <3>1, DivMod
    <3>. QED BY <1>0, <3>1, <3>2
  <2>2. Capacity \in Nat \ {0}
    BY QueueConstants
  <2>. HIDE DEF y
  <2>3. (2 * Capacity - (y % (2 * Capacity))) % Capacity \in Int
    BY ONLY <2>1, <2>2, DivMod
  <2>. QED BY <2>1, <2>3 DEF Skip
<1>3. ((y % D) + s) % D = (y + s) % D
  <2>. HIDE DEF y, s, D
  <2>1. (s + (y % D)) % D = (s + y) % D
    BY ONLY <1>0, <1>2, ModSum
  <2>2. s + (y % D) = (y % D) + s /\ s + y = y + s
    <3>1. y % D \in Int
      BY ONLY <1>0, <1>2, DivMod
    <3>. QED BY ONLY <1>2, <3>1
  <2>. QED BY ONLY <2>1, <2>2
<1>4. AdvanceIndex(x % D, size) = IF s < Room THEN ((y % D) + s) % D ELSE y % D
  BY <1>1 DEF AdvanceIndex, Skip
<1>5. After(x, size) = IF s < Room THEN y + s ELSE y
  BY DEF After, Rounded
<1>. HIDE DEF y, s, D
<1>6. AdvanceIndex(x % D, size) = After(x, size) % D
  BY <1>3, <1>4, <1>5
<1>. QED BY <1>6 DEF D

\* The bytes in use are the distance of the two places.
LEMMA UsedOnLine ==
  ASSUME NEW x \in Nat, NEW y \in Nat, x <= y, y <= x + Capacity
  PROVE  UsedBytes(y % (2 * Capacity), x % (2 * Capacity)) = y - x
<1>. DEFINE D == 2 * Capacity  r == x % D  w == y % D
<1>0. D \in Nat \ {0} /\ Capacity \in Nat \ {0} /\ D = 2 * Capacity
  BY QueueConstants
<1>. HIDE DEF D
<1>1. r \in 0 .. D - 1 /\ w \in 0 .. D - 1
  <2>1. x \in Int /\ y \in Int
    OBVIOUS
  <2>. QED BY ONLY <1>0, <2>1, DivMod
<1>2. (w - r) % D = (y - x) % D
  <2>1. x \in Int /\ y \in Int
    OBVIOUS
  <2>. QED BY ONLY <1>0, <2>1, ModSum
<1>3. (y - x) % D = y - x
  <2>1. y - x \in Int /\ y - x \in 0 .. D - 1
    BY ONLY <1>0, x \in Nat, y \in Nat, x <= y, y <= x + Capacity
  <2>. QED BY ONLY <1>0, <2>1, ModSmall
<1>4. (w - r) % D = IF w < r THEN w + D - r ELSE w - r
  <2>. HIDE DEF r, w
  <2>1. CASE w < r
    <3>1. w - r \in Int /\ w - r \in -D .. -1
      BY ONLY <1>0, <1>1, <2>1
    <3>2. (w - r) % D = (w - r) + D
      BY ONLY <1>0, <3>1, ModSmall
    <3>. QED BY ONLY <1>0, <1>1, <2>1, <3>2
  <2>2. CASE ~(w < r)
    <3>1. w - r \in Int /\ w - r \in 0 .. D - 1
      BY ONLY <1>0, <1>1, <2>2
    <3>2. (w - r) % D = w - r
      BY ONLY <1>0, <3>1, ModSmall
    <3>. QED BY ONLY <2>2, <3>2
  <2>. QED BY <2>1, <2>2
<1>5. UsedBytes(w, r) = y - x
  <2>1. UsedBytes(w, r) = IF w < r THEN w + D - r ELSE w - r
    BY <1>0 DEF UsedBytes
  <2>. HIDE DEF r, w
  <2>. QED BY ONLY <1>2, <1>3, <1>4, <2>1
<1>. QED BY <1>5 DEF D

\* A commit stays within the capacity, although it may skip the end of the array: if the
\* writer skips it, the reader has done so before or is in front of it.
LEMMA RoomStays ==
  ASSUME NEW x \in Nat, NEW y \in Nat, y + Room <= x + Capacity,
         (x % Capacity) + Room <= Capacity, NEW size \in Sizes
  PROVE  After(y, size) <= x + Capacity
<1>. DEFINE C == Capacity  z == y + size + SizeBytes  e == After(y, size)
<1>0. C \in Nat \ {0} /\ Room \in Nat /\ Room <= C /\ size \in Nat /\ size + SizeBytes <= Room /\ z \in Nat
      /\ SizeBytes \in Nat
  BY QueueConstants DEF Sizes
<1>1. e \in Nat /\ (e # z => e - z < Room /\ e % C = 0)
  BY <1>0, RoundedFacts DEF After
<1>2. z <= x + C
  <2>1. y + Room <= x + C
    OBVIOUS
  <2>. HIDE DEF C
  <2>. QED BY ONLY <1>0, <2>1, x \in Nat, y \in Nat DEF z
<1>3. (x % C) + Room <= C
  OBVIOUS
<1>. HIDE DEF C, z, e
<1>4. ASSUME ~(e <= x + C) PROVE FALSE
  <2>. DEFINE g == e - (x + C)  k == e \div C
  <2>1. g \in 1 .. Room - 1 /\ e # z /\ x = e - C - g
    BY ONLY <1>0, <1>1, <1>2, <1>4, x \in Nat
  <2>2. k \in Int /\ e = C * k + 0
    BY <1>0, <1>1, <2>1, DivMod
  <2>. HIDE DEF g, k
  <2>3. x = C * (k - 2) + (C - g) /\ k - 2 \in Int /\ C - g \in 0 .. C - 1
    <3>1. C * (k - 2) = C * k - 2 * C /\ C * k \in Int
      BY ONLY <1>0, <2>2
    <3>. QED BY ONLY <1>0, <1>1, <2>1, <2>2, <3>1, x \in Nat
  <2>4. (C * (k - 2) + (C - g)) % C = C - g
    BY ONLY <1>0, <2>3, ModUnique
  <2>5. x % C = C - g
    BY ONLY <2>3, <2>4
  <2>. QED BY ONLY <1>0, <1>3, <2>1, <2>5
<1>. QED BY <1>4 DEF C, e

\* A remainder is an index of the array.
LEMMA ModIndex ==
  ASSUME NEW x \in Int
  PROVE  /\ x % Capacity \in 0 .. Capacity - 1 /\ x % Capacity \in Nat /\ x % Capacity \in Int
         /\ (x % Capacity) + 0 = x % Capacity
<1>1. x % Capacity \in 0 .. Capacity - 1 /\ Capacity \in Nat \ {0}
  BY QueueConstants, DivMod
<1>. DEFINE v == x % Capacity
<1>. HIDE DEF v
<1>2. v \in 0 .. Capacity - 1
  BY <1>1 DEF v
<1>3. v \in Nat /\ v \in Int /\ v + 0 = v
  BY ONLY <1>1, <1>2
<1>. QED BY <1>1, <1>3 DEF v

\* A slice on the line: the place behind it, which is an index of the code again.
LEMMA AfterFacts ==
  ASSUME NEW x \in Nat, NEW size \in Sizes
  PROVE  /\ After(x, size) \in Nat /\ x + SizeBytes + size <= After(x, size)
         /\ (After(x, size) % Capacity) + Room <= Capacity
<1>1. size \in Nat /\ SizeBytes \in Nat
  BY QueueConstants DEF Sizes
<1>. DEFINE y == x + size + SizeBytes
<1>2. y \in Nat /\ y = x + SizeBytes + size
  BY <1>1
<1>. HIDE DEF y
<1>3. /\ Rounded(y) \in Nat /\ y <= Rounded(y) /\ (Rounded(y) % Capacity) + Room <= Capacity
  BY <1>2, RoundedFacts
<1>4. After(x, size) = Rounded(y)
  BY DEF After, y
<1>. QED BY ONLY <1>2, <1>3, <1>4

\* What a layout says of the indices: the places are in order, the bytes in use are the distance,
\* there are no more slices than bytes and only the last place is the writer's.
LEMMA LayoutFacts ==
  ASSUME NEW a, NEW d, NEW r, NEW w, Layout(a, d, r, w)
  PROVE  /\ Len(a) \in Nat /\ \A i \in 1 .. Len(a) : a[i] \in Nat /\ a[1] <= a[i] /\ a[i] <= a[Len(a)]
         /\ UsedBytes(w, r) = a[Len(a)] - a[1] /\ a[Len(a)] <= a[1] + Capacity
         /\ Len(a) <= Capacity + 1
         /\ \A i \in 1 .. Len(a) - 1 : a[i] % (2 * Capacity) # w
         /\ r % Capacity = a[1] % Capacity /\ w % Capacity = a[Len(a)] % Capacity
         /\ Len(a) = 1 <=> r = w
<1>. DEFINE n == Len(a)
<1>1. /\ a \in Seq(Nat) /\ n >= 1 /\ n \in Nat /\ a[n] <= a[1] + Capacity
      /\ a[1] % (2 * Capacity) = r /\ a[n] % (2 * Capacity) = w
      /\ \A i, j \in 1 .. n : i < j => a[i] + (j - i) <= a[j]
  BY DEF Layout
<1>2. \A i \in 1 .. n : a[i] \in Nat
  BY <1>1
<1>. HIDE DEF n
<1>3. 1 \in 1 .. n /\ n \in 1 .. n
  BY <1>1
<1>4. \A i \in 1 .. n : a[1] <= a[i] /\ a[i] <= a[n]
  <2>1. TAKE i \in 1 .. n
  <2>2. 1 < i => a[1] + (i - 1) <= a[i]
    BY <1>1, <1>3
  <2>3. i < n => a[i] + (n - i) <= a[n]
    BY <1>1, <1>3
  <2>. DEFINE x == a[i]  y == a[n]  z == a[1]
  <2>4. /\ x \in Nat /\ y \in Nat /\ z \in Nat /\ n \in Nat /\ i \in 1 .. n
        /\ 1 < i => z + (i - 1) <= x
        /\ i < n => x + (n - i) <= y
        /\ (i = 1 => x = z) /\ (i = n => x = y)
    BY <1>1, <1>2, <1>3, <2>2, <2>3
  <2>. HIDE DEF x, y, z
  <2>5. z <= x /\ x <= y
    BY ONLY <2>4
  <2>. QED BY <2>5 DEF x, y, z
<1>5. UsedBytes(w, r) = a[n] - a[1]
  <2>1. a[1] \in Nat /\ a[n] \in Nat /\ a[1] <= a[n]
    BY <1>2, <1>3, <1>4
  <2>2. UsedBytes(a[n] % (2 * Capacity), a[1] % (2 * Capacity)) = a[n] - a[1]
    BY ONLY <1>1, <2>1, UsedOnLine
  <2>. QED BY <1>1, <2>2
<1>6. n <= Capacity + 1
  <2>1. 1 < n => a[1] + (n - 1) <= a[n]
    BY <1>1, <1>3
  <2>. DEFINE y == a[n]  z == a[1]
  <2>2. y \in Nat /\ z \in Nat /\ y <= z + Capacity /\ (1 < n => z + (n - 1) <= y) /\ n \in Nat
    BY <1>1, <1>2, <1>3, <2>1
  <2>. HIDE DEF y, z
  <2>. QED BY ONLY <2>2, QueueConstants
<1>7. ASSUME NEW i \in 1 .. n - 1 PROVE a[i] % (2 * Capacity) # w
  <2>1. i \in 1 .. n /\ i < n
    BY <1>1
  <2>2. a[i] + (n - i) <= a[n] /\ a[i] \in Nat /\ a[n] \in Nat /\ a[1] \in Nat /\ a[1] <= a[i]
    BY <1>1, <1>2, <1>3, <1>4, <2>1
  <2>. DEFINE x == a[i]  y == a[n]
  <2>3. x \in Int /\ y \in Int /\ x < y /\ y - x < 2 * Capacity /\ 2 * Capacity \in Nat \ {0}
    <3>. DEFINE z == a[1]
    <3>1. /\ x \in Nat /\ y \in Nat /\ z \in Nat /\ x + (n - i) <= y /\ z <= x /\ y <= z + Capacity
          /\ n \in Nat /\ i \in Nat /\ i < n
      BY <1>1, <2>1, <2>2
    <3>. HIDE DEF x, y, z
    <3>. QED BY ONLY <3>1, QueueConstants
  <2>. HIDE DEF x, y
  <2>4. x % (2 * Capacity) # y % (2 * Capacity)
    BY ONLY <2>3, ModApart
  <2>. QED BY <1>1, <2>4 DEF x, y
<1>8. r % Capacity = a[1] % Capacity /\ w % Capacity = a[n] % Capacity
  <2>1. a[1] \in Int /\ a[n] \in Int
    BY <1>2, <1>3
  <2>. QED BY <1>1, <2>1, ModTwice
<1>9. n = 1 <=> r = w
  <2>1. n # 1 => 1 \in 1 .. n - 1
    BY <1>1
  <2>. QED BY <1>1, <1>7, <2>1
<1>. QED BY <1>1, <1>2, <1>4, <1>5, <1>6, <1>7, <1>8, <1>9 DEF n

\* The bytes of a stored slice, with its size field, lie side by side in the array.
LEMMA SliceOnLine ==
  ASSUME NEW a, NEW d, NEW r, NEW w, Layout(a, d, r, w), NEW i \in 1 .. Len(a) - 1,
         NEW m \in 0 .. SizeBytes + SizeIn(d, a[i]) - 1
  PROVE  /\ SizeIn(d, a[i]) \in Sizes /\ a[i] \in Nat /\ a[i + 1] \in Nat
         /\ (a[i] + m) % Capacity = (a[i] % Capacity) + m
         /\ (a[i] % Capacity) + m \in 0 .. Capacity - 1
         /\ a[i] + m < a[i + 1]
<1>1. Len(a) \in Nat /\ i \in 1 .. Len(a) /\ i + 1 \in 1 .. Len(a)
  BY DEF Layout
<1>. DEFINE s == SizeIn(d, a[i])  x == a[i]  v == x % Capacity
<1>2. s \in Sizes /\ a[i + 1] = After(x, s) /\ x \in Nat /\ a[i + 1] \in Nat /\ v + Room <= Capacity
  <2>1. /\ a \in Seq(Nat) /\ v + Room <= Capacity
        /\ s \in Sizes /\ a[i + 1] = After(x, s)
    BY ONLY Layout(a, d, r, w), <1>1, i \in 1 .. Len(a) - 1 DEF Layout
  <2>2. x \in Nat /\ a[i + 1] \in Nat
    BY ONLY <1>1, <2>1
  <2>. QED BY ONLY <2>1, <2>2
<1>3. x + SizeBytes + s <= After(x, s)
  BY ONLY <1>2, AfterFacts
<1>4. /\ s \in Nat /\ s <= MaxElement /\ m \in Nat /\ m <= SizeBytes + s - 1
  BY <1>2, QueueConstants DEF Sizes
<1>. HIDE DEF s
<1>5. (x + m) % Capacity = v + m /\ v + m \in 0 .. Capacity - 1
  <2>. DEFINE k == x \div Capacity
  <2>0. x \in Int /\ Capacity \in Nat \ {0}
    BY <1>2, QueueConstants
  <2>1. k \in Int /\ v \in 0 .. Capacity - 1 /\ x = Capacity * k + v
    BY ONLY <2>0, DivMod
  <2>. HIDE DEF k, v, x
  <2>2. v + m \in 0 .. Capacity - 1 /\ x + m = Capacity * k + (v + m)
    <3>1. Capacity * k \in Int
      BY ONLY <2>0, <2>1
    <3>2. v + m \in 0 .. Capacity - 1
      BY ONLY <1>2, <1>4, <2>1, QueueConstants
    <3>. QED BY ONLY <1>4, <2>0, <2>1, <3>1, <3>2
  <2>3. (Capacity * k + (v + m)) % Capacity = v + m
    BY ONLY <2>0, <2>1, <2>2, ModUnique
  <2>. QED BY ONLY <2>2, <2>3
<1>6. x + m < a[i + 1]
  <2>. HIDE DEF x, v
  <2>1. a[i + 1] = After(x, s) /\ a[i + 1] \in Nat
    BY <1>2
  <2>. QED BY ONLY <1>2, <1>3, <1>4, <2>1, QueueConstants
<1>. QED BY <1>2, <1>5, <1>6 DEF s

\* The writer's bytes, in front of its index, are none of a stored slice.
LEMMA LayoutWritten ==
  ASSUME NEW a, NEW d, NEW e, NEW r, NEW w, Layout(a, d, r, w),
         UsedBytes(w, r) + Room <= Capacity,
         Spares(d, e, w)
  PROVE  SameSlices(a, d, e) /\ Layout(a, e, r, w)
<1>. DEFINE n == Len(a)  b == a[Len(a)]
<1>0. /\ n \in Nat /\ n >= 1 /\ b \in Nat /\ a[1] \in Nat /\ w % Capacity = b % Capacity
      /\ b + Room <= a[1] + Capacity
      /\ \A i \in 1 .. n : a[i] \in Nat /\ a[1] <= a[i] /\ a[i] <= b
      /\ (b % Capacity) + Room <= Capacity
  <2>1. /\ n \in Nat /\ n >= 1 /\ 1 \in 1 .. n /\ n \in 1 .. n
    BY LayoutFacts DEF Layout
  <2>2. /\ UsedBytes(w, r) = b - a[1] /\ w % Capacity = b % Capacity
        /\ \A i \in 1 .. n : a[i] \in Nat /\ a[1] <= a[i] /\ a[i] <= b
    BY LayoutFacts
  <2>3. b \in Nat /\ a[1] \in Nat
    BY <2>1, <2>2
  <2>4. b + Room <= a[1] + Capacity
    <3>1. b - a[1] + Room <= Capacity
      BY <2>2
    <3>. HIDE DEF b
    <3>. QED BY ONLY <2>3, <3>1, QueueConstants
  <2>5. (b % Capacity) + Room <= Capacity
    BY <2>1 DEF Layout
  <2>. QED BY <2>1, <2>2, <2>3, <2>4, <2>5
<1>1. ASSUME NEW i \in 1 .. n - 1, NEW m \in 0 .. SizeBytes + SizeIn(d, a[i]) - 1
      PROVE  e[(a[i] % Capacity) + m] = d[(a[i] % Capacity) + m]
  <2>. DEFINE x == a[i] + m  v == (a[i] % Capacity) + m
  <2>1. /\ a[i] \in Nat /\ a[i + 1] \in Nat /\ x % Capacity = v /\ v \in 0 .. Capacity - 1
        /\ x < a[i + 1] /\ m \in Nat /\ x \in Nat
    <3>1. /\ a[i] \in Nat /\ a[i + 1] \in Nat /\ x % Capacity = v /\ v \in 0 .. Capacity - 1
          /\ x < a[i + 1] /\ SizeIn(d, a[i]) \in Sizes
      BY SliceOnLine
    <3>2. m \in Nat
      BY <3>1, QueueConstants DEF Sizes
    <3>. QED BY <3>1, <3>2
  <2>2. x < b /\ a[1] <= x
    <3>1. a[1] <= a[i] /\ a[i + 1] <= b
      BY <1>0
    <3>. HIDE DEF b
    <3>. QED BY SMTT(60), <1>0, <2>1, <3>1
  <2>3. SUFFICES ASSUME v >= b % Capacity, v < (b % Capacity) + Room PROVE FALSE
    <3>0. b \in Int
      BY <1>0
    <3>. HIDE DEF b, v
    <3>1. b % Capacity \in Int /\ v \in Int /\ Room \in Int
      <4>1. b % Capacity \in Int
        BY ONLY <3>0, ModIndex
      <4>. QED BY <2>1, <4>1, QueueConstants
    <3>2. v < b % Capacity \/ v >= (b % Capacity) + Room => e[v] = d[v]
      BY <1>0, <2>1 DEF Spares
    <3>3. (v >= b % Capacity /\ v < (b % Capacity) + Room) \/ v < b % Capacity \/ v >= (b % Capacity) + Room
      BY ONLY <3>1, QueueConstants
    <3>. QED BY <3>2, <3>3 DEF v
  <2>. DEFINE k == v - (b % Capacity)  y == b + k
  <2>4. k \in Nat /\ k < Room /\ y \in Nat /\ y % Capacity = v /\ (b % Capacity) \in Nat
    <3>. DEFINE q == b \div Capacity  u == b % Capacity
    <3>0. b \in Int /\ Capacity \in Nat \ {0}
      BY <1>0, QueueConstants
    <3>1. q \in Int /\ u \in 0 .. Capacity - 1 /\ b = Capacity * q + u
      BY ONLY <3>0, DivMod
    <3>2. v >= u /\ v < u + Room /\ v \in 0 .. Capacity - 1
      BY <2>1, <2>3
    <3>. HIDE DEF q, u, v, b
    <3>3. v - u \in Nat /\ v - u < Room
      BY ONLY <3>1, <3>2, QueueConstants
    <3>4. b + (v - u) = Capacity * q + v /\ b + (v - u) \in Nat
      <4>1. Capacity * q \in Int
        BY ONLY <3>0, <3>1
      <4>2. b \in Nat
        BY <1>0
      <4>. QED BY ONLY <3>0, <3>1, <3>2, <3>3, <4>1, <4>2
    <3>5. (Capacity * q + v) % Capacity = v
      BY ONLY <3>0, <3>1, <3>2, ModUnique
    <3>6. u \in Nat
      BY <3>1
    <3>. QED BY ONLY <3>3, <3>4, <3>5, <3>6 DEF u
  <2>5. x \in Int /\ y \in Int /\ x < y /\ y - x < Capacity /\ Capacity \in Nat \ {0}
    <3>1. k \in Nat /\ k < Room /\ y = b + k /\ y \in Nat
      BY <2>4
    <3>2. b \in Nat /\ a[1] \in Nat /\ b + Room <= a[1] + Capacity
      BY <1>0
    <3>. HIDE DEF x, y, k, b
    <3>. QED BY ONLY <2>1, <2>2, <3>1, <3>2, QueueConstants
  <2>6. x % Capacity # y % Capacity
    <3>. HIDE DEF x, y
    <3>. QED BY ONLY <2>5, ModApart
  <2>. QED BY <2>1, <2>4, <2>6
<1>2. ASSUME NEW i \in 1 .. n - 1 PROVE SizeIn(e, a[i]) = SizeIn(d, a[i])
  <2>1. SizeIn(d, a[i]) \in Sizes /\ a[i] \in Nat
    BY <1>0 DEF Layout
  <2>2. 0 \in 0 .. SizeBytes + SizeIn(d, a[i]) - 1
    BY <2>1, QueueConstants DEF Sizes
  <2>3. e[(a[i] % Capacity) + 0] = d[(a[i] % Capacity) + 0]
    BY <1>1, <2>2
  <2>4. (a[i] % Capacity) + 0 = a[i] % Capacity
    <3>1. a[i] \in Int
      BY <2>1
    <3>. QED BY ONLY <3>1, ModIndex
  <2>. QED BY <2>3, <2>4 DEF SizeIn
<1>3. Layout(a, e, r, w)
  BY <1>2 DEF Layout
<1>. QED BY <1>1, <1>2, <1>3 DEF SameSlices

\* Stored is a function of the two indices and the array.
LEMMA StoredDef ==
  /\ Stored = StoredOf(PositionOf(received, sent, data), sent, data)
  /\ Stored' = StoredOf(PositionOf(received', sent', data'), sent', data')
<1>1. Position = PositionOf(received, sent, data)
  BY DEF Position, PositionOf, SizeAt
<1>2. Position' = PositionOf(received', sent', data')
  BY DEF Position, PositionOf, SizeAt
<1>. QED BY <1>1, <1>2 DEF Stored, StoredOf, CountOf, SliceOf, Slice, SizeAt

\* A commit adds a place behind the last one.
LEMMA LayoutCommitted ==
  ASSUME NEW a, NEW d, NEW r, NEW w, Layout(a, d, r, w), NEW size \in Sizes,
         UsedBytes(w, r) + Room <= Capacity, SizeIn(d, a[Len(a)]) = size
  PROVE  Layout(Append(a, After(a[Len(a)], size)), d, r, AdvanceIndex(w, size))
<1>. DEFINE n == Len(a)  b == a[n]  z == After(b, size)  m == Append(a, z)
<1>0. /\ a \in Seq(Nat) /\ n \in Nat /\ n >= 1 /\ 1 \in 1 .. n /\ n \in 1 .. n
      /\ a[1] % (2 * Capacity) = r /\ b % (2 * Capacity) = w
      /\ \A i \in 1 .. n : (a[i] % Capacity) + Room <= Capacity
      /\ \A i \in 1 .. n - 1 : SizeIn(d, a[i]) \in Sizes /\ a[i + 1] = After(a[i], SizeIn(d, a[i]))
      /\ \A i, j \in 1 .. n : i < j => a[i] + (j - i) <= a[j]
  BY DEF Layout
<1>1. /\ \A i \in 1 .. n : a[i] \in Nat /\ a[1] <= a[i] /\ a[i] <= b
      /\ UsedBytes(w, r) = b - a[1]
  BY LayoutFacts
<1>2. b \in Nat /\ a[1] \in Nat /\ size \in Nat /\ size >= 1 /\ SizeBytes \in Nat
  BY <1>0, <1>1, QueueConstants DEF Sizes
<1>. HIDE DEF n, b
<1>3. z \in Nat /\ b + SizeBytes + size <= z /\ (z % Capacity) + Room <= Capacity
  BY ONLY <1>2, size \in Sizes, AfterFacts
<1>4. z <= a[1] + Capacity
  <2>. DEFINE x == a[1]
  <2>1. b - x + Room <= Capacity /\ x \in Nat /\ (x % Capacity) + Room <= Capacity
    BY <1>0, <1>1, <1>2
  <2>. HIDE DEF x
  <2>2. b + Room <= x + Capacity
    BY ONLY <1>2, <2>1, QueueConstants
  <2>3. z <= x + Capacity
    BY ONLY <1>2, <2>1, <2>2, size \in Sizes, RoomStays
  <2>. QED BY <2>3 DEF x
<1>5. AdvanceIndex(w, size) = z % (2 * Capacity)
  <2>1. AdvanceIndex(b % (2 * Capacity), size) = z % (2 * Capacity)
    BY ONLY <1>2, AdvanceOnLine
  <2>. QED BY <1>0, <2>1
<1>. HIDE DEF z
<1>6. /\ m \in Seq(Nat) /\ Len(m) = n + 1 /\ m[n + 1] = z
      /\ \A i \in 1 .. n : m[i] = a[i]
  BY <1>0, <1>3, AppendProperties DEF n
<1>. HIDE DEF m
<1>7. \A i \in 1 .. n + 1 : (m[i] % Capacity) + Room <= Capacity
  <2>1. \A i \in 1 .. n + 1 : i \in 1 .. n \/ i = n + 1
    BY ONLY <1>0
  <2>. QED BY <1>0, <1>3, <1>6, <2>1
<1>8. ASSUME NEW i \in 1 .. n
      PROVE  SizeIn(d, m[i]) \in Sizes /\ m[i + 1] = After(m[i], SizeIn(d, m[i]))
  <2>1. CASE i = n
    <3>1. m[i] = b /\ SizeIn(d, b) = size /\ m[i + 1] = z
      BY <1>0, <1>6, <2>1 DEF b, n
    <3>. QED BY <3>1 DEF z
  <2>2. CASE i # n
    <3>1. i \in 1 .. n - 1 /\ i + 1 \in 1 .. n
      BY <1>0, <2>2
    <3>. QED BY <1>0, <1>6, <3>1
  <2>. QED BY <2>1, <2>2
<1>9. ASSUME NEW i \in 1 .. n + 1, NEW j \in 1 .. n + 1, i < j
      PROVE  m[i] + (j - i) <= m[j]
  <2>1. i \in 1 .. n /\ m[i] = a[i]
    BY <1>0, <1>6, <1>9
  <2>2. CASE j = n + 1
    <3>. DEFINE x == a[i]
    <3>1. x \in Nat /\ x <= b /\ (i < n => x + (n - i) <= b) /\ (i = n => x = b)
      BY <1>0, <1>1, <2>1 DEF b
    <3>. HIDE DEF x
    <3>2. x + ((n + 1) - i) <= z
      <4>1. i \in 1 .. n /\ SizeBytes >= 1
        BY <2>1, QueueConstants
      <4>. QED BY ONLY <1>0, <1>2, <1>3, <3>1, <4>1
    <3>. QED BY <1>6, <2>1, <2>2, <3>2 DEF x
  <2>3. CASE j # n + 1
    <3>1. j \in 1 .. n
      BY <1>0, <2>3
    <3>. QED BY <1>0, <1>6, <1>9, <2>1, <3>1
  <2>. QED BY <2>2, <2>3
<1>10. m[1] = a[1] /\ n + 1 >= 1 /\ (n + 1) - 1 = n
  BY <1>0, <1>6
<1>11. Layout(m, d, r, AdvanceIndex(w, size))
  <2>1. /\ m \in Seq(Nat) /\ Len(m) >= 1 /\ m[1] % (2 * Capacity) = r
        /\ m[Len(m)] % (2 * Capacity) = AdvanceIndex(w, size) /\ m[Len(m)] <= m[1] + Capacity
    BY <1>0, <1>4, <1>5, <1>6, <1>10
  <2>2. /\ \A i \in 1 .. Len(m) : (m[i] % Capacity) + Room <= Capacity
        /\ \A i, j \in 1 .. Len(m) : i < j => m[i] + (j - i) <= m[j]
    BY <1>6, <1>7, <1>9
  <2>3. \A i \in 1 .. Len(m) - 1 : SizeIn(d, m[i]) \in Sizes /\ m[i + 1] = After(m[i], SizeIn(d, m[i]))
    BY <1>6, <1>8, <1>10
  <2>. QED BY <2>1, <2>2, <2>3 DEF Layout
<1>. QED BY <1>11 DEF m, z, b, n

\* A release takes the first place away.
LEMMA LayoutReleased ==
  ASSUME NEW a, NEW d, NEW r, NEW w, Layout(a, d, r, w), r # w
  PROVE  /\ Len(a) > 1 /\ Layout(Tail(a), d, AdvanceIndex(r, d[r % Capacity].value), w)
         /\ d[r % Capacity].value \in Sizes
<1>. DEFINE n == Len(a)  m == Tail(a)
<1>0. /\ a \in Seq(Nat) /\ n \in Nat /\ n >= 1
      /\ a[1] % (2 * Capacity) = r /\ a[n] % (2 * Capacity) = w /\ a[n] <= a[1] + Capacity
      /\ \A i \in 1 .. n : (a[i] % Capacity) + Room <= Capacity
      /\ \A i \in 1 .. n - 1 : SizeIn(d, a[i]) \in Sizes /\ a[i + 1] = After(a[i], SizeIn(d, a[i]))
      /\ \A i, j \in 1 .. n : i < j => a[i] + (j - i) <= a[j]
  BY DEF Layout
<1>1. /\ n > 1 /\ r % Capacity = a[1] % Capacity
  BY <1>0, LayoutFacts
<1>2. 1 \in 1 .. n - 1 /\ 2 \in 1 .. n /\ 1 \in 1 .. n
  BY <1>0, <1>1
<1>. DEFINE s == SizeIn(d, a[1])
<1>3. s \in Sizes /\ a[2] = After(a[1], s) /\ s = d[r % Capacity].value /\ s \in Nat
  <2>1. SizeIn(d, a[1]) \in Sizes /\ a[1 + 1] = After(a[1], SizeIn(d, a[1]))
    BY <1>0, <1>2
  <2>. QED BY <1>1, <2>1 DEF SizeIn, Sizes
<1>4. AdvanceIndex(r, s) = a[2] % (2 * Capacity)
  <2>1. a[1] \in Nat
    BY <1>0, <1>2
  <2>. HIDE DEF s
  <2>2. AdvanceIndex(a[1] % (2 * Capacity), s) = After(a[1], s) % (2 * Capacity)
    BY ONLY <1>3, <2>1, AdvanceOnLine
  <2>. QED BY <1>0, <1>3, <2>2
<1>. HIDE DEF s
<1>5. /\ m \in Seq(Nat) /\ Len(m) = n - 1
      /\ \A i \in 1 .. n - 1 : m[i] = a[i + 1]
  BY <1>0, <1>1, HeadTailProperties
<1>6. \A i \in 1 .. n - 1 : i + 1 \in 1 .. n /\ (i \in 1 .. n - 2 => i + 1 \in 1 .. n - 1)
  BY <1>0
<1>. HIDE DEF m, n
<1>7. m[1] = a[2] /\ m[n - 1] = a[n] /\ n - 1 \in Nat /\ n - 1 >= 1
  <2>1. n - 1 \in 1 .. n - 1 /\ (n - 1) + 1 = n /\ 1 + 1 = 2
    BY <1>0, <1>1
  <2>. QED BY <1>0, <1>1, <1>2, <1>5, <2>1
<1>8. a[n] <= a[2] + Capacity
  <2>. DEFINE x == a[1]  y == a[2]  z == a[n]
  <2>1. x \in Nat /\ y \in Nat /\ z \in Nat /\ x + (2 - 1) <= y /\ z <= x + Capacity
    <3>1. n \in 1 .. n
      BY <1>0, <1>1
    <3>. QED BY <1>0, <1>2, <3>1 DEF n
  <2>. HIDE DEF x, y, z
  <2>2. z <= y + Capacity
    BY ONLY <2>1, QueueConstants
  <2>. QED BY <2>2 DEF y, z
<1>9. \A i \in 1 .. n - 1 : (m[i] % Capacity) + Room <= Capacity
  BY <1>0, <1>5, <1>6
<1>10. ASSUME NEW i \in 1 .. n - 2
       PROVE  SizeIn(d, m[i]) \in Sizes /\ m[i + 1] = After(m[i], SizeIn(d, m[i]))
  <2>1. i \in 1 .. n - 1 /\ i + 1 \in 1 .. n - 1
    BY <1>0
  <2>2. m[i] = a[i + 1] /\ m[i + 1] = a[(i + 1) + 1]
    BY <1>5, <2>1
  <2>. QED BY <1>0, <2>1, <2>2
<1>11. ASSUME NEW i \in 1 .. n - 1, NEW j \in 1 .. n - 1, i < j PROVE m[i] + (j - i) <= m[j]
  <2>1. i + 1 \in 1 .. n /\ j + 1 \in 1 .. n /\ i + 1 < j + 1 /\ (j + 1) - (i + 1) = j - i
    BY <1>0, <1>11
  <2>2. a[i + 1] + ((j + 1) - (i + 1)) <= a[j + 1]
    BY <1>0, <2>1
  <2>. QED BY <1>5, <2>1, <2>2
<1>12. Layout(m, d, AdvanceIndex(r, s), w)
  <2>1. /\ m \in Seq(Nat) /\ Len(m) >= 1 /\ m[1] % (2 * Capacity) = AdvanceIndex(r, s)
        /\ m[Len(m)] % (2 * Capacity) = w /\ m[Len(m)] <= m[1] + Capacity
    BY <1>0, <1>4, <1>5, <1>7, <1>8
  <2>2. /\ \A i \in 1 .. Len(m) : (m[i] % Capacity) + Room <= Capacity
        /\ \A i, j \in 1 .. Len(m) : i < j => m[i] + (j - i) <= m[j]
    BY <1>5, <1>9, <1>11
  <2>3. Len(m) - 1 = n - 2
    BY <1>0, <1>5
  <2>4. \A i \in 1 .. Len(m) - 1 : SizeIn(d, m[i]) \in Sizes /\ m[i + 1] = After(m[i], SizeIn(d, m[i]))
    BY <1>10, <2>3
  <2>. QED BY <2>1, <2>2, <2>4 DEF Layout
<1>. QED BY <1>1, <1>3, <1>12 DEF m, n

\* Decoding the array from the reader's index on finds the places of the layout.
LEMMA PositionOnLine ==
  ASSUME NEW a, NEW d, NEW r, NEW w, Layout(a, d, r, w), NEW n \in 0 .. Capacity
  PROVE  /\ n + 1 <= Len(a) => PositionOf(r, w, d)[n] = a[n + 1] % (2 * Capacity)
         /\ n + 1 > Len(a) => PositionOf(r, w, d)[n] = w
<1>. DEFINE D == 2 * Capacity
            step(f) == [i \in 0 .. Capacity |->
                          IF i = 0 THEN r
                          ELSE IF f[i - 1] = w THEN w
                          ELSE AdvanceIndex(f[i - 1], d[f[i - 1] % Capacity].value)]
            g == [i \in 0 .. Capacity |-> IF i + 1 <= Len(a) THEN a[i + 1] % D ELSE w]
            p == PositionOf(r, w, d)
<1>0. Capacity \in Nat /\ Len(a) \in Nat /\ Len(a) >= 1 /\ a[1] % D = r /\ a[Len(a)] % D = w
  BY QueueConstants, LayoutFacts DEF Layout
<1>1. ASSUME NEW i \in 0 .. Capacity PROVE g[i] = step(g)[i]
  <2>1. CASE i = 0
    BY <1>0, <2>1
  <2>2. CASE i # 0 /\ i + 1 <= Len(a)
    <3>0. i \in 1 .. Len(a) - 1 /\ i - 1 \in 0 .. Capacity /\ (i - 1) + 1 = i
      BY <1>0, <2>2
    <3>1. g[i - 1] = a[i] % D /\ g[i] = a[i + 1] % D
      BY <1>0, <2>2, <3>0
    <3>2. a[i] % D # w
      BY <3>0, LayoutFacts
    <3>3. a[i] \in Nat /\ SizeIn(d, a[i]) \in Sizes /\ a[i + 1] = After(a[i], SizeIn(d, a[i]))
      <4>1. a \in Seq(Nat) /\ SizeIn(d, a[i]) \in Sizes /\ a[i + 1] = After(a[i], SizeIn(d, a[i]))
        BY ONLY Layout(a, d, r, w), <3>0 DEF Layout
      <4>2. i \in 1 .. Len(a)
        BY <1>0, <3>0
      <4>. QED BY ONLY <4>1, <4>2
    <3>4. SizeIn(d, a[i]) \in Nat /\ a[i] \in Int
      BY <3>3 DEF Sizes
    <3>5. AdvanceIndex(a[i] % D, SizeIn(d, a[i])) = a[i + 1] % D
      <4>1. AdvanceIndex(a[i] % D, SizeIn(d, a[i])) = After(a[i], SizeIn(d, a[i])) % D
        BY ONLY <3>3, <3>4, AdvanceOnLine
      <4>. QED BY ONLY <3>3, <4>1
    <3>6. (a[i] % D) % Capacity = a[i] % Capacity
      BY ONLY <3>4, ModTwice
    <3>7. step(g)[i] = AdvanceIndex(g[i - 1], d[g[i - 1] % Capacity].value)
      <4>. HIDE DEF g
      <4>. QED BY <2>2, <3>1, <3>2
    <3>. HIDE DEF g, D
    <3>. QED BY <3>1, <3>5, <3>6, <3>7 DEF SizeIn
  <2>3. CASE i # 0 /\ i + 1 > Len(a)
    <3>0. i - 1 \in 0 .. Capacity /\ (i - 1) + 1 = i /\ ~(i + 1 <= Len(a)) /\ i \in Int
      BY <1>0, <2>3
    <3>1. g[i - 1] = w
      <4>1. CASE i <= Len(a)
        <5>1. i = Len(a)
          BY <1>0, <2>3, <4>1
        <5>. HIDE DEF D
        <5>. QED BY <1>0, <3>0, <5>1
      <4>2. CASE ~(i <= Len(a))
        BY <3>0, <4>2
      <4>. QED BY <4>1, <4>2
    <3>2. g[i] = w
      BY <3>0
    <3>. HIDE DEF g
    <3>. QED BY <2>3, <3>1, <3>2
  <2>. QED BY <1>0, <2>1, <2>2, <2>3
<1>2. g = step(g)
  <2>. HIDE DEF D
  <2>. QED BY ZenonT(60), <1>1
<1>3. p = step(p)
  BY <1>2 DEF PositionOf
<1>. HIDE DEF p
<1>4. ASSUME NEW i \in 0 .. Capacity PROVE p[i] = g[i]
  <2>. DEFINE S == {j \in 0 .. Capacity : p[j] # g[j]}
  <2>1. SUFFICES ASSUME S # {} PROVE FALSE
    OBVIOUS
  <2>2. PICK k \in S : \A j \in S : k <= j
    <3>1. S \in SUBSET Nat
      OBVIOUS
    <3>. HIDE DEF S
    <3>. QED BY ONLY <2>1, <3>1, LeastNumber
  <2>3. k \in 0 .. Capacity /\ p[k] # g[k]
    BY SMTT(60)
  <2>. HIDE DEF g
  <2>4. p[k] = step(p)[k] /\ g[k] = step(g)[k]
    BY <1>2, <1>3
  <2>5. CASE k = 0
    BY <1>0, <2>3, <2>4, <2>5
  <2>6. CASE k # 0
    <3>1. k - 1 \in 0 .. Capacity /\ ~(k <= k - 1)
      BY <1>0, <2>3, <2>6
    <3>2. p[k - 1] = g[k - 1]
      BY <2>2, <3>1
    <3>. QED BY <2>3, <2>4, <2>6, <3>2
  <2>. QED BY <2>5, <2>6
<1>5. p[n] = g[n]
  BY <1>4
<1>6. g[n] = IF n + 1 <= Len(a) THEN a[n + 1] % D ELSE w
  OBVIOUS
<1>. HIDE DEF g, D
<1>7. n + 1 > Len(a) => ~(n + 1 <= Len(a))
  BY <1>0
<1>. QED BY <1>5, <1>6, <1>7 DEF p, D

\* What the reader will get is what is at the places of the layout.
LEMMA StoredOnLine ==
  ASSUME NEW a, NEW d, NEW r, NEW w, Layout(a, d, r, w)
  PROVE  StoredOf(PositionOf(r, w, d), w, d) = Contents(a, d)
<1>. DEFINE f == PositionOf(r, w, d)  n == Len(a) - 1  D == 2 * Capacity
<1>0. /\ Capacity \in Nat /\ Len(a) \in Nat /\ n \in 0 .. Capacity /\ Len(a) = n + 1
      /\ \A i \in 1 .. n : a[i] % D # w /\ a[i] \in Int
      /\ a[Len(a)] % D = w
  <2>1. /\ Capacity \in Nat /\ Len(a) \in Nat /\ Len(a) >= 1 /\ Len(a) <= Capacity + 1
        /\ \A i \in 1 .. n : a[i] % D # w
    BY ZenonT(60), QueueConstants, LayoutFacts DEF Layout
  <2>2. a \in Seq(Nat) /\ a[Len(a)] % D = w
    BY DEF Layout
  <2>3. \A i \in 1 .. n : i \in 1 .. Len(a)
    BY <2>1
  <2>4. \A i \in 1 .. n : a[i] \in Int
    BY <2>2, <2>3
  <2>5. n \in 0 .. Capacity /\ Len(a) = n + 1
    BY <2>1
  <2>. QED BY <2>1, <2>2, <2>4, <2>5
<1>1. \A i \in 0 .. Capacity : (i <= n => f[i] = a[i + 1] % D) /\ (i > n => f[i] = w)
  <2>1. TAKE i \in 0 .. Capacity
  <2>2. /\ i + 1 <= Len(a) => f[i] = a[i + 1] % D
        /\ i + 1 > Len(a) => f[i] = w
    BY ONLY Layout(a, d, r, w), i \in 0 .. Capacity, PositionOnLine
  <2>. HIDE DEF f, n, D
  <2>. QED BY <1>0, <2>2
<1>. HIDE DEF f, n, D
<1>2. f[n] = w
  BY <1>0, <1>1
<1>3. \A k \in 0 .. n - 1 : f[k] # w
  <2>1. TAKE k \in 0 .. n - 1
  <2>2. k \in 0 .. Capacity /\ k <= n /\ k + 1 \in 1 .. n
    BY <1>0
  <2>. QED BY <1>0, <1>1, <2>2
<1>4. CountOf(f, w) = n
  <2>. DEFINE P(m) == /\ m <= Capacity => f[m] = w
                      /\ \A k \in 0 .. m - 1 : f[k] # w
  <2>1. n \in 0 .. Capacity + 1 /\ P(n)
    BY <1>0, <1>2, <1>3
  <2>2. ASSUME NEW m \in 0 .. Capacity + 1, P(m) PROVE m = n
    <3>1. ~(m < n)
      <4>1. SUFFICES ASSUME m < n PROVE FALSE
        OBVIOUS
      <4>2. m \in 0 .. n - 1 /\ m <= Capacity
        BY <1>0, <4>1
      <4>. QED BY <1>3, <2>2, <4>2
    <3>2. ~(n < m)
      <4>1. SUFFICES ASSUME n < m PROVE FALSE
        OBVIOUS
      <4>2. n \in 0 .. m - 1
        BY <1>0, <4>1
      <4>. QED BY <1>2, <2>2, <4>2
    <3>. QED BY <1>0, <3>1, <3>2
  <2>3. CountOf(f, w) = CHOOSE m \in 0 .. Capacity + 1 : P(m)
    BY DEF CountOf
  <2>. HIDE DEF P
  <2>4. (CHOOSE m \in 0 .. Capacity + 1 : P(m)) \in 0 .. Capacity + 1 /\ P(CHOOSE m \in 0 .. Capacity + 1 : P(m))
    BY <2>1
  <2>. QED BY <2>2, <2>3, <2>4
<1>5. ASSUME NEW i \in 1 .. n
      PROVE  f[i - 1] % Capacity = a[i] % Capacity
  <2>1. i - 1 \in 0 .. Capacity /\ i - 1 <= n /\ (i - 1) + 1 = i
    BY <1>0
  <2>2. f[i - 1] = a[i] % D
    BY <1>1, <2>1
  <2>3. (a[i] % D) % Capacity = a[i] % Capacity
    BY <1>0, ModTwice DEF D
  <2>. QED BY <2>2, <2>3
<1>6. StoredOf(f, w, d) = [i \in 1 .. n |-> SliceOf(d, (f[i - 1] % Capacity) + SizeBytes,
                                                   d[f[i - 1] % Capacity].value)]
  BY <1>4 DEF StoredOf
<1>7. Contents(a, d) = [i \in 1 .. n |-> SliceOf(d, (a[i] % Capacity) + SizeBytes,
                                                d[a[i] % Capacity].value)]
  BY DEF Contents, SizeIn, n
<1>. QED BY <1>5, <1>6, <1>7 DEF f

\* The indices of a layout are indices, with Room bytes to the end of the array.
LEMMA LayoutIndex ==
  ASSUME NEW a, NEW d, NEW r, NEW w, Layout(a, d, r, w)
  PROVE  /\ r \in Index /\ w \in Index /\ UsedBytes(w, r) \in 0 .. Capacity
         /\ r % Capacity \in Nat /\ (r % Capacity) + Room <= Capacity
         /\ w % Capacity \in Nat /\ (w % Capacity) + Room <= Capacity
<1>. DEFINE x == a[1]  y == a[Len(a)]  D == 2 * Capacity
<1>1. /\ x \in Nat /\ y \in Nat /\ x <= y /\ y <= x + Capacity /\ UsedBytes(w, r) = y - x
      /\ r % Capacity = x % Capacity /\ w % Capacity = y % Capacity
      /\ r = x % D /\ w = y % D
      /\ (x % Capacity) + Room <= Capacity /\ (y % Capacity) + Room <= Capacity
  <2>1. 1 \in 1 .. Len(a) /\ Len(a) \in 1 .. Len(a)
    BY DEF Layout
  <2>2. /\ UsedBytes(w, r) = y - x /\ y <= x + Capacity
        /\ r % Capacity = x % Capacity /\ w % Capacity = y % Capacity
        /\ \A i \in 1 .. Len(a) : a[i] \in Nat /\ a[1] <= a[i] /\ a[i] <= a[Len(a)]
    BY ONLY Layout(a, d, r, w), LayoutFacts
  <2>3. /\ r = x % D /\ w = y % D
        /\ \A i \in 1 .. Len(a) : (a[i] % Capacity) + Room <= Capacity
    BY DEF Layout
  <2>4. /\ x \in Nat /\ y \in Nat /\ x <= y
        /\ (x % Capacity) + Room <= Capacity /\ (y % Capacity) + Room <= Capacity
    BY ONLY <2>1, <2>2, <2>3
  <2>. QED BY ONLY <2>2, <2>3, <2>4
<1>2. D \in Nat \ {0} /\ Capacity \in Nat
  BY QueueConstants
<1>. HIDE DEF x, y
<1>3. x \in Int /\ y \in Int
  BY <1>1
<1>4. x % D \in 0 .. D - 1 /\ y % D \in 0 .. D - 1
  <2>. HIDE DEF D
  <2>. QED BY ONLY <1>2, <1>3, DivMod
<1>5. x % Capacity \in Nat /\ y % Capacity \in Nat
  BY ONLY <1>3, ModIndex
<1>6. y - x \in 0 .. Capacity
  BY ONLY <1>1, <1>2
<1>. QED BY <1>1, <1>4, <1>5, <1>6 DEF Index

\* A slice does not wrap around.
LEMMA SliceFlat ==
  ASSUME NEW d, NEW v \in Nat, v + Room <= Capacity, NEW s \in Sizes
  PROVE  SliceOf(d, v + SizeBytes, s) = [k \in 1 .. s |-> d[v + SizeBytes + k - 1]]
<1>1. ASSUME NEW k \in 1 .. s PROVE (v + SizeBytes + k - 1) % Capacity = v + SizeBytes + k - 1
  <2>. DEFINE m == v + SizeBytes + k - 1
  <2>1. m \in Int /\ m \in 0 .. Capacity - 1 /\ Capacity \in Nat \ {0}
    BY QueueConstants DEF Sizes
  <2>. HIDE DEF m
  <2>2. m % Capacity = m
    BY ONLY <2>1, ModSmall
  <2>. QED BY <2>2 DEF m
<1>. QED BY <1>1 DEF SliceOf

\* Writing in front of the writer's index changes nothing the reader will get.
LEMMA ContentsWritten ==
  ASSUME NEW a, NEW d, NEW e, NEW r, NEW w, Layout(a, d, r, w),
         UsedBytes(w, r) + Room <= Capacity,
         Spares(d, e, w)
  PROVE  Contents(a, e) = Contents(a, d)
<1>1. SameSlices(a, d, e)
  BY LayoutWritten
<1>2. ASSUME NEW i \in 1 .. Len(a) - 1
      PROVE  SliceOf(e, (a[i] % Capacity) + SizeBytes, SizeIn(e, a[i]))
               = SliceOf(d, (a[i] % Capacity) + SizeBytes, SizeIn(d, a[i]))
  <2>. DEFINE v == a[i] % Capacity  s == SizeIn(d, a[i])
  <2>1. a \in Seq(Nat) /\ s \in Sizes /\ Len(a) \in Nat
    BY ONLY Layout(a, d, r, w), i \in 1 .. Len(a) - 1 DEF Layout
  <2>2. i \in 1 .. Len(a)
    BY <2>1
  <2>3. a[i] \in Int /\ v + Room <= Capacity
    <3>1. a[i] \in Nat
      BY ONLY <2>1, <2>2
    <3>2. v + Room <= Capacity
      BY ONLY Layout(a, d, r, w), <2>2 DEF Layout
    <3>. QED BY <3>1, <3>2
  <2>4. v \in Nat
    BY ONLY <2>3, ModIndex
  <2>. HIDE DEF v, s
  <2>5. \A m \in 0 .. SizeBytes + s - 1 : e[v + m] = d[v + m]
    BY <1>1 DEF v, s, SameSlices
  <2>6. ASSUME NEW k \in 1 .. s PROVE e[v + SizeBytes + k - 1] = d[v + SizeBytes + k - 1]
    <3>1. SizeBytes + k - 1 \in 0 .. SizeBytes + s - 1 /\ v + (SizeBytes + k - 1) = v + SizeBytes + k - 1
      BY <2>1, <2>4, QueueConstants DEF Sizes
    <3>. QED BY <2>5, <3>1
  <2>7. SliceOf(e, v + SizeBytes, s) = SliceOf(d, v + SizeBytes, s)
    <3>0. v + Room <= Capacity /\ s \in Sizes
      BY <2>1, <2>3
    <3>1. SliceOf(e, v + SizeBytes, s) = [k \in 1 .. s |-> e[v + SizeBytes + k - 1]]
      BY ONLY <2>4, <3>0, SliceFlat, ZenonT(60)
    <3>2. SliceOf(d, v + SizeBytes, s) = [k \in 1 .. s |-> d[v + SizeBytes + k - 1]]
      BY ONLY <2>4, <3>0, SliceFlat, ZenonT(60)
    <3>. QED BY <2>6, <3>1, <3>2
  <2>8. SizeIn(e, a[i]) = s
    BY <1>1 DEF s, SameSlices
  <2>. QED BY <2>7, <2>8 DEF v, s
<1>. QED BY <1>2 DEF Contents

\* Steps that change neither the indices nor the array.
LEMMA QuietSteps ==
  ASSUME QueueInv,
         \/ \E size \in 0 .. MaxElement + 1 : Allocate(size)
         \/ ResetMinAvailable \/ Peek \/ UNCHANGED vars
  PROVE  QueueInv' /\ Stored' = Stored
<1>. USE DEF QueueInv
<1>0. UNCHANGED <<sent, received, data, committing>>
  BY DEF Allocate, ResetMinAvailable, Peek, vars, writerVars
<1>1. Stored' = Stored
  BY <1>0, StoredDef
<1>2. LayoutInv'
  BY <1>0 DEF LayoutInv
<1>3. PICK a : Layout(a, data, received, sent)
  BY DEF LayoutInv
<1>4. /\ UsedBytes(sent, received) \in 0 .. Capacity
      /\ received % Capacity \in Nat /\ (received % Capacity) + Room <= Capacity
  BY ONLY <1>3, LayoutIndex
<1>5. Available(sent, received) \in 0 .. Capacity
  BY <1>4, QueueConstants DEF Available
<1>6. Available(sent, received) > 0 => UsedBytes(sent, received) + Room <= Capacity
  BY <1>4, QueueConstants DEF Available
<1>7. CASE \E size \in 0 .. MaxElement + 1 : Allocate(size)
  <2>1. PICK size \in 0 .. MaxElement + 1 : Allocate(size)
    BY <1>7
  <2>. DEFINE free == Available(sent, received)  granted == size \in Sizes /\ free > 0
  <2>2. /\ ~committing /\ span' = span
        /\ minAvailable' = free \/ minAvailable' = minAvailable
        /\ granted => allocated' = size /\ (filled' = Blank \/ (size <= allocated /\ filled' = filled))
        /\ ~granted => allocated' = 0 /\ filled' = Blank
    BY <2>1 DEF Allocate
  <2>3. TypeOK'
    <3>1. allocated' \in 0 .. MaxElement
      BY <2>2, QueueConstants DEF Sizes
    <3>2. filled' \in Tags \cup {Blank}
      BY <2>2 DEF TypeOK
    <3>. QED BY <1>0, <1>5, <2>2, <3>1, <3>2 DEF TypeOK
  <2>4. WriterInv'
    <3>1. (allocated' > 0)  => UsedBytes(sent', received') + Room <= Capacity
      BY <1>0, <1>6, <2>2
    <3>2. ASSUME allocated' > 0, filled' # Blank
          PROVE  size <= allocated /\ filled' = filled /\ allocated' = size /\ allocated > 0 /\ filled # Blank
      <4>1. granted
        BY <2>2, <3>2
      <4>. QED BY <2>2, <3>2, <4>1 DEF Sizes, TypeOK
    <3>3. ASSUME allocated' > 0, filled' # Blank, NEW k \in 1 .. allocated'
          PROVE  data'[(sent' % Capacity) + SizeBytes + k - 1] = [tag |-> filled', value |-> k]
      <4>1. k \in 1 .. allocated
        BY <3>2, <3>3 DEF TypeOK
      <4>. QED BY <1>0, <3>2, <3>3, <4>1 DEF WriterInv
    <3>4. ~committing'
      BY <1>0, <2>2
    <3>. QED BY <3>1, <3>3, <3>4 DEF WriterInv
  <2>5. ReaderInv'
    BY <1>0, <2>2 DEF ReaderInv, Empty, SizeAt
  <2>. QED BY <1>1, <1>2, <2>3, <2>4, <2>5
<1>8. CASE ResetMinAvailable
  <2>1. UNCHANGED <<allocated, filled, span>> /\ minAvailable' = Available(sent, received)
    BY <1>8 DEF ResetMinAvailable
  <2>2. TypeOK'
    BY <1>0, <1>5, <2>1 DEF TypeOK
  <2>3. WriterInv' /\ ReaderInv'
    BY <1>0, <2>1 DEF WriterInv, ReaderInv, Empty, SizeAt
  <2>. QED BY <1>1, <1>2, <2>2, <2>3
<1>9. CASE Peek
  <2>1. /\ UNCHANGED <<allocated, filled, minAvailable>> /\ ~Empty
        /\ span' = [index |-> ((received % Capacity) + SizeBytes) % Capacity, size |-> SizeAt(received)]
    BY <1>9 DEF Peek, writerVars
  <2>2. SizeAt(received) \in 0 .. MaxElement
    <3>1. received % Capacity \in 0 .. Capacity - 1
      BY <1>4, QueueConstants
    <3>. QED BY <3>1 DEF SizeAt, TypeOK, Byte
  <2>3. ((received % Capacity) + SizeBytes) % Capacity \in 0 .. Capacity - 1
    <3>1. (received % Capacity) + SizeBytes \in Int
      BY <1>4, QueueConstants
    <3>. QED BY ONLY <3>1, ModIndex
  <2>4. TypeOK'
    BY <1>0, <2>1, <2>2, <2>3 DEF TypeOK
  <2>5. WriterInv' /\ ReaderInv'
    BY <1>0, <2>1 DEF WriterInv, ReaderInv, Empty, SizeAt
  <2>. QED BY <1>1, <1>2, <2>4, <2>5
<1>10. CASE UNCHANGED vars
  <2>1. UNCHANGED <<allocated, filled, minAvailable, span>>
    BY <1>10 DEF vars, writerVars
  <2>2. TypeOK' /\ WriterInv' /\ ReaderInv'
    BY <1>0, <2>1 DEF TypeOK, WriterInv, ReaderInv, Empty, SizeAt
  <2>. QED BY <1>1, <1>2, <2>2
<1>. QED BY <1>7, <1>8, <1>9, <1>10

\* The steps that write to the array: the user's bytes and the size.
LEMMA WritingSteps ==
  ASSUME QueueInv, (\E tag \in Tags : Fill(tag)) \/ CommitSize
  PROVE  QueueInv' /\ Stored' = Stored
<1>. USE DEF QueueInv
<1>. DEFINE u == sent % Capacity
<1>0. UNCHANGED <<sent, received, allocated, minAvailable, span>> /\ allocated > 0 /\ ~committing
  BY DEF Fill, CommitSize
<1>1. PICK a : Layout(a, data, received, sent)
  BY DEF LayoutInv
<1>2. /\ u \in Nat /\ u + Room <= Capacity
      /\ UsedBytes(sent, received) + Room <= Capacity
  <2>1. u \in Nat /\ u + Room <= Capacity
    BY ONLY <1>1, LayoutIndex
  <2>. QED BY <1>0, <2>1 DEF WriterInv
<1>3. /\ allocated \in Nat /\ allocated <= MaxElement /\ allocated \in Sizes
      /\ data \in [0 .. Capacity - 1 -> Byte]
  BY <1>0, QueueConstants DEF TypeOK, Sizes
<1>4. ASSUME data' \in [0 .. Capacity - 1 -> Byte], Spares(data, data', sent)
      PROVE  /\ Stored' = Stored /\ LayoutInv' /\ ReaderInv'
  <2>1. Layout(a, data', received, sent) /\ SameSlices(a, data, data')
    BY ONLY <1>1, <1>2, <1>4, LayoutWritten
  <2>2. Contents(a, data') = Contents(a, data)
    BY ONLY <1>1, <1>2, <1>4, ContentsWritten
  <2>3. /\ StoredOf(PositionOf(received, sent, data), sent, data) = Contents(a, data)
        /\ StoredOf(PositionOf(received, sent, data'), sent, data') = Contents(a, data')
    BY ONLY <1>1, <2>1, StoredOnLine
  <2>4. Stored' = Stored
    BY <1>0, <2>2, <2>3, StoredDef
  <2>5. LayoutInv'
    BY <1>0, <2>1 DEF LayoutInv
  <2>6. ~Empty => SizeAt(received)' = SizeAt(received)
    <3>1. SUFFICES ASSUME received # sent PROVE data'[received % Capacity].value = data[received % Capacity].value
      BY <1>0 DEF Empty, SizeAt
    <3>2. Len(a) > 1 /\ Len(a) \in Nat /\ received % Capacity = a[1] % Capacity
      <4>1. Len(a) \in Nat /\ (Len(a) = 1 <=> received = sent) /\ received % Capacity = a[1] % Capacity
        BY ONLY <1>1, LayoutFacts
      <4>2. Len(a) >= 1
        BY <1>1 DEF Layout
      <4>3. Len(a) # 1
        BY <3>1, <4>1
      <4>. DEFINE l == Len(a)
      <4>0. l \in Nat /\ l >= 1 /\ l # 1
        BY <4>1, <4>2, <4>3
      <4>. HIDE DEF l
      <4>4. l > 1
        BY ONLY <4>0
      <4>. QED BY <4>1, <4>4 DEF l
    <3>3. 1 \in 1 .. Len(a) - 1
      BY <3>2
    <3>4. SizeIn(data', a[1]) = SizeIn(data, a[1])
      BY <2>1, <3>3 DEF SameSlices
    <3>. QED BY <3>2, <3>4 DEF SizeIn
  <2>7. ReaderInv'
    BY <1>0, <2>6 DEF ReaderInv, Empty
  <2>. QED BY <2>4, <2>5, <2>7
<1>5. CASE \E tag \in Tags : Fill(tag)
  <2>1. PICK tag \in Tags : Fill(tag)
    BY <1>5
  <2>. DEFINE first == u + SizeBytes
  <2>2. /\ filled' = tag /\ committing' = committing
        /\ data' = [k \in DOMAIN data |-> IF k \in first .. first + allocated - 1
                                          THEN [tag |-> tag, value |-> k - first + 1] ELSE data[k]]
    BY <2>1 DEF Fill
  <2>. HIDE DEF u
  <2>3. first \in Nat /\ \A k \in first .. first + allocated - 1 : k - first + 1 \in 0 .. MaxElement
    BY <1>2, <1>3, QueueConstants
  <2>4. data' \in [0 .. Capacity - 1 -> Byte]
    <3>. HIDE DEF first
    <3>1. \A k \in first .. first + allocated - 1 : [tag |-> tag, value |-> k - first + 1] \in Byte
      BY <2>3 DEF Byte
    <3>. QED BY <1>3, <2>2, <3>1
  <2>5. Spares(data, data', sent)
    <3>1. SUFFICES ASSUME NEW k \in 0 .. Capacity - 1, k < u \/ k >= u + Room
                   PROVE  data'[k] = data[k]
      BY DEF Spares, u
    <3>2. k \notin first .. first + allocated - 1
      BY <1>2, <1>3, <3>1, QueueConstants
    <3>. HIDE DEF first
    <3>. QED BY <1>3, <2>2, <3>2
  <2>6. Stored' = Stored /\ LayoutInv' /\ ReaderInv'
    BY <1>4, <2>4, <2>5
  <2>7. TypeOK'
    BY <1>0, <2>2, <2>4 DEF TypeOK
  <2>8. WriterInv'
    <3>1. ASSUME NEW k \in 1 .. allocated PROVE data'[u + SizeBytes + k - 1] = [tag |-> tag, value |-> k]
      <4>. DEFINE i == first + k - 1
      <4>1. i \in 0 .. Capacity - 1 /\ i \in first .. first + allocated - 1 /\ i - first + 1 = k
        BY <1>2, <1>3, <2>3, QueueConstants
      <4>2. i = u + SizeBytes + k - 1
        OBVIOUS
      <4>. HIDE DEF first, i
      <4>3. data'[i] = [tag |-> tag, value |-> i - first + 1]
        BY <1>3, <2>2, <4>1
      <4>. QED BY <4>1, <4>2, <4>3
    <3>. QED BY <1>0, <1>2, <2>2, <3>1 DEF WriterInv, u
  <2>. QED BY <2>6, <2>7, <2>8
<1>6. CASE CommitSize
  <2>1. /\ committing' = TRUE /\ filled' = filled /\ filled # Blank
        /\ data' = [k \in DOMAIN data |-> IF k \in u .. u + SizeBytes - 1
                                          THEN [tag |-> Blank, value |-> allocated] ELSE data[k]]
    BY <1>6 DEF CommitSize
  <2>. HIDE DEF u
  <2>2. data' \in [0 .. Capacity - 1 -> Byte]
    <3>1. [tag |-> Blank, value |-> allocated] \in Byte
      BY <1>3, QueueConstants DEF Byte
    <3>. QED BY <1>3, <2>1, <3>1
  <2>3. Spares(data, data', sent)
    <3>1. SUFFICES ASSUME NEW k \in 0 .. Capacity - 1, k < u \/ k >= u + Room
                   PROVE  data'[k] = data[k]
      BY DEF Spares, u
    <3>2. k \notin u .. u + SizeBytes - 1
      BY <1>2, <3>1, QueueConstants
    <3>. QED BY <1>3, <2>1, <3>2
  <2>4. Stored' = Stored /\ LayoutInv' /\ ReaderInv'
    BY <1>4, <2>2, <2>3
  <2>5. TypeOK'
    BY <1>0, <2>1, <2>2 DEF TypeOK
  <2>6. WriterInv'
    <3>1. ASSUME NEW k \in 1 .. allocated
          PROVE  data'[u + SizeBytes + k - 1] = [tag |-> filled, value |-> k]
      <4>. DEFINE i == u + SizeBytes + k - 1
      <4>1. i \in 0 .. Capacity - 1 /\ i \notin u .. u + SizeBytes - 1
        BY <1>2, <1>3, QueueConstants
      <4>2. data[i] = [tag |-> filled, value |-> k]
        BY <1>0, <2>1 DEF WriterInv, u
      <4>. HIDE DEF i
      <4>3. data'[i] = data[i]
        BY <1>3, <2>1, <4>1
      <4>. QED BY <4>2, <4>3 DEF i
    <3>2. data'[u].value = allocated
      <4>1. u \in 0 .. Capacity - 1 /\ u \in u .. u + SizeBytes - 1
        BY <1>2, QueueConstants
      <4>. QED BY <1>3, <2>1, <4>1
    <3>. QED BY <1>0, <1>2, <2>1, <3>1, <3>2 DEF WriterInv, SizeAt, u
  <2>. QED BY <2>4, <2>5, <2>6
<1>. QED BY <1>5, <1>6

\* commit() publishes the slice: the reader gets the message of the user behind all others.
LEMMA CommitStep ==
  ASSUME QueueInv, CommitIndex
  PROVE  /\ QueueInv' /\ MessageOf(filled, allocated) \in AllMessages
         /\ Stored' = Append(Stored, MessageOf(filled, allocated))
<1>. USE DEF QueueInv
<1>. DEFINE u == sent % Capacity  s == allocated
<1>0. /\ UNCHANGED <<received, data, minAvailable, span>> /\ committing
      /\ committing' = FALSE /\ sent' = AdvanceIndex(sent, s) /\ allocated' = 0 /\ filled' = Blank
  BY DEF CommitIndex
<1>1. PICK a : Layout(a, data, received, sent)
  BY DEF LayoutInv
<1>2. /\ s > 0 /\ filled # Blank /\ data[u].value = s
      /\ UsedBytes(sent, received) + Room <= Capacity
      /\ \A k \in 1 .. s : data[u + SizeBytes + k - 1] = [tag |-> filled, value |-> k]
  BY <1>0 DEF WriterInv, SizeAt
<1>3. s \in Sizes /\ filled \in Tags
  BY <1>2, QueueConstants DEF TypeOK, Sizes
<1>. DEFINE b == a[Len(a)]  m == Append(a, After(b, s))
<1>4. u = b % Capacity /\ u \in Nat /\ u + Room <= Capacity
  <2>1. u = b % Capacity
    BY ONLY <1>1, LayoutFacts
  <2>2. u \in Nat /\ u + Room <= Capacity
    BY ONLY <1>1, LayoutIndex
  <2>. QED BY ONLY <2>1, <2>2
<1>5. SizeIn(data, b) = s
  BY <1>2, <1>4 DEF SizeIn
<1>6. Layout(m, data, received, AdvanceIndex(sent, s))
  BY ONLY <1>1, <1>2, <1>3, <1>5, LayoutCommitted
<1>7. /\ Stored = Contents(a, data) /\ Stored' = Contents(m, data)
  <2>1. /\ StoredOf(PositionOf(received, sent, data), sent, data) = Contents(a, data)
    BY ONLY <1>1, StoredOnLine
  <2>. DEFINE w == AdvanceIndex(sent, s)
  <2>. HIDE DEF w, m
  <2>2. Layout(m, data, received, w)
    BY <1>6 DEF w
  <2>3. StoredOf(PositionOf(received, w, data), w, data) = Contents(m, data)
    BY ONLY <2>2, StoredOnLine
  <2>4. sent' = w
    BY <1>0 DEF w
  <2>. QED BY <1>0, <2>1, <2>3, <2>4, StoredDef
<1>8. /\ a \in Seq(Nat) /\ Len(a) \in Nat /\ Len(a) >= 1 /\ m \in Seq(Nat) /\ Len(m) = Len(a) + 1
      /\ \A i \in 1 .. Len(a) : m[i] = a[i]
  <2>1. a \in Seq(Nat) /\ Len(a) \in Nat /\ Len(a) >= 1
    BY <1>1 DEF Layout
  <2>2. b \in Nat
    BY <2>1
  <2>3. After(b, s) \in Nat
    BY ONLY <1>3, <2>2, AfterFacts
  <2>. QED BY ONLY <2>1, <2>3, AppendProperties
<1>9. SliceOf(data, u + SizeBytes, s) = MessageOf(filled, s)
  <2>. HIDE DEF u
  <2>1. SliceOf(data, u + SizeBytes, s) = [k \in 1 .. s |-> data[u + SizeBytes + k - 1]]
    BY ONLY <1>3, <1>4, SliceFlat
  <2>2. \A k \in 1 .. s : data[u + SizeBytes + k - 1] = [tag |-> filled, value |-> k]
    BY <1>2
  <2>. QED BY ONLY <2>1, <2>2 DEF MessageOf
<1>. DEFINE n == Len(a) - 1
<1>10. Stored' = Append(Stored, MessageOf(filled, s))
  <2>. DEFINE q(i) == SliceOf(data, (a[i] % Capacity) + SizeBytes, SizeIn(data, a[i]))
  <2>1. Contents(a, data) = [i \in 1 .. n |-> q(i)]
    BY DEF Contents
  <2>2. n \in Nat /\ Len(m) - 1 = n + 1 /\ Len(a) = n + 1
    BY <1>8
  <2>3. Contents(m, data) = [i \in 1 .. n + 1 |-> q(i)]
    <3>1. \A i \in 1 .. n + 1 : m[i] = a[i]
      BY ONLY <1>8, <2>2
    <3>. HIDE DEF m
    <3>2. Contents(m, data) = [i \in 1 .. n + 1 |->
                                 SliceOf(data, (m[i] % Capacity) + SizeBytes, SizeIn(data, m[i]))]
      BY ONLY <2>2 DEF Contents
    <3>. QED BY ONLY <3>1, <3>2
  <2>4. q(n + 1) = MessageOf(filled, s)
    <3>1. a[n + 1] = b
      BY <2>2
    <3>. QED BY <1>4, <1>5, <1>9, <3>1
  <2>. HIDE DEF q, n, m
  <2>5. Append([i \in 1 .. n |-> q(i)], MessageOf(filled, s)) = [i \in 1 .. n + 1 |-> q(i)]
    <3>. DEFINE f == [i \in 1 .. n |-> q(i)]  msg == MessageOf(filled, s)
                S == {q(i) : i \in 1 .. n + 1}
    <3>1. f \in Seq(S) /\ Len(f) = n
      <4>1. n \in Nat
        BY <2>2
      <4>2. f \in [1 .. n -> S]
        BY <4>1
      <4>. HIDE DEF f, S
      <4>. QED BY ONLY <4>1, <4>2
    <3>2. msg \in S
      BY <2>2, <2>4
    <3>. HIDE DEF msg, S
    <3>3. /\ Append(f, msg) \in Seq(S) /\ Len(Append(f, msg)) = n + 1
          /\ \A i \in 1 .. n : Append(f, msg)[i] = f[i]
          /\ Append(f, msg)[n + 1] = msg
      <4>. HIDE DEF f
      <4>. QED BY ONLY <3>1, <3>2, AppendProperties
    <3>4. \A i \in 1 .. n + 1 : Append(f, msg)[i] = q(i)
      <4>1. \A i \in 1 .. n + 1 : i \in 1 .. n \/ i = n + 1
        BY <2>2
      <4>. QED BY <2>4, <3>3, <4>1 DEF msg
    <3>. QED BY <2>2, <3>3, <3>4 DEF msg
  <2>. QED BY <1>7, <2>1, <2>3, <2>5
<1>11. TypeOK'
  <2>1. AdvanceIndex(sent, s) \in Index
    BY ONLY <1>6, LayoutIndex
  <2>2. 0 \in 0 .. MaxElement
    BY QueueConstants
  <2>3. committing' \in BOOLEAN
    BY <1>0, Zenon
  <2>. HIDE DEF s
  <2>. QED BY <1>0, <2>1, <2>2, <2>3 DEF TypeOK
<1>12. LayoutInv'
  BY <1>0, <1>6 DEF LayoutInv
<1>13. WriterInv'
  BY <1>0 DEF WriterInv
<1>14. ReaderInv'
  <2>1. received # sent => received # AdvanceIndex(sent, s)
    <3>1. Len(m) # 1
      BY <1>8
    <3>. HIDE DEF m
    <3>2. Len(m) = 1 <=> received = AdvanceIndex(sent, s)
      BY ONLY <1>6, LayoutFacts
    <3>. QED BY <3>1, <3>2
  <2>. QED BY <1>0, <2>1 DEF ReaderInv, Empty, SizeAt
<1>15. MessageOf(filled, allocated) \in AllMessages
  BY <1>3 DEF AllMessages
<1>. QED BY <1>10, <1>11, <1>12, <1>13, <1>14, <1>15

\* The tail of a list given index by index.
LEMMA TailOfList ==
  ASSUME NEW n \in Nat, n >= 1, NEW f, f = [i \in 1 .. n |-> f[i]]
  PROVE  f # <<>> /\ Tail(f) = [i \in 1 .. n - 1 |-> f[i + 1]]
<1>. DEFINE S == {f[i] : i \in 1 .. n}
<1>1. f \in [1 .. n -> S]
  <2>1. \A i \in 1 .. n : f[i] \in S
    OBVIOUS
  <2>. HIDE DEF S
  <2>. QED BY <2>1
<1>. HIDE DEF S
<1>2. f \in Seq(S) /\ Len(f) = n
  BY ONLY <1>1, n \in Nat
<1>3. f # <<>>
  BY <1>2
<1>4. /\ Tail(f) \in Seq(S) /\ Len(Tail(f)) = n - 1
      /\ \A i \in 1 .. n - 1 : Tail(f)[i] = f[i + 1]
  BY ONLY <1>2, <1>3, HeadTailProperties
<1>. DEFINE g == Tail(f)  k == n - 1
<1>5. g \in Seq(S) /\ Len(g) = k /\ \A i \in 1 .. k : g[i] = f[i + 1]
  BY <1>4
<1>. HIDE DEF g, k
<1>6. g = [i \in 1 .. k |-> g[i]]
  BY ONLY <1>5
<1>7. g = [i \in 1 .. k |-> f[i + 1]]
  BY ONLY <1>5, <1>6
<1>. QED BY <1>3, <1>7 DEF g, k

\* release() gives the first slice back, and only that.
LEMMA ReleaseStep ==
  ASSUME QueueInv, Release
  PROVE  QueueInv' /\ Stored # <<>> /\ Stored' = Tail(Stored)
<1>. USE DEF QueueInv
<1>. DEFINE r == AdvanceIndex(received, data[received % Capacity].value)
<1>0. /\ UNCHANGED <<sent, allocated, minAvailable, filled, committing, data>>
      /\ received # sent /\ received' = r /\ span' = NoSpan
  BY DEF Release, writerVars, Empty, SizeAt
<1>1. PICK a : Layout(a, data, received, sent)
  BY DEF LayoutInv
<1>. DEFINE m == Tail(a)  n == Len(a) - 1
<1>2. Len(a) > 1 /\ Layout(m, data, r, sent)
  BY ONLY <1>0, <1>1, LayoutReleased
<1>3. a \in Seq(Nat) /\ Len(a) \in Nat
  BY <1>1 DEF Layout
<1>4. /\ Len(m) = n /\ n \in Nat /\ n >= 1 /\ \A i \in 1 .. n : m[i] = a[i + 1]
  BY ONLY <1>2, <1>3, HeadTailProperties
<1>. HIDE DEF r, m
<1>5. Stored = Contents(a, data) /\ Stored' = Contents(m, data)
  <2>1. StoredOf(PositionOf(received, sent, data), sent, data) = Contents(a, data)
    BY ONLY <1>1, StoredOnLine
  <2>2. StoredOf(PositionOf(r, sent, data), sent, data) = Contents(m, data)
    BY ONLY <1>2, StoredOnLine
  <2>. QED BY <1>0, <2>1, <2>2, StoredDef
<1>6. Stored # <<>> /\ Stored' = Tail(Stored)
  <2>. DEFINE q(i) == SliceOf(data, (a[i] % Capacity) + SizeBytes, SizeIn(data, a[i]))
              f == [i \in 1 .. n |-> q(i)]
  <2>1. Contents(a, data) = f
    BY DEF Contents
  <2>2. Contents(m, data) = [i \in 1 .. n - 1 |-> q(i + 1)]
    <3>1. \A i \in 1 .. n - 1 : m[i] = a[i + 1]
      BY ONLY <1>4
    <3>2. Contents(m, data) = [i \in 1 .. n - 1 |->
                                 SliceOf(data, (m[i] % Capacity) + SizeBytes, SizeIn(data, m[i]))]
      BY ONLY <1>4 DEF Contents
    <3>. QED BY ONLY <3>1, <3>2
  <2>. HIDE DEF q, n
  <2>3. f # <<>> /\ Tail(f) = [i \in 1 .. n - 1 |-> q(i + 1)]
    <3>1. n \in Nat /\ n >= 1
      BY <1>4
    <3>2. f = [i \in 1 .. n |-> f[i]]
      OBVIOUS
    <3>3. \A i \in 1 .. n - 1 : f[i + 1] = q(i + 1)
      <4>1. \A i \in 1 .. n - 1 : i + 1 \in 1 .. n
        BY <3>1
      <4>. QED BY <4>1
    <3>. HIDE DEF f
    <3>4. f # <<>> /\ Tail(f) = [i \in 1 .. n - 1 |-> f[i + 1]]
      BY ONLY <3>1, <3>2, TailOfList
    <3>. QED BY ONLY <3>3, <3>4
  <2>. QED BY <1>5, <2>1, <2>2, <2>3
<1>7. TypeOK'
  <2>1. r \in Index
    BY ONLY <1>2, LayoutIndex
  <2>2. NoSpan \in [index : 0 .. Capacity - 1, size : 0 .. MaxElement]
    BY QueueConstants DEF NoSpan
  <2>. QED BY <1>0, <2>1, <2>2 DEF TypeOK
<1>8. LayoutInv'
  BY <1>0, <1>2 DEF LayoutInv
<1>9. WriterInv'
  <2>1. UsedBytes(sent, received) + Room <= Capacity => UsedBytes(sent, r) + Room <= Capacity
    <3>. DEFINE x == a[1]  y == a[2]  z == a[Len(a)]
    <3>1. 1 \in 1 .. Len(a) /\ 2 \in 1 .. Len(a) /\ Len(a) \in 1 .. Len(a)
      BY ONLY <1>2, <1>3
    <3>2. /\ UsedBytes(sent, received) = z - x
          /\ \A i \in 1 .. Len(a) : a[i] \in Nat /\ a[1] <= a[i] /\ a[i] <= a[Len(a)]
      BY ONLY <1>1, LayoutFacts
    <3>3. x \in Nat /\ y \in Nat /\ z \in Nat /\ x <= y /\ y <= z
      BY ONLY <3>1, <3>2
    <3>4. UsedBytes(sent, r) = m[Len(m)] - m[1]
      BY ONLY <1>2, LayoutFacts
    <3>5. m[Len(m)] = z /\ m[1] = y
      <4>1. n \in 1 .. n /\ 1 \in 1 .. n /\ n + 1 = Len(a) /\ 1 + 1 = 2
        BY ONLY <1>3, <1>4
      <4>. QED BY ONLY <1>4, <4>1
    <3>. HIDE DEF x, y, z
    <3>. QED BY ONLY <3>2, <3>3, <3>4, <3>5, QueueConstants
  <2>. QED BY <1>0, <2>1 DEF WriterInv, SizeAt
<1>10. ReaderInv'
  BY <1>0 DEF ReaderInv
<1>. QED BY <1>6, <1>7, <1>8, <1>9, <1>10

\* At the start there is one place, 0, and nothing stored.
LEMMA QueueStart ==
  ASSUME Init PROVE QueueInv /\ Stored = <<>>
<1>. DEFINE a == <<0>>
<1>1. sent = 0 /\ received = 0
  BY DEF Init
<1>2. Layout(a, data, 0, 0)
  <2>1. a \in Seq(Nat) /\ Len(a) = 1 /\ a[1] = 0
    OBVIOUS
  <2>2. 0 % (2 * Capacity) = 0 /\ 0 % Capacity = 0 /\ 0 + Room <= Capacity /\ 0 <= 0 + Capacity
    <3>1. /\ 2 * Capacity \in Nat \ {0} /\ Capacity \in Nat \ {0} /\ 0 \in Int
          /\ 0 \in 0 .. 2 * Capacity - 1 /\ 0 \in 0 .. Capacity - 1
      BY QueueConstants
    <3>2. 0 % Capacity = 0
      BY ONLY <3>1, ModSmall
    <3>. DEFINE D == 2 * Capacity
    <3>. HIDE DEF D
    <3>3. 0 % D = 0
      <4>1. D \in Nat \ {0} /\ 0 \in 0 .. D - 1 /\ 0 \in Int
        BY <3>1 DEF D
      <4>. QED BY ONLY <4>1, ModSmall
    <3>. QED BY <3>2, <3>3, QueueConstants DEF D
  <2>. HIDE DEF a
  <2>3. 1 .. Len(a) = {1} /\ 1 .. Len(a) - 1 = {}
    BY <2>1
  <2>4. \A i \in 1 .. Len(a) : a[i] = 0
    BY <2>1, <2>3
  <2>5. \A i, j \in 1 .. Len(a) : ~(i < j)
    BY <2>3
  <2>. QED BY <2>1, <2>2, <2>3, <2>4, <2>5 DEF Layout
<1>3. Stored = <<>>
  <2>1. StoredOf(PositionOf(0, 0, data), 0, data) = Contents(a, data)
    BY ONLY <1>2, StoredOnLine
  <2>2. Len(a) - 1 = 0
    OBVIOUS
  <2>. HIDE DEF a
  <2>3. Contents(a, data) = <<>>
    <3>1. 1 .. Len(a) - 1 = {}
      BY SMTT(60), <2>2
    <3>. QED BY ONLY <3>1 DEF Contents
  <2>. QED BY <1>1, <2>1, <2>3, StoredDef
<1>4. LayoutInv
  BY <1>1, <1>2 DEF LayoutInv
<1>5. TypeOK
  <2>1. 0 \in Index /\ 0 \in 0 .. MaxElement /\ Capacity \in 0 .. Capacity
    BY QueueConstants DEF Index
  <2>2. data \in [0 .. Capacity - 1 -> Byte]
    BY <2>1 DEF Init, Byte
  <2>3. NoSpan \in [index : 0 .. Capacity - 1, size : 0 .. MaxElement]
    BY QueueConstants DEF NoSpan
  <2>4. committing \in BOOLEAN
    BY Zenon DEF Init
  <2>. QED BY <2>1, <2>2, <2>3, <2>4 DEF Init, TypeOK
<1>6. WriterInv /\ ReaderInv
  BY DEF Init, WriterInv, ReaderInv
<1>. QED BY <1>3, <1>4, <1>5, <1>6 DEF QueueInv

\* What the invariant says of allocations and of a slice that has been peeked.
LEMMA QueueInvImplies ==
  ASSUME QueueInv PROVE AllocationIsFree /\ PeekIsIntact
<1>. USE DEF QueueInv
<1>1. PICK a : Layout(a, data, received, sent)
  BY DEF LayoutInv
<1>2. /\ UsedBytes(sent, received) \in 0 .. Capacity
      /\ received % Capacity \in Nat /\ (received % Capacity) + Room <= Capacity
      /\ sent % Capacity \in Nat /\ (sent % Capacity) + Room <= Capacity
  BY ONLY <1>1, LayoutIndex
<1>3. AllocationIsFree
  <2>1. \A v \in Nat : v + Room <= Capacity => Capacity - v >= Room
    BY QueueConstants
  <2>. QED BY <1>2, <2>1, QueueConstants DEF AllocationIsFree, WriterInv
<1>4. ASSUME span # NoSpan PROVE ~Empty /\ Slice(span.index, span.size) = Stored[1]
  <2>. DEFINE v == received % Capacity  s == SizeAt(received)
  <2>1. ~Empty /\ span.index = (v + SizeBytes) % Capacity /\ span.size = s
    BY <1>4 DEF ReaderInv
  <2>2. (v + SizeBytes) % Capacity = v + SizeBytes
    <3>. DEFINE x == v + SizeBytes
    <3>1. x \in Int /\ x \in 0 .. Capacity - 1 /\ Capacity \in Nat \ {0}
      <4>. HIDE DEF v
      <4>1. v \in Nat /\ v + Room <= Capacity
        BY <1>2 DEF v
      <4>. QED BY ONLY <4>1, QueueConstants DEF x
    <3>. HIDE DEF x
    <3>2. x % Capacity = x
      BY ONLY <3>1, ModSmall
    <3>. QED BY <3>2 DEF x
  <2>3. Stored = Contents(a, data)
    <3>1. StoredOf(PositionOf(received, sent, data), sent, data) = Contents(a, data)
      BY ONLY <1>1, StoredOnLine
    <3>. QED BY <3>1, StoredDef
  <2>4. Len(a) > 1 /\ v = a[1] % Capacity /\ Len(a) \in Nat
    <3>1. Len(a) > 1
      <4>1. received # sent
        BY <2>1 DEF Empty
      <4>. QED BY ONLY <1>1, <4>1, LayoutReleased
    <3>2. v = a[1] % Capacity /\ Len(a) \in Nat
      BY ONLY <1>1, LayoutFacts
    <3>. QED BY ONLY <3>1, <3>2
  <2>5. 1 \in 1 .. Len(a) - 1
    BY <2>4
  <2>6. Stored[1] = SliceOf(data, (a[1] % Capacity) + SizeBytes, SizeIn(data, a[1]))
    BY <2>3, <2>5 DEF Contents
  <2>7. SizeIn(data, a[1]) = s
    BY <2>4 DEF SizeIn, SizeAt
  <2>8. Stored[1] = SliceOf(data, v + SizeBytes, s)
    BY <2>4, <2>6, <2>7
  <2>. QED BY <2>1, <2>2, <2>8 DEF Slice, SliceOf
<1>. QED BY <1>3, <1>4 DEF PeekIsIntact

\* Every step keeps the invariant and is a step of Fifo, or none.
LEMMA QueueSteps ==
  ASSUME QueueInv, [Next]_vars
  PROVE  /\ QueueInv'
         /\ \/ Stored' = Stored
            \/ \E msg \in AllMessages : Stored' = Append(Stored, msg)
            \/ Stored # <<>> /\ Stored' = Tail(Stored)
<1>1. CASE \/ \E size \in 0 .. MaxElement + 1 : Allocate(size)
           \/ ResetMinAvailable \/ Peek \/ UNCHANGED vars
  BY <1>1, QuietSteps
<1>2. CASE (\E tag \in Tags : Fill(tag)) \/ CommitSize
  BY <1>2, WritingSteps
<1>3. CASE CommitIndex
  BY <1>3, CommitStep
<1>4. CASE Release
  BY <1>4, ReleaseStep
<1>. QED BY <1>1, <1>2, <1>3, <1>4 DEF Next

-------------------------------------------------------------------------------
\* The inductive invariant of the queue.
THEOREM QueueInvariant == Spec => []QueueInv
<1>1. Init => QueueInv
  BY QueueStart
<1>2. QueueInv /\ [Next]_vars => QueueInv'
  BY QueueSteps
<1>. QED BY <1>1, <1>2, PTL DEF Spec

\* available(), allocate(), advanceIndex(): an allocation never reaches into what the reader may
\* still read, and no index comes too close to the end of the array, for every capacity.
THEOREM AllocationsAreFree == Spec => []AllocationIsFree
  BY QueueInvariant, QueueInvImplies, PTL

\* peek(): the slice the reader looks at stays as it was committed until it is released,
\* whatever the writer does.
THEOREM PeeksAreIntact == Spec => []PeekIsIntact
  BY QueueInvariant, QueueInvImplies, PTL

\* The queue implements Fifo: commit() appends one whole message, release() takes the first one
\* away, and no other step of either side changes what the reader will get.
THEOREM QueueIsFifo == Spec => ImplementsFifo
<1>1. Init => Abstract!Init
  BY QueueStart DEF Abstract!Init
<1>2. QueueInv /\ [Next]_vars => [Abstract!Next]_Stored
  BY QueueSteps DEF Abstract!Next, Abstract!Commit, Abstract!Release
<1>. QED BY <1>1, <1>2, QueueInvariant, PTL DEF ImplementsFifo, Abstract!Spec, Spec
===============================================================================
