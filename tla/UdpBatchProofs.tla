--------------------------- MODULE UdpBatchProofs ---------------------------
(***************************************************************************)
(* Proofs about UdpBatch, for every length of datagrams, every limit on a  *)
(* group and however many datagrams the kernel merges.                     *)
(*                                                                         *)
(* The inductive invariant says what is where: Queued, that each entry of  *)
(* the receive queue is the datagrams it was merged from, one after the    *)
(* other; Reading, the same of what next() has still to hand out; Grouped  *)
(* and Held, that the group is the packets of the datagrams it holds, all  *)
(* as long as the first but the last.  So the kernel, which cuts a group   *)
(* at multiples of that length, makes exactly those packets of it.         *)
(***************************************************************************)
EXTENDS UdpBatch, SequenceTheorems, FiniteSetTheorems, TLAPS

(***************************************************************************)
(* Arithmetic.                                                             *)
(***************************************************************************)

\* Multiplication by a natural number is monotonic.
LEMMA Monotone ==
    ASSUME NEW a \in Int, NEW b \in Int, NEW s \in Nat, a <= b
    PROVE  a * s <= b * s
  OBVIOUS

\* One factor more or less.
LEMMA OneFactor ==
    ASSUME NEW a \in Int, NEW s \in Nat
    PROVE  (a - 1) * s + s = a * s /\ (a + 1) * s = a * s + s
  OBVIOUS

\* What \div and % are.
LEMMA DivMod ==
    ASSUME NEW a \in Nat, NEW g \in Nat \ {0}
    PROVE  /\ a \div g \in Int
           /\ a % g \in 0 .. g - 1
           /\ a = (a \div g) * g + (a % g)
  OBVIOUS

\* A number between two neighbouring multiples of g has the quotient of the
\* lower one.
LEMMA DivIs ==
    ASSUME NEW g \in Nat \ {0}, NEW n \in Nat, NEW a \in Nat, n * g <= a, a < n * g + g
    PROVE  a \div g = n
<1> DEFINE q == a \div g
<1>1. q \in Int /\ q * g <= a /\ a < q * g + g
  BY DivMod
<1>2. ASSUME q < n PROVE FALSE
  <2>1. (q + 1) * g <= n * g
    BY <1>1, <1>2, Monotone
  <2> QED
    BY <1>1, <2>1, OneFactor
<1>3. ASSUME q > n PROVE FALSE
  <2>1. (n + 1) * g <= q * g
    BY <1>1, <1>3, Monotone
  <2> QED
    BY <1>1, <2>1, OneFactor
<1> QED
  BY <1>1, <1>2, <1>3

\* Where segment j of g bytes starts.  The product is kept out of sight.
At(j, g) == (j - 1) * g

LEMMA AtNat ==
    ASSUME NEW g \in Nat, NEW j \in Nat \ {0}
    PROVE  At(j, g) \in Nat
<1>1. (j - 1) * g \in Nat
  OBVIOUS
<1> QED
  BY <1>1 DEF At

LEMMA AtEnd ==
    ASSUME NEW g \in Nat, NEW j \in Nat \ {0}
    PROVE  j * g = At(j, g) + g
<1>1. j * g = (j - 1) * g + g
  BY OneFactor
<1> QED
  BY <1>1 DEF At

LEMMA AtFirst ==
    ASSUME NEW g \in Nat
    PROVE  At(1, g) = 0
<1>1. (1 - 1) * g = 0
  OBVIOUS
<1> QED
  BY <1>1 DEF At

LEMMA AtNext ==
    ASSUME NEW g \in Nat, NEW j \in Nat \ {0}
    PROVE  At(j + 1, g) = At(j, g) + g
<1>1. (j + 1 - 1) * g = j * g
  OBVIOUS
<1>2. At(j + 1, g) = j * g
  BY <1>1 DEF At
<1> QED
  BY <1>2, AtEnd

LEMMA AtMonotone ==
    ASSUME NEW g \in Nat, NEW i \in Nat \ {0}, NEW j \in Nat \ {0}, i < j
    PROVE  At(i, g) + g <= At(j, g)
<1>1. i * g <= (j - 1) * g
  BY Monotone
<1> QED
  BY <1>1, AtNat, AtEnd DEF At

\* A number from the start of segment n on and before its end has the
\* quotient n - 1.
LEMMA AtDiv ==
    ASSUME NEW g \in Nat \ {0}, NEW n \in Nat \ {0}, NEW a \in Nat,
           At(n, g) <= a, a < At(n, g) + g
    PROVE  a \div g = n - 1
  BY DivIs DEF At

\* A multiple of g that is reached from the start of segment n with at most g
\* bytes is its end.
LEMMA FullSegment ==
    ASSUME NEW g \in Nat \ {0}, NEW n \in Nat \ {0}, NEW r \in 1 .. g,
           (At(n, g) + r) % g = 0
    PROVE  r = g
<1> DEFINE a == At(n, g) + r
<1>1. At(n, g) \in Nat /\ a \in Nat
  <2>1. At(n, g) \in Nat
    BY AtNat
  <2> QED
    BY <2>1
<1> HIDE DEF a
<1>2. a % g = 0
  BY DEF a
<1>3. a = (a \div g) * g
  <2>1. a = (a \div g) * g + (a % g) /\ a \div g \in Int
    BY <1>1, DivMod
  <2> QED
    BY <1>2, <2>1
<1>4. ASSUME r < g PROVE FALSE
  <2>1. At(n, g) <= a /\ a < At(n, g) + g
    BY <1>1, <1>4 DEF a
  <2>2. a \div g = n - 1
    BY <1>1, <2>1, AtDiv
  <2>3. a = At(n, g)
    BY <1>3, <2>2, Zenon DEF At
  <2> QED
    BY <1>1, <2>3 DEF a
<1> QED
  BY <1>4

\* How many segments of g bytes there are in n - 1 full ones and a last one.
LEMMA SegmentCount ==
    ASSUME NEW g \in Nat \ {0}, NEW n \in Nat \ {0}, NEW r \in 1 .. g, NEW a \in Nat,
           a = At(n, g) + r
    PROVE  (a + g - 1) \div g = n
<1> DEFINE m == n + 1
           c == a + g - 1
<1>1. m \in Nat \ {0} /\ c \in Nat /\ m - 1 = n
  OBVIOUS
<1>2. At(m, g) = At(n, g) + g /\ At(n, g) \in Nat
  BY AtNat, AtNext
<1>3. At(m, g) <= c /\ c < At(m, g) + g
  BY <1>2
<1> HIDE DEF m, c
<1>4. c \div g = m - 1
  BY <1>1, <1>3, AtDiv
<1>5. c \div g = n
  BY <1>1, <1>4
<1> QED
  BY <1>5 DEF c

\* Where segment j of n ends.
LEMMA SegmentEnd ==
    ASSUME NEW g \in Nat \ {0}, NEW n \in Nat \ {0}, NEW r \in 1 .. g, NEW a \in Nat,
           a = At(n, g) + r, NEW j \in 1 .. n, NEW m \in 1 .. g,
           j < n => m = g, j = n => m = r
    PROVE  /\ Lesser(j * g, a) = At(j, g) + m
           /\ At(j, g) + m <= a
<1> DEFINE e == j * g
<1>1. e = At(j, g) + g
  BY AtEnd
<1> HIDE DEF e
<1>2. At(j, g) \in Nat /\ At(n, g) \in Nat
  BY AtNat
<1>3. j < n => At(j, g) + g <= At(n, g)
  BY AtMonotone
<1>4. j = n \/ j < n
  OBVIOUS
<1>5. Lesser(e, a) = At(j, g) + m /\ At(j, g) + m <= a
  BY <1>1, <1>2, <1>3, <1>4 DEF Lesser
<1> QED
  BY <1>5 DEF e

\* A part of a sequence, element by element.
LEMMA PartIs ==
    ASSUME NEW S, NEW b \in Seq(S), NEW p \in Seq(S), NEW f \in Nat,
           f + Len(p) <= Len(b),
           \A k \in 1 .. Len(p) : b[f + k] = p[k]
    PROVE  SubSeq(b, f + 1, f + Len(p)) = p
<1> DEFINE c == SubSeq(b, f + 1, f + Len(p))
<1>1. Len(p) \in Nat /\ p = [k \in 1 .. Len(p) |-> p[k]]
  OBVIOUS
<1>2. c = [k \in 1 .. Len(p) |-> b[f + k]]
  BY <1>1
<1>3. [k \in 1 .. Len(p) |-> b[f + k]] = [k \in 1 .. Len(p) |-> p[k]]
  OBVIOUS
<1> HIDE DEF c
<1>4. c = p
  BY <1>1, <1>2, <1>3, Zenon
<1> QED
  BY <1>4 DEF c

(***************************************************************************)
(* Cutting a group apart.                                                  *)
(***************************************************************************)

\* Packets w put together in b: all of g bytes but the last, each in its
\* place.
Fit(w, g) ==
    \A j \in 1 .. Len(w) : Len(w[j]) \in 1 .. g /\ (j < Len(w) => Len(w[j]) = g)
InPlace(w, g, b) ==
    \A j \in 1 .. Len(w) : \A k \in 1 .. Len(w[j]) : b[At(j, g) + k] = w[j][k]
Typed(w, g, b) == g \in Nat /\ b \in Seq(Byte) /\ w \in Seq(Seq(Byte))
Length(w, g) == At(Len(w), g) + Len(w[Len(w)])
Together(w, g, b) ==
    /\ Typed(w, g, b)
    /\ Fit(w, g)
    /\ InPlace(w, g, b)
    /\ IF w = <<>> THEN b = <<>> ELSE Len(b) = Length(w, g)

\* The numbers in it.
LEMMA TogetherNumbers ==
    ASSUME NEW g, NEW b, NEW w, w # <<>>, Together(w, g, b)
    PROVE  /\ g \in Nat \ {0}
           /\ Len(w) \in Nat \ {0}
           /\ Len(w[Len(w)]) \in 1 .. g
           /\ Len(b) \in Nat
           /\ Len(b) = At(Len(w), g) + Len(w[Len(w)])
           /\ \A j \in 1 .. Len(w) : Len(w[j]) \in 1 .. g /\ (j < Len(w) => Len(w[j]) = g)
<1>1. Len(w) \in Nat \ {0} /\ Len(b) \in Nat /\ g \in Nat
  BY DEF Together, Typed
<1>2. \A j \in 1 .. Len(w) : Len(w[j]) \in 1 .. g /\ (j < Len(w) => Len(w[j]) = g)
  BY DEF Together, Fit
<1>3. Len(b) = At(Len(w), g) + Len(w[Len(w)])
  BY Zenon DEF Together, Length
<1>4. Len(w) \in 1 .. Len(w)
  BY <1>1
<1>5. Len(w[Len(w)]) \in 1 .. g
  BY <1>2, <1>4
<1> QED
  BY <1>1, <1>2, <1>3, <1>5

\* The kernel makes of them the same packets.
LEMMA CutTogether ==
    ASSUME NEW g, NEW b, NEW w, w # <<>>, Together(w, g, b)
    PROVE  Cut(b, g) = w
<1> DEFINE n == Len(w)
           a == Len(b)
<1>1. /\ g \in Nat \ {0} /\ n \in Nat \ {0} /\ a \in Nat
      /\ Len(w[n]) \in 1 .. g
      /\ a = At(n, g) + Len(w[n])
  BY TogetherNumbers
<1>full. \A j \in 1 .. n : Len(w[j]) \in 1 .. g /\ (j < n => Len(w[j]) = g)
  BY TogetherNumbers
<1> HIDE DEF n, a
<1>2. (a + g - 1) \div g = n
  BY <1>1, SegmentCount
<1>3. ASSUME NEW j \in 1 .. n
      PROVE  SubSeq(b, (j - 1) * g + 1, Lesser(j * g, a)) = w[j]
  <2> DEFINE f == At(j, g)
             m == Len(w[j])
  <2>1. \A k \in 1 .. Len(w[j]) : b[At(j, g) + k] = w[j][k]
    BY DEF Together, InPlace, n
  <2>2. m \in 1 .. g /\ (j < n => m = g) /\ (j = n => m = Len(w[n]))
    BY <1>full
  <2>3. Lesser(j * g, a) = f + m /\ f + m <= a
    <3> DEFINE r == Len(w[n])
    <3>1. r \in 1 .. g /\ a = At(n, g) + r /\ (j = n => m = r)
      BY <1>1, <2>2
    <3> HIDE DEF m, r
    <3>2. Lesser(j * g, a) = At(j, g) + m /\ At(j, g) + m <= a
      BY <1>1, <2>2, <3>1, SegmentEnd
    <3> QED
      BY <3>2
  <2>nat. j \in Nat \ {0}
    BY <1>1
  <2>start. f \in Nat
    BY <1>1, <2>nat, AtNat
  <2>4. b \in Seq(Byte) /\ w[j] \in Seq(Byte)
    BY DEF Together, Typed, n
  <2> HIDE DEF f, m
  <2>5. SubSeq(b, f + 1, f + m) = w[j]
    BY <2>1, <2>start, <2>3, <2>4, PartIs DEF a, f, m
  <2>6. (j - 1) * g = f
    BY DEF f, At
  <2> QED
    BY <2>3, <2>5, <2>6, Zenon
<1>4. Cut(b, g) = CutInto(b, g, n)
  BY <1>2 DEF Cut, a
<1>5. CutInto(b, g, n) = [j \in 1 .. n |-> w[j]]
  BY <1>3 DEF CutInto, a
<1>6. w = [j \in 1 .. n |-> w[j]]
  BY DEF Together, Typed, n
<1> QED
  BY <1>4, <1>5, <1>6, Zenon

\* A packet alone.
LEMMA TogetherOne ==
    ASSUME NEW p \in Seq(Byte), p # <<>>
    PROVE  Together(<<p>>, Len(p), p)
<1> DEFINE w == <<p>>
           g == Len(p)
<1>1. g \in Nat \ {0}
  OBVIOUS
<1>2. Len(w) = 1 /\ w[1] = p /\ w # <<>> /\ w \in Seq(Seq(Byte))
  OBVIOUS
<1> HIDE DEF w, g
<1>3. At(1, g) = 0
  BY <1>1, AtFirst
<1>4. InPlace(w, g, p)
  BY <1>2, <1>3 DEF InPlace
<1>5. Len(p) = Length(w, g)
  BY <1>1, <1>2, <1>3 DEF Length, g
<1>6. Typed(w, g, p)
  BY <1>1, <1>2 DEF Typed
<1>7. Fit(w, g)
  BY <1>1, <1>2 DEF Fit, g
<1>8. Together(w, g, p)
  BY <1>2, <1>4, <1>5, <1>6, <1>7 DEF Together
<1> QED
  BY <1>8 DEF w, g

\* One more, when all before are of full length.
LEMMA TogetherMore ==
    ASSUME NEW g, NEW b, NEW w, NEW p \in Seq(Byte),
           w # <<>>, Together(w, g, b), Len(b) % g = 0, p # <<>>, Len(p) <= g
    PROVE  Together(Append(w, p), g, b \o p)
<1> DEFINE n == Len(w)
           a == Len(b)
           v == Append(w, p)
           c == b \o p
<1>1. /\ g \in Nat \ {0} /\ n \in Nat \ {0} /\ a \in Nat
      /\ Len(w[n]) \in 1 .. g
      /\ a = At(n, g) + Len(w[n])
  BY TogetherNumbers
<1>full. \A j \in 1 .. n : Len(w[j]) \in 1 .. g /\ (j < n => Len(w[j]) = g)
  BY TogetherNumbers
<1>2. w \in Seq(Seq(Byte)) /\ b \in Seq(Byte)
  BY DEF Together, Typed
<1>3. /\ v \in Seq(Seq(Byte)) /\ Len(v) = n + 1 /\ v # <<>>
      /\ v[n + 1] = p /\ \A j \in 1 .. n : v[j] = w[j]
  BY <1>2, AppendProperties
<1>4. /\ c \in Seq(Byte) /\ Len(c) = a + Len(p)
      /\ \A k \in 1 .. a : c[k] = b[k]
      /\ \A k \in 1 .. Len(p) : c[a + k] = p[k]
  BY <1>2
<1>5. Len(p) \in 1 .. g
  BY <1>1
<1> HIDE DEF n, a, v, c
<1>6. Len(w[n]) = g
  BY <1>1, FullSegment DEF a
<1>7. a = At(n, g) + g /\ At(n + 1, g) = a
  BY <1>1, <1>6, AtNext
<1>8. Fit(v, g)
  <2> SUFFICES ASSUME NEW j \in 1 .. n + 1
               PROVE  Len(v[j]) \in 1 .. g /\ (j < n + 1 => Len(v[j]) = g)
    BY <1>3 DEF Fit
  <2>1. CASE j = n + 1
    BY <1>1, <1>3, <1>5, <2>1
  <2>2. CASE j # n + 1
    <3>1. j \in 1 .. n /\ (j = n \/ j < n)
      BY <1>1, <2>2
    <3> QED
      BY <1>1, <1>full, <1>3, <1>6, <3>1
  <2> QED
    BY <2>1, <2>2
<1>9. InPlace(v, g, c)
  <2> SUFFICES ASSUME NEW j \in 1 .. n + 1, NEW k \in 1 .. Len(v[j])
               PROVE  c[At(j, g) + k] = v[j][k]
    BY <1>3 DEF InPlace
  <2>1. CASE j = n + 1
    BY <1>3, <1>4, <1>7, <2>1
  <2>2. CASE j # n + 1
    <3>1. j \in 1 .. n /\ v[j] = w[j]
      BY <1>1, <1>3, <2>2
    <3>2. k \in 1 .. Len(w[j]) /\ Len(w[j]) \in 1 .. g
      BY <1>full, <3>1
    <3>nat. j \in Nat \ {0} /\ (j = n \/ j < n)
      BY <1>1, <3>1
    <3>3. b[At(j, g) + k] = w[j][k]
      BY <3>1, <3>2 DEF Together, InPlace, n
    <3>4. At(j, g) + k \in 1 .. a
      <4>1. At(j, g) \in Nat /\ At(n, g) \in Nat
        BY <1>1, <3>nat, AtNat
      <4>2. j = n \/ At(j, g) + g <= At(n, g)
        BY <1>1, <3>nat, AtMonotone
      <4>3. k \in 1 .. g
        BY <1>1, <3>2
      <4>4. At(j, g) + g <= a
        BY <1>1, <1>7, <4>1, <4>2
      <4> QED
        BY <1>1, <4>1, <4>3, <4>4, SMTT(30)
    <3> QED
      BY <1>4, <3>1, <3>3, <3>4
  <2> QED
    BY <2>1, <2>2
<1>10. Len(c) = Length(v, g)
  BY <1>3, <1>4, <1>7 DEF Length
<1>11. Typed(v, g, c)
  BY <1>1, <1>3, <1>4 DEF Typed
<1>12. Together(v, g, c)
  BY <1>3, <1>8, <1>9, <1>10, <1>11 DEF Together
<1> QED
  BY <1>12 DEF v, c

\* What next() takes from where segment i starts, and what is left.
LEMMA NextOfTogether ==
    ASSUME NEW g, NEW b, NEW w, w # <<>>, Together(w, g, b), NEW i \in 1 .. Len(w),
           NEW m, m = Lesser(Len(b) - At(i, g), g)
    PROVE  /\ m = Len(w[i])
           /\ SubSeq(b, At(i, g) + 1, At(i, g) + m) = w[i]
           /\ At(i, g) + m >= Len(b) => i = Len(w)
           /\ At(i, g) + m < Len(b) => i < Len(w) /\ At(i, g) + m = At(i + 1, g)
<1> DEFINE n == Len(w)
           a == Len(b)
           f == At(i, g)
           p == w[i]
           q == Len(w[n])
           l == At(n, g)
<1>1. /\ g \in Nat \ {0} /\ n \in Nat \ {0} /\ a \in Nat
      /\ q \in 1 .. g
      /\ a = l + q
      /\ i \in Nat \ {0} /\ (i = n \/ i < n)
  BY TogetherNumbers
<1>2. Len(p) \in 1 .. g /\ (i < n => Len(p) = g) /\ (i = n => Len(p) = q)
  BY TogetherNumbers
<1>3. f \in Nat /\ l \in Nat
  BY <1>1, AtNat
<1>4. i < n => f + g <= l
  BY <1>1, AtMonotone
<1>5. At(i + 1, g) = f + g
  BY <1>1, AtNext
<1>6. i = n => f = l
  OBVIOUS
<1>7. b \in Seq(Byte) /\ p \in Seq(Byte)
  BY DEF Together, Typed
<1>8. \A k \in 1 .. Len(p) : b[f + k] = p[k]
  BY DEF Together, InPlace
<1> HIDE DEF n, a, f, p, q, l
<1>9. m = Lesser(a - f, g)
  BY DEF a, f
<1>10. m = Len(p) /\ f + Len(p) <= a
  BY <1>1, <1>2, <1>3, <1>4, <1>6, <1>9 DEF Lesser
<1>11. SubSeq(b, f + 1, f + m) = p
  BY <1>3, <1>7, <1>8, <1>10, PartIs DEF a
<1>12. f + m >= a => i = n
  BY <1>1, <1>2, <1>3, <1>4, <1>10
<1>13. f + m < a => i < n /\ f + m = At(i + 1, g)
  BY <1>1, <1>2, <1>3, <1>5, <1>6, <1>10
<1> QED
  BY <1>10, <1>11, <1>12, <1>13 DEF n, a, f, p

\* A sequence of one.
LEMMA OneElement ==
    ASSUME NEW S, NEW w \in Seq(S), Len(w) = 1
    PROVE  w # <<>> /\ w[1] \in S /\ w = <<w[1]>>
  OBVIOUS

\* A group of one is its packet.
LEMMA TogetherAlone ==
    ASSUME NEW g, NEW b, NEW w, Len(w) = 1, Together(w, g, b)
    PROVE  <<b>> = w
<1>1. w \in Seq(Seq(Byte)) /\ b \in Seq(Byte)
  BY DEF Together, Typed
<1>2. w # <<>> /\ w[1] \in Seq(Byte) /\ w = <<w[1]>>
  BY <1>1, OneElement, Zenon
<1>3. g \in Nat \ {0} /\ Len(b) = At(1, g) + Len(w[1])
  BY <1>2, TogetherNumbers
<1>4. At(1, g) = 0
  BY <1>3, AtFirst
<1>5. \A k \in 1 .. Len(w[1]) : b[At(1, g) + k] = w[1][k]
  BY DEF Together, InPlace
<1>6. Len(b) = Len(w[1]) /\ \A k \in 1 .. Len(w[1]) : b[k] = w[1][k]
  BY <1>2, <1>3, <1>4, <1>5
<1>7. b = w[1]
  BY <1>1, <1>2, <1>6, SeqEqual
<1> QED
  BY <1>2, <1>7, Zenon

(***************************************************************************)
(* The inductive invariant.                                                *)
(***************************************************************************)

(***************************************************************************)
(* What came, a, is a parameter of these operators: they are compared      *)
(* before and after a step.                                                *)
(***************************************************************************)

\* The bytes of datagram n; datagrams f to l as they are put together in b.
BytesOf(a, n) == [k \in 1 .. a[n].len |-> <<n, k>>]
Pieces(a, f, l) == [j \in 1 .. l - f + 1 |-> BytesOf(a, f + j - 1)]
Whole(a, b, g, f, l) ==
    /\ l \in 1 .. Len(a) /\ f \in 1 .. l
    /\ \/ b = <<>> /\ g = 0 /\ f = l /\ a[f].len = 0
       \/ b # <<>> /\ Together(Pieces(a, f, l), g, b)
OneSession(a, f, l, s) == \A n \in f .. l : a[n].session = s

\* Where entry i of queue q starts, or would start.
Start(a, q, i) == IF i <= Len(q) THEN q[i].first ELSE Len(a) + 1

\* The queue is everything that came and is not taken, in order.
Entry(a, e, l, dn) ==
    /\ Whole(a, e.bytes, Unit(e), e.first, l)
    /\ e.gso # 0 => e.gso < Len(e.bytes)
    /\ ~dn => OneSession(a, e.first, l, a[e.first].session)
Queued == \A i \in 1 .. Len(queue) : Entry(arrived, queue[i], Start(arrived, queue, i + 1) - 1, down)

\* What next() has still to hand out goes on to the start of the queue.
Left(a, r, f, l, dn) ==
    /\ Whole(a, r.bytes, r.seg, f, l)
    /\ r.no \in f .. l
    /\ r.off = At(r.no - f + 1, r.seg)
    /\ ~dn => OneSession(a, f, l, r.session)
Reads(a, r, t, dn) ==
    /\ r.done => r.no = t
    /\ ~r.done => \E f \in 1 .. r.no : Left(a, r, f, t - 1, dn)
Reading == busy => Reads(arrived, rcv, Start(arrived, queue, 1), down)

\* The group.
GroupIs(o) ==
    /\ Together(o.iov, o.seg, o.load)
    /\ Len(o.nos) = Len(o.iov)
    /\ Len(o.iov) <= GsoMaxSegs
    /\ Len(o.iov) > 1 => Len(o.load) <= GsoMaxBytes
Grouped == GroupIs(out)

\* What becomes of datagram n.
RoutedOf(a, dn, n) == a[n].session # NoSession /\ (dn => a[n].len >= SessionLen)
GoalOf(a, dn, n) == IF dn THEN a[n].session ELSE Peer
ResultOf(a, dn, n) ==
    IF dn THEN SubSeq(BytesOf(a, n), SessionLen + 1, a[n].len)
          ELSE Header(a[n].session) \o BytesOf(a, n)

Becomes(a, dn, n, to, p) ==
    /\ n \in 1 .. Len(a)
    /\ to = GoalOf(a, dn, n)
    /\ p = ResultOf(a, dn, n)
Holds(a, dn, o) == \A j \in 1 .. Len(o.iov) : Becomes(a, dn, o.nos[j], o.to, o.iov[j])
Held == Holds(arrived, down, out)

Sends(a, dn, t) == \A i \in 1 .. Len(t) : Becomes(a, dn, t[i].no, t[i].to, t[i].bytes)
Sent == Sends(arrived, down, tx)

\* The numbers of what was sent; numbers o are all there are up to t, increasing.
Numbers(t) == [i \in 1 .. Len(t) |-> t[i].no]
InOrder(a, dn, o, t) ==
    /\ {o[i] : i \in DOMAIN o} = {n \in 1 .. t : RoutedOf(a, dn, n)}
    /\ \A i, j \in DOMAIN o : i < j => o[i] < o[j]
TakenTo(a, q, r, bs) == IF bs THEN r.no - 1 ELSE Start(a, q, 1) - 1
Ordered == InOrder(arrived, down, Numbers(tx) \o out.nos, TakenTo(arrived, queue, rcv, busy))

\* Without -G there is no group, and with it the kernel knows UDP_SEGMENT.
Configured ==
    /\ batch => supported
    /\ ~batch => out.iov = <<>>
    /\ status = "starting" => out.iov = <<>> /\ ~busy
    /\ ~busy => out.iov = <<>>

IInv == TypeOK /\ Configured /\ Queued /\ Reading /\ Grouped /\ Held /\ Sent /\ Ordered

(***************************************************************************)
(* Facts about a state.                                                    *)
(***************************************************************************)

\* The length of a longer sequence.
LEMMA LenAppend ==
    ASSUME NEW S, NEW w \in Seq(S), NEW p \in S
    PROVE  Len(Append(w, p)) = Len(w) + 1 /\ Len(w) \in Nat /\ Append(w, p) \in Seq(S)
  OBVIOUS

LEMMA LenJoined ==
    ASSUME NEW S, NEW v \in Seq(S), NEW w \in Seq(S)
    PROVE  Len(v \o w) = Len(v) + Len(w) /\ Len(v) \in Nat /\ Len(w) \in Nat
  OBVIOUS

\* An element of a sequence.
LEMMA ElementOf ==
    ASSUME NEW S, NEW w \in Seq(S), NEW n \in 1 .. Len(w)
    PROVE  w[n] \in S /\ n \in Nat \ {0} /\ Len(w) \in Nat
  OBVIOUS

\* The datagrams that came.
Arrival == [len : Nat, session : Session \union {NoSession}]

LEMMA BytesAre ==
    ASSUME NEW a \in Seq(Arrival), NEW n \in 1 .. Len(a)
    PROVE  /\ n \in Nat \ {0}
           /\ a[n].len \in Nat
           /\ a[n].session \in Session \union {NoSession}
           /\ BytesOf(a, n) \in Seq(Byte)
           /\ Len(BytesOf(a, n)) = a[n].len
           /\ \A k \in 1 .. a[n].len : BytesOf(a, n)[k] = <<n, k>>
<1> DEFINE L == a[n].len
           d == [k \in 1 .. L |-> <<n, k>>]
<1>1. a[n] \in Arrival /\ n \in Nat \ {0}
  BY ElementOf, Zenon
<1>2. L \in Nat /\ a[n].session \in Session \union {NoSession}
  BY <1>1 DEF Arrival
<1>3. d = BytesOf(a, n)
  BY DEF BytesOf
<1> HIDE DEF L
<1>4. \A k \in 1 .. L : <<n, k>> \in Byte
  BY <1>1, <1>2 DEF Byte
<1>5. d \in Seq(Byte) /\ Len(d) = L /\ \A k \in 1 .. L : d[k] = <<n, k>>
  BY <1>2, <1>4
<1> QED
  BY <1>1, <1>2, <1>3, <1>5 DEF L

LEMMA DatagramIs ==
    ASSUME arrived \in Seq(Arrival), NEW n \in 1 .. Len(arrived)
    PROVE  /\ n \in Nat \ {0}
           /\ arrived[n].len \in Nat
           /\ arrived[n].session \in Session \union {NoSession}
           /\ Datagram(n) \in Seq(Byte)
           /\ Len(Datagram(n)) = arrived[n].len
           /\ \A k \in 1 .. arrived[n].len : Datagram(n)[k] = <<n, k>>
<1>1. Datagram(n) = BytesOf(arrived, n)
  BY DEF Datagram, BytesOf
<1> QED
  BY <1>1, BytesAre

LEMMA HeaderIs ==
    ASSUME NEW s \in Session
    PROVE  Header(s) \in Seq(Byte) /\ Len(Header(s)) = SessionLen
<1>1. SessionLen \in Nat
  BY ConstantsAssumption
<1>2. \A k \in 1 .. SessionLen : <<s, k>> \in Byte
  BY <1>1 DEF Byte
<1> QED
  BY <1>1, <1>2 DEF Header

\* Where the queue starts.
LEMMA StartIs ==
    ASSUME TypeOK, NEW i \in Nat
    PROVE  /\ i \in 1 .. Len(queue) => Start(arrived, queue, i) = queue[i].first
           /\ i > Len(queue) => Start(arrived, queue, i) = Len(arrived) + 1
           /\ i # 0 => Start(arrived, queue, i) \in Nat \ {0}
           /\ Len(queue) \in Nat /\ Len(arrived) \in Nat
<1>1. Len(queue) \in Nat /\ Len(arrived) \in Nat
  BY DEF TypeOK
<1>2. i \in 1 .. Len(queue) => queue[i].first \in Nat \ {0}
  <2> DEFINE R == [bytes : Seq(Byte), gso : Nat, first : Nat \ {0}]
  <2>1. queue \in Seq(R)
    BY DEF TypeOK
  <2>2. \A r \in R : r.first \in Nat \ {0}
    OBVIOUS
  <2> HIDE DEF R
  <2>3. i \in 1 .. Len(queue) => queue[i] \in R
    BY <2>1, ElementOf
  <2> QED
    BY <2>2, <2>3
<1> QED
  BY <1>1, <1>2 DEF Start

\* How far the datagrams are taken.
LEMMA TakenIs ==
    ASSUME TypeOK
    PROVE  Taken = TakenTo(arrived, queue, rcv, busy)
<1>1. queue # <<>> <=> 1 <= Len(queue)
  BY DEF TypeOK
<1>2. queue # <<>> => Head(queue) = queue[1]
  BY DEF TypeOK
<1>3. Len(arrived) + 1 - 1 = Len(arrived)
  BY DEF TypeOK
<1> QED
  BY <1>1, <1>2, <1>3 DEF Taken, TakenTo, Start

\* What next() hands out.
LEMMA HandsOut ==
    ASSUME TypeOK, Reading, busy, ~rcv.done
    PROVE  /\ rcv.no \in 1 .. Len(arrived)
           /\ Data = Datagram(rcv.no)
           /\ DataLen \in Nat
           /\ ~down => rcv.session = arrived[rcv.no].session
           /\ Advanced.done => rcv.no + 1 = Start(arrived, queue, 1)
           /\ ~Advanced.done =>
                  \E f \in 1 .. rcv.no + 1 :
                      /\ Whole(arrived, rcv.bytes, rcv.seg, f, Start(arrived, queue, 1) - 1)
                      /\ rcv.no + 1 \in f .. Start(arrived, queue, 1) - 1
                      /\ rcv.off + DataLen = At(rcv.no + 1 - f + 1, rcv.seg)
                      /\ ~down => OneSession(arrived, f, Start(arrived, queue, 1) - 1, rcv.session)
<1> DEFINE l == Start(arrived, queue, 1) - 1
           b == rcv.bytes
           g == rcv.seg
           c == rcv.no
           o == rcv.off
<1>1. PICK f \in 1 .. c : Left(arrived, rcv, f, l, down)
  BY DEF Reading, Reads
<1>2. /\ b \in Seq(Byte) /\ g \in Nat /\ c \in Nat \ {0} /\ o \in Nat
      /\ rcv = [bytes |-> b, seg |-> g, off |-> o, done |-> rcv.done, session |-> rcv.session, no |-> c]
  BY DEF TypeOK
<1>3. /\ Advanced.done <=> o + DataLen >= Len(b)
      /\ DataLen = Lesser(Len(b) - o, g)
      /\ Data = SubSeq(b, o + 1, o + DataLen)
  BY <1>2 DEF Advanced, DataLen, Data
<1>4. /\ Whole(arrived, b, g, f, l) /\ c \in f .. l /\ o = At(c - f + 1, g)
      /\ ~down => OneSession(arrived, f, l, rcv.session)
  BY <1>1 DEF Left
<1> HIDE DEF l, b, g, c, o
<1>start. l + 1 = Start(arrived, queue, 1)
  BY StartIs DEF l
<1>5. l \in 1 .. Len(arrived) /\ f \in 1 .. l /\ l \in Nat /\ Len(arrived) \in Nat /\ f \in Nat \ {0}
  <2>1. Len(arrived) \in Nat
    BY DEF TypeOK
  <2>2. l \in 1 .. Len(arrived) /\ f \in 1 .. l
    BY <1>4 DEF Whole
  <2> QED
    BY <2>1, <2>2
<1>6. c \in 1 .. Len(arrived) /\ c \in f .. l
  BY <1>4, <1>5
<1>7. ~down => rcv.session = arrived[c].session
  BY <1>4 DEF OneSession
<1>8. CASE b = <<>> /\ g = 0 /\ f = l /\ arrived[f].len = 0
  <2>1. c = f /\ c = l
    BY <1>6, <1>8, <1>5
  <2>2. c - f + 1 = 1
    BY <1>5, <2>1
  <2>3. o = 0
    BY <1>4, <1>8, <2>2, AtFirst
  <2>4. Len(b) = 0
    BY <1>8
  <2>5. DataLen = 0
    BY <1>3, <1>8, <2>3, <2>4 DEF Lesser
  <2>6. Data = <<>>
    BY <1>2, <1>3, <1>8, <2>3, <2>5
  <2>7. Datagram(c) = <<>>
    BY <1>8, <2>1 DEF Datagram
  <2>8. Advanced.done
    BY <1>3, <2>3, <2>4, <2>5
  <2>9. c + 1 = Start(arrived, queue, 1)
    BY <2>1, <1>start
  <2> QED
    BY <1>6, <1>7, <2>5, <2>6, <2>7, <2>8, <2>9 DEF c
<1>9. CASE b # <<>> /\ Together(Pieces(arrived, f, l), g, b)
  <2> DEFINE w == Pieces(arrived, f, l)
             i == c - f + 1
  <2>1. Len(w) = l - f + 1 /\ w # <<>>
    BY <1>5 DEF Pieces, BytesOf, Datagram
  <2>2. i \in 1 .. Len(w)
    BY <1>5, <1>6, <2>1
  <2>3. w[i] = Datagram(c)
    <3>1. f + i - 1 = c
      BY <1>5, <1>6
    <3>2. i \in 1 .. l - f + 1
      BY <2>1, <2>2
    <3> QED
      BY <3>1, <3>2 DEF Pieces, BytesOf, Datagram
  <2>4. i = Len(w) => c + 1 = Start(arrived, queue, 1)
    BY <1>5, <1>6, <1>start, <2>1
  <2>5. i < Len(w) => c + 1 \in f .. l
    BY <1>5, <1>6, <2>1
  <2>6. i + 1 = c + 1 - f + 1
    BY <1>5, <1>6
  <2>7. Together(w, g, b) /\ o = At(i, g)
    BY <1>4, <1>9
  <2> HIDE DEF w, i
  <2>8. /\ DataLen = Len(w[i])
        /\ SubSeq(b, At(i, g) + 1, At(i, g) + DataLen) = w[i]
        /\ At(i, g) + DataLen >= Len(b) => i = Len(w)
        /\ At(i, g) + DataLen < Len(b) => i < Len(w) /\ At(i, g) + DataLen = At(i + 1, g)
    BY <1>3, <2>1, <2>2, <2>7, NextOfTogether
  <2>9. Data = Datagram(c)
    BY <1>3, <2>3, <2>7, <2>8
  <2>10. DataLen \in Nat
    <3>1. Datagram(c) \in Seq(Byte)
      BY <1>6, DatagramIs DEF TypeOK, Arrival
    <3> QED
      BY <2>3, <2>8, <3>1
  <2>11. Advanced.done => c + 1 = Start(arrived, queue, 1)
    BY <1>3, <2>4, <2>7, <2>8
  <2>12. ~Advanced.done => c + 1 \in f .. l /\ o + DataLen = At(c + 1 - f + 1, g)
    <3>1. Len(b) \in Nat
      BY <1>2
    <3>2. ~Advanced.done => At(i, g) + DataLen < Len(b)
      BY <1>2, <1>3, <2>7, <2>10, <3>1
    <3> QED
      BY <2>5, <2>6, <2>7, <2>8, <3>2
  <2>13. f \in 1 .. c + 1
    BY <1>5, <1>6
  <2> QED
    BY <1>4, <1>6, <1>7, <2>9, <2>10, <2>11, <2>12, <2>13 DEF b, g, c, o, l
<1> QED
  BY <1>4, <1>8, <1>9 DEF Whole

\* Whose it is, and what is made of it.
LEMMA Routing ==
    ASSUME TypeOK, Reading, busy, ~rcv.done
    PROVE  /\ Passed <=> RoutedOf(arrived, down, rcv.no)
           /\ Passed => /\ Dest = GoalOf(arrived, down, rcv.no)
                        /\ Dest \in Session \union {Peer}
                        /\ Packet = ResultOf(arrived, down, rcv.no)
                        /\ Packet \in Seq(Byte)
<1> DEFINE c == rcv.no
           L == arrived[c].len
           s == arrived[c].session
<1>1. /\ c \in 1 .. Len(arrived) /\ Data = Datagram(c)
      /\ ~down => rcv.session = s
  BY HandsOut
<1>2. /\ L \in Nat /\ s \in Session \union {NoSession}
      /\ Data \in Seq(Byte) /\ Len(Data) = L
      /\ \A k \in 1 .. L : Data[k] = <<c, k>>
  BY <1>1, DatagramIs DEF TypeOK, Arrival
<1>3. SessionLen \in Nat \ {0} /\ NoSession \notin Session
  BY ConstantsAssumption
<1> HIDE DEF c, L, s
<1>4. down /\ L >= SessionLen => DataSession = s
  <2> SUFFICES ASSUME down, L >= SessionLen PROVE DataSession = s
    OBVIOUS
  <2>1. \A k \in 1 .. SessionLen : Data[k] = <<c, k>>
    BY <1>2, <1>3
  <2>2. Data[1] = <<c, 1>>
    BY <1>3, <2>1
  <2>3. Data[1][1] = c
    BY <2>2
  <2> QED
    BY <2>1, <2>3 DEF DataSession, s
<1>5. ~down => DataSession = s
  BY <1>1 DEF DataSession
<1>6. Passed <=> (s # NoSession /\ (down => L >= SessionLen))
  BY <1>2, <1>4, <1>5 DEF Passed
<1>7. Passed <=> RoutedOf(arrived, down, c)
  BY <1>6 DEF RoutedOf, L, s
<1>8. ASSUME Passed
      PROVE  Dest = GoalOf(arrived, down, c) /\ Dest \in Session \union {Peer} /\ Packet = ResultOf(arrived, down, c) /\ Packet \in Seq(Byte)
  <2>1. DataSession = s /\ s \in Session
    BY <1>2, <1>4, <1>5, <1>6, <1>8
  <2>2. Dest = GoalOf(arrived, down, c) /\ Dest \in Session \union {Peer}
    BY <2>1 DEF Dest, GoalOf, s
  <2>3. CASE down
    <3>1. Packet = SubSeq(Data, SessionLen + 1, Len(Data))
      BY <2>3 DEF Packet
    <3>2. ResultOf(arrived, down, c) = SubSeq(Datagram(c), SessionLen + 1, L)
      BY <2>3 DEF ResultOf, BytesOf, Datagram, L
    <3>3. SubSeq(Data, SessionLen + 1, Len(Data)) \in Seq(Byte)
      BY <1>2, <1>3
    <3> QED
      BY <1>1, <1>2, <2>2, <3>1, <3>2, <3>3 DEF c
  <2>4. CASE ~down
    <3>1. Packet = Header(s) \o Data
      BY <2>1, <2>4 DEF Packet
    <3>2. ResultOf(arrived, down, c) = Header(s) \o Datagram(c)
      BY <2>4 DEF ResultOf, BytesOf, Datagram, s
    <3>3. Header(s) \o Data \in Seq(Byte)
      BY <1>2, <2>1, HeaderIs
    <3> QED
      BY <1>1, <2>2, <3>1, <3>2, <3>3 DEF c
  <2> QED
    BY <2>3, <2>4
<1> QED
  BY <1>7, <1>8 DEF c

\* The group is sent as its packets, whichever way.
LEMMA FlushedIs ==
    ASSUME Configured, Grouped, NEW f \in Flushed
    PROVE  f = Asked(out.iov)
<1> DEFINE w == out.iov
           b == out.load
           g == out.seg
           n == Len(w)
<1>1. Together(w, g, b) /\ w \in Seq(Seq(Byte)) /\ n \in Nat
  BY DEF Grouped, GroupIs, Together, Typed
<1>2. w # <<>> => supported
  BY DEF Configured
<1>3. n = 0 => w = <<>>
  BY <1>1
<1>4. n > 1 => w # <<>>
  BY <1>1
<1>5. n = 1 => <<b>> = w
  BY <1>1, TogetherAlone
<1>6. w # <<>> => Cut(b, g) = w
  BY <1>1, CutTogether
<1> HIDE DEF w, b, g, n
<1>7. OnWire(b, g, n) = w
  BY <1>1, <1>2, <1>3, <1>4, <1>5, <1>6 DEF OnWire
<1> QED
  BY <1>7, Zenon DEF Flushed, w, b, g, n

\* What it is sent as.
Wire == [no : Nat \ {0}, to : Session \union {Peer}, bytes : Seq(Byte)]

LEMMA AskedIs ==
    ASSUME TypeOK, Grouped, Held
    PROVE  /\ Asked(out.iov) \in Seq(Wire)
           /\ Len(Asked(out.iov)) = Len(out.iov)
           /\ Len(out.nos) = Len(out.iov) /\ Len(out.iov) \in Nat
           /\ \A j \in 1 .. Len(out.iov) :
                  /\ Asked(out.iov)[j].no = out.nos[j]
                  /\ out.nos[j] \in 1 .. Len(arrived)
                  /\ Asked(out.iov)[j].to = GoalOf(arrived, down, out.nos[j])
                  /\ Asked(out.iov)[j].bytes = ResultOf(arrived, down, out.nos[j])
<1> DEFINE w == out.iov
           S == Seq(Byte)
           n == Len(w)
           a == [j \in 1 .. n |-> [no |-> out.nos[j], to |-> out.to, bytes |-> w[j]]]
<1>1. w \in Seq(S) /\ out.nos \in Seq(Nat \ {0}) /\ out.to \in Session \union {Peer}
  BY DEF TypeOK
<1>2. Len(out.nos) = n
  BY DEF Grouped, GroupIs
<1> HIDE DEF w, S
<1>3. n \in Nat /\ DOMAIN w = 1 .. n
  BY <1>1
<1>4. a = Asked(w)
  BY <1>3 DEF Asked
<1>5. ASSUME NEW j \in 1 .. n
      PROVE  w[j] \in S /\ out.nos[j] \in Nat \ {0}
  BY <1>1, <1>2, ElementOf
<1>6. ASSUME NEW j \in 1 .. n
      PROVE  [no |-> out.nos[j], to |-> out.to, bytes |-> w[j]] \in Wire
  BY <1>1, <1>5 DEF Wire, S
<1>7. ASSUME NEW j \in 1 .. n
      PROVE  out.nos[j] \in 1 .. Len(arrived) /\ out.to = GoalOf(arrived, down, out.nos[j]) /\ w[j] = ResultOf(arrived, down, out.nos[j])
  BY <1>3 DEF Held, Holds, Becomes, w
<1> HIDE DEF n
<1>8. a \in Seq(Wire) /\ Len(a) = n
  BY <1>3, <1>6
<1>9. \A j \in 1 .. n : a[j].no = out.nos[j] /\ a[j].to = out.to /\ a[j].bytes = w[j]
  OBVIOUS
<1> QED
  BY <1>2, <1>3, <1>4, <1>7, <1>8, <1>9 DEF n, w

\* One more number, or none.
LEMMA OneMore ==
    ASSUME NEW a, NEW dn, NEW o \in Seq(Nat), NEW t \in Nat, InOrder(a, dn, o, t), RoutedOf(a, dn, t + 1)
    PROVE  InOrder(a, dn, Append(o, t + 1), t + 1)
<1> DEFINE p == Append(o, t + 1)
           n == Len(o)
<1>1. /\ n \in Nat /\ DOMAIN o = 1 .. n /\ DOMAIN p = 1 .. n + 1
      /\ p[n + 1] = t + 1 /\ \A i \in 1 .. n : p[i] = o[i]
  OBVIOUS
<1> HIDE DEF p, n
<1>2. \A i \in 1 .. n : o[i] \in {k \in 1 .. t : RoutedOf(a, dn, k)}
  BY <1>1 DEF InOrder
<1>3. \A k \in 1 .. t : RoutedOf(a, dn, k) => \E i \in 1 .. n : o[i] = k
  BY <1>1 DEF InOrder
<1>4. {p[i] : i \in DOMAIN p} = {k \in 1 .. t + 1 : RoutedOf(a, dn, k)}
  <2>1. ASSUME NEW i \in 1 .. n + 1 PROVE p[i] \in 1 .. t + 1 /\ RoutedOf(a, dn, p[i])
    <3>1. i = n + 1 \/ i \in 1 .. n
      BY <1>1
    <3> QED
      BY <1>1, <1>2, <3>1
  <2>2. ASSUME NEW k \in 1 .. t + 1, RoutedOf(a, dn, k) PROVE \E i \in 1 .. n + 1 : p[i] = k
    <3>1. k = t + 1 \/ k \in 1 .. t
      OBVIOUS
    <3>2. n + 1 \in 1 .. n + 1 /\ \A i \in 1 .. n : i \in 1 .. n + 1
      BY <1>1
    <3> QED
      BY <1>1, <1>3, <2>2, <3>1, <3>2
  <2> QED
    <3>1. DOMAIN p = 1 .. n + 1
      BY <1>1
    <3> QED
      BY <2>1, <2>2, <3>1, Zenon
<1>5. ASSUME NEW i \in DOMAIN p, NEW j \in DOMAIN p, i < j
      PROVE  p[i] < p[j]
  <2>1. i \in 1 .. n /\ (j = n + 1 \/ j \in 1 .. n)
    BY <1>1, <1>5
  <2>2. CASE j = n + 1
    BY <1>1, <1>2, <2>1, <2>2
  <2>3. CASE j \in 1 .. n
    BY <1>1, <1>5, <2>1, <2>3 DEF InOrder
  <2> QED
    BY <2>1, <2>2, <2>3
<1> QED
  BY <1>4, <1>5 DEF InOrder, p

LEMMA NoneMore ==
    ASSUME NEW a, NEW dn, NEW o, NEW t \in Nat, NEW u \in Nat, t <= u, InOrder(a, dn, o, t),
           \A n \in t + 1 .. u : ~RoutedOf(a, dn, n)
    PROVE  InOrder(a, dn, o, u)
<1>1. {n \in 1 .. u : RoutedOf(a, dn, n)} = {n \in 1 .. t : RoutedOf(a, dn, n)}
  OBVIOUS
<1> QED
  BY <1>1 DEF InOrder

(***************************************************************************)
(* One datagram more has come.                                             *)
(***************************************************************************)

\* The others are as they were.
Extends(a, c) ==
    /\ a \in Seq(Arrival) /\ c \in Seq(Arrival)
    /\ Len(a) \in Nat
    /\ Len(c) = Len(a) + 1
    /\ \A n \in 1 .. Len(a) : c[n] = a[n]

LEMMA Later ==
    ASSUME NEW a \in Seq(Arrival), NEW d \in Arrival
    PROVE  Extends(a, Append(a, d)) /\ Append(a, d)[Len(a) + 1] = d
  BY DEF Arrival, Extends

LEMMA PiecesAre ==
    ASSUME NEW a, NEW f \in Nat \ {0}, NEW l \in Nat, f <= l
    PROVE  Len(Pieces(a, f, l)) = l - f + 1 /\ Pieces(a, f, l) # <<>>
  BY DEF Pieces

LEMMA PiecesLater ==
    ASSUME NEW a, NEW c, NEW m \in Nat, \A n \in 1 .. m : c[n] = a[n],
           NEW f \in Nat \ {0}, NEW l \in 1 .. m
    PROVE  Pieces(c, f, l) = Pieces(a, f, l)
<1>1. ASSUME NEW j \in 1 .. l - f + 1 PROVE BytesOf(c, f + j - 1) = BytesOf(a, f + j - 1)
  <2>1. f + j - 1 \in 1 .. m
    OBVIOUS
  <2> QED
    BY <2>1 DEF BytesOf
<1> QED
  BY <1>1 DEF Pieces

LEMMA PiecesExtended ==
    ASSUME NEW a, NEW c, Extends(a, c), NEW f \in Nat \ {0}, NEW l \in 1 .. Len(a)
    PROVE  Pieces(c, f, l) = Pieces(a, f, l)
<1>1. Len(a) \in Nat /\ \A n \in 1 .. Len(a) : c[n] = a[n]
  BY DEF Extends
<1> DEFINE m == Len(a)
<1>2. m \in Nat /\ l \in 1 .. m /\ \A n \in 1 .. m : c[n] = a[n]
  BY <1>1
<1> HIDE DEF m
<1> QED
  BY <1>2, PiecesLater

LEMMA WholeLater ==
    ASSUME NEW a, NEW c, Extends(a, c),
           NEW b, NEW g, NEW f, NEW l, Whole(a, b, g, f, l)
    PROVE  Whole(c, b, g, f, l)
<1>1. Len(a) \in Nat /\ Len(c) = Len(a) + 1 /\ \A n \in 1 .. Len(a) : c[n] = a[n]
  BY DEF Extends
<1>2. l \in 1 .. Len(a) /\ f \in 1 .. l
  BY DEF Whole
<1>3. f \in Nat \ {0} /\ f \in 1 .. Len(a) /\ l \in 1 .. Len(c)
  BY <1>1, <1>2
<1>4. Pieces(c, f, l) = Pieces(a, f, l)
  <2>1. f \in Nat \ {0} /\ l \in 1 .. Len(a)
    BY <1>2, <1>3
  <2> QED
    BY <2>1, PiecesExtended, Zenon
<1>5. c[f] = a[f]
  BY <1>1, <1>3
<1> QED
  BY <1>2, <1>3, <1>4, <1>5, Zenon DEF Whole

LEMMA EntryLater ==
    ASSUME NEW a, NEW c, Extends(a, c),
           NEW e, NEW l, NEW dn, Entry(a, e, l, dn)
    PROVE  Entry(c, e, l, dn)
<1>1. Len(a) \in Nat /\ \A n \in 1 .. Len(a) : c[n] = a[n]
  BY DEF Extends
<1>2. Whole(c, e.bytes, Unit(e), e.first, l)
  BY WholeLater DEF Entry
<1>3. l \in 1 .. Len(a) /\ e.first \in 1 .. l
  BY DEF Entry, Whole
<1>4. ~dn => OneSession(c, e.first, l, c[e.first].session)
  <2>1. e.first \in 1 .. Len(a) /\ \A n \in e.first .. l : n \in 1 .. Len(a)
    BY <1>1, <1>3
  <2> QED
    BY <1>1, <2>1 DEF Entry, OneSession
<1> QED
  BY <1>2, <1>4 DEF Entry

LEMMA BecomesLater ==
    ASSUME NEW a, NEW c, Extends(a, c),
           NEW dn, NEW n, NEW to, NEW p, Becomes(a, dn, n, to, p)
    PROVE  Becomes(c, dn, n, to, p)
<1>1. Len(a) \in Nat /\ Len(c) = Len(a) + 1 /\ \A k \in 1 .. Len(a) : c[k] = a[k]
  BY DEF Extends
<1>2. n \in 1 .. Len(a)
  BY DEF Becomes
<1>3. c[n] = a[n] /\ n \in 1 .. Len(c)
  BY <1>1, <1>2
<1> QED
  BY <1>3 DEF Becomes, GoalOf, ResultOf, BytesOf

LEMMA InOrderLater ==
    ASSUME NEW a, NEW c, Extends(a, c),
           NEW dn, NEW o, NEW t \in 0 .. Len(a), InOrder(a, dn, o, t)
    PROVE  InOrder(c, dn, o, t)
<1>1. Len(a) \in Nat /\ \A k \in 1 .. Len(a) : c[k] = a[k]
  BY DEF Extends
<1>2. \A n \in 1 .. t : c[n] = a[n]
  BY <1>1
<1>3. {n \in 1 .. t : RoutedOf(c, dn, n)} = {n \in 1 .. t : RoutedOf(a, dn, n)}
  BY <1>2 DEF RoutedOf
<1> QED
  BY <1>3 DEF InOrder

\* It is all of a new entry.
LEMMA WholeAlone ==
    ASSUME NEW c \in Seq(Arrival), NEW n \in 1 .. Len(c)
    PROVE  Whole(c, BytesOf(c, n), Len(BytesOf(c, n)), n, n)
<1> DEFINE p == BytesOf(c, n)
<1>1. n \in Nat \ {0} /\ p \in Seq(Byte) /\ Len(p) = c[n].len /\ c[n].len \in Nat
  BY BytesAre
<1>2. n \in 1 .. n
  BY <1>1
<1>3. CASE p = <<>>
  BY <1>1, <1>2, <1>3 DEF Whole
<1>4. CASE p # <<>>
  <2>1. Together(<<p>>, Len(p), p)
    BY <1>1, <1>4, TogetherOne
  <2>2. Pieces(c, n, n) = <<p>>
    <3>1. n - n + 1 = 1 /\ n + 1 - 1 = n
      BY <1>1
    <3>2. Pieces(c, n, n) = [j \in 1 .. 1 |-> BytesOf(c, n + j - 1)]
      BY <3>1 DEF Pieces
    <3>3. [j \in 1 .. 1 |-> BytesOf(c, n + j - 1)] = <<BytesOf(c, n)>>
      BY <3>1
    <3> QED
      BY <3>2, <3>3
  <2> QED
    BY <1>2, <1>4, <2>1, <2>2 DEF Whole
<1> QED
  BY <1>3, <1>4

\* Or it is merged with those before it.
LEMMA WholeMore ==
    ASSUME NEW a, NEW c, Extends(a, c), NEW n, n = Len(a) + 1,
           NEW b \in Seq(Byte), NEW g \in Nat, NEW f, Whole(a, b, g, f, n - 1),
           c[n].len > 0, c[n].len <= g, Len(b) % g = 0
    PROVE  Whole(c, b \o BytesOf(c, n), g, f, n)
<1> DEFINE p == BytesOf(c, n)
           l == n - 1
           w == Pieces(a, f, l)
<1>1. c \in Seq(Arrival) /\ Len(a) \in Nat /\ Len(c) = n
  BY DEF Extends
<1>2. n \in 1 .. Len(c) /\ n \in Nat \ {0} /\ l = Len(a) /\ c[n].len \in Nat
  <2>1. n \in 1 .. Len(c) /\ n \in Nat \ {0} /\ l = Len(a)
    BY <1>1
  <2> QED
    BY <1>1, <2>1, BytesAre
<1>3. p \in Seq(Byte) /\ Len(p) = c[n].len
  BY <1>1, <1>2, BytesAre, Zenon
<1>4. p # <<>>
  BY <1>3
<1>5. b # <<>> /\ Together(w, g, b) /\ l \in 1 .. Len(a) /\ f \in 1 .. l
  <2>1. g # 0
    BY <1>2
  <2> QED
    BY <2>1 DEF Whole
<1>6. Len(w) = l - f + 1 /\ w # <<>> /\ l - f + 1 \in Nat \ {0} /\ f \in Nat \ {0}
  <2>1. l \in Nat /\ f \in Nat \ {0} /\ f <= l
    BY <1>2, <1>5
  <2>2. Len(w) = l - f + 1 /\ w # <<>>
    BY <2>1, PiecesAre, ZenonT(30)
  <2> QED
    BY <2>1, <2>2
<1>7. Together(Append(w, p), g, b \o p)
  BY <1>3, <1>4, <1>5, <1>6, TogetherMore
<1>8. Pieces(c, f, n) = Append(w, p)
  <2>1. n - f + 1 = l - f + 1 + 1 /\ f + (n - f + 1) - 1 = n
    BY <1>2, <1>6
  <2>2. w = Pieces(c, f, l)
    <3>1. l \in 1 .. Len(a) /\ f \in Nat \ {0} /\ Len(a) \in Nat
      BY <1>1, <1>5, <1>6
    <3> HIDE DEF l
    <3>2. Pieces(c, f, l) = Pieces(a, f, l)
      BY <3>1, PiecesExtended, Zenon
    <3> QED
      BY <3>2 DEF w
  <2>3. w = [j \in 1 .. l - f + 1 |-> BytesOf(c, f + j - 1)]
    BY <2>2 DEF Pieces
  <2> DEFINE k == l - f + 1
  <2>4. /\ k \in Nat \ {0} /\ n - f + 1 = k + 1 /\ f + (k + 1) - 1 = n
        /\ w = [j \in 1 .. k |-> BytesOf(c, f + j - 1)]
    BY <1>6, <2>1, <2>3
  <2>5. Pieces(c, f, n) = [j \in 1 .. k + 1 |-> BytesOf(c, f + j - 1)]
    BY <2>4 DEF Pieces
  <2> HIDE DEF k, w, p
  <2>6. Append(w, p) = [j \in 1 .. k + 1 |-> IF j <= k THEN w[j] ELSE p]
    BY <2>4
  <2>7. \A j \in 1 .. k + 1 : (IF j <= k THEN w[j] ELSE p) = BytesOf(c, f + j - 1)
    <3> SUFFICES ASSUME NEW j \in 1 .. k + 1 PROVE (IF j <= k THEN w[j] ELSE p) = BytesOf(c, f + j - 1)
      OBVIOUS
    <3>1. j = k + 1 \/ j \in 1 .. k
      BY <2>4
    <3>2. CASE j = k + 1
      BY <2>4, <3>2 DEF p
    <3>3. CASE j \in 1 .. k
      BY <2>4, <3>3
    <3> QED
      BY <3>1, <3>2, <3>3
  <2>8. [j \in 1 .. k + 1 |-> IF j <= k THEN w[j] ELSE p] = [j \in 1 .. k + 1 |-> BytesOf(c, f + j - 1)]
    BY <2>7
  <2> QED
    BY <2>5, <2>6, <2>8, Zenon
<1>9. b \o p # <<>>
  BY <1>3, <1>4
<1>10. f \in 1 .. n
  BY <1>2, <1>5
<1> QED
  BY <1>1, <1>2, <1>7, <1>8, <1>9, <1>10 DEF Whole

(***************************************************************************)
(* The groups the code makes.                                              *)
(***************************************************************************)

Group == [to : Session \union {Peer}, withId : BOOLEAN, seg : Nat,
          iov : Seq(Seq(Byte)), load : Seq(Byte), nos : Seq(Nat \ {0})]
Receive == [bytes : Seq(Byte), seg : Nat, off : Nat, done : BOOLEAN,
            session : Session \union {NoSession}, no : Nat \ {0}]

Merged == [bytes : Seq(Byte), gso : Nat, first : Nat \ {0}]
Typing ==
    /\ status \in {"starting", "running", "refused", "exited"}
    /\ wanted \in BOOLEAN /\ supported \in BOOLEAN /\ batch \in BOOLEAN /\ down \in BOOLEAN
    /\ arrived \in Seq(Arrival)
    /\ queue \in Seq(Merged)
    /\ busy \in BOOLEAN
    /\ rcv \in Receive
    /\ out \in Group
    /\ tx \in Seq(Wire)

LEMMA TypingIs == TypeOK <=> Typing
  BY Zenon DEF TypeOK, Typing, Arrival, Merged, Receive, Group, Wire

LEMMA TypedNone == NoBatch \in Group /\ NoRecv \in Receive
<1> DEFINE S == Seq(Byte)
<1>1. <<>> \in S /\ <<>> \in Seq(S) /\ <<>> \in Seq(Nat \ {0})
  OBVIOUS
<1> HIDE DEF S
<1>2. NoBatch \in [to : Session \union {Peer}, withId : BOOLEAN, seg : Nat,
                   iov : Seq(S), load : S, nos : Seq(Nat \ {0})]
  BY <1>1 DEF NoBatch
<1>3. NoRecv \in [bytes : S, seg : Nat, off : Nat, done : BOOLEAN,
                  session : Session \union {NoSession}, no : Nat \ {0}]
  BY <1>1 DEF NoRecv
<1> QED
  BY <1>2, <1>3 DEF Group, Receive, S

LEMMA GroupOfNone == GroupIs(NoBatch)
<1> DEFINE o == NoBatch
<1>1. o.iov = <<>> /\ o.load = <<>> /\ o.nos = <<>> /\ o.seg = 0
  BY DEF NoBatch
<1> HIDE DEF o
<1>2. Len(o.iov) = 0 /\ Len(o.nos) = 0
  BY <1>1
<1>3. Typed(o.iov, o.seg, o.load)
  <2>1. <<>> \in Seq(Byte) /\ <<>> \in Seq(Seq(Byte)) /\ 0 \in Nat
    OBVIOUS
  <2> QED
    BY <1>1, <2>1, Zenon DEF Typed
<1>4. Fit(o.iov, o.seg) /\ InPlace(o.iov, o.seg, o.load)
  BY <1>2 DEF Fit, InPlace
<1>5. Together(o.iov, o.seg, o.load)
  BY <1>1, <1>3, <1>4, Zenon DEF Together
<1>6. GsoMaxSegs \in Nat \ {0}
  BY ConstantsAssumption
<1>7. GroupIs(o)
  BY <1>2, <1>5, <1>6 DEF GroupIs
<1> QED
  BY <1>7 DEF o

LEMMA GroupOfOne ==
    ASSUME NEW o, NEW p \in Seq(Byte), p # <<>>,
           o.iov = <<p>>, o.load = p, o.seg = Len(p), Len(o.nos) = 1
    PROVE  GroupIs(o)
<1>1. Together(o.iov, o.seg, o.load)
  BY TogetherOne, Zenon
<1>2. Len(o.iov) = 1
  OBVIOUS
<1>3. GsoMaxSegs \in Nat \ {0}
  BY ConstantsAssumption
<1> QED
  BY <1>1, <1>2, <1>3 DEF GroupIs

LEMMA GroupOfMore ==
    ASSUME NEW o, NEW q, NEW p \in Seq(Byte), p # <<>>, GroupIs(o), o.iov # <<>>,
           q.iov = Append(o.iov, p), q.load = o.load \o p, q.seg = o.seg,
           Len(q.nos) = Len(o.nos) + 1,
           Len(o.iov) < GsoMaxSegs, Len(p) <= o.seg, Len(o.load) % o.seg = 0,
           Len(o.load) + Len(p) <= GsoMaxBytes
    PROVE  GroupIs(q)
<1>1. Together(o.iov, o.seg, o.load)
  BY DEF GroupIs
<1>2. Together(Append(o.iov, p), o.seg, o.load \o p)
  BY <1>1, TogetherMore
<1>3. Together(q.iov, q.seg, q.load)
  BY <1>2, Zenon
<1>4. o.iov \in Seq(Seq(Byte)) /\ o.load \in Seq(Byte)
  BY <1>1 DEF Together, Typed
<1>5. Len(q.load) = Len(o.load) + Len(p)
  BY <1>4
<1>6. Len(q.iov) = Len(o.iov) + 1 /\ Len(o.iov) \in Nat
  BY <1>4, LenAppend
<1>7. GsoMaxSegs \in Nat
  BY ConstantsAssumption
<1> QED
  BY <1>3, <1>5, <1>6, <1>7 DEF GroupIs

(***************************************************************************)
(* The invariant holds at first and after each step.                       *)
(***************************************************************************)

LEMMA InitIInv == Init => IInv
<1> SUFFICES ASSUME Init PROVE IInv
  OBVIOUS
<1>1. /\ status = "starting" /\ wanted \in BOOLEAN /\ supported \in BOOLEAN /\ down \in BOOLEAN
      /\ batch = FALSE /\ arrived = <<>> /\ queue = <<>> /\ busy = FALSE
      /\ rcv = NoRecv /\ out = NoBatch /\ tx = <<>>
  BY DEF Init
<1>2. /\ out.iov = <<>> /\ out.nos = <<>> /\ out.load = <<>> /\ out.seg = 0
  BY <1>1 DEF NoBatch
<1>3. GroupIs(NoBatch)
  BY GroupOfNone
<1>4. TypeOK
  <2>1. arrived \in Seq(Arrival) /\ queue \in Seq(Merged) /\ tx \in Seq(Wire)
    BY <1>1
  <2>2. Typing
    BY <1>1, <2>1, TypedNone DEF Typing
  <2> QED
    BY <2>2, TypingIs
<1>5. Numbers(tx) \o out.nos = <<>>
  BY <1>1, <1>2 DEF Numbers
<1>6. TakenTo(arrived, queue, rcv, busy) = 0
  BY <1>1 DEF TakenTo, Start
<1>7. Ordered
  BY <1>5, <1>6 DEF Ordered, InOrder
<1> QED
  BY <1>1, <1>2, <1>3, <1>4, <1>7
  DEF IInv, Configured, Queued, Reading, Grouped, Held, Holds, Sent, Sends

LEMMA StopIInv ==
    ASSUME IInv, status' \in {status, "exited"},
           UNCHANGED <<setup, arrived, queue, busy, rcv, out, tx>>
    PROVE  IInv'
<1>1. /\ wanted' = wanted /\ supported' = supported /\ batch' = batch /\ down' = down
      /\ arrived' = arrived /\ queue' = queue /\ busy' = busy /\ rcv' = rcv
      /\ out' = out /\ tx' = tx
  BY DEF setup
<1>2. Typing'
  <2>1. Typing
    BY TypingIs DEF IInv
  <2> QED
    BY <1>1, <2>1 DEF Typing
<1>3. TypeOK'
  BY <1>2, TypingIs, PTL
<1>4. Queued' /\ Reading' /\ Grouped' /\ Held' /\ Sent' /\ Ordered'
  BY <1>1 DEF IInv, Queued, Reading, Grouped, Held, Sent, Ordered
<1>5. Configured'
  BY <1>1 DEF IInv, Configured
<1> QED
  BY <1>3, <1>4, <1>5 DEF IInv

LEMMA SetBatchIInv == IInv /\ SetBatch => IInv'
<1> SUFFICES ASSUME IInv, SetBatch PROVE IInv'
  OBVIOUS
<1>1. /\ wanted' = wanted /\ supported' = supported /\ down' = down
      /\ arrived' = arrived /\ queue' = queue /\ busy' = busy /\ rcv' = rcv
      /\ out' = out /\ tx' = tx
      /\ status = "starting" /\ status' \in {"refused", "running"}
      /\ batch' = (wanted /\ supported)
  BY DEF SetBatch
<1>2. Typing'
  <2>1. Typing
    BY TypingIs DEF IInv
  <2> QED
    BY <1>1, <2>1 DEF Typing
<1>3. TypeOK'
  BY <1>2, TypingIs, PTL
<1>4. Queued' /\ Reading' /\ Grouped' /\ Held' /\ Sent' /\ Ordered'
  BY <1>1 DEF IInv, Queued, Reading, Grouped, Held, Sent, Ordered
<1>5. Configured'
  BY <1>1 DEF IInv, Configured
<1> QED
  BY <1>3, <1>4, <1>5 DEF IInv

\* Datagrams that come change only what has come and the queue.
LEMMA ComesIInv ==
    ASSUME IInv, NEW d \in Incoming, Comes(d),
           queue' \in Seq(Merged), Queued',
           Start(arrived', queue', 1) = Start(arrived, queue, 1)
    PROVE  IInv'
<1>1. /\ wanted' = wanted /\ supported' = supported /\ batch' = batch /\ down' = down
      /\ arrived' = Append(arrived, d) /\ busy' = busy /\ rcv' = rcv
      /\ out' = out /\ tx' = tx /\ status' = status /\ status = "running" /\ ~busy
  BY DEF Comes, setup
<1>2. Typing
  BY TypingIs DEF IInv
<1>3. d \in Arrival
  BY ConstantsAssumption DEF Arrival
<1>4. Extends(arrived, arrived')
  BY <1>1, <1>2, <1>3, Later DEF Typing
<1>5. TypeOK'
  <2>1. arrived' \in Seq(Arrival)
    BY <1>4 DEF Extends
  <2>2. Typing'
    BY <1>1, <1>2, <2>1 DEF Typing
  <2> QED
    BY <2>2, TypingIs, PTL
<1>6. Configured' /\ Reading' /\ Grouped'
  BY <1>1 DEF IInv, Configured, Reading, Grouped
<1>7. Held'
  <2>1. Len(arrived) \in Nat /\ \A j \in 1 .. Len(out.iov) : Becomes(arrived, down, out.nos[j], out.to, out.iov[j])
    BY <1>4 DEF IInv, Held, Holds, Extends
  <2>2. \A j \in 1 .. Len(out.iov) : Becomes(arrived', down, out.nos[j], out.to, out.iov[j])
    BY <1>4, <2>1, BecomesLater
  <2> QED
    BY <1>1, <2>2 DEF Held, Holds
<1>8. Sent'
  <2>1. \A j \in 1 .. Len(tx) : Becomes(arrived, down, tx[j].no, tx[j].to, tx[j].bytes)
    BY DEF IInv, Sent, Sends
  <2>2. \A j \in 1 .. Len(tx) : Becomes(arrived', down, tx[j].no, tx[j].to, tx[j].bytes)
    BY <1>4, <2>1, BecomesLater
  <2> QED
    BY <1>1, <2>2 DEF Sent, Sends
<1>9. Ordered'
  <2> DEFINE t == Start(arrived, queue, 1) - 1
             o == Numbers(tx) \o out.nos
  <2>1. t \in 0 .. Len(arrived)
    <3>1. /\ 1 \in 1 .. Len(queue) => Start(arrived, queue, 1) = queue[1].first
          /\ 1 > Len(queue) => Start(arrived, queue, 1) = Len(arrived) + 1
          /\ Start(arrived, queue, 1) \in Nat \ {0}
          /\ Len(queue) \in Nat /\ Len(arrived) \in Nat
      BY StartIs DEF IInv
    <3>2. 1 \in 1 .. Len(queue) => queue[1].first \in 1 .. Len(arrived)
      <4> SUFFICES ASSUME 1 \in 1 .. Len(queue) PROVE queue[1].first \in 1 .. Len(arrived)
        OBVIOUS
      <4> DEFINE l == Start(arrived, queue, 1 + 1) - 1
      <4>1. Entry(arrived, queue[1], l, down)
        BY DEF IInv, Queued
      <4> HIDE DEF l
      <4>2. l \in 1 .. Len(arrived) /\ queue[1].first \in 1 .. l
        BY <4>1 DEF Entry, Whole
      <4> QED
        BY <3>1, <4>2
    <3> QED
      BY <3>1, <3>2
  <2>2. InOrder(arrived, down, o, t)
    BY <1>1 DEF IInv, Ordered, TakenTo
  <2>3. InOrder(arrived', down, o, t)
    BY <1>4, <2>1, <2>2, InOrderLater
  <2>4. TakenTo(arrived', queue', rcv', busy') = t
    BY <1>1 DEF TakenTo
  <2> QED
    BY <1>1, <2>3, <2>4, Zenon DEF Ordered
<1> QED
  BY <1>5, <1>6, <1>7, <1>8, <1>9 DEF IInv

LEMMA ArriveIInv ==
    ASSUME IInv, NEW d \in Incoming, Arrive(d)
    PROVE  IInv'
<1> DEFINE a == arrived
           c == arrived'
           n == Len(a) + 1
           m == Len(queue)
           e == [bytes |-> [k \in 1 .. d.len |-> <<n, k>>], gso |-> 0, first |-> n]
<1>1. Comes(d) /\ queue' = Append(queue, e) /\ down' = down /\ c = Append(a, d)
  BY DEF Arrive, Comes, setup
<1>2. Typing
  BY TypingIs DEF IInv
<1>3. d \in Arrival
  BY ConstantsAssumption DEF Arrival
<1>4. Extends(a, c) /\ c[n] = d
  BY <1>1, <1>2, <1>3, Later DEF Typing
<1>5. c \in Seq(Arrival) /\ Len(a) \in Nat /\ n \in Nat \ {0} /\ Len(c) = n /\ n \in 1 .. Len(c)
  BY <1>4 DEF Extends
<1>6. /\ e.bytes = BytesOf(c, n) /\ e.gso = 0 /\ e.first = n
      /\ e \in Merged
  <2>1. e.bytes = BytesOf(c, n) /\ e.gso = 0 /\ e.first = n
    BY <1>4 DEF BytesOf
  <2>2. BytesOf(c, n) \in Seq(Byte)
    BY <1>5, BytesAre
  <2>3. e = [bytes |-> BytesOf(c, n), gso |-> 0, first |-> n]
    BY <2>1
  <2> QED
    BY <1>5, <2>1, <2>2, <2>3 DEF Merged
<1> HIDE DEF e
<1>7. queue \in Seq(Merged) /\ m \in Nat
  BY <1>2 DEF Typing
<1>8. /\ queue' \in Seq(Merged) /\ Len(queue') = m + 1
      /\ queue'[m + 1] = e /\ \A i \in 1 .. m : queue'[i] = queue[i]
  BY <1>1, <1>6, <1>7, AppendProperties
<1>9. \A i \in 1 .. m + 1 : Start(c, queue', i) = Start(a, queue, i)
  BY <1>5, <1>6, <1>7, <1>8 DEF Start
<1>10. Start(c, queue', m + 2) = n + 1
  BY <1>5, <1>7, <1>8 DEF Start
<1>11. ASSUME NEW i \in 1 .. Len(queue')
       PROVE  Entry(c, queue'[i], Start(c, queue', i + 1) - 1, down)
  <2>1. CASE i \in 1 .. m
    <3>1. Entry(a, queue[i], Start(a, queue, i + 1) - 1, down)
      BY <2>1 DEF IInv, Queued
    <3>2. Start(c, queue', i + 1) = Start(a, queue, i + 1)
      BY <1>7, <1>9, <2>1
    <3> QED
      BY <1>4, <1>8, <2>1, <3>1, <3>2, EntryLater
  <2>2. CASE i = m + 1
    <3>1. Start(c, queue', i + 1) - 1 = n
      <4>1. i + 1 = m + 2 /\ n + 1 - 1 = n
        BY <1>5, <1>7, <2>2
      <4> QED
        BY <1>10, <4>1
    <3>2. Whole(c, e.bytes, Unit(e), e.first, n)
      BY <1>5, <1>6, WholeAlone DEF Unit
    <3>3. OneSession(c, e.first, n, c[e.first].session)
      BY <1>5, <1>6 DEF OneSession
    <3> QED
      BY <1>6, <1>8, <2>2, <3>1, <3>2, <3>3 DEF Entry
  <2>3. i \in 1 .. m \/ i = m + 1
    BY <1>7, <1>8
  <2> QED
    BY <2>1, <2>2, <2>3
<1>12. Queued'
  BY <1>1, <1>11 DEF Queued
<1>13. Start(c, queue', 1) = Start(a, queue, 1)
  BY <1>7, <1>9
<1> QED
  BY <1>1, <1>8, <1>12, <1>13, ComesIInv

LEMMA ArriveMergedIInv ==
    ASSUME IInv, NEW d \in Incoming, ArriveMerged(d)
    PROVE  IInv'
<1> DEFINE a == arrived
           c == arrived'
           n == Len(a) + 1
           m == Len(queue)
           q == queue[m]
           p == [k \in 1 .. d.len |-> <<n, k>>]
           e == [bytes |-> q.bytes \o p, gso |-> Unit(q), first |-> q.first]
<1>1. /\ Comes(d) /\ queue # <<>> /\ queue' = [queue EXCEPT ![m] = e]
      /\ down \/ d.session = a[n - 1].session
      /\ d.len > 0 /\ d.len <= Unit(q) /\ Len(q.bytes) % Unit(q) = 0
      /\ down' = down /\ c = Append(a, d)
  BY DEF ArriveMerged, Comes, setup
<1>2. Typing
  BY TypingIs DEF IInv
<1>3. d \in Arrival
  BY ConstantsAssumption DEF Arrival
<1>4. Extends(a, c) /\ c[n] = d
  BY <1>1, <1>2, <1>3, Later DEF Typing
<1>5. c \in Seq(Arrival) /\ Len(a) \in Nat /\ n \in Nat \ {0} /\ Len(c) = n /\ n \in 1 .. Len(c) /\ n - 1 = Len(a)
  BY <1>4 DEF Extends
<1>6. p = BytesOf(c, n)
  BY <1>4 DEF BytesOf
<1>7. queue \in Seq(Merged) /\ m \in Nat \ {0} /\ q \in Merged
  <2>1. queue \in Seq(Merged) /\ queue # <<>>
    BY <1>1, <1>2 DEF Typing
  <2> QED
    BY <2>1
<1>8. q.bytes \in Seq(Byte) /\ q.gso \in Nat /\ q.first \in Nat \ {0}
  BY <1>7 DEF Merged
<1>9. Unit(q) \in Nat \ {0} /\ d.len \in Nat
  <2>1. Unit(q) \in Nat
    BY <1>8 DEF Unit
  <2> QED
    BY <1>1, <1>3, <2>1 DEF Arrival
<1>10. Entry(a, q, n - 1, down)
  <2>1. Start(a, queue, m + 1) = n
    BY <1>7 DEF Start
  <2>2. m \in 1 .. Len(queue)
    BY <1>7
  <2> QED
    BY <2>1, <2>2 DEF IInv, Queued
<1>11. p \in Seq(Byte) /\ Len(p) = d.len
  BY <1>4, <1>5, <1>6, BytesAre
<1>12. e.bytes = q.bytes \o p /\ e.gso = Unit(q) /\ e.first = q.first /\ e \in Merged
  <2>1. q.bytes \o p \in Seq(Byte)
    BY <1>8, <1>11
  <2> QED
    BY <1>8, <1>9, <2>1 DEF Merged
<1> HIDE DEF e, p, q
<1>13. /\ queue' \in Seq(Merged) /\ Len(queue') = m
       /\ queue'[m] = e /\ \A i \in 1 .. m : i # m => queue'[i] = queue[i]
  BY <1>1, <1>7, <1>12
<1>14. Entry(c, e, n, down)
  <2>1. Whole(c, e.bytes, Unit(e), e.first, n)
    <3>1. Whole(a, q.bytes, Unit(q), q.first, n - 1)
      BY <1>10 DEF Entry
    <3>2. c[n].len > 0 /\ c[n].len <= Unit(q)
      BY <1>1, <1>4
    <3>3. Whole(c, q.bytes \o BytesOf(c, n), Unit(q), q.first, n)
      BY <1>1, <1>4, <1>8, <1>9, <3>1, <3>2, WholeMore
    <3>4. Unit(e) = Unit(q)
      BY <1>9, <1>12 DEF Unit
    <3> QED
      BY <1>6, <1>12, <3>3, <3>4, Zenon
  <2>2. e.gso < Len(e.bytes)
    <3>1. Len(e.bytes) = Len(q.bytes) + d.len /\ Len(q.bytes) \in Nat
      BY <1>8, <1>11, <1>12, LenJoined
    <3>2. Unit(q) <= Len(q.bytes)
      BY <1>8, <1>10, <3>1 DEF Unit, Entry
    <3> QED
      BY <1>1, <1>9, <1>12, <3>1, <3>2
  <2>3. ~down => OneSession(c, e.first, n, c[e.first].session)
    <3> SUFFICES ASSUME ~down PROVE OneSession(c, q.first, n, c[q.first].session)
      BY <1>12
    <3>1. OneSession(a, q.first, n - 1, a[q.first].session)
      BY <1>10 DEF Entry
    <3>2. q.first \in 1 .. n - 1
      BY <1>10 DEF Entry, Whole
    <3>3. c[n].session = a[n - 1].session
      BY <1>1, <1>4
    <3>4. \A k \in 1 .. n - 1 : c[k] = a[k]
      BY <1>4, <1>5 DEF Extends
    <3>5. \A k \in q.first .. n - 1 : a[k].session = a[q.first].session
      BY <3>1 DEF OneSession
    <3>6. \A k \in q.first .. n : c[k].session = c[q.first].session
      <4> SUFFICES ASSUME NEW k \in q.first .. n PROVE c[k].session = c[q.first].session
        OBVIOUS
      <4>1. c[q.first] = a[q.first] /\ n - 1 \in q.first .. n - 1
        BY <1>5, <3>2, <3>4
      <4>2. CASE k = n
        BY <3>3, <3>5, <4>1, <4>2
      <4>3. CASE k # n
        <5>1. k \in q.first .. n - 1 /\ k \in 1 .. n - 1
          BY <1>5, <1>8, <4>3
        <5> QED
          BY <3>4, <3>5, <4>1, <5>1
      <4> QED
        BY <4>2, <4>3
    <3> QED
      BY <3>6 DEF OneSession
  <2> QED
    BY <2>1, <2>2, <2>3 DEF Entry
<1>15. \A i \in 1 .. m : Start(c, queue', i) = Start(a, queue, i)
  <2> SUFFICES ASSUME NEW i \in 1 .. m PROVE Start(c, queue', i) = Start(a, queue, i)
    OBVIOUS
  <2>1. queue'[i].first = queue[i].first
    BY <1>12, <1>13 DEF q
  <2> QED
    BY <1>7, <1>13, <2>1 DEF Start
<1>16. ASSUME NEW i \in 1 .. Len(queue')
       PROVE  Entry(c, queue'[i], Start(c, queue', i + 1) - 1, down)
  <2>1. CASE i # m
    <3>1. i \in 1 .. m /\ i + 1 \in 1 .. m
      BY <1>7, <1>13, <2>1
    <3>2. Entry(a, queue[i], Start(a, queue, i + 1) - 1, down)
      BY <3>1 DEF IInv, Queued
    <3>3. Start(c, queue', i + 1) = Start(a, queue, i + 1) /\ queue'[i] = queue[i]
      BY <1>13, <1>15, <2>1, <3>1
    <3> QED
      BY <1>4, <3>2, <3>3, EntryLater
  <2>2. CASE i = m
    <3>1. Start(c, queue', i + 1) - 1 = n
      BY <1>5, <1>7, <1>13, <2>2 DEF Start
    <3> QED
      BY <1>13, <1>14, <2>2, <3>1
  <2> QED
    BY <2>1, <2>2
<1>17. Queued'
  BY <1>1, <1>16 DEF Queued
<1>18. Start(c, queue', 1) = Start(a, queue, 1)
  BY <1>7, <1>15
<1> QED
  BY <1>1, <1>13, <1>17, <1>18, ComesIInv

\* What is left goes on to the start of the queue.
LEMMA ReadsOn ==
    ASSUME NEW a, NEW r, NEW f, NEW l \in Nat, NEW dn,
           ~r.done, f \in 1 .. r.no, Left(a, r, f, l, dn)
    PROVE  Reads(a, r, l + 1, dn)
<1> DEFINE t == l + 1
<1>1. t - 1 = l
  OBVIOUS
<1> HIDE DEF t
<1>2. \E k \in 1 .. r.no : Left(a, r, k, t - 1, dn)
  BY <1>1
<1>3. Reads(a, r, t, dn)
  BY <1>2 DEF Reads
<1> QED
  BY <1>3 DEF t

LEMMA ReadIInv ==
    ASSUME IInv, Read
    PROVE  IInv'
<1> DEFINE a == arrived
           q == queue[1]
           f == q.first
           l == Start(a, queue, 2) - 1
           s == IF down THEN NoSession ELSE a[f].session
           r == [bytes |-> q.bytes,
                 seg |-> IF q.gso > 0 /\ q.gso < Len(q.bytes) THEN q.gso ELSE Len(q.bytes),
                 off |-> 0, done |-> FALSE, session |-> s, no |-> f]
<1>1. Typing
  BY TypingIs DEF IInv
<1>2. queue \in Seq(Merged) /\ queue # <<>>
  BY <1>1 DEF Read, Typing
<1>3. Head(queue) = q /\ q \in Merged /\ Len(queue) \in Nat \ {0}
  BY <1>2
<1>4. /\ status = "running" /\ ~busy /\ queue' = Tail(queue)
      /\ wanted' = wanted /\ supported' = supported /\ batch' = batch /\ down' = down
      /\ arrived' = a /\ out' = out /\ tx' = tx /\ status' = status
  BY DEF Read, setup
<1>5. \/ ~down /\ s = NoSession /\ busy' = busy /\ rcv' = rcv
      \/ busy' = TRUE /\ rcv' = r
  BY <1>3, Zenon DEF Read
<1>6. q.bytes \in Seq(Byte) /\ q.gso \in Nat /\ f \in Nat \ {0} /\ Len(q.bytes) \in Nat
  BY <1>3 DEF Merged
<1>7. Entry(a, q, l, down)
  <2>1. 1 \in 1 .. Len(queue) /\ 1 + 1 = 2
    BY <1>3
  <2> QED
    BY <2>1 DEF IInv, Queued
<1>8. l \in 1 .. Len(a) /\ f \in 1 .. l /\ l + 1 = Start(a, queue, 2) /\ Len(a) \in Nat
  <2>1. l \in 1 .. Len(a) /\ f \in 1 .. l
    BY <1>7 DEF Entry, Whole
  <2>2. Start(a, queue, 2) \in Nat /\ Len(a) \in Nat
    BY StartIs DEF IInv
  <2> QED
    BY <2>1, <2>2
<1>9. /\ queue' \in Seq(Merged) /\ Len(queue') = Len(queue) - 1
      /\ \A i \in 1 .. Len(queue') : queue'[i] = queue[i + 1]
  BY <1>2, <1>4, HeadTailProperties
<1>10. \A i \in Nat \ {0} : Start(a, queue', i) = Start(a, queue, i + 1)
  BY <1>3, <1>9 DEF Start
<1>11. Queued'
  <2> SUFFICES ASSUME NEW i \in 1 .. Len(queue')
               PROVE  Entry(a, queue'[i], Start(a, queue', i + 1) - 1, down)
    BY <1>4 DEF Queued
  <2>1. i \in Nat \ {0} /\ i + 1 \in 1 .. Len(queue) /\ i + 1 \in Nat \ {0}
    BY <1>3, <1>9
  <2>2. Entry(a, queue[i + 1], Start(a, queue, i + 1 + 1) - 1, down)
    BY <2>1 DEF IInv, Queued
  <2>3. Start(a, queue', i + 1) = Start(a, queue, i + 1 + 1)
    BY <1>10, <2>1
  <2> QED
    BY <1>9, <2>2, <2>3
<1>12. Start(a, queue, 1) = f /\ Start(a, queue', 1) = l + 1
  <2>1. Start(a, queue, 1) = f
    BY <1>3 DEF Start
  <2>2. Start(a, queue', 1) = Start(a, queue, 2)
    BY <1>10
  <2> QED
    BY <1>8, <2>1, <2>2
<1>13. r \in Receive
  <2>1. f \in 1 .. Len(a)
    BY <1>6, <1>8
  <2>2. s \in Session \union {NoSession}
    BY <1>1, <2>1, BytesAre DEF Typing
  <2> QED
    BY <1>6, <2>2 DEF Receive
<1> HIDE DEF q, f, l, s
<1>14. TypeOK'
  <2>1. rcv' \in Receive /\ busy' \in BOOLEAN
    BY <1>1, <1>5, <1>13 DEF Typing
  <2>2. Typing'
    BY <1>1, <1>4, <1>9, <2>1 DEF Typing
  <2> QED
    BY <2>2, TypingIs, PTL
<1>15. Grouped' /\ Held' /\ Sent'
  BY <1>4 DEF IInv, Grouped, Held, Sent
<1>16. Configured'
  BY <1>4 DEF IInv, Configured
<1>17. InOrder(a, down, Numbers(tx) \o out.nos, f - 1)
  BY <1>4, <1>12 DEF IInv, Ordered, TakenTo
<1>18. CASE ~down /\ s = NoSession /\ busy' = busy /\ rcv' = rcv
  <2>1. OneSession(a, f, l, NoSession)
    BY <1>7, <1>18 DEF Entry, f, s
  <2>2. \A n \in f - 1 + 1 .. l : ~RoutedOf(a, down, n)
    BY <1>6, <2>1 DEF OneSession, RoutedOf
  <2>3. f - 1 \in Nat /\ l \in Nat /\ f - 1 <= l
    BY <1>6, <1>8
  <2>4. InOrder(a, down, Numbers(tx) \o out.nos, l)
    BY <1>17, <2>2, <2>3, NoneMore
  <2>5. TakenTo(arrived', queue', rcv', busy') = l
    <3>1. l + 1 - 1 = l
      BY <2>3
    <3>2. ~busy'
      BY <1>4, <1>18
    <3>3. TakenTo(arrived', queue', rcv', busy') = Start(a, queue', 1) - 1
      BY <1>4, <3>2, Zenon DEF TakenTo
    <3> QED
      BY <1>12, <2>3, <3>1, <3>3
  <2>6. Ordered'
    BY <1>4, <2>4, <2>5, Zenon DEF Ordered
  <2>7. Reading'
    BY <1>4, <1>18 DEF Reading
  <2> QED
    BY <1>11, <1>14, <1>15, <1>16, <2>6, <2>7 DEF IInv
<1>19. CASE busy' = TRUE /\ rcv' = r
  <2>1. r.no = f /\ r.session = s /\ ~r.done /\ r.off = 0 /\ r.bytes = q.bytes
    OBVIOUS
  <2>2. r.seg = Unit(q)
    BY <1>6, <1>7 DEF Entry, Unit
  <2> HIDE DEF r
  <2>3. f \in 1 .. f /\ f - f + 1 = 1 /\ l + 1 - 1 = l /\ f \in f .. l
    BY <1>6, <1>8
  <2>4. Unit(q) \in Nat
    BY <1>6 DEF Unit
  <2>5. Left(a, r, f, l, down)
    <3>1. Whole(a, r.bytes, r.seg, f, l)
      BY <1>7, <2>1, <2>2 DEF Entry, f
    <3>2. r.off = At(r.no - f + 1, r.seg)
      BY <2>1, <2>2, <2>3, <2>4, AtFirst
    <3>3. ~down => OneSession(a, f, l, r.session)
      BY <1>7, <2>1 DEF Entry, f, s
    <3> QED
      BY <2>1, <2>3, <3>1, <3>2, <3>3 DEF Left
  <2>6. Reads(a, r, l + 1, down)
    <3>1. f \in 1 .. r.no /\ l \in Nat
      BY <1>6, <1>8, <2>1, <2>3
    <3> QED
      BY <2>1, <2>5, <3>1, ReadsOn
  <2>7. Reading'
    BY <1>4, <1>12, <1>19, <2>6 DEF Reading
  <2>8. TakenTo(arrived', queue', rcv', busy') = f - 1
    BY <1>19, <2>1 DEF TakenTo
  <2>9. Ordered'
    BY <1>4, <1>17, <2>8, Zenon DEF Ordered
  <2> QED
    BY <1>11, <1>14, <1>15, <1>16, <2>7, <2>9 DEF IInv
<1> QED
  BY <1>5, <1>18, <1>19

LEMMA NumbersTyped ==
    ASSUME NEW t \in Seq(Wire)
    PROVE  Numbers(t) \in Seq(Nat \ {0}) /\ Len(Numbers(t)) = Len(t)
<1>1. Len(t) \in Nat
  OBVIOUS
<1>2. \A i \in 1 .. Len(t) : t[i].no \in Nat \ {0}
  <2>1. \A i \in 1 .. Len(t) : t[i] \in Wire
    BY ElementOf
  <2> QED
    BY <2>1 DEF Wire
<1> QED
  BY <1>1, <1>2 DEF Numbers

LEMMA Joined ==
    ASSUME NEW S, NEW v \in Seq(S), NEW w \in Seq(S)
    PROVE  v \o w = [i \in 1 .. Len(v) + Len(w) |-> IF i <= Len(v) THEN v[i] ELSE w[i - Len(v)]]
<1> DEFINE m == Len(v)
           n == Len(w)
           c == v \o w
           k == [i \in 1 .. m + n |-> IF i <= m THEN v[i] ELSE w[i - m]]
<1>1. /\ m \in Nat /\ n \in Nat /\ c \in Seq(S) /\ Len(c) = m + n
      /\ \A i \in 1 .. m + n : c[i] = IF i <= m THEN v[i] ELSE w[i - m]
  OBVIOUS
<1>2. /\ \A i \in 1 .. m : v[i] \in S
      /\ \A i \in 1 .. n : w[i] \in S
  OBVIOUS
<1> HIDE DEF m, n, c
<1>3. \A i \in 1 .. m + n : (IF i <= m THEN v[i] ELSE w[i - m]) \in S
  BY <1>1, <1>2
<1>4. k \in Seq(S) /\ Len(k) = m + n
  BY <1>1, <1>3
<1>5. \A i \in 1 .. m + n : k[i] = IF i <= m THEN v[i] ELSE w[i - m]
  OBVIOUS
<1> HIDE DEF k
<1>6. c = k
  BY <1>1, <1>4, <1>5, SeqEqual
<1> QED
  BY <1>6 DEF c, k, m, n

\* What is sent, after what was sent.
LEMMA SendsBoth ==
    ASSUME NEW a, NEW dn, NEW t \in Seq(Wire), NEW u \in Seq(Wire), Sends(a, dn, t), Sends(a, dn, u)
    PROVE  /\ t \o u \in Seq(Wire)
           /\ Sends(a, dn, t \o u)
           /\ Numbers(t \o u) = Numbers(t) \o Numbers(u)
<1> DEFINE m == Len(t)
           n == Len(u)
           v == t \o u
<1>1. /\ v \in Seq(Wire) /\ m \in Nat /\ n \in Nat /\ Len(v) = m + n
      /\ \A i \in 1 .. m + n : v[i] = IF i <= m THEN t[i] ELSE u[i - m]
  OBVIOUS
<1> HIDE DEF m, n, v
<1>2. Sends(a, dn, v)
  <2> SUFFICES ASSUME NEW i \in 1 .. m + n
               PROVE  Becomes(a, dn, v[i].no, v[i].to, v[i].bytes)
    BY <1>1 DEF Sends
  <2>1. \/ i \in 1 .. m /\ v[i] = t[i]
        \/ i - m \in 1 .. n /\ v[i] = u[i - m]
    BY <1>1
  <2> QED
    BY <2>1 DEF Sends, m, n
<1>3. Numbers(v) = Numbers(t) \o Numbers(u)
  <2>1. Numbers(v) = [i \in 1 .. m + n |-> v[i].no]
    BY <1>1 DEF Numbers
  <2>2. /\ Numbers(t) = [i \in 1 .. m |-> t[i].no] /\ Numbers(u) = [i \in 1 .. n |-> u[i].no]
    BY DEF Numbers, m, n
  <2>3. /\ Len(Numbers(t)) = m /\ Len(Numbers(u)) = n
        /\ Numbers(t) \in Seq(Nat \ {0}) /\ Numbers(u) \in Seq(Nat \ {0})
    BY NumbersTyped DEF m, n
  <2>4. Numbers(t) \o Numbers(u) =
          [i \in 1 .. m + n |-> IF i <= m THEN Numbers(t)[i] ELSE Numbers(u)[i - m]]
    <3> DEFINE x == Numbers(t)
               y == Numbers(u)
    <3>1. x \o y = [i \in 1 .. Len(x) + Len(y) |-> IF i <= Len(x) THEN x[i] ELSE y[i - Len(x)]]
      BY <2>3, Joined, Zenon
    <3>2. Len(x) = m /\ Len(y) = n
      BY <2>3
    <3> HIDE DEF x, y
    <3>3. x \o y = [i \in 1 .. m + n |-> IF i <= m THEN x[i] ELSE y[i - m]]
      BY <3>1, <3>2, Zenon
    <3> QED
      BY <3>3 DEF x, y
  <2>5. ASSUME NEW i \in 1 .. m + n
        PROVE  v[i].no = IF i <= m THEN Numbers(t)[i] ELSE Numbers(u)[i - m]
    BY <1>1, <2>2
  <2>6. [i \in 1 .. m + n |-> v[i].no] =
          [i \in 1 .. m + n |-> IF i <= m THEN Numbers(t)[i] ELSE Numbers(u)[i - m]]
    BY <2>5
  <2> QED
    BY <2>1, <2>4, <2>6, Zenon
<1> QED
  BY <1>1, <1>2, <1>3 DEF v

\* After a flush.
LEMMA FlushIs ==
    ASSUME IInv, NEW f \in Flushed
    PROVE  /\ tx \o f \in Seq(Wire)
           /\ Sends(arrived, down, tx \o f)
           /\ Numbers(tx \o f) = Numbers(tx) \o out.nos
<1>1. f = Asked(out.iov)
  BY FlushedIs DEF IInv
<1>2. /\ f \in Seq(Wire) /\ Len(f) = Len(out.iov) /\ Len(out.nos) = Len(out.iov) /\ Len(out.iov) \in Nat
      /\ \A j \in 1 .. Len(out.iov) :
             /\ f[j].no = out.nos[j]
             /\ out.nos[j] \in 1 .. Len(arrived)
             /\ f[j].to = GoalOf(arrived, down, out.nos[j])
             /\ f[j].bytes = ResultOf(arrived, down, out.nos[j])
  BY <1>1, AskedIs DEF IInv
<1>3. Sends(arrived, down, f)
  BY <1>2 DEF Sends, Becomes
<1>4. tx \in Seq(Wire) /\ out.nos \in Seq(Nat \ {0})
  <2>1. tx \in Seq(Wire) /\ out \in Group
    BY TypingIs DEF IInv, Typing
  <2> QED
    BY <2>1 DEF Group
<1>5. Numbers(f) = out.nos
  <2> DEFINE w == out.nos
  <2>1. w = [j \in 1 .. Len(w) |-> w[j]]
    BY <1>4
  <2>2. \A j \in 1 .. Len(w) : f[j].no = w[j]
    BY <1>2
  <2>3. Numbers(f) = [j \in 1 .. Len(w) |-> f[j].no]
    BY <1>2 DEF Numbers
  <2> HIDE DEF w
  <2>4. [j \in 1 .. Len(w) |-> f[j].no] = [j \in 1 .. Len(w) |-> w[j]]
    BY <2>2
  <2>5. Numbers(f) = w
    BY <2>1, <2>3, <2>4, Zenon
  <2> QED
    BY <2>5 DEF w
<1>6. Sends(arrived, down, tx)
  BY DEF IInv, Sent
<1>7. /\ tx \o f \in Seq(Wire) /\ Sends(arrived, down, tx \o f)
      /\ Numbers(tx \o f) = Numbers(tx) \o Numbers(f)
  <2>1. f \in Seq(Wire)
    BY <1>2
  <2> QED
    BY <1>3, <1>4, <1>6, <2>1, SendsBoth, Zenon
<1> QED
  BY <1>5, <1>7, Zenon

LEMMA ReturnIInv ==
    ASSUME IInv, Return
    PROVE  IInv'
<1>1. /\ wanted' = wanted /\ supported' = supported /\ batch' = batch /\ down' = down
      /\ arrived' = arrived /\ queue' = queue /\ status' = status
      /\ status = "running" /\ busy /\ rcv.done
      /\ busy' = FALSE /\ out' = NoBatch /\ rcv' = NoRecv
  BY DEF Return, setup
<1>2. PICK f \in Flushed : tx' = tx \o f
  BY DEF Return
<1>3. /\ tx' \in Seq(Wire) /\ Sends(arrived, down, tx')
      /\ Numbers(tx') = Numbers(tx) \o out.nos
  BY <1>2, FlushIs, Zenon
<1>4. out'.iov = <<>> /\ out'.nos = <<>>
  BY <1>1 DEF NoBatch
<1>5. TypeOK'
  <2>1. Typing
    BY TypingIs DEF IInv
  <2>2. Typing'
    BY <1>1, <1>3, <2>1, TypedNone DEF Typing
  <2> QED
    BY <2>2, TypingIs, PTL
<1>6. Queued' /\ Reading' /\ Sent'
  BY <1>1, <1>3 DEF IInv, Queued, Reading, Sent
<1>7. Grouped' /\ Held' /\ Configured'
  BY <1>1, <1>4, GroupOfNone DEF IInv, Grouped, Held, Holds, Configured
<1>8. Ordered'
  <2>1. InOrder(arrived, down, Numbers(tx'), rcv.no - 1)
    BY <1>1, <1>3 DEF IInv, Ordered, TakenTo
  <2>2. rcv.no = Start(arrived, queue, 1)
    BY <1>1 DEF IInv, Reading, Reads
  <2>3. Numbers(tx') \o out'.nos = Numbers(tx')
    <3> DEFINE t == tx'
    <3>1. Len(t) \in Nat
      BY <1>3
    <3> HIDE DEF t
    <3>2. Numbers(t) \o <<>> = Numbers(t)
      BY <3>1 DEF Numbers
    <3> QED
      BY <1>4, <3>2 DEF t
  <2>4. TakenTo(arrived', queue', rcv', busy') = rcv.no - 1
    BY <1>1, <2>2 DEF TakenTo
  <2> QED
    BY <1>1, <2>1, <2>3, <2>4, Zenon DEF Ordered
<1> QED
  BY <1>5, <1>6, <1>7, <1>8 DEF IInv

LEMMA JoinAppend ==
    ASSUME NEW S, NEW v \in Seq(S), NEW w \in Seq(S), NEW x \in S
    PROVE  /\ Append(v, x) = v \o <<x>>
           /\ v \o Append(w, x) = Append(v \o w, x)
           /\ v \o <<>> = v
           /\ Append(v, x) \in Seq(S)
<1>1. /\ <<x>> \in Seq(S) /\ Append(v, x) \in Seq(S) /\ Append(w, x) \in Seq(S) /\ v \o w \in Seq(S)
  OBVIOUS
<1>2. \A u \in Seq(S) : Append(u, x) = u \o <<x>>
  <2> SUFFICES ASSUME NEW u \in Seq(S) PROVE Append(u, x) = u \o <<x>>
    OBVIOUS
  <2>1. /\ Append(u, x) \in Seq(S) /\ u \o <<x>> \in Seq(S)
        /\ Len(Append(u, x)) = Len(u \o <<x>>)
        /\ \A i \in 1 .. Len(Append(u, x)) : Append(u, x)[i] = (u \o <<x>>)[i]
    OBVIOUS
  <2> QED
    BY <2>1, SeqEqual
<1>3. Append(v, x) = v \o <<x>> /\ Append(w, x) = w \o <<x>> /\ Append(v \o w, x) = (v \o w) \o <<x>>
  BY <1>1, <1>2
<1>4. v \o (w \o <<x>>) = (v \o w) \o <<x>>
  BY <1>1, ConcatAssociative
<1>5. v \o <<>> = v
  BY ConcatEmptySeq
<1>6. v \o Append(w, x) = Append(v \o w, x)
  BY <1>3, <1>4, Zenon
<1> QED
  BY <1>1, <1>3, <1>5, <1>6

(***************************************************************************)
(* A turn of the loop.                                                     *)
(***************************************************************************)

\* What next() makes of a record.
LEMMA AdvancedIs ==
    ASSUME rcv \in Receive, DataLen \in Nat
    PROVE  /\ Advanced.bytes = rcv.bytes /\ Advanced.seg = rcv.seg /\ Advanced.session = rcv.session
           /\ Advanced.no = rcv.no + 1 /\ Advanced.off = rcv.off + DataLen
           /\ Advanced \in Receive
<1> DEFINE r == rcv
           n == DataLen
           b == r.off + n >= Len(r.bytes)
           q == Advanced
           S == Seq(Byte)
           T == Session \union {NoSession}
           R == [bytes : S, seg : Nat, off : Nat, done : BOOLEAN, session : T, no : Nat \ {0}]
<1>1. r \in R /\ n \in Nat /\ b \in BOOLEAN
  BY DEF Receive
<1>def. q = [r EXCEPT !.off = @ + n, !.done = b, !.no = @ + 1]
  BY DEF Advanced
<1> HIDE DEF r, n, b, q, S, T
<1>2. r.off \in Nat /\ r.no \in Nat \ {0}
  BY <1>1
<1>3. r.off + n \in Nat /\ r.no + 1 \in Nat \ {0}
  BY <1>1, <1>2
<1> DEFINE o == r.off + n
           m == r.no + 1
<1>4. o \in Nat /\ m \in Nat \ {0} /\ q = [r EXCEPT !.off = o, !.done = b, !.no = m]
  BY <1>1, <1>3, <1>def
<1> HIDE DEF o, m
<1>5. q.bytes = r.bytes /\ q.seg = r.seg /\ q.session = r.session /\ q.no = m /\ q.off = o
  BY <1>1, <1>4
<1>6. q \in R
  BY <1>1, <1>4
<1> QED
  BY <1>5, <1>6 DEF Receive, S, T, o, m, q, r, n

\* What it leaves, given what becomes of the group and of what is sent.
LEMMA TurnIInv ==
    ASSUME IInv, Turn,
           out' \in Group, tx' \in Seq(Wire),
           GroupIs(out'), Holds(arrived, down, out'), Sends(arrived, down, tx'),
           ~batch => out'.iov = <<>>,
           LET o == Numbers(tx) \o out.nos
           IN  Numbers(tx') \o out'.nos = IF Passed THEN Append(o, rcv.no) ELSE o
    PROVE  IInv'
<1> DEFINE a == arrived
           c == rcv.no
           o == Numbers(tx) \o out.nos
<1>1. /\ wanted' = wanted /\ supported' = supported /\ batch' = batch /\ down' = down
      /\ arrived' = a /\ queue' = queue /\ status' = status /\ busy' = busy
      /\ status = "running" /\ busy /\ ~rcv.done /\ rcv' = Advanced
  BY DEF Turn, setup
<1>2. Typing
  BY TypingIs DEF IInv
<1>3. /\ c \in 1 .. Len(a)
      /\ DataLen \in Nat
      /\ Advanced.done => c + 1 = Start(a, queue, 1)
      /\ ~Advanced.done =>
             \E f \in 1 .. c + 1 :
                 /\ Whole(a, rcv.bytes, rcv.seg, f, Start(a, queue, 1) - 1)
                 /\ c + 1 \in f .. Start(a, queue, 1) - 1
                 /\ rcv.off + DataLen = At(c + 1 - f + 1, rcv.seg)
                 /\ ~down => OneSession(a, f, Start(a, queue, 1) - 1, rcv.session)
  BY <1>1, HandsOut DEF IInv
<1>4. rcv \in Receive /\ c \in Nat \ {0} /\ rcv.off \in Nat
  BY <1>2 DEF Typing, Receive
<1>5. /\ rcv'.bytes = rcv.bytes /\ rcv'.seg = rcv.seg /\ rcv'.session = rcv.session
      /\ rcv'.no = c + 1 /\ rcv'.off = rcv.off + DataLen /\ rcv'.done = Advanced.done
      /\ rcv' \in Receive
  BY <1>1, <1>3, <1>4, AdvancedIs
<1>6. TypeOK'
  <2>1. Typing'
    BY <1>1, <1>2, <1>5 DEF Typing
  <2> QED
    BY <2>1, TypingIs, PTL
<1>7. Queued' /\ Grouped' /\ Held' /\ Sent'
  BY <1>1 DEF IInv, Queued, Grouped, Held, Sent
<1>8. Configured'
  BY <1>1 DEF IInv, Configured
<1>9. Reading'
  <2> DEFINE t == Start(a, queue, 1)
  <2>1. Advanced.done => rcv'.no = t
    BY <1>3, <1>5
  <2>2. ~Advanced.done => \E f \in 1 .. rcv'.no : Left(a, rcv', f, t - 1, down)
    BY <1>3, <1>5 DEF Left
  <2> HIDE DEF t
  <2>3. Reads(a, rcv', t, down)
    BY <1>5, <2>1, <2>2 DEF Reads
  <2> QED
    BY <1>1, <2>3 DEF Reading, t
<1>10. Ordered'
  <2>1. InOrder(a, down, o, c - 1)
    BY <1>1 DEF IInv, Ordered, TakenTo
  <2>2. o \in Seq(Nat)
    <3>1. tx \in Seq(Wire) /\ out.nos \in Seq(Nat \ {0})
      BY <1>2 DEF Typing, Group
    <3>2. Numbers(tx) \in Seq(Nat \ {0})
      BY <3>1, NumbersTyped
    <3>3. o \in Seq(Nat \ {0})
      BY <3>1, <3>2, ConcatProperties
    <3> HIDE DEF o
    <3> QED
      BY <3>3, SeqMonotonic
  <2>3. Passed <=> RoutedOf(a, down, c)
    BY <1>1, Routing DEF IInv
  <2>4. c - 1 \in Nat /\ c - 1 + 1 = c /\ c \in Nat /\ c - 1 <= c
    BY <1>4
  <2> HIDE DEF o
  <2>5. Passed => InOrder(a, down, Append(o, c), c)
    <3> SUFFICES ASSUME Passed PROVE InOrder(a, down, Append(o, c), c)
      OBVIOUS
    <3>1. RoutedOf(a, down, c - 1 + 1)
      BY <2>3, <2>4, Zenon
    <3>2. InOrder(a, down, Append(o, c - 1 + 1), c - 1 + 1)
      BY <2>1, <2>2, <2>4, <3>1, OneMore, Zenon
    <3> QED
      BY <2>4, <3>2, Zenon
  <2>6. ~Passed => InOrder(a, down, o, c)
    <3> SUFFICES ASSUME ~Passed PROVE InOrder(a, down, o, c)
      OBVIOUS
    <3>1. \A n \in c - 1 + 1 .. c : ~RoutedOf(a, down, n)
      BY <1>4, <2>3
    <3> QED
      BY <2>1, <2>4, <3>1, NoneMore
  <2>7. InOrder(a, down, Numbers(tx') \o out'.nos, c)
    <3>1. Numbers(tx') \o out'.nos = IF Passed THEN Append(o, c) ELSE o
      BY DEF o
    <3> QED
      BY <2>5, <2>6, <3>1, Zenon
  <2>8. TakenTo(arrived', queue', rcv', busy') = c
    BY <1>1, <1>4, <1>5 DEF TakenTo
  <2> QED
    BY <1>1, <2>7, <2>8, Zenon DEF Ordered
<1> QED
  BY <1>6, <1>7, <1>8, <1>9, <1>10 DEF IInv

\* The packet of a turn, alone.
LEMMA PacketIs ==
    ASSUME IInv, Turn, Passed
    PROVE  /\ Packet \in Seq(Byte) /\ Dest \in Session \union {Peer}
           /\ rcv.no \in Nat \ {0}
           /\ Becomes(arrived, down, rcv.no, Dest, Packet)
<1>1. busy /\ ~rcv.done
  BY DEF Turn
<1>2. rcv.no \in 1 .. Len(arrived)
  BY <1>1, HandsOut DEF IInv
<1>3. rcv.no \in Nat \ {0}
  <2>1. rcv \in Receive
    BY TypingIs DEF IInv, Typing
  <2> QED
    BY <2>1 DEF Receive
<1>4. /\ Dest = GoalOf(arrived, down, rcv.no) /\ Dest \in Session \union {Peer}
      /\ Packet = ResultOf(arrived, down, rcv.no) /\ Packet \in Seq(Byte)
  BY <1>1, Routing DEF IInv
<1> QED
  BY <1>2, <1>3, <1>4 DEF Becomes

\* A group it starts.
LEMMA StartedIs ==
    ASSUME IInv, Turn, Passed, Packet # <<>>
    PROVE  /\ Started \in Group
           /\ GroupIs(Started)
           /\ Holds(arrived, down, Started)
           /\ Started.nos = <<rcv.no>>
<1> DEFINE p == Packet
           t == Dest
           n == rcv.no
           S == Seq(Byte)
<1>1. /\ p \in S /\ t \in Session \union {Peer} /\ n \in Nat \ {0}
      /\ Becomes(arrived, down, n, t, p)
  BY PacketIs
<1>2. down \in BOOLEAN /\ Len(p) \in Nat
  BY <1>1, TypingIs DEF IInv, Typing
<1>3. Started = [to |-> t, withId |-> ~down, seg |-> Len(p), iov |-> <<p>>, load |-> p, nos |-> <<n>>]
  BY DEF Started
<1>4. p # <<>>
  OBVIOUS
<1> HIDE DEF p, t, n
<1>5. /\ Started.to = t /\ Started.seg = Len(p) /\ Started.iov = <<p>> /\ Started.load = p
      /\ Started.nos = <<n>>
  BY <1>3
<1>6. GroupIs(Started)
  <2>1. Len(Started.nos) = 1
    BY <1>5
  <2>2. p \in Seq(Byte)
    BY <1>1
  <2> HIDE DEF S
  <2> QED
    BY <1>4, <1>5, <2>1, <2>2, GroupOfOne
<1>7. Holds(arrived, down, Started)
  BY <1>1, <1>5 DEF Holds
<1>8. Started \in Group
  <2>1. <<p>> \in Seq(S) /\ <<n>> \in Seq(Nat \ {0})
    BY <1>1
  <2>2. p \in S
    BY <1>1
  <2> HIDE DEF S
  <2>3. Started \in [to : Session \union {Peer}, withId : BOOLEAN, seg : Nat,
                     iov : Seq(S), load : S, nos : Seq(Nat \ {0})]
    BY <1>1, <1>2, <1>3, <2>1, <2>2
  <2> QED
    BY <2>3 DEF Group, S
<1> QED
  BY <1>5, <1>6, <1>7, <1>8 DEF n

\* One more packet in a group.
LEMMA GroupLonger ==
    ASSUME out \in Group, Packet \in Seq(Byte), rcv.no \in Nat \ {0}
    PROVE  /\ Appended.iov = Append(out.iov, Packet) /\ Appended.load = out.load \o Packet
           /\ Appended.nos = Append(out.nos, rcv.no)
           /\ Appended.seg = out.seg /\ Appended.to = out.to /\ Appended \in Group
<1> DEFINE o == out
           p == Packet
           c == rcv.no
           S == Seq(Byte)
           T == Session \union {Peer}
           U == Seq(S)
           N == Seq(Nat \ {0})
           R == [to : T, withId : BOOLEAN, seg : Nat, iov : U, load : S, nos : N]
           i == Append(o.iov, p)
           l == o.load \o p
           n == Append(o.nos, c)
           q == Appended
<1>1. o \in R
  BY DEF Group
<1>2. l \in S /\ n \in N
  <2>1. o.load \in Seq(Byte) /\ o.nos \in Seq(Nat \ {0})
    BY <1>1
  <2>2. l \in S
    BY <2>1, ConcatProperties
  <2>3. n \in N
    BY <2>1, LenAppend
  <2> QED
    BY <2>2, <2>3
<1>3. i \in U
  <2>1. o.iov \in Seq(S) /\ p \in S
    BY <1>1
  <2> HIDE DEF S
  <2> QED
    BY <2>1, LenAppend
<1>4. q = [o EXCEPT !.iov = i, !.load = l, !.nos = n]
  BY <1>1 DEF Appended
<1> HIDE DEF o, p, c, S, T, U, N, i, l, n, q
<1>5. q.iov = i /\ q.load = l /\ q.nos = n /\ q.seg = o.seg /\ q.to = o.to
  BY <1>1, <1>4
<1>6. q \in R
  BY <1>1, <1>2, <1>3, <1>4
<1> QED
  BY <1>5, <1>6 DEF Group, S, T, U, N, i, l, n, q, o, p, c

\* What a state has of numbers.
LEMMA NumbersOf ==
    ASSUME IInv
    PROVE  /\ tx \in Seq(Wire) /\ out \in Group
           /\ out.nos \in Seq(Nat \ {0})
           /\ Numbers(tx) \in Seq(Nat \ {0})
           /\ Numbers(tx) \o out.nos \in Seq(Nat \ {0})
<1>1. tx \in Seq(Wire) /\ out \in Group
  BY TypingIs DEF IInv, Typing
<1>2. out.nos \in Seq(Nat \ {0})
  BY <1>1 DEF Group
<1>3. Numbers(tx) \in Seq(Nat \ {0})
  BY <1>1, NumbersTyped
<1> QED
  BY <1>1, <1>2, <1>3, ConcatProperties

LEMMA SkipIInv ==
    ASSUME IInv, Turn, Skip
    PROVE  IInv'
<1>1. ~Passed /\ out' = out /\ tx' = tx
  BY DEF Skip
<1>2. /\ out' \in Group /\ tx' \in Seq(Wire) /\ GroupIs(out') /\ Holds(arrived, down, out')
      /\ Sends(arrived, down, tx') /\ (~batch => out'.iov = <<>>)
  BY <1>1, NumbersOf DEF IInv, Grouped, Held, Sent, Configured
<1>3. Numbers(tx') \o out'.nos = IF Passed THEN Append(Numbers(tx) \o out.nos, rcv.no) ELSE Numbers(tx) \o out.nos
  BY <1>1
<1> QED
  BY <1>2, <1>3, TurnIInv

LEMMA AddAloneIInv ==
    ASSUME IInv, Turn, AddAlone
    PROVE  IInv'
<1> DEFINE x == [no |-> rcv.no, to |-> Dest, bytes |-> Packet]
           c == rcv.no
           o == Numbers(tx) \o out.nos
<1>1. Passed /\ out' = NoBatch
  BY DEF AddAlone
<1>2. PICK f \in Flushed : tx' = tx \o f \o <<x>>
  BY DEF AddAlone
<1>3. /\ x.no = c /\ x.to = Dest /\ x.bytes = Packet /\ x \in Wire /\ c \in Nat \ {0}
      /\ Becomes(arrived, down, x.no, x.to, x.bytes)
  <2>1. /\ Packet \in Seq(Byte) /\ Dest \in Session \union {Peer} /\ c \in Nat \ {0}
        /\ Becomes(arrived, down, c, Dest, Packet)
    BY <1>1, PacketIs
  <2>2. x.no = c /\ x.to = Dest /\ x.bytes = Packet
    OBVIOUS
  <2>3. x \in Wire
    BY <2>1 DEF Wire
  <2> QED
    BY <2>1, <2>2, <2>3
<1> HIDE DEF x
<1>4. /\ <<x>> \in Seq(Wire) /\ Sends(arrived, down, <<x>>) /\ Numbers(<<x>>) = <<c>>
  <2>1. <<x>> \in Seq(Wire)
    BY <1>3
  <2>2. Sends(arrived, down, <<x>>)
    BY <1>3 DEF Sends
  <2>3. Numbers(<<x>>) = <<c>>
    BY <1>3 DEF Numbers
  <2> QED
    BY <2>1, <2>2, <2>3
<1>5. /\ tx \o f \in Seq(Wire) /\ Sends(arrived, down, tx \o f) /\ Numbers(tx \o f) = o
  BY FlushIs
<1>6. /\ tx' \in Seq(Wire) /\ Sends(arrived, down, tx') /\ Numbers(tx') = o \o <<c>>
  <2>1. /\ (tx \o f) \o <<x>> \in Seq(Wire) /\ Sends(arrived, down, (tx \o f) \o <<x>>)
        /\ Numbers((tx \o f) \o <<x>>) = Numbers(tx \o f) \o Numbers(<<x>>)
    <3> DEFINE t == tx \o f
               u == <<x>>
    <3>1. t \in Seq(Wire) /\ Sends(arrived, down, t)
      BY <1>5
    <3>2. u \in Seq(Wire) /\ Sends(arrived, down, u)
      BY <1>4
    <3> HIDE DEF t, u
    <3>3. t \o u \in Seq(Wire) /\ Sends(arrived, down, t \o u) /\ Numbers(t \o u) = Numbers(t) \o Numbers(u)
      BY <3>1, <3>2, SendsBoth
    <3> QED
      BY <3>3 DEF t, u
  <2> QED
    BY <1>2, <1>4, <1>5, <2>1, Zenon
<1>7. out'.iov = <<>> /\ out'.nos = <<>> /\ out' \in Group /\ GroupIs(out')
  BY <1>1, TypedNone, GroupOfNone DEF NoBatch
<1>8. Holds(arrived, down, out')
  BY <1>7 DEF Holds
<1>9. Numbers(tx') \o out'.nos = IF Passed THEN Append(Numbers(tx) \o out.nos, rcv.no) ELSE Numbers(tx) \o out.nos
  <2>1. o \in Seq(Nat \ {0})
    BY NumbersOf
  <2> HIDE DEF o, c
  <2>2. Append(o, c) = o \o <<c>> /\ Append(o, c) \in Seq(Nat \ {0})
    BY <1>3, <2>1, JoinAppend
  <2>3. Append(o, c) \o <<>> = Append(o, c)
    BY <2>2, ConcatEmptySeq, Zenon
  <2>4. Numbers(tx') \o out'.nos = Append(o, c)
    BY <1>6, <1>7, <2>2, <2>3, Zenon
  <2> QED
    BY <1>1, <2>4, Zenon DEF o, c
<1> QED
  BY <1>6, <1>7, <1>8, <1>9, TurnIInv

LEMMA AddAfterFlushIInv ==
    ASSUME IInv, Turn, AddAfterFlush
    PROVE  IInv'
<1> DEFINE c == rcv.no
           o == Numbers(tx) \o out.nos
<1>1. Passed /\ ~Alone /\ out' = Started
  BY DEF AddAfterFlush
<1>2. PICK f \in Flushed : tx' = tx \o f
  BY DEF AddAfterFlush
<1>3. batch /\ Packet # <<>>
  BY <1>1 DEF Alone
<1>4. /\ out' \in Group /\ GroupIs(out') /\ Holds(arrived, down, out') /\ out'.nos = <<c>>
  BY <1>1, <1>3, StartedIs
<1>5. /\ tx' \in Seq(Wire) /\ Sends(arrived, down, tx') /\ Numbers(tx') = o
  BY <1>2, FlushIs, Zenon
<1>6. c \in Nat \ {0}
  BY <1>1, PacketIs
<1>7. Numbers(tx') \o out'.nos = IF Passed THEN Append(Numbers(tx) \o out.nos, rcv.no) ELSE Numbers(tx) \o out.nos
  <2>1. o \in Seq(Nat \ {0})
    BY NumbersOf
  <2> HIDE DEF o, c
  <2>2. Append(o, c) = o \o <<c>>
    BY <1>6, <2>1, JoinAppend
  <2>3. Numbers(tx') \o out'.nos = Append(o, c)
    BY <1>4, <1>5, <2>2, Zenon
  <2> QED
    BY <1>1, <2>3, Zenon DEF o, c
<1> QED
  BY <1>3, <1>4, <1>5, <1>7, TurnIInv

LEMMA AddToGroupIInv ==
    ASSUME IInv, Turn, AddToGroup
    PROVE  IInv'
<1> DEFINE c == rcv.no
           t == Numbers(tx)
           w == out.nos
           p == Packet
<1>1. /\ Passed /\ ~Alone /\ ~MustFlush /\ tx' = tx
      /\ out' = IF out.iov = <<>> THEN Started ELSE Appended
  BY DEF AddToGroup
<1>2. batch /\ p # <<>>
  BY <1>1 DEF Alone
<1>3. /\ tx' \in Seq(Wire) /\ Sends(arrived, down, tx')
      /\ out \in Group /\ GroupIs(out) /\ Holds(arrived, down, out)
      /\ t \in Seq(Nat \ {0}) /\ w \in Seq(Nat \ {0}) /\ t \o w \in Seq(Nat \ {0})
  BY <1>1, NumbersOf DEF IInv, Sent, Grouped, Held
<1>4. p \in Seq(Byte) /\ c \in Nat \ {0} /\ Becomes(arrived, down, c, Dest, p)
  BY <1>1, PacketIs
<1>5. CASE out.iov = <<>>
  <2>1. /\ out' \in Group /\ GroupIs(out') /\ Holds(arrived, down, out') /\ out'.nos = <<c>>
    BY <1>1, <1>2, <1>5, StartedIs
  <2>2. w = <<>>
    <3>1. Len(w) = Len(out.iov) /\ Len(out.iov) = 0
      BY <1>3, <1>5 DEF GroupIs
    <3> QED
      BY <1>3, <3>1, EmptySeq
  <2>3. t \o out'.nos = Append(t \o w, c)
    <3> HIDE DEF t, w, c
    <3>1. t \o <<>> = t /\ Append(t, c) = t \o <<c>>
      BY <1>3, <1>4, JoinAppend
    <3> QED
      BY <2>1, <2>2, <3>1, Zenon
  <2>4. Numbers(tx') \o out'.nos = IF Passed THEN Append(Numbers(tx) \o out.nos, rcv.no) ELSE Numbers(tx) \o out.nos
    BY <1>1, <2>3, Zenon
  <2> QED
    BY <1>2, <1>3, <2>1, <2>4, TurnIInv
<1>6. CASE out.iov # <<>>
  <2>1. CanAppend /\ out' = Appended
    BY <1>1, <1>6 DEF MustFlush
  <2>3. /\ out'.iov = Append(out.iov, p) /\ out'.load = out.load \o p /\ out'.nos = Append(w, c)
        /\ out'.seg = out.seg /\ out'.to = out.to /\ out' \in Group
    BY <1>3, <1>4, <2>1, GroupLonger
  <2> HIDE DEF p, c
  <2>4. /\ Dest = out.to
        /\ Len(out.iov) < GsoMaxSegs /\ Len(p) <= out.seg /\ Len(out.load) % out.seg = 0
        /\ Len(out.load) + Len(p) <= GsoMaxBytes
    BY <2>1 DEF CanAppend, p
  <2>5. Len(out'.nos) = Len(w) + 1
    BY <1>3, <1>4, <2>3, LenAppend
  <2>6. GroupIs(out')
    BY <1>2, <1>3, <1>4, <1>6, <2>3, <2>4, <2>5, GroupOfMore
  <2>7. Holds(arrived, down, out')
    <3>1. out.iov \in Seq(Seq(Byte)) /\ Len(w) = Len(out.iov)
      BY <1>3 DEF Group, GroupIs
    <3>2. \A j \in 1 .. Len(w) : Becomes(arrived, down, w[j], out.to, out.iov[j])
      BY <1>3, <3>1 DEF Holds
    <3>3. /\ Len(w) \in Nat /\ Len(out'.iov) = Len(w) + 1
          /\ out'.iov[Len(w) + 1] = p /\ out'.nos[Len(w) + 1] = c
          /\ \A j \in 1 .. Len(w) : out'.iov[j] = out.iov[j] /\ out'.nos[j] = w[j]
      <4> DEFINE v == out.iov
      <4>1. /\ Len(w) \in Nat /\ Append(w, c)[Len(w) + 1] = c
            /\ \A j \in 1 .. Len(w) : Append(w, c)[j] = w[j]
        BY <1>3, <1>4, AppendProperties
      <4>2. /\ Len(Append(v, p)) = Len(v) + 1 /\ Append(v, p)[Len(v) + 1] = p
            /\ \A j \in 1 .. Len(v) : Append(v, p)[j] = v[j]
        BY <1>4, <3>1, AppendProperties
      <4> QED
        BY <2>3, <3>1, <4>1, <4>2
    <3>4. ASSUME NEW j \in 1 .. Len(w) + 1
          PROVE  Becomes(arrived, down, out'.nos[j], out'.to, out'.iov[j])
      <4>1. CASE j = Len(w) + 1
        BY <1>4, <2>3, <2>4, <3>3, <4>1
      <4>2. CASE j # Len(w) + 1
        <5>1. j \in 1 .. Len(w)
          BY <3>3, <4>2
        <5> QED
          BY <2>3, <3>2, <3>3, <5>1
      <4> QED
        BY <4>1, <4>2
    <3> QED
      BY <3>3, <3>4 DEF Holds
  <2>8. t \o out'.nos = Append(t \o w, c)
    <3> HIDE DEF t, w
    <3>1. t \o Append(w, c) = Append(t \o w, c)
      BY <1>3, <1>4, JoinAppend, SMTT(30)
    <3> QED
      BY <2>3, <3>1, Zenon
  <2>9. Numbers(tx') \o out'.nos = IF Passed THEN Append(Numbers(tx) \o out.nos, rcv.no) ELSE Numbers(tx) \o out.nos
    BY <1>1, <2>8, Zenon DEF c
  <2> QED
    BY <1>2, <1>3, <2>3, <2>6, <2>7, <2>9, TurnIInv
<1> QED
  BY <1>5, <1>6

LEMMA StepIInv == IInv /\ [Next]_vars => IInv'
<1> SUFFICES ASSUME IInv, [Next]_vars PROVE IInv'
  OBVIOUS
<1>1. CASE SetBatch
  BY <1>1, SetBatchIInv
<1>2. CASE GroFails
  <2>1. status' = "exited" /\ UNCHANGED <<setup, arrived, queue, busy, rcv, out, tx>>
    BY <1>2 DEF GroFails
  <2> QED
    BY <2>1, StopIInv
<1>3. ASSUME NEW d \in Incoming, Arrive(d) PROVE IInv'
  BY <1>3, ArriveIInv
<1>4. ASSUME NEW d \in Incoming, ArriveMerged(d) PROVE IInv'
  BY <1>4, ArriveMergedIInv
<1>5. CASE Read
  BY <1>5, ReadIInv
<1>6. CASE Turn
  <2>1. Skip \/ AddAlone \/ AddAfterFlush \/ AddToGroup
    BY <1>6 DEF Turn
  <2> QED
    BY <1>6, <2>1, SkipIInv, AddAloneIInv, AddAfterFlushIInv, AddToGroupIInv
<1>7. CASE Return
  BY <1>7, ReturnIInv
<1>8. CASE GsoFails
  <2>1. status' = "exited" /\ UNCHANGED <<setup, arrived, queue, busy, rcv, out, tx>>
    BY <1>8 DEF GsoFails
  <2> QED
    BY <2>1, StopIInv
<1>9. CASE UNCHANGED vars
  <2>1. status' = status /\ UNCHANGED <<setup, arrived, queue, busy, rcv, out, tx>>
    BY <1>9 DEF vars, setup
  <2> QED
    BY <2>1, StopIInv
<1> QED
  BY <1>1, <1>2, <1>3, <1>4, <1>5, <1>6, <1>7, <1>8, <1>9 DEF Next

\* The inductive invariant holds in every behaviour.
THEOREM Inductive == Spec => []IInv
<1>1. Init => IInv
  BY InitIInv
<1>2. IInv /\ [Next]_vars => IInv'
  BY StepIInv
<1> QED
  BY <1>1, <1>2, PTL DEF Spec

(***************************************************************************)
(* What the invariant says.                                                *)
(***************************************************************************)

\* Every variable has its type: nothing that is sent or held has a number, a
\* destination or bytes that are not some datagram's.
THEOREM TypeCorrect == Spec => []TypeOK
<1>1. IInv => TypeOK
  BY DEF IInv
<1> QED
  BY <1>1, Inductive, PTL

\* What becomes of a datagram, as UdpBatch states it.
LEMMA ResultIs ==
    ASSUME NEW n
    PROVE  /\ Goal(n) = GoalOf(arrived, down, n)
           /\ Result(n) = ResultOf(arrived, down, n)
           /\ Routed(n) <=> RoutedOf(arrived, down, n)
<1>1. Datagram(n) = BytesOf(arrived, n)
  BY DEF Datagram, BytesOf
<1> QED
  BY <1>1 DEF Goal, GoalOf, Result, ResultOf, Routed, RoutedOf

\* Each datagram the kernel makes of what it is given is byte for byte one
\* that came, its session number taken off or put in front, and goes to its
\* own destination: however they were merged, and whichever group fails.
THEOREM SentAsTheyCame == Spec => []SentAsCame
<1>1. IInv => SentAsCame
  <2> SUFFICES ASSUME IInv, NEW i \in DOMAIN tx
               PROVE  tx[i].to = Goal(tx[i].no) /\ tx[i].bytes = Result(tx[i].no)
    BY DEF SentAsCame
  <2>1. i \in 1 .. Len(tx)
    BY NumbersOf
  <2>2. Becomes(arrived, down, tx[i].no, tx[i].to, tx[i].bytes)
    BY <2>1 DEF IInv, Sent, Sends
  <2> QED
    BY <2>2, ResultIs DEF Becomes
<1> QED
  BY <1>1, Inductive, PTL

\* Every datagram that goes to somebody is tried once and in its turn, and
\* nothing is held between two callbacks.
THEOREM OnceInOrder == Spec => []InOrderOnce
<1>1. IInv => InOrderOnce
  <2> SUFFICES ASSUME IInv PROVE InOrderOnce
    OBVIOUS
  <2>1. Order = Numbers(tx) \o out.nos
    <3>1. DOMAIN tx = 1 .. Len(tx)
      BY NumbersOf
    <3> QED
      BY <3>1 DEF Order, Numbers
  <2>2. Taken = TakenTo(arrived, queue, rcv, busy)
    BY TakenIs DEF IInv
  <2>3. InOrder(arrived, down, Order, Taken)
    BY <2>1, <2>2, Zenon DEF IInv, Ordered
  <2>4. {n \in 1 .. Taken : RoutedOf(arrived, down, n)} = {n \in 1 .. Taken : Routed(n)}
    BY ResultIs
  <2>5. ~busy => out.iov = <<>>
    BY DEF IInv, Configured
  <2> QED
    BY <2>3, <2>4, <2>5, Zenon DEF InOrder, InOrderOnce
<1> QED
  BY <1>1, Inductive, PTL

\* A group never has more packets or bytes than the kernel takes, none of
\* them empty, all as long as the first but the last.
THEOREM GroupsFit == Spec => []GroupFits
<1>1. IInv => GroupFits
  <2> SUFFICES ASSUME IInv PROVE GroupFits
    OBVIOUS
  <2>1. GroupIs(out)
    BY DEF IInv, Grouped
  <2>2. DOMAIN out.iov = 1 .. Len(out.iov)
    BY NumbersOf DEF Group
  <2>3. Fit(out.iov, out.seg)
    BY <2>1 DEF GroupIs, Together
  <2> QED
    BY <2>1, <2>2, <2>3 DEF GroupIs, Fit, GroupFits
<1> QED
  BY <1>1, Inductive, PTL

(***************************************************************************)
(* With -G and without it, the program passes datagrams on one by one.     *)
(***************************************************************************)

\* The datagrams that go to somebody, counted; and the i-th of them.
RoutedTo(a, dn, n) == {m \in 1 .. n : RoutedOf(a, dn, m)}
PlaceOf(a, dn, n) == Cardinality(RoutedTo(a, dn, n))
NumberOf(a, dn, i) == CHOOSE n \in 1 .. Len(a) : RoutedOf(a, dn, n) /\ PlaceOf(a, dn, n) = i

LEMMA RoutedFinite ==
    ASSUME NEW a, NEW dn, NEW n \in Nat
    PROVE  IsFiniteSet(RoutedTo(a, dn, n)) /\ PlaceOf(a, dn, n) \in Nat
<1>1. IsFiniteSet(1 .. n)
  BY FS_Interval
<1>2. RoutedTo(a, dn, n) \in SUBSET (1 .. n)
  BY DEF RoutedTo
<1>3. IsFiniteSet(RoutedTo(a, dn, n))
  BY <1>1, <1>2, FS_Subset
<1> QED
  BY <1>3, FS_CardinalityType DEF PlaceOf

\* A later one has a later place.
LEMMA PlacesIncrease ==
    ASSUME NEW a, NEW dn, NEW m \in Nat, NEW n \in Nat, m < n, RoutedOf(a, dn, n)
    PROVE  PlaceOf(a, dn, m) < PlaceOf(a, dn, n)
<1> DEFINE S == RoutedTo(a, dn, m)
           T == RoutedTo(a, dn, n)
<1>1. n \notin S /\ S \union {n} \in SUBSET T
  BY DEF RoutedTo
<1>2. IsFiniteSet(S) /\ IsFiniteSet(T) /\ Cardinality(S) \in Nat /\ Cardinality(T) \in Nat
  BY RoutedFinite DEF PlaceOf
<1> HIDE DEF S, T
<1>3. Cardinality(S \union {n}) = Cardinality(S) + 1
  BY <1>1, <1>2, FS_AddElement
<1>4. Cardinality(S \union {n}) <= Cardinality(T)
  BY <1>1, <1>2, FS_Subset
<1> QED
  BY <1>2, <1>3, <1>4 DEF PlaceOf, S, T

LEMMA PlacesBounded ==
    ASSUME NEW a, NEW dn, NEW l \in Nat, NEW n \in 1 .. l
    PROVE  PlaceOf(a, dn, n) <= PlaceOf(a, dn, l)
<1>1. IsFiniteSet(RoutedTo(a, dn, l))
  BY RoutedFinite
<1>2. RoutedTo(a, dn, n) \in SUBSET RoutedTo(a, dn, l)
  BY DEF RoutedTo
<1> QED
  BY <1>1, <1>2, FS_Subset DEF PlaceOf

\* Every place up to the last is somebody's.
LEMMA PlacesFilled ==
    ASSUME NEW a, NEW dn, NEW l \in Nat, NEW i \in 1 .. PlaceOf(a, dn, l)
    PROVE  \E n \in 1 .. l : RoutedOf(a, dn, n) /\ PlaceOf(a, dn, n) = i
<1> DEFINE S == RoutedTo(a, dn, l)
           c == PlaceOf(a, dn, l)
           f == [n \in S |-> PlaceOf(a, dn, n)]
<1>1. IsFiniteSet(S) /\ Cardinality(S) = c /\ c \in Nat
  BY RoutedFinite DEF PlaceOf
<1>2. \A n \in S : n \in 1 .. l /\ RoutedOf(a, dn, n)
  BY DEF RoutedTo
<1>3. ASSUME NEW n \in S
      PROVE  PlaceOf(a, dn, n) \in 1 .. c
  <2>1. n \in 1 .. l /\ RoutedOf(a, dn, n)
    BY <1>2
  <2>2. PlaceOf(a, dn, 0) < PlaceOf(a, dn, n)
    BY <2>1, PlacesIncrease
  <2>3. PlaceOf(a, dn, n) <= c
    BY <2>1, PlacesBounded
  <2> QED
    BY <2>1, <2>2, <2>3, <1>1, RoutedFinite
<1>4. ASSUME NEW m \in S, NEW n \in S, PlaceOf(a, dn, m) = PlaceOf(a, dn, n)
      PROVE  m = n
  <2>1. m \in 1 .. l /\ RoutedOf(a, dn, m) /\ n \in 1 .. l /\ RoutedOf(a, dn, n)
    BY <1>2
  <2>2. PlaceOf(a, dn, m) \in Nat /\ PlaceOf(a, dn, n) \in Nat
    BY <2>1, RoutedFinite
  <2> QED
    BY <1>4, <2>1, <2>2, PlacesIncrease
<1>5. IsFiniteSet(1 .. c) /\ Cardinality(1 .. c) = c
  BY <1>1, FS_Interval
<1> HIDE DEF S, c
<1>6. f \in Injection(S, 1 .. c)
  BY <1>3, <1>4 DEF Injection, IsInjective
<1> HIDE DEF f
<1>7. f \in Surjection(S, 1 .. c)
  BY <1>1, <1>5, <1>6, FS_Injection
<1>8. PICK n \in S : f[n] = i
  BY <1>7 DEF Surjection, c
<1> QED
  BY <1>2, <1>8 DEF f

\* The i-th number is one, and it is the only one with its place.
LEMMA NumberOfPlace ==
    ASSUME NEW a, Len(a) \in Nat, NEW dn, NEW i \in 1 .. PlaceOf(a, dn, Len(a))
    PROVE  LET n == NumberOf(a, dn, i)
           IN  n \in 1 .. Len(a) /\ RoutedOf(a, dn, n) /\ PlaceOf(a, dn, n) = i
<1>1. \E n \in 1 .. Len(a) : RoutedOf(a, dn, n) /\ PlaceOf(a, dn, n) = i
  BY PlacesFilled
<1> QED
  BY <1>1 DEF NumberOf

LEMMA PlaceOfNumber ==
    ASSUME NEW a, Len(a) \in Nat, NEW dn, NEW n \in 1 .. Len(a), RoutedOf(a, dn, n)
    PROVE  NumberOf(a, dn, PlaceOf(a, dn, n)) = n
<1> DEFINE m == NumberOf(a, dn, PlaceOf(a, dn, n))
<1>1. \E k \in 1 .. Len(a) : RoutedOf(a, dn, k) /\ PlaceOf(a, dn, k) = PlaceOf(a, dn, n)
  OBVIOUS
<1>2. m \in 1 .. Len(a) /\ RoutedOf(a, dn, m) /\ PlaceOf(a, dn, m) = PlaceOf(a, dn, n)
  BY <1>1 DEF NumberOf
<1> HIDE DEF m
<1>3. PlaceOf(a, dn, m) \in Nat /\ PlaceOf(a, dn, n) \in Nat /\ m \in Nat /\ n \in Nat
  BY <1>2, RoutedFinite
<1>4. m = n
  BY <1>2, <1>3, PlacesIncrease
<1> QED
  BY <1>4 DEF m

\* Increasing numbers that are all there are up to t are each in its place.
InTurn(a, dn, o, t) ==
    \A i \in 1 .. Len(o) : o[i] \in 1 .. t /\ RoutedOf(a, dn, o[i]) /\ PlaceOf(a, dn, o[i]) = i

LEMMA OrderIsPlace ==
    ASSUME NEW a, NEW dn, NEW o \in Seq(Nat \ {0}), NEW t \in Nat, InOrder(a, dn, o, t)
    PROVE  InTurn(a, dn, o, t)
<1> USE DEF InTurn
<1> SUFFICES ASSUME NEW i \in 1 .. Len(o)
             PROVE  o[i] \in 1 .. t /\ RoutedOf(a, dn, o[i]) /\ PlaceOf(a, dn, o[i]) = i
  OBVIOUS
<1>1. DOMAIN o = 1 .. Len(o) /\ Len(o) \in Nat /\ \A j \in 1 .. Len(o) : o[j] \in Nat
  OBVIOUS
<1>2. \A j \in 1 .. Len(o) : o[j] \in 1 .. t /\ RoutedOf(a, dn, o[j])
  <2>1. \A j \in 1 .. Len(o) : o[j] \in {n \in 1 .. t : RoutedOf(a, dn, n)}
    BY <1>1 DEF InOrder
  <2> QED
    BY <2>1
<1>3. \A j, k \in 1 .. Len(o) : j < k => o[j] < o[k]
  BY <1>1 DEF InOrder
<1> DEFINE S == RoutedTo(a, dn, o[i])
           f == [j \in 1 .. i |-> o[j]]
<1>4. ASSUME NEW j \in 1 .. i
      PROVE  o[j] \in S
  <2>1. j \in 1 .. Len(o) /\ o[j] \in Nat /\ o[i] \in Nat
    BY <1>1
  <2>2. o[j] <= o[i]
    BY <1>3, <2>1
  <2> QED
    BY <1>2, <2>1, <2>2 DEF RoutedTo
<1>5. ASSUME NEW n \in S
      PROVE  \E j \in 1 .. i : o[j] = n
  <2>1. n \in 1 .. o[i] /\ RoutedOf(a, dn, n) /\ o[i] \in 1 .. t
    BY <1>2 DEF RoutedTo
  <2>2. n \in {k \in 1 .. t : RoutedOf(a, dn, k)}
    BY <2>1
  <2>3. PICK j \in DOMAIN o : o[j] = n
    BY <2>2 DEF InOrder
  <2>4. j \in 1 .. Len(o)
    BY <1>1, <2>3
  <2>5. ~(i < j)
    BY <1>1, <1>3, <2>1, <2>3, <2>4
  <2> QED
    BY <2>3, <2>4, <2>5
<1>6. ASSUME NEW j \in 1 .. i, NEW k \in 1 .. i, o[j] = o[k]
      PROVE  j = k
  <2>1. j \in 1 .. Len(o) /\ k \in 1 .. Len(o)
    OBVIOUS
  <2> QED
    BY <1>1, <1>3, <1>6, <2>1
<1> HIDE DEF S
<1>7. f \in Bijection(1 .. i, S)
  BY <1>4, <1>5, <1>6 DEF Bijection, Injection, Surjection, IsInjective
<1>8. ExistsBijection(1 .. i, S)
  BY <1>7 DEF ExistsBijection
<1>9. Cardinality(S) = i
  BY <1>8, FS_CountingElements
<1> QED
  BY <1>2, <1>9 DEF PlaceOf, S

\* What must go out, and what was tried, as F sees them.
OutcomeOf(a, dn, n) == [to |-> GoalOf(a, dn, n), bytes |-> ResultOf(a, dn, n)]
Come(a, dn) == [i \in 1 .. PlaceOf(a, dn, Len(a)) |-> OutcomeOf(a, dn, NumberOf(a, dn, i))]
Tried(t) == [i \in DOMAIN t |-> [to |-> t[i].to, bytes |-> t[i].bytes]]

LEMMA PlaceIs ==
    ASSUME NEW n
    PROVE  Place(n) = PlaceOf(arrived, down, n)
<1>1. {m \in 1 .. n : Routed(m)} = RoutedTo(arrived, down, n)
  BY DEF Routed, RoutedTo, RoutedOf
<1> QED
  BY <1>1, Zenon DEF Place, PlaceOf

LEMMA RoutedNumberIs ==
    ASSUME NEW i
    PROVE  RoutedNumber(i) = NumberOf(arrived, down, i)
<1>1. \A n : (Routed(n) /\ Place(n) = i) <=> (RoutedOf(arrived, down, n) /\ PlaceOf(arrived, down, n) = i)
  BY PlaceIs, Zenon DEF Routed, RoutedOf
<1> QED
  BY <1>1 DEF RoutedNumber, NumberOf

\* F's state is what these operators say.
Abstracted == MustGo = Come(arrived, down) /\ Attempted = Tried(tx)

LEMMA AbstractedNow == Abstracted
<1>1. \A n : Outcome(n) = OutcomeOf(arrived, down, n)
  BY ResultIs, Zenon DEF Outcome, OutcomeOf
<1>2. \A i : Outcome(RoutedNumber(i)) = OutcomeOf(arrived, down, NumberOf(arrived, down, i))
  BY <1>1, RoutedNumberIs, Zenon
<1>3. Place(Len(arrived)) = PlaceOf(arrived, down, Len(arrived))
  BY PlaceIs, Zenon
<1> QED
  BY <1>2, <1>3, Zenon DEF Abstracted, MustGo, Come, Attempted, Tried

LEMMA AbstractedNext == MustGo' = Come(arrived', down') /\ Attempted' = Tried(tx')
<1>1. Abstracted'
  BY AbstractedNow, PTL
<1> QED
  BY <1>1, Zenon DEF Abstracted

LEMMA ComeTyped ==
    ASSUME NEW a, Len(a) \in Nat, NEW dn
    PROVE  \E S : Come(a, dn) \in Seq(S)
<1> DEFINE l == PlaceOf(a, dn, Len(a))
           S == {OutcomeOf(a, dn, NumberOf(a, dn, i)) : i \in 1 .. l}
<1>1. l \in Nat
  BY RoutedFinite
<1>2. \A i \in 1 .. l : OutcomeOf(a, dn, NumberOf(a, dn, i)) \in S
  OBVIOUS
<1> HIDE DEF l, S
<1>3. [i \in 1 .. l |-> OutcomeOf(a, dn, NumberOf(a, dn, i))] \in Seq(S)
  BY <1>1, <1>2
<1> QED
  BY <1>3 DEF Come, l

\* Another datagram comes: what must go out is what it was, and perhaps one more.
LEMMA ComesOn ==
    ASSUME NEW a, NEW c, Extends(a, c), NEW dn
    PROVE  \/ Come(c, dn) = Come(a, dn)
           \/ /\ Len(Come(c, dn)) = Len(Come(a, dn)) + 1
              /\ SubSeq(Come(c, dn), 1, Len(Come(a, dn))) = Come(a, dn)
<1> DEFINE l == Len(a)
           p == PlaceOf(a, dn, l)
           q == PlaceOf(c, dn, l + 1)
<1>1. l \in Nat /\ Len(c) = l + 1 /\ \A n \in 1 .. l : c[n] = a[n]
  BY DEF Extends
<1>2. ASSUME NEW n \in 1 .. l
      PROVE  /\ RoutedOf(c, dn, n) <=> RoutedOf(a, dn, n)
             /\ OutcomeOf(c, dn, n) = OutcomeOf(a, dn, n)
  BY <1>1 DEF RoutedOf, OutcomeOf, GoalOf, ResultOf, BytesOf
<1>3. ASSUME NEW n \in 0 .. l
      PROVE  PlaceOf(c, dn, n) = PlaceOf(a, dn, n)
  <2>1. RoutedTo(c, dn, n) = RoutedTo(a, dn, n)
    BY <1>1, <1>2 DEF RoutedTo
  <2> QED
    BY <2>1 DEF PlaceOf
<1>4. p \in Nat /\ q \in Nat
  BY <1>1, RoutedFinite
<1>5. q = IF RoutedOf(c, dn, l + 1) THEN p + 1 ELSE p
  <2> DEFINE S == RoutedTo(c, dn, l)
  <2>1. IsFiniteSet(S) /\ Cardinality(S) = p
    BY <1>1, <1>3, RoutedFinite DEF PlaceOf
  <2>2. l + 1 \notin S
    BY <1>1 DEF RoutedTo
  <2>3. RoutedTo(c, dn, l + 1) = IF RoutedOf(c, dn, l + 1) THEN S \union {l + 1} ELSE S
    BY <1>1 DEF RoutedTo
  <2> HIDE DEF S
  <2>4. Cardinality(S \union {l + 1}) = p + 1
    BY <2>1, <2>2, FS_AddElement
  <2> QED
    BY <2>1, <2>3, <2>4 DEF PlaceOf
<1>6. ASSUME NEW i \in 1 .. p
      PROVE  i \in 1 .. q /\ NumberOf(c, dn, i) = NumberOf(a, dn, i) /\ NumberOf(a, dn, i) \in 1 .. l
  <2> DEFINE n == NumberOf(a, dn, i)
  <2>1. n \in 1 .. l /\ RoutedOf(a, dn, n) /\ PlaceOf(a, dn, n) = i
    BY <1>1, NumberOfPlace
  <2>2. i \in 1 .. q
    BY <1>4, <1>5
  <2> HIDE DEF n
  <2>3. n \in 1 .. Len(c) /\ RoutedOf(c, dn, n) /\ PlaceOf(c, dn, n) = i
    BY <1>1, <1>2, <1>3, <2>1
  <2>4. Len(c) \in Nat
    BY <1>1
  <2>5. NumberOf(c, dn, i) = n
    BY <2>3, <2>4, PlaceOfNumber
  <2> QED
    BY <2>1, <2>2, <2>5 DEF n
<1>7. ASSUME NEW i \in 1 .. p
      PROVE  Come(c, dn)[i] = Come(a, dn)[i]
  BY <1>1, <1>2, <1>6 DEF Come
<1>8. PICK S : Come(a, dn) \in Seq(S)
  BY <1>1, ComeTyped
<1>9. PICK T : Come(c, dn) \in Seq(T)
  BY <1>1, ComeTyped
<1>10. DOMAIN Come(a, dn) = 1 .. p /\ DOMAIN Come(c, dn) = 1 .. q
  BY <1>1 DEF Come
<1>11. Len(Come(a, dn)) = p /\ Len(Come(c, dn)) = q
  BY <1>4, <1>8, <1>9, <1>10
<1> DEFINE u == Come(a, dn)
           v == Come(c, dn)
<1> HIDE DEF p, q, u, v
<1>12. CASE q = p
  <2>1. v \in Seq(T) /\ u \in Seq(S) /\ Len(u) = Len(v) /\ \A i \in 1 .. Len(u) : u[i] = v[i]
    BY <1>7, <1>8, <1>9, <1>11, <1>12 DEF u, v
  <2>2. v = u
    BY <2>1, SeqEqual
  <2> QED
    BY <2>2 DEF u, v
<1>13. CASE q = p + 1
  <2> DEFINE w == SubSeq(v, 1, p)
  <2>1. /\ v \in Seq(T) /\ u \in Seq(S) /\ Len(u) = p /\ Len(v) = p + 1
        /\ \A i \in 1 .. p : v[i] = u[i]
    BY <1>7, <1>8, <1>9, <1>11, <1>13 DEF u, v
  <2>2. w \in Seq(T) /\ Len(w) = p /\ \A i \in 1 .. p : w[i] = v[i]
    BY <1>4, <2>1
  <2> HIDE DEF w
  <2>3. w = u
    BY <2>1, <2>2, SeqEqual
  <2> QED
    BY <1>11, <1>13, <2>3 DEF u, v, w
<1> QED
  BY <1>4, <1>5, <1>12, <1>13

\* What was tried is the first part of what must go out.
IsFirst(c, t) ==
    /\ \E R : c \in Seq(R)
    /\ \E S : t \in Seq(S)
    /\ Len(t) <= Len(c)
    /\ \A i \in 1 .. Len(t) : t[i] = c[i]

TriedFirst == IsFirst(Come(arrived, down), Tried(tx)) /\ Len(Tried(tx)) = Len(tx)

LEMMA TriedIsFirst == IInv => TriedFirst
<1> SUFFICES ASSUME IInv PROVE TriedFirst
  OBVIOUS
<1> DEFINE a == arrived
           o == Numbers(tx) \o out.nos
           t == TakenTo(arrived, queue, rcv, busy)
           c == Come(arrived, down)
           p == PlaceOf(arrived, down, Len(arrived))
           T == [to : Session \union {Peer}, bytes : Seq(Byte)]
<1>1. /\ tx \in Seq(Wire) /\ out.nos \in Seq(Nat \ {0}) /\ Numbers(tx) \in Seq(Nat \ {0})
      /\ o \in Seq(Nat \ {0})
  BY NumbersOf
<1>2. Len(tx) \in Nat /\ DOMAIN tx = 1 .. Len(tx) /\ Len(Numbers(tx)) = Len(tx)
  BY <1>1, NumbersTyped
<1>3. \A i \in 1 .. Len(tx) : i \in 1 .. Len(o) /\ o[i] = tx[i].no
  <2> DEFINE u == Numbers(tx)
             v == out.nos
  <2>1. \A i \in 1 .. Len(tx) : u[i] = tx[i].no
    BY DEF Numbers
  <2>2. u \in Seq(Nat \ {0}) /\ v \in Seq(Nat \ {0}) /\ Len(u) = Len(tx)
    BY <1>1, <1>2
  <2> HIDE DEF u, v
  <2>3. \A i \in 1 .. Len(u) : i \in 1 .. Len(u \o v) /\ (u \o v)[i] = u[i]
    BY <2>2
  <2> QED
    BY <2>1, <2>2, <2>3 DEF u, v
<1>4. \A i \in 1 .. Len(tx) : Becomes(a, down, tx[i].no, tx[i].to, tx[i].bytes)
  BY DEF IInv, Sent, Sends
<1>5. Len(a) \in Nat
  BY TypingIs DEF IInv, Typing
<1>6. t \in Nat
  <2>1. rcv.no \in Nat \ {0}
    BY TypingIs DEF IInv, Typing, Receive
  <2>2. Start(arrived, queue, 1) \in Nat \ {0}
    BY StartIs DEF IInv
  <2> QED
    BY <2>1, <2>2 DEF TakenTo
<1>7. InOrder(a, down, o, t)
  BY Zenon DEF IInv, Ordered
<1> HIDE DEF o, t
<1>8. \A i \in 1 .. Len(o) : RoutedOf(a, down, o[i]) /\ PlaceOf(a, down, o[i]) = i
  <2>1. InTurn(a, down, o, t)
    BY <1>1, <1>6, <1>7, OrderIsPlace, Zenon
  <2> QED
    BY <2>1, Zenon DEF InTurn
<1>9. ASSUME NEW i \in 1 .. Len(tx)
      PROVE  /\ i \in 1 .. p
             /\ tx[i].to = GoalOf(a, down, tx[i].no) /\ tx[i].bytes = ResultOf(a, down, tx[i].no)
             /\ NumberOf(a, down, i) = tx[i].no
  <2> DEFINE n == tx[i].no
  <2>1. n \in 1 .. Len(a) /\ RoutedOf(a, down, n) /\ PlaceOf(a, down, n) = i
    BY <1>3, <1>4, <1>8 DEF Becomes
  <2>2. NumberOf(a, down, i) = n
    BY <1>5, <2>1, PlaceOfNumber
  <2>3. PlaceOf(a, down, n) <= p
    BY <1>5, <2>1, PlacesBounded
  <2>4. p \in Nat
    BY <1>5, RoutedFinite
  <2> QED
    BY <1>2, <1>4, <2>1, <2>2, <2>3, <2>4 DEF Becomes
<1>10. PICK S : c \in Seq(S)
  BY <1>5, ComeTyped
<1>11. p \in Nat /\ DOMAIN c = 1 .. p
  BY <1>5, RoutedFinite DEF Come
<1>12. Len(c) = p
  BY <1>10, <1>11
<1>13. \A i \in 1 .. Len(tx) : Tried(tx)[i] = c[i]
  <2> SUFFICES ASSUME NEW i \in 1 .. Len(tx) PROVE Tried(tx)[i] = c[i]
    OBVIOUS
  <2>1. c[i] = OutcomeOf(a, down, tx[i].no)
    BY <1>9 DEF Come
  <2> QED
    BY <1>2, <1>9, <2>1 DEF Tried, OutcomeOf
<1>14. Len(tx) <= p
  BY <1>2, <1>9, <1>11
<1>15. Tried(tx) \in Seq(T) /\ Len(Tried(tx)) = Len(tx)
  <2>1. \A i \in 1 .. Len(tx) : tx[i] \in Wire
    BY <1>1, ElementOf
  <2>2. \A i \in 1 .. Len(tx) : [to |-> tx[i].to, bytes |-> tx[i].bytes] \in T
    BY <2>1 DEF Wire
  <2> HIDE DEF T
  <2> QED
    BY <1>2, <2>2 DEF Tried
<1> QED
  BY <1>10, <1>12, <1>13, <1>14, <1>15 DEF TriedFirst, IsFirst

\* u is t, or t and what follows it in c.
GoesOn(c, t, u) ==
    \/ u = t
    \/ \E k \in 1 .. Len(c) - Len(t) : u = t \o SubSeq(c, Len(t) + 1, Len(t) + k)

\* Two first parts of c: the longer one is the other and what follows it in c.
LEMMA FirstParts ==
    ASSUME NEW c, NEW t, NEW u, IsFirst(c, t), IsFirst(c, u), Len(t) <= Len(u)
    PROVE  GoesOn(c, t, u)
<1> PICK R, S, T : c \in Seq(R) /\ t \in Seq(S) /\ u \in Seq(T)
  BY DEF IsFirst
<1>0. /\ Len(u) <= Len(c)
      /\ \A i \in 1 .. Len(t) : t[i] = c[i]
      /\ \A i \in 1 .. Len(u) : u[i] = c[i]
  BY DEF IsFirst
<1> DEFINE m == Len(t)
           n == Len(u)
           k == n - m
           w == SubSeq(c, m + 1, m + k)
           Q == R \union S \union T
<1>1. m \in Nat /\ n \in Nat /\ Len(c) \in Nat /\ k \in Nat /\ m + k = n
  OBVIOUS
<1>2. ASSUME m = n PROVE u = t
  BY <1>0, <1>2, SeqEqual
<1>3. ASSUME m < n
      PROVE  \E h \in 1 .. Len(c) - Len(t) : u = t \o SubSeq(c, Len(t) + 1, Len(t) + h)
  <2>1. c \in Seq(Q) /\ t \in Seq(Q) /\ u \in Seq(Q)
    <3>1. R \subseteq Q /\ S \subseteq Q /\ T \subseteq Q
      OBVIOUS
    <3> HIDE DEF Q
    <3> QED
      BY <3>1, SeqMonotonic
  <2> HIDE DEF Q, m, n, k
  <2>2. w \in Seq(Q) /\ Len(w) = k /\ \A i \in 1 .. k : w[i] = c[m + i]
    <3>1. m + k <= Len(c) /\ m \in Nat /\ k \in Nat
      BY <1>0, <1>1 DEF n
    <3>2. w \in Seq(Q) /\ Len(w) = k
      BY <2>1, <3>1
    <3>3. \A i \in 1 .. k : w[i] = c[m + i]
      BY <2>1, <3>1
    <3> QED
      BY <3>2, <3>3
  <2> HIDE DEF w
  <2>3. t \o w \in Seq(Q) /\ Len(t \o w) = n
    <3>1. t \o w \in Seq(Q) /\ Len(t \o w) = Len(t) + Len(w)
      BY <2>1, <2>2, ConcatProperties, Zenon
    <3> QED
      BY <1>1, <2>2, <3>1 DEF m
  <2>4. \A i \in 1 .. n : (t \o w)[i] = IF i <= m THEN t[i] ELSE w[i - m]
    BY <1>1, <2>1, <2>2, ConcatProperties DEF m
  <2>5. \A i \in 1 .. n : (t \o w)[i] = u[i]
    <3> SUFFICES ASSUME NEW i \in 1 .. n PROVE (t \o w)[i] = u[i]
      OBVIOUS
    <3>1. u[i] = c[i]
      BY <1>0 DEF n
    <3>2. CASE i <= m
      BY <1>0, <1>1, <2>4, <3>1, <3>2 DEF m
    <3>3. CASE ~(i <= m)
      <4>1. i - m \in 1 .. k /\ m + (i - m) = i
        BY <1>1, <3>3
      <4> QED
        BY <2>2, <2>4, <3>1, <3>3, <4>1
    <3> QED
      BY <3>2, <3>3
  <2>6. t \o w = u
    BY <2>1, <2>3, <2>5, SeqEqual DEF n
  <2>7. k \in 1 .. Len(c) - m
    BY <1>0, <1>1, <1>3 DEF n
  <2> QED
    BY <2>6, <2>7 DEF w, m
<1>4. m = n \/ m < n
  BY <1>1
<1> QED
  BY <1>2, <1>3, <1>4, Zenon DEF GoesOn

\* A flush, and an empty packet after it, only add to what was sent.
LEMMA SendsMore ==
    ASSUME IInv, Turn \/ Return
    PROVE  Len(tx) <= Len(tx')
<1> DEFINE x == [no |-> rcv.no, to |-> Dest, bytes |-> Packet]
<1>1. tx \in Seq(Wire) /\ Len(tx) \in Nat
  BY NumbersOf
<1>2. ASSUME NEW f \in Flushed
      PROVE  f \in Seq(Wire) /\ Len(tx \o f) >= Len(tx) /\ tx \o f \in Seq(Wire)
  <2>1. f = Asked(out.iov)
    BY FlushedIs DEF IInv
  <2>2. f \in Seq(Wire)
    BY <2>1, AskedIs DEF IInv
  <2>3. Len(tx \o f) = Len(tx) + Len(f) /\ Len(f) \in Nat
    BY <1>1, <2>2, LenJoined
  <2> QED
    BY <1>1, <2>2, <2>3, ConcatProperties
<1>3. CASE tx' = tx
  BY <1>1, <1>3
<1>4. CASE \E f \in Flushed : tx' = tx \o f
  BY <1>2, <1>4
<1>5. CASE Turn /\ AddAlone
  <2>1. PICK f \in Flushed : tx' = tx \o f \o <<x>>
    BY <1>5 DEF AddAlone
  <2>2. x \in Wire
    <3>1. Passed
      BY <1>5 DEF AddAlone
    <3>2. Turn
      BY <1>5
    <3> QED
      BY <3>1, <3>2, PacketIs DEF Wire
  <2> HIDE DEF x
  <2>3. Len((tx \o f) \o <<x>>) = Len(tx \o f) + 1 /\ Len(tx \o f) \in Nat
    <3> DEFINE t == tx \o f
    <3>1. t \in Seq(Wire)
      BY <1>2
    <3> HIDE DEF t
    <3>2. Len(t \o <<x>>) = Len(t) + 1 /\ Len(t) \in Nat
      BY <2>2, <3>1
    <3> QED
      BY <3>2 DEF t
  <2> QED
    BY <1>1, <1>2, <2>1, <2>3
<1> QED
  BY <1>3, <1>4, <1>5 DEF Turn, Skip, AddAfterFlush, AddToGroup, Return

\* Where nothing comes, what was tried grows along what must go out.
LEMMA TriedGrows ==
    ASSUME TriedFirst, TriedFirst', arrived' = arrived, down' = down, status' = status,
           status # "exited", Len(tx) <= Len(tx')
    PROVE  F!Try \/ UNCHANGED F!vars
<1> DEFINE c == Come(arrived, down)
           t == Tried(tx)
           u == Tried(tx')
<1>1. MustGo = c /\ MustGo' = c /\ Attempted = t /\ Attempted' = u
  BY AbstractedNow, AbstractedNext, Zenon DEF Abstracted
<1>2. IsFirst(c, t) /\ IsFirst(c, u) /\ Len(t) <= Len(u)
  <2>1. IsFirst(c, t) /\ Len(t) = Len(tx)
    BY Zenon DEF TriedFirst
  <2>2. IsFirst(c, u) /\ Len(u) = Len(tx')
    BY Zenon DEF TriedFirst
  <2> HIDE DEF c, t, u
  <2> QED
    BY <2>1, <2>2, Zenon
<1> HIDE DEF c, t, u
<1>3. GoesOn(c, t, u)
  BY <1>2, FirstParts, Zenon
<1>4. CASE u = t
  BY <1>1, <1>4 DEF F!vars
<1>5. CASE \E k \in 1 .. Len(c) - Len(t) : u = t \o SubSeq(c, Len(t) + 1, Len(t) + k)
  BY <1>1, <1>5, Zenon DEF F!Try
<1> QED
  BY <1>3, <1>4, <1>5, Zenon DEF GoesOn

\* A step of the program is one of F's, or changes nothing that F sees.
LEMMA StepForwards ==
    ASSUME IInv, IInv', [Next]_vars
    PROVE  [F!Next]_(F!vars)
<1>1. TriedFirst /\ TriedFirst'
  <2>1. (IInv => TriedFirst)'
    BY TriedIsFirst, PTL
  <2> QED
    BY <2>1, TriedIsFirst
<1>2. MustGo = Come(arrived, down) /\ Attempted = Tried(tx)
  BY AbstractedNow DEF Abstracted
<1>3. MustGo' = Come(arrived', down') /\ Attempted' = Tried(tx')
  BY AbstractedNext
<1>4. ASSUME UNCHANGED <<arrived, down, tx>>
      PROVE  MustGo' = MustGo /\ Attempted' = Attempted
  BY <1>2, <1>3, <1>4, Zenon
<1>5. CASE SetBatch
  <2>1. UNCHANGED <<arrived, down, tx>> /\ status # "exited" /\ status' # "exited"
    BY <1>5 DEF SetBatch
  <2> QED
    BY <1>4, <2>1 DEF F!vars
<1>6. CASE GroFails \/ GsoFails
  <2>1. UNCHANGED <<arrived, down, tx>> /\ status = "running" /\ status' = "exited"
    BY <1>6 DEF GroFails, GsoFails, setup
  <2> QED
    BY <1>4, <2>1 DEF F!Next, F!Stop
<1>7. ASSUME NEW d \in Incoming, Comes(d) PROVE [F!Next]_(F!vars)
  <2>1. arrived' = Append(arrived, d) /\ down' = down /\ tx' = tx /\ status' = status
    BY <1>7 DEF Comes, setup
  <2>2. arrived \in Seq(Arrival) /\ d \in Arrival
    BY TypingIs, ConstantsAssumption DEF IInv, Typing, Arrival
  <2>3. Extends(arrived, arrived')
    BY <2>1, <2>2, Later
  <2>4. \/ MustGo' = MustGo
        \/ Len(MustGo') = Len(MustGo) + 1 /\ SubSeq(MustGo', 1, Len(MustGo)) = MustGo
    BY <1>2, <1>3, <2>1, <2>3, ComesOn, Zenon
  <2>5. Attempted' = Attempted /\ (status = "exited")' = (status = "exited")
    BY <1>2, <1>3, <2>1
  <2> QED
    BY <2>1, <2>4, <2>5, Zenon DEF F!Next, F!Come, F!vars
<1>8. CASE Read
  <2>1. UNCHANGED <<arrived, down, tx, status>>
    BY <1>8 DEF Read, setup
  <2> QED
    BY <1>4, <2>1 DEF F!vars
<1>9. CASE Turn \/ Return
  <2>1. arrived' = arrived /\ down' = down /\ status' = status /\ status # "exited"
    BY <1>9 DEF Turn, Return, setup
  <2>2. Len(tx) <= Len(tx')
    BY <1>9, SendsMore
  <2>3. F!Try \/ UNCHANGED F!vars
    BY <1>1, <2>1, <2>2, TriedGrows
  <2> QED
    BY <2>3 DEF F!Next
<1>10. CASE UNCHANGED vars
  <2>1. UNCHANGED <<arrived, down, tx, status>>
    BY <1>10 DEF vars
  <2> QED
    BY <1>4, <2>1 DEF F!vars
<1>11. ASSUME NEW d \in Incoming, Arrive(d) \/ ArriveMerged(d) PROVE Comes(d)
  BY <1>11 DEF Arrive, ArriveMerged
<1> QED
  BY <1>5, <1>6, <1>7, <1>8, <1>9, <1>10, <1>11 DEF Next

LEMMA InitForwards == Init => F!Init
<1> SUFFICES ASSUME Init PROVE F!Init
  OBVIOUS
<1>1. arrived = <<>> /\ tx = <<>> /\ status = "starting"
  BY DEF Init
<1>2. PlaceOf(arrived, down, Len(arrived)) = 0
  <2>1. RoutedTo(arrived, down, Len(arrived)) = {}
    BY <1>1 DEF RoutedTo
  <2> QED
    BY <2>1, FS_EmptySet DEF PlaceOf
<1>3. MustGo = <<>>
  <2>1. MustGo = [i \in 1 .. 0 |-> OutcomeOf(arrived, down, NumberOf(arrived, down, i))]
    BY <1>2, AbstractedNow DEF Abstracted, Come
  <2> QED
    BY <2>1
<1>4. Attempted = <<>>
  BY <1>1 DEF Attempted
<1> QED
  BY <1>1, <1>3, <1>4 DEF F!Init

\* However the kernel merges datagrams and whichever group it refuses, with
\* -G as without it, the program does what passing them on one by one does:
\* each as it must go out, in the order they came, none left over, repeated
\* or overtaken.
THEOREM ForwardsOneByOne == Spec => F!Spec
<1>1. Init => F!Init
  BY InitForwards
<1>2. IInv /\ IInv' /\ [Next]_vars => [F!Next]_(F!vars)
  BY StepForwards
<1> QED
  BY <1>1, <1>2, Inductive, PTL DEF Spec, F!Spec

=============================================================================
