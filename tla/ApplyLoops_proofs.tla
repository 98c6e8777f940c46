------------------------- MODULE ApplyLoops_proofs -------------------------
(***************************************************************************)
(* The kernel that is selected may be applied to the arguments, no better  *)
(* one may, and it works once on each element of the common shape, for     *)
(* every number of arguments and dimensions.                               *)
(***************************************************************************)
EXTENDS ApplyLoops, Broadcast_proofs

-----------------------------------------------------------------------------
(* Products of extents.                                                    *)

\* What follows the first k elements of a sequence.
After(s, k) == SubSeq(s, k+1, Len(s))

LEMMA AfterType ==
  ASSUME NEW S, NEW s \in Seq(S), NEW k \in 0..Len(s)
  PROVE  /\ After(s, k) \in Seq(S) /\ Len(After(s, k)) = Len(s) - k
         /\ \A j \in 1..(Len(s)-k) : After(s, k)[j] = s[k+j]
<1> DEFINE n == Len(s)
<1>1. n \in Nat /\ k+1 \in Int /\ (IF k+1 <= n THEN n-(k+1)+1 ELSE 0) = n-k
      /\ \A i \in (k+1)..n : s[i] \in S
  OBVIOUS
<1>2. \A j \in 1..(n-k) : (k+1)+j-1 = k+j /\ n-(k+1)+1 = n-k
  BY <1>1
<1> HIDE DEF n
<1>3. /\ SubSeq(s, k+1, n) \in Seq(S)
      /\ Len(SubSeq(s, k+1, n)) = IF k+1 <= n THEN n-(k+1)+1 ELSE 0
      /\ \A j \in 1..(n-(k+1)+1) : SubSeq(s, k+1, n)[j] = s[(k+1)+j-1]
  BY <1>1, SubSeqProperties
<1>4. QED
  BY <1>1, <1>2, <1>3 DEF After, n

LEMMA ProductType == ASSUME NEW s \in Shapes PROVE Product(s) \in Nat
<1>1. PICK g \in [0..Len(s) -> Nat] : Products(s, g)
  BY ProductRec DEF Shapes
<1>2. Len(s) \in 0..Len(s)
  BY DEF Shapes
<1>3. QED
  BY <1>1, <1>2 DEF Products

\* The product of a sequence is that of its first numbers times that of the others.
LEMMA ProductAfter ==
  ASSUME NEW a \in Shapes, NEW p \in 0..Len(a),
         NEW g \in [0..Len(a) -> Nat], Products(a, g)
  PROVE  Product(a) = g[p] * Product(After(a, p))
<1> DEFINE b == After(a, p)
<1>1. b \in Seq(Nat) /\ Len(b) = Len(a) - p /\ \A j \in 1..(Len(a)-p) : b[j] = a[p+j]
  BY AfterType DEF Shapes
<1> HIDE DEF b
<1>2. PICK h \in [0..Len(b) -> Nat] : Products(b, h)
  BY <1>1, ProductRec
<1> DEFINE L == Len(b)
           T == {k \in 0..L : g[p+k] = g[p] * h[k]}
<1>3. L \in Nat /\ Len(a) \in Nat /\ Len(a) = p + L /\ p \in Nat
  BY <1>1 DEF Shapes
<1>4. g[p] \in Nat
  OBVIOUS
<1>5. 0 \in T
  BY <1>2, <1>3, <1>4 DEF Products
<1>6. ASSUME NEW n \in 0..(L-1), n \in T PROVE n+1 \in T
  <2> HIDE DEF L
  <2>1. /\ n+1 \in 1..L /\ n \in 0..L /\ (n+1)-1 = n
        /\ p+(n+1) \in 1..(p+L) /\ p+(n+1)-1 = p+n /\ p+n \in 0..(p+L)
    BY <1>3, PlacesAfter
  <2>2. h[n+1] = h[n] * b[n+1] /\ h[n] \in Nat
    BY <1>2, <2>1 DEF Products, L
  <2>3. g[p+(n+1)] = g[p+n] * a[p+(n+1)]
    <3> DEFINE k == p+(n+1)
    <3>1. k \in 1..Len(a) /\ k-1 = p+n
      BY <1>3, <2>1
    <3> HIDE DEF k
    <3>2. g[k] = g[k-1] * a[k]
      BY <3>1 DEF Products
    <3>3. QED
      BY <3>1, <3>2 DEF k
  <2>4. a[p+(n+1)] = b[n+1] /\ b[n+1] \in Nat
    BY <1>1, <2>1 DEF L
  <2>5. g[p+n] = g[p] * h[n]
    BY <1>6
  <2>6. g[p+(n+1)] = (g[p] * h[n]) * b[n+1]
    BY <2>3, <2>4, <2>5
  <2>7. (g[p] * h[n]) * b[n+1] = g[p] * (h[n] * b[n+1])
    BY <1>4, <2>2, <2>4
  <2>8. QED
    BY <2>1, <2>2, <2>6, <2>7
<1>7. L \in T
  <2> HIDE DEF T, L
  <2>1. \A n \in 0..L : n \in T
    BY <1>3, <1>5, <1>6, UpTo
  <2>2. QED
    BY <1>3, <2>1
<1>8. QED
  BY <1>2, <1>3, <1>7 DEF Products, b

LEMMA ProductSplit ==
  ASSUME NEW a \in Shapes, NEW p \in 0..Len(a)
  PROVE  /\ Product(a) = Product(SubSeq(a, 1, p)) * Product(After(a, p))
         /\ Product(SubSeq(a, 1, p)) \in Nat /\ Product(After(a, p)) \in Nat
<1>1. PICK g \in [0..Len(a) -> Nat] : Products(a, g)
  BY ProductRec DEF Shapes
<1>2. Product(a) = g[p] * Product(After(a, p)) /\ Product(SubSeq(a, 1, p)) = g[p]
  BY <1>1, ProductAfter, ProductPrefix
<1>3. After(a, p) \in Shapes
  BY AfterType DEF Shapes
<1>4. QED
  BY <1>2, <1>3, ProductType

\* One more extent in front.
LEMMA ProductFirst ==
  ASSUME NEW s \in Shapes, NEW k \in 1..Len(s)
  PROVE  /\ Product(After(s, k-1)) = s[k] * Product(After(s, k))
         /\ Product(After(s, k)) \in Nat /\ s[k] \in Nat
<1> DEFINE t == After(s, k-1)
<1>0. Len(s) \in Nat /\ k-1 \in 0..Len(s) /\ k \in 0..Len(s) /\ s[k] \in Nat
  BY DEF Shapes
<1>1. t \in Shapes /\ Len(t) = Len(s) - (k-1) /\ \A j \in 1..(Len(s)-(k-1)) : t[j] = s[(k-1)+j]
  BY <1>0, AfterType DEF Shapes
<1> HIDE DEF t
<1>2. PICK g \in [0..Len(t) -> Nat] : Products(t, g)
  BY <1>1, ProductRec DEF Shapes
<1>3. Len(t) \in Nat /\ 1 \in 0..Len(t) /\ 1 \in 1..Len(t) /\ 1 \in 1..(Len(s)-(k-1)) /\ (k-1)+1 = k
  BY <1>0, <1>1
<1>4. Product(t) = g[1] * Product(After(t, 1))
  BY <1>1, <1>2, <1>3, ProductAfter
<1>5. g[1] = s[k]
  <2>1. g[1] = g[1-1] * t[1] /\ g[0] = 1
    BY <1>2, <1>3 DEF Products
  <2>2. t[1] = s[k]
    BY <1>1, <1>3
  <2>3. QED
    BY <1>0, <2>1, <2>2
<1>6. After(t, 1) = After(s, k) /\ After(s, k) \in Shapes
  <2>1. After(t, 1) \in Seq(Nat) /\ Len(After(t, 1)) = Len(t) - 1
        /\ \A j \in 1..(Len(t)-1) : After(t, 1)[j] = t[1+j]
    <3>1. t \in Seq(Nat) /\ 1 \in 0..Len(t)
      BY <1>1, <1>3 DEF Shapes
    <3>2. QED
      BY ONLY <3>1, AfterType
  <2>2. After(s, k) \in Seq(Nat) /\ Len(After(s, k)) = Len(s) - k
        /\ \A j \in 1..(Len(s)-k) : After(s, k)[j] = s[k+j]
    BY <1>0, AfterType DEF Shapes
  <2>3. Len(t) - 1 = Len(s) - k
    BY <1>0, <1>1
  <2>4. \A j \in 1..(Len(s)-k) : After(t, 1)[j] = After(s, k)[j]
    <3> SUFFICES ASSUME NEW j \in 1..(Len(s)-k) PROVE After(t, 1)[j] = After(s, k)[j]
      OBVIOUS
    <3>1. 1+j \in 1..(Len(s)-(k-1)) /\ (k-1)+(1+j) = k+j
      BY <1>0
    <3>2. t[1+j] = s[(k-1)+(1+j)]
      BY <1>1, <3>1
    <3>3. After(t, 1)[j] = t[1+j] /\ After(s, k)[j] = s[k+j]
      BY <2>1, <2>2, <2>3
    <3>4. QED
      BY <3>1, <3>2, <3>3
  <2>5. QED
    <3>1. Len(After(t, 1)) = Len(After(s, k)) /\ \A j \in 1..Len(After(t, 1)) : After(t, 1)[j] = After(s, k)[j]
      BY <2>1, <2>2, <2>3, <2>4
    <3>2. After(t, 1) = After(s, k)
      BY ONLY <2>1, <2>2, <3>1, SeqEqual
    <3>3. QED
      BY <2>2, <3>2 DEF Shapes
<1>7. QED
  BY <1>0, <1>4, <1>5, <1>6, ProductType DEF t

\* The extents that follow dimension k, multiplied.
Weights(s, h) ==
  /\ h[Len(s)] = 1
  /\ \A k \in 1..Len(s) : h[k-1] = s[k] * h[k]
  /\ \A k \in 0..Len(s) : h[k] = Product(After(s, k))

LEMMA WeightsExist ==
  ASSUME NEW s \in Shapes
  PROVE  \E h \in [0..Len(s) -> Nat] : Weights(s, h)
<1> DEFINE h == [k \in 0..Len(s) |-> Product(After(s, k))]
<1>1. Len(s) \in Nat
  BY DEF Shapes
<1>2. ASSUME NEW k \in 0..Len(s) PROVE Product(After(s, k)) \in Nat
  <2>1. After(s, k) \in Shapes
    BY AfterType DEF Shapes
  <2>2. QED
    BY <2>1, ProductType
<1>3. Product(After(s, Len(s))) = 1
  <2> DEFINE t == After(s, Len(s))
  <2>1. t \in Shapes /\ Len(t) = 0
    BY <1>1, AfterType DEF Shapes
  <2> HIDE DEF t
  <2>2. PICK g \in [0..Len(t) -> Nat] : Products(t, g)
    BY <2>1, ProductRec DEF Shapes
  <2>3. Product(t) = 1
    BY <2>1, <2>2 DEF Products
  <2>4. QED
    BY <2>3 DEF t
<1>4. ASSUME NEW k \in 1..Len(s) PROVE h[k-1] = s[k] * h[k]
  <2>1. k-1 \in 0..Len(s) /\ k \in 0..Len(s)
    BY <1>1
  <2>2. QED
    BY <2>1, ProductFirst
<1>5. h \in [0..Len(s) -> Nat]
  BY <1>2
<1>6. Len(s) \in 0..Len(s)
  BY <1>1
<1>7. Weights(s, h)
  BY <1>3, <1>4, <1>6 DEF Weights
<1> HIDE DEF h
<1>8. QED
  BY <1>5, <1>7

-----------------------------------------------------------------------------
(* Memory order.                                                           *)

\* The place of an element, taking the dimensions in the order o.
Horner(s, o, idx) == FoldLeft(LAMBDA r, i : r * s[i] + idx[i], 0, o)
HornerSteps(s, o, idx, g) ==
  /\ g[0] = 0
  /\ \A k \in 1..Len(o) : g[k] = g[k-1] * s[o[k]] + idx[o[k]]
  /\ Horner(s, o, idx) = g[Len(o)]

LEMMA HornerRec ==
  ASSUME NEW s \in Shapes, NEW idx \in [1..Len(s) -> Nat], NEW o \in Seq(1..Len(s))
  PROVE  \E g \in [0..Len(o) -> Nat] : HornerSteps(s, o, idx, g)
<1> DEFINE N == Len(o)
           V == Nat
           a == 0
           E(k, x) == x * s[o[k]] + idx[o[k]]
           H == [k \in 1..N |-> [x \in V |-> E(k, x)]]
           Body(f) == [t \in SUBSET DOMAIN o |-> IF t = {} THEN a ELSE E(Max(t), f[t \ {Max(t)}])]
<1>1. N \in Nat /\ DOMAIN o = 1..N /\ \A k \in 1..N : o[k] \in 1..Len(s)
  OBVIOUS
<1>2. a \in V
  OBVIOUS
<1>3. ASSUME NEW k \in 1..N, NEW x \in V PROVE E(k, x) \in V
  <2>1. o[k] \in 1..Len(s) /\ s[o[k]] \in Nat /\ idx[o[k]] \in Nat
    BY <1>1 DEF Shapes
  <2>2. \A b, c, d \in Nat : b*c + d \in Nat
    OBVIOUS
  <2>3. QED
    BY <1>3, <2>1, <2>2, Zenon
<1>4. Horner(s, o, idx) = (CHOOSE f : f = Body(f))[DOMAIN o]
  BY DEF Horner, FoldLeft, MapThenFoldSet
<1> HIDE DEF N, V, a, E
<1>5. H \in [1..N -> [V -> V]]
  BY <1>3
<1>6. PICK f \in [SUBSET (1..N) -> V] : FoldsTo(f, N, a, H)
  <2> HIDE DEF H
  <2>1. QED
    BY <1>1, <1>2, <1>5, FoldExists
<1>7. f = Body(f)
  <2>1. ASSUME NEW t \in SUBSET (1..N)
        PROVE  f[t] = IF t = {} THEN a ELSE E(Max(t), f[t \ {Max(t)}])
    <3>1. CASE t = {}
      BY <1>6, <3>1 DEF FoldsTo
    <3>2. CASE t # {}
      <4> DEFINE m == Max(t)
      <4>1. m \in t
        BY <1>1, <3>2, Largest
      <4>2. f[t] = H[m][f[t \ {m}]]
        BY <1>6, <3>2 DEF FoldsTo
      <4> HIDE DEF m
      <4>3. m \in 1..N /\ f[t \ {m}] \in V
        BY <4>1
      <4>4. QED
        BY <3>2, <4>2, <4>3 DEF m
    <3>3. QED
      BY <3>1, <3>2
  <2>2. QED
    BY <1>1, <2>1
<1> DEFINE v == CHOOSE f_1 : f_1 = Body(f_1)
<1>8. v = Body(v)
  <2> HIDE DEF Body
  <2>1. QED
    BY <1>7
<1>9. Horner(s, o, idx) = v[1..N]
  BY <1>1, <1>4
<1> HIDE DEF v
<1>10. \A t \in SUBSET (1..N) : v[t] = IF t = {} THEN a ELSE E(Max(t), v[t \ {Max(t)}])
  BY <1>1, <1>8
<1> HIDE DEF Body
<1>11. v[{}] = a
  BY <1>10
<1>12. GoesBy(v, N, V, H)
  <2> SUFFICES ASSUME NEW k \in 1..N, NEW x \in V, v[1..(k-1)] = x PROVE v[1..k] = H[k][x]
    BY DEF GoesBy
  <2>1. /\ 1..k \in SUBSET (1..N) /\ 1..k # {}
        /\ Max(1..k) = k
        /\ (1..k) \ {Max(1..k)} = 1..(k-1)
    BY <1>1, Segment
  <2>2. v[1..k] = E(k, v[1..(k-1)])
    BY <1>10, <2>1
  <2>3. QED
    BY <2>2
<1>13. PICK g \in [0..N -> V] : EndsAs(g, v, N, a, H)
  <2> HIDE DEF H
  <2>1. QED
    BY <1>1, <1>2, <1>5, <1>11, <1>12, FoldFollows
<1>14. \A k \in 1..N : g[k] = E(k, g[k-1])
  <2> SUFFICES ASSUME NEW k \in 1..N PROVE g[k] = E(k, g[k-1])
    OBVIOUS
  <2>1. g[k-1] \in V
    BY <1>1
  <2>2. g[k] = H[k][g[k-1]]
    BY <1>13 DEF EndsAs, Follows
  <2>3. QED
    BY <2>1, <2>2
<1>15. g[0] = a
  BY <1>13 DEF EndsAs, Follows
<1>16. HornerSteps(s, o, idx, g)
  BY <1>9, <1>13, <1>14, <1>15 DEF EndsAs, HornerSteps, a, E, N
<1>17. QED
  BY <1>16 DEF N, V

\* Indices with weights.
Weighted(idx, w) == [i \in DOMAIN idx |-> idx[i] * w[i]]

LEMMA WeightedType ==
  ASSUME NEW n \in Nat, NEW idx \in [1..n -> Nat], NEW w \in [1..n -> Int]
  PROVE  /\ Weighted(idx, w) \in Seq(Int) /\ Len(Weighted(idx, w)) = n
         /\ \A i \in 1..n : Weighted(idx, w)[i] = idx[i] * w[i] /\ idx[i] \in Nat /\ w[i] \in Int
<1>1. \A i \in 1..n : idx[i] \in Nat /\ w[i] \in Int
  OBVIOUS
<1>2. \A i \in 1..n : idx[i] * w[i] \in Int
  BY <1>1
<1>3. Weighted(idx, w) = [i \in 1..n |-> idx[i] * w[i]]
  BY DEF Weighted
<1>4. Weighted(idx, w) \in [1..n -> Int]
  BY <1>2, <1>3
<1>5. Weighted(idx, w) \in Seq(Int) /\ Len(Weighted(idx, w)) = n
  BY <1>3, <1>4
<1>6. QED
  BY <1>1, <1>3, <1>5

LEMMA HornerStep ==
  ASSUME NEW g \in Nat, NEW s \in Nat, NEW h \in Nat, NEW i \in Nat
  PROVE  g * (s * h) + i * h = (g * s + i) * h
OBVIOUS

\* The last dimension first: the weight of a dimension is the product of those that follow.
CWeights(s) == [i \in 1..Len(s) |-> Product(After(s, i))]

LEMMA HornerC ==
  ASSUME NEW s \in Shapes, NEW idx \in [1..Len(s) -> Nat]
  PROVE  /\ CWeights(s) \in [1..Len(s) -> Nat]
         /\ Horner(s, [i \in 1..Len(s) |-> i], idx) = Total(Weighted(idx, CWeights(s)))
<1> DEFINE n == Len(s)
           o == [i \in 1..n |-> i]
           w == CWeights(s)
           a == Weighted(idx, w)
<1>1. n \in Nat /\ \A i \in 1..n : s[i] \in Nat /\ idx[i] \in Nat
  BY DEF Shapes
<1>2. PICK h \in [0..Len(s) -> Nat] : Weights(s, h)
  BY WeightsExist
<1>3. \A i \in 1..n : w[i] = h[i] /\ h[i] \in Nat
  <2> SUFFICES ASSUME NEW i \in 1..n PROVE w[i] = h[i] /\ h[i] \in Nat
    OBVIOUS
  <2>1. i \in 0..Len(s) /\ i \in 1..Len(s)
    BY <1>1
  <2>2. h[i] = Product(After(s, i)) /\ h[i] \in Nat
    BY <1>2, <2>1 DEF Weights
  <2>3. QED
    BY <2>1, <2>2 DEF CWeights
<1>4. w \in [1..n -> Nat]
  BY <1>3 DEF CWeights
<1>5. o \in Seq(1..n) /\ Len(o) = n /\ \A i \in 1..n : o[i] = i
  BY <1>1
<1> HIDE DEF n, o, w, a
<1>6. PICK g \in [0..n -> Nat] : HornerSteps(s, o, idx, g)
  BY <1>5, HornerRec DEF n
<1>7. /\ a \in Seq(Int) /\ Len(a) = n
      /\ \A i \in 1..n : a[i] = idx[i] * h[i]
  <2>1. w \in [1..n -> Int] /\ idx \in [1..n -> Nat]
    BY <1>4 DEF n
  <2>2. a \in Seq(Int) /\ Len(a) = n /\ \A i \in 1..n : a[i] = idx[i] * w[i]
    BY <1>1, <2>1, WeightedType DEF a
  <2>3. QED
    BY <1>3, <2>2
<1>8. PICK t \in [0..n -> Int] : Totals(a, t)
  BY <1>7, TotalRec
<1> DEFINE T == {k \in 0..n : t[k] = g[k] * h[k]}
<1>9. 0 \in T
  <2>1. t[0] = 0 /\ g[0] = 0 /\ h[0] \in Nat /\ 0 \in 0..n
    BY <1>1, <1>6, <1>8 DEF Totals, HornerSteps, n
  <2>2. QED
    BY <2>1
<1>10. ASSUME NEW k \in 0..(n-1), k \in T PROVE k+1 \in T
  <2>1. k+1 \in 1..n /\ k+1 \in 0..n /\ k \in 0..n /\ (k+1)-1 = k
    BY <1>1
  <2>2. t[k+1] = t[k] + idx[k+1] * h[k+1]
    <3>1. t[k+1] = t[(k+1)-1] + a[k+1]
      BY <1>7, <1>8, <2>1 DEF Totals
    <3>2. QED
      BY <1>7, <2>1, <3>1
  <2>3. h[k] = s[k+1] * h[k+1]
    <3>1. h[(k+1)-1] = s[k+1] * h[k+1]
      BY <1>2, <2>1 DEF Weights, n
    <3>2. QED
      BY <2>1, <3>1
  <2>4. g[k+1] = g[k] * s[k+1] + idx[k+1]
    <3>1. g[k+1] = g[(k+1)-1] * s[o[k+1]] + idx[o[k+1]]
      BY <1>5, <1>6, <2>1 DEF HornerSteps
    <3>2. QED
      BY <1>5, <2>1, <3>1
  <2>5. g[k] \in Nat /\ s[k+1] \in Nat /\ h[k+1] \in Nat /\ idx[k+1] \in Nat
    BY <1>1, <1>3, <2>1
  <2>6. t[k] = g[k] * h[k]
    BY <1>10
  <2>7. t[k+1] = g[k] * (s[k+1] * h[k+1]) + idx[k+1] * h[k+1]
    BY <2>2, <2>3, <2>6
  <2>8. t[k+1] = g[k+1] * h[k+1]
    BY ONLY <2>4, <2>5, <2>7, HornerStep
  <2>9. QED
    BY <2>1, <2>8
<1>11. n \in T
  <2> HIDE DEF T
  <2>1. \A k \in 0..n : k \in T
    BY <1>1, <1>9, <1>10, UpTo
  <2>2. QED
    BY <1>1, <2>1
<1>12. h[n] = 1 /\ g[n] \in Nat
  BY <1>1, <1>2 DEF Weights, n
<1>13. t[n] = g[n]
  BY <1>11, <1>12
<1>14. QED
  BY <1>4, <1>5, <1>6, <1>7, <1>8, <1>13 DEF Totals, HornerSteps, a, w, o, n

\* The first dimension first: the weight of a dimension is the product of those before it.
FWeights(s) == [i \in 1..Len(s) |-> Product(SubSeq(s, 1, i-1))]

LEMMA HornerF ==
  ASSUME NEW s \in Shapes, NEW idx \in [1..Len(s) -> Nat]
  PROVE  /\ FWeights(s) \in [1..Len(s) -> Nat]
         /\ Horner(s, [i \in 1..Len(s) |-> Len(s)+1-i], idx) = Total(Weighted(idx, FWeights(s)))
<1> DEFINE n == Len(s)
           o == [i \in 1..n |-> n+1-i]
           w == FWeights(s)
           a == Weighted(idx, w)
<1>1. n \in Nat /\ \A i \in 1..n : s[i] \in Nat /\ idx[i] \in Nat
  BY DEF Shapes
<1>2. PICK p \in [0..Len(s) -> Nat] : Products(s, p)
  BY ProductRec DEF Shapes
<1>3. \A i \in 1..n : w[i] = p[i-1] /\ p[i-1] \in Nat
  <2>1. \A i \in 1..n : i-1 \in 0..Len(s)
    BY <1>1
  <2>2. QED
    BY <1>2, <2>1, ProductPrefix DEF FWeights
<1>4. w \in [1..n -> Nat]
  BY <1>3 DEF FWeights
<1>5. o \in Seq(1..n) /\ Len(o) = n /\ \A i \in 1..n : o[i] = n+1-i
  BY <1>1
<1> HIDE DEF n, o, w, a
<1>6. PICK g \in [0..n -> Nat] : HornerSteps(s, o, idx, g)
  BY <1>5, HornerRec DEF n
<1>7. /\ a \in Seq(Int) /\ Len(a) = n
      /\ \A i \in 1..n : a[i] = idx[i] * p[i-1]
  <2>1. w \in [1..n -> Int] /\ idx \in [1..n -> Nat]
    BY <1>4 DEF n
  <2>2. a \in Seq(Int) /\ Len(a) = n /\ \A i \in 1..n : a[i] = idx[i] * w[i]
    BY <1>1, <2>1, WeightedType DEF a
  <2>3. QED
    BY <1>3, <2>2
<1>8. PICK t \in [0..n -> Int] : Totals(a, t)
  BY <1>7, TotalRec
<1> DEFINE T == {k \in 0..n : t[n] = t[n-k] + g[k] * p[n-k]}
<1>9. 0 \in T
  <2>1. n-0 = n /\ g[0] = 0 /\ 0 \in 0..n /\ n \in 0..n
    BY <1>1, <1>6 DEF HornerSteps
  <2>2. p[n] \in Nat /\ t[n] \in Int
    BY <2>1 DEF n
  <2>3. QED
    BY <2>1, <2>2
<1>10. ASSUME NEW k \in 0..(n-1), k \in T PROVE k+1 \in T
  <2> DEFINE m == n-k
  <2>1. k+1 \in 1..n /\ k+1 \in 0..n /\ (k+1)-1 = k /\ m \in 1..n /\ m \in 0..n /\ m-1 \in 0..n
        /\ n-(k+1) = m-1 /\ n+1-(k+1) = m /\ k \in 0..n
    BY <1>1
  <2>2. t[n] = t[m] + g[k] * p[m]
    BY <1>10
  <2> HIDE DEF m, T
  <2>3. t[m] = t[m-1] + idx[m] * p[m-1]
    <3>1. t[m] = t[m-1] + a[m]
      BY <1>7, <1>8, <2>1 DEF Totals
    <3>2. QED
      BY <1>7, <2>1, <3>1
  <2>4. p[m] = p[m-1] * s[m]
    BY <1>2, <2>1 DEF Products, n
  <2>5. g[k+1] = g[k] * s[m] + idx[m]
    <3>1. g[k+1] = g[(k+1)-1] * s[o[k+1]] + idx[o[k+1]]
      BY <1>5, <1>6, <2>1 DEF HornerSteps
    <3>2. o[k+1] = m
      BY <1>5, <2>1
    <3>3. QED
      BY <2>1, <3>1, <3>2
  <2>6. g[k] \in Nat /\ s[m] \in Nat /\ p[m-1] \in Nat /\ idx[m] \in Nat /\ t[m-1] \in Int
    BY <1>1, <2>1 DEF n
  <2>7. t[n] = (t[m-1] + idx[m] * p[m-1]) + g[k] * (p[m-1] * s[m])
    BY <2>2, <2>3, <2>4
  <2>8. p[m-1] * s[m] = s[m] * p[m-1]
    BY <2>6
  <2>9. g[k] * (s[m] * p[m-1]) + idx[m] * p[m-1] = (g[k] * s[m] + idx[m]) * p[m-1]
    BY ONLY <2>6, HornerStep
  <2>10. idx[m] * p[m-1] \in Int /\ g[k] * (s[m] * p[m-1]) \in Int
    <3>1. \A x, y, z \in Nat : x*y \in Int /\ x*(y*z) \in Int
      OBVIOUS
    <3>2. QED
      BY ONLY <2>6, <3>1, Zenon
  <2>11. t[n] = t[m-1] + g[k+1] * p[m-1]
    BY ONLY <2>5, <2>6, <2>7, <2>8, <2>9, <2>10
  <2>12. QED
    BY <2>1, <2>11 DEF T
<1>11. n \in T
  <2> HIDE DEF T
  <2>1. \A k \in 0..n : k \in T
    BY <1>1, <1>9, <1>10, UpTo
  <2>2. QED
    BY <1>1, <2>1
<1>12. t[n] = g[n]
  <2>1. n-n = 0 /\ t[0] = 0 /\ p[0] = 1 /\ g[n] \in Nat
    BY <1>1, <1>2, <1>8 DEF Totals, Products
  <2>2. t[n] = t[n-n] + g[n] * p[n-n]
    BY <1>11
  <2>3. QED
    BY <2>1, <2>2
<1>13. QED
  BY <1>4, <1>5, <1>6, <1>7, <1>8, <1>12 DEF Totals, HornerSteps, a, w, o, n

\* A sum in which all numbers but one are 0.
LEMMA OneTerm ==
  ASSUME NEW a \in Seq(Int), NEW i \in 1..Len(a), \A j \in 1..Len(a) : j # i => a[j] = 0
  PROVE  Total(a) = a[i]
<1> DEFINE n == Len(a)
<1>1. n \in Nat /\ a[i] \in Int
  OBVIOUS
<1>2. PICK t \in [0..n -> Int] : Totals(a, t)
  BY TotalRec
<1> DEFINE T == {k \in 0..n : t[k] = IF k < i THEN 0 ELSE a[i]}
<1>3. 0 \in T
  BY <1>1, <1>2 DEF Totals
<1>4. ASSUME NEW k \in 0..(n-1), k \in T PROVE k+1 \in T
  <2>1. k+1 \in 1..n /\ k+1 \in 0..n /\ (k+1)-1 = k
    BY <1>1
  <2>2. t[k+1] = t[k] + a[k+1]
    <3>1. t[k+1] = t[(k+1)-1] + a[k+1]
      BY <1>2, <2>1 DEF Totals
    <3>2. QED
      BY <2>1, <3>1
  <2>3. CASE k+1 = i
    <3>1. t[k] = 0
      BY <1>4, <2>3
    <3>2. QED
      BY <1>1, <2>1, <2>2, <2>3, <3>1
  <2>4. CASE k+1 # i
    <3>1. a[k+1] = 0
      BY <2>1, <2>4
    <3>2. k+1 < i <=> k < i
      BY <2>1, <2>4
    <3>3. QED
      BY <1>1, <1>4, <2>1, <2>2, <3>1, <3>2
  <2>5. QED
    BY <2>3, <2>4
<1>5. n \in T
  <2> HIDE DEF T, n
  <2>1. \A k \in 0..n : k \in T
    BY <1>1, <1>3, <1>4, UpTo
  <2>2. QED
    BY <1>1, <2>1
<1>6. t[n] = a[i]
  BY <1>5
<1>7. QED
  BY <1>2, <1>6 DEF Totals

LEMMA SeqIsFunction == ASSUME NEW S, NEW s \in Seq(S) PROVE s \in [1..Len(s) -> S]
  OBVIOUS

\* An array whose steps are these weights where it has more than one element.
LinesUp(x, w) == \A i \in DOMAIN x.shape : x.shape[i] > 1 => x.steps[i] = w[i]
PlacedBy(x, w) == \A idx \in Indices(x.shape) : Offset(x, idx) = Total(Weighted(idx, w))

LEMMA PlacedIfLinedUp ==
  ASSUME NEW y \in NDArrays, NEW w \in [1..NDim(y) -> Nat], LinesUp(y, w)
  PROVE  PlacedBy(y, w)
<1> SUFFICES ASSUME NEW idx \in Indices(y.shape) PROVE Offset(y, idx) = Total(Weighted(idx, w))
  BY DEF PlacedBy
<1> DEFINE n == NDim(y)
<1>1. /\ n \in Nat /\ DOMAIN y.shape = 1..n /\ y.shape \in Shapes /\ Len(y.shape) = n
      /\ \A i \in 1..n : y.shape[i] \in Nat /\ y.steps[i] \in Int
  BY ArrayType DEF NDim
<1>2. idx \in [1..n -> Nat] /\ DOMAIN idx = 1..n /\ \A i \in 1..n : idx[i] \in Nat /\ idx[i] < y.shape[i]
  BY <1>1, IndexType
<1> HIDE DEF n
<1>3. ASSUME NEW i \in 1..n PROVE idx[i] * y.steps[i] = idx[i] * w[i]
  <2>1. CASE y.shape[i] > 1
    BY <1>1, <2>1 DEF LinesUp
  <2>2. CASE ~(y.shape[i] > 1)
    <3>1. idx[i] = 0
      <4>1. idx[i] \in Nat /\ idx[i] < y.shape[i] /\ y.shape[i] \in Nat
        BY <1>1, <1>2
      <4>2. QED
        BY <2>2, <4>1
    <3>2. w[i] \in Nat /\ y.steps[i] \in Int
      BY <1>1 DEF n
    <3>3. QED
      BY <3>1, <3>2
  <2>3. QED
    BY <2>1, <2>2
<1>4. [i \in 1..n |-> idx[i] * y.steps[i]] = [i \in 1..n |-> idx[i] * w[i]]
  BY <1>3
<1>5. Offset(y, idx) = Total([i \in 1..n |-> idx[i] * y.steps[i]])
  BY <1>2 DEF Offset
<1>6. Weighted(idx, w) = [i \in 1..n |-> idx[i] * w[i]]
  BY <1>2 DEF Weighted
<1>7. QED
  BY <1>4, <1>5, <1>6

\* Each dimension of an array with elements can be told from the places of its elements.
LEMMA LinedUpIfPlaced ==
  ASSUME NEW y \in NDArrays, NEW w \in [1..NDim(y) -> Nat], PlacedBy(y, w),
         \A i \in 1..NDim(y) : y.shape[i] # 0
  PROVE  LinesUp(y, w)
<1> DEFINE n == NDim(y)
<1>1. /\ n \in Nat /\ DOMAIN y.shape = 1..n /\ y.shape \in Shapes /\ Len(y.shape) = n
      /\ \A i \in 1..n : y.shape[i] \in Nat /\ y.steps[i] \in Int
  BY ArrayType DEF NDim
<1> SUFFICES ASSUME NEW i \in 1..n, y.shape[i] > 1 PROVE y.steps[i] = w[i]
  BY <1>1 DEF LinesUp
<1> DEFINE idx == [j \in 1..n |-> IF j = i THEN 1 ELSE 0]
<1>2. idx \in [1..n -> Nat] /\ \A j \in 1..n : idx[j] < y.shape[j]
  <2>1. idx \in [1..n -> Nat]
    OBVIOUS
  <2>2. ASSUME NEW j \in 1..n PROVE idx[j] < y.shape[j]
    <3>1. y.shape[j] \in Nat /\ y.shape[j] # 0
      BY <1>1
    <3>2. QED
      BY <3>1
  <2>3. QED
    BY <2>1, <2>2
<1>3. \A j \in 1..n : idx[j] = IF j = i THEN 1 ELSE 0
  OBVIOUS
<1> HIDE DEF idx
<1>4. idx \in Indices(y.shape)
  BY <1>1, <1>2, IndexIs
<1>5. \A v \in [1..n -> Int] : Total(Weighted(idx, v)) = v[i]
  <2> SUFFICES ASSUME NEW v \in [1..n -> Int] PROVE Total(Weighted(idx, v)) = v[i]
    OBVIOUS
  <2> DEFINE a == Weighted(idx, v)
  <2>1. /\ a \in Seq(Int) /\ Len(a) = n
        /\ \A j \in 1..n : a[j] = idx[j] * v[j] /\ v[j] \in Int
    <3> HIDE DEF n
    <3>1. QED
      BY <1>1, <1>2, WeightedType
  <2> HIDE DEF a, n
  <2>2. \A j \in 1..Len(a) : j # i => a[j] = 0
    BY <1>3, <2>1
  <2>3. a[i] = v[i]
    BY <1>3, <2>1
  <2>4. QED
    BY <2>1, <2>2, <2>3, OneTerm DEF a
<1>6. Offset(y, idx) = Total(Weighted(idx, y.steps))
  BY DEF Offset, Weighted
<1>7. y.steps \in [1..n -> Int] /\ w \in [1..n -> Int]
  <2>1. y.steps \in Seq(Int) /\ Len(y.steps) = n
    BY ArrayType DEF NDim
  <2>2. y.steps \in [1..n -> Int]
    BY ONLY <2>1, SeqIsFunction
  <2>3. \A j \in 1..n : w[j] \in Int
    BY <1>1
  <2>4. w = [j \in 1..n |-> w[j]]
    OBVIOUS
  <2> HIDE DEF n
  <2>5. QED
    BY <2>2, <2>3, <2>4
<1>8. QED
  BY <1>4, <1>5, <1>6, <1>7 DEF PlacedBy

\* An array is laid out in row-major order if its dimensions say so, and only then if
\* it has elements; likewise in column-major order.
LEMMA OrderMeans ==
  ASSUME NEW x \in NDArrays, NEW n \in Nat, n <= NDim(x)
  PROVE  /\ IsC(Inner(x, n)) => RowMajor(x, n)
         /\ IsF(Inner(x, n)) => ColumnMajor(x, n)
         /\ ~Empty(x) /\ RowMajor(x, n) => IsC(Inner(x, n))
         /\ ~Empty(x) /\ ColumnMajor(x, n) => IsF(Inner(x, n))
<1> DEFINE y == Inner(x, n)
<1>1. y \in NDArrays /\ NDim(y) = n /\ \A j \in 1..n : y.shape[j] = x.shape[NDim(x)-n+j]
  BY InnerType
<1>2. ~Empty(x) => \A i \in 1..NDim(y) : y.shape[i] # 0
  <2>1. SUFFICES ASSUME NEW i \in 1..n, y.shape[i] = 0 PROVE Empty(x)
    BY <1>1
  <2>2. NDim(x)-n+i \in DOMAIN x.shape
    BY ArrayType
  <2>3. QED
    BY <1>1, <2>1, <2>2 DEF Empty, Range
<1> HIDE DEF y
<1>3. y.shape \in Shapes /\ Len(y.shape) = n /\ DOMAIN y.shape = 1..n
  BY <1>1, ArrayType DEF NDim
<1>4. CWeights(y.shape) \in [1..n -> Nat] /\ FWeights(y.shape) \in [1..n -> Nat]
  <2>1. [i \in 1..n |-> 0] \in [1..Len(y.shape) -> Nat]
    BY <1>3
  <2>2. QED
    BY <1>3, <2>1, HornerC, HornerF
<1>5. LinesUp(y, CWeights(y.shape)) <=> IsC(y)
  BY <1>1, <1>3 DEF LinesUp, IsC, CWeights, After, NDim
<1>6. LinesUp(y, FWeights(y.shape)) <=> IsF(y)
  BY <1>3 DEF LinesUp, IsF, FWeights
<1>7. RowMajor(x, n) <=> PlacedBy(y, CWeights(y.shape))
  <2>1. ASSUME NEW idx \in Indices(y.shape)
        PROVE  Horner(y.shape, [i \in 1..n |-> i], idx) = Total(Weighted(idx, CWeights(y.shape)))
    <3>1. idx \in [1..Len(y.shape) -> Nat]
      BY <1>3, IndexType
    <3>2. QED
      BY <1>3, <3>1, HornerC
  <2>2. RowMajor(x, n) <=>
          \A idx \in Indices(y.shape) : Offset(y, idx) = Horner(y.shape, [i \in 1..n |-> i], idx)
    BY DEF RowMajor, y, Horner, FoldLeft, MapThenFoldSet
  <2>3. QED
    BY <2>1, <2>2 DEF PlacedBy
<1>8. ColumnMajor(x, n) <=> PlacedBy(y, FWeights(y.shape))
  <2>1. ASSUME NEW idx \in Indices(y.shape)
        PROVE  Horner(y.shape, [i \in 1..n |-> n+1-i], idx) = Total(Weighted(idx, FWeights(y.shape)))
    <3>1. idx \in [1..Len(y.shape) -> Nat]
      BY <1>3, IndexType
    <3>2. QED
      BY <1>3, <3>1, HornerF
  <2>2. ColumnMajor(x, n) <=>
          \A idx \in Indices(y.shape) : Offset(y, idx) = Horner(y.shape, [i \in 1..n |-> n+1-i], idx)
    BY DEF ColumnMajor, y, Horner, FoldLeft, MapThenFoldSet
  <2>3. QED
    BY <2>1, <2>2 DEF PlacedBy
<1>9. QED
  BY <1>1, <1>2, <1>4, <1>5, <1>6, <1>7, <1>8, PlacedIfLinedUp, LinedUpIfPlaced DEF y

-----------------------------------------------------------------------------
(* The flags.                                                              *)

\* The flags that one array leaves.
Keeps(x, n) == CheckF(CheckC(CheckStrided(AllFlags, n), x, n), x, n)

LEMMA KeepsEach ==
  ASSUME NEW fl \in SUBSET AllFlags, NEW x, NEW n
  PROVE  CheckF(CheckC(CheckStrided(fl, n), x, n), x, n) = fl \cap Keeps(x, n)
<1> DEFINE e == CheckStrided(fl, n)
           a == CheckStrided(AllFlags, n)
           d == CheckC(e, x, n)
           b == CheckC(a, x, n)
<1>1. e = fl \cap a
  BY DEF CheckStrided
<1>2. d = fl \cap b
  <2> HIDE DEF e, a
  <2>1. QED
    BY <1>1 DEF CheckC
<1>3. CheckF(d, x, n) = fl \cap CheckF(b, x, n)
  <2> HIDE DEF d, b
  <2>1. QED
    BY <1>2 DEF CheckF
<1>4. QED
  BY <1>3 DEF Keeps

\* The flags that are left are those that each array leaves.
LEMMA FlagsKept ==
  ASSUME NEW s \in Seq(NDArrays), NEW n, NEW f
  PROVE  f \in SelectFlags(s, n) <=> f \in AllFlags /\ \A j \in 1..Len(s) : f \in Keeps(s[j], n)
<1>1. PICK g \in [0..Len(s) -> SUBSET AllFlags] : Flagged(s, g, n)
  BY FlagsRec
<1> DEFINE N == Len(s)
           T == {k \in 0..N : f \in g[k] <=> f \in AllFlags /\ \A j \in 1..k : f \in Keeps(s[j], n)}
<1>2. N \in Nat
  OBVIOUS
<1> HIDE DEF N
<1>3. 0 \in T
  BY <1>1, <1>2 DEF Flagged
<1>4. ASSUME NEW k \in 0..(N-1), k \in T PROVE k+1 \in T
  <2> DEFINE m == k+1
  <2>1. m \in 1..N /\ m-1 = k /\ k \in 0..N /\ m \in 0..N /\ 1..m = 1..k \union {m}
    BY <1>2
  <2> HIDE DEF m
  <2>2. g[m] = CheckF(CheckC(CheckStrided(g[k], n), s[m], n), s[m], n) /\ g[k] \in SUBSET AllFlags
    BY <1>1, <2>1 DEF Flagged, N
  <2>3. g[m] = g[k] \cap Keeps(s[m], n)
    BY ONLY <2>2, KeepsEach
  <2>4. f \in g[k] <=> f \in AllFlags /\ \A j \in 1..k : f \in Keeps(s[j], n)
    BY <1>4
  <2>5. f \in g[m] <=> f \in AllFlags /\ \A j \in 1..m : f \in Keeps(s[j], n)
    BY <2>1, <2>3, <2>4
  <2>6. QED
    BY <2>1, <2>5 DEF m
<1>5. N \in T
  <2> HIDE DEF T
  <2>1. \A k \in 0..N : k \in T
    BY <1>2, <1>3, <1>4, UpTo
  <2>2. QED
    BY <1>2, <2>1
<1>6. QED
  BY <1>1, <1>5 DEF Flagged, N

\* What each flag says of an array.
LEMMA KeepsMeans ==
  ASSUME NEW x, NEW n
  PROVE  LET y == Inner(x, NDim(x)-n)
         IN  /\ "INNER_S" \in Keeps(x, n) /\ "INNER_X" \in Keeps(x, n)
             /\ "INNER_C" \in Keeps(x, n) <=> IsC(y)
             /\ "INNER_F" \in Keeps(x, n) <=> IsF(y)
             /\ "EXT_S" \in Keeps(x, n) <=> n # 0
             /\ "EXT_C" \in Keeps(x, n) <=>
                  IsC(y) /\ n # 0 /\ ~(x.shape[n] > 1 /\ x.steps[n] # Product(y.shape))
             /\ "EXT_ZERO" \in Keeps(x, n) <=>
                  IsC(y) /\ n # 0 /\ ~(x.shape[n] > 1 /\ x.steps[n] # Product(y.shape) /\ x.steps[n] # 0)
BY DEF Keeps, CheckF, CheckC, CheckStrided, AllFlags

LEMMA AfterIs ==
  ASSUME NEW S, NEW s \in Seq(S), NEW k \in Nat, k <= Len(s)
  PROVE  /\ After(s, k) \in Seq(S) /\ Len(After(s, k)) = Len(s) - k
         /\ \A j \in 1..(Len(s)-k) : After(s, k)[j] = s[k+j]
<1>1. k \in 0..Len(s)
  OBVIOUS
<1>2. QED
  BY ONLY <1>1, s \in Seq(S), AfterType

LEMMA AfterNone == ASSUME NEW S, NEW s \in Seq(S) PROVE After(s, 0) = s
<1>1. /\ After(s, 0) \in Seq(S) /\ Len(After(s, 0)) = Len(s) - 0
      /\ \A j \in 1..(Len(s)-0) : After(s, 0)[j] = s[0+j]
  <2>1. 0 \in Nat /\ 0 <= Len(s)
    OBVIOUS
  <2>2. QED
    BY ONLY <2>1, s \in Seq(S), AfterIs
<1>2. Len(s) \in Nat
  OBVIOUS
<1>3. Len(After(s, 0)) = Len(s) /\ \A j \in 1..Len(s) : After(s, 0)[j] = s[j]
  BY <1>1, <1>2
<1>4. QED
  BY ONLY <1>1, <1>3, s \in Seq(S), SeqEqual

\* What follows the first elements of a longer sequence.
LEMMA AfterLonger ==
  ASSUME NEW S, NEW s \in Seq(S), NEW t \in Seq(S), Len(t) = Len(s)+1,
         \A j \in 1..Len(s) : t[j+1] = s[j], NEW k \in 0..Len(s)
  PROVE  After(t, k+1) = After(s, k)
<1> DEFINE N == Len(s)
<1>1. N \in Nat /\ k \in Nat /\ k <= N /\ k+1 \in Nat /\ k+1 <= Len(t) /\ Len(t)-(k+1) = N-k
  OBVIOUS
<1>2. /\ After(s, k) \in Seq(S) /\ Len(After(s, k)) = N-k
      /\ \A j \in 1..(N-k) : After(s, k)[j] = s[k+j]
  BY ONLY <1>1, s \in Seq(S), AfterIs DEF N
<1> DEFINE c == k+1
<1>3. c \in Nat /\ c <= Len(t) /\ Len(t)-c = N-k
  BY <1>1
<1> HIDE DEF c, N
<1>4. /\ After(t, c) \in Seq(S) /\ Len(After(t, c)) = N-k
      /\ \A j \in 1..(N-k) : After(t, c)[j] = t[c+j]
  <2>1. /\ After(t, c) \in Seq(S) /\ Len(After(t, c)) = Len(t)-c
        /\ \A j \in 1..(Len(t)-c) : After(t, c)[j] = t[c+j]
    BY ONLY <1>3, t \in Seq(S), AfterIs
  <2>2. QED
    BY <1>3, <2>1
<1>5. \A j \in 1..(N-k) : After(t, c)[j] = After(s, k)[j]
  <2>1. \A j \in 1..(N-k) : k+j \in 1..N /\ c+j = (k+j)+1
    BY <1>1 DEF c
  <2>2. \A i \in 1..N : t[i+1] = s[i]
    BY DEF N
  <2>3. QED
    BY ONLY <1>2, <1>4, <2>1, <2>2
<1>6. After(t, c) = After(s, k)
  BY ONLY <1>2, <1>4, <1>5, SeqEqual
<1>7. QED
  BY <1>6 DEF c

\* One more dimension around an array in row-major order.
LEMMA IsCAround ==
  ASSUME NEW x \in NDArrays, NEW m \in Nat, NEW n \in Nat \ {0}, NDim(x) = n+m
  PROVE  LET y == Inner(x, m)
         IN  IsC(Inner(x, m+1)) <=>
               IsC(y) /\ ~(x.shape[n] > 1 /\ x.steps[n] # Product(y.shape))
<1> DEFINE y == Inner(x, m)
           z == Inner(x, m+1)
<1>1. /\ y \in NDArrays /\ NDim(y) = m
      /\ \A j \in 1..m : y.shape[j] = x.shape[n+j] /\ y.steps[j] = x.steps[n+j]
  <2>1. m <= NDim(x) /\ \A j \in 1..m : NDim(x)-m+j = n+j
    OBVIOUS
  <2>2. QED
    BY <2>1, InnerType
<1>2. /\ z \in NDArrays /\ NDim(z) = m+1
      /\ \A j \in 1..(m+1) : z.shape[j] = x.shape[n+j-1] /\ z.steps[j] = x.steps[n+j-1]
  <2>1. m+1 \in Nat /\ m+1 <= NDim(x) /\ \A j \in 1..(m+1) : NDim(x)-(m+1)+j = n+j-1
    OBVIOUS
  <2>2. QED
    BY <2>1, InnerType
<1> HIDE DEF y, z
<1>3. /\ y.shape \in Shapes /\ Len(y.shape) = m /\ DOMAIN y.shape = 1..m
      /\ z.shape \in Shapes /\ Len(z.shape) = m+1 /\ DOMAIN z.shape = 1..(m+1)
  BY <1>1, <1>2, ArrayType DEF NDim
<1>4. \A k \in 0..m : After(z.shape, k+1) = After(y.shape, k)
  <2>1. \A j \in 1..m : j+1 \in 1..(m+1) /\ n+(j+1)-1 = n+j
    OBVIOUS
  <2>2. \A j \in 1..m : z.shape[j+1] = y.shape[j]
    BY <1>1, <1>2, <2>1
  <2>3. y.shape \in Seq(Nat) /\ z.shape \in Seq(Nat) /\ Len(z.shape) = Len(y.shape)+1 /\ Len(y.shape) = m
    BY <1>3 DEF Shapes
  <2>4. QED
    BY ONLY <2>2, <2>3, AfterLonger
<1>5. IsC(y) <=> \A i \in 1..m : y.shape[i] > 1 => y.steps[i] = Product(After(y.shape, i))
  BY <1>3 DEF IsC, After, NDim
<1>6. IsC(z) <=> \A i \in 1..(m+1) : z.shape[i] > 1 => z.steps[i] = Product(After(z.shape, i))
  BY <1>3 DEF IsC, After, NDim
<1>7. \A i \in 1..m : /\ i+1 \in 1..(m+1) /\ z.shape[i+1] = y.shape[i] /\ z.steps[i+1] = y.steps[i]
                      /\ After(z.shape, i+1) = After(y.shape, i)
  <2>1. \A i \in 1..m : i+1 \in 1..(m+1) /\ n+(i+1)-1 = n+i /\ i \in 0..m
    OBVIOUS
  <2>2. QED
    BY <1>1, <1>2, <1>4, <2>1
<1>8. 1 \in 1..(m+1) /\ z.shape[1] = x.shape[n] /\ z.steps[1] = x.steps[n] /\ After(z.shape, 1) = y.shape
  <2>1. 1 \in 1..(m+1) /\ n+1-1 = n /\ 0 \in 0..m /\ 0+1 = 1
    OBVIOUS
  <2>2. After(z.shape, 1) = After(y.shape, 0)
    BY <1>4, <2>1
  <2>3. After(y.shape, 0) = y.shape
    BY <1>3, AfterNone DEF Shapes
  <2>4. QED
    BY <1>2, <2>1, <2>2, <2>3
<1>9. \A i \in 1..(m+1) : i = 1 \/ (i-1 \in 1..m /\ (i-1)+1 = i)
  OBVIOUS
<1>10. IsC(z) <=> IsC(y) /\ ~(x.shape[n] > 1 /\ x.steps[n] # Product(y.shape))
  <2>1. ASSUME IsC(z) PROVE IsC(y) /\ ~(x.shape[n] > 1 /\ x.steps[n] # Product(y.shape))
    BY ONLY <1>5, <1>6, <1>7, <1>8, <2>1
  <2>2. ASSUME IsC(y), ~(x.shape[n] > 1 /\ x.steps[n] # Product(y.shape)) PROVE IsC(z)
    <3> SUFFICES ASSUME NEW i \in 1..(m+1), z.shape[i] > 1 PROVE z.steps[i] = Product(After(z.shape, i))
      BY <1>6
    <3>1. CASE i = 1
      BY <1>8, <2>2, <3>1
    <3>2. CASE i # 1
      <4> DEFINE k == i-1
      <4>1. k \in 1..m /\ k+1 = i
        BY <3>2
      <4> HIDE DEF k
      <4>2. z.shape[i] = y.shape[k] /\ z.steps[i] = y.steps[k] /\ After(z.shape, i) = After(y.shape, k)
        BY <1>7, <4>1
      <4>3. QED
        BY <1>5, <2>2, <4>1, <4>2
    <3>3. QED
      BY <3>1, <3>2
  <2>3. QED
    BY <2>1, <2>2
<1>11. QED
  BY <1>10 DEF y, z

\* A loop that repeats an array.
LEMMA RepeatsMeans ==
  ASSUME NEW x \in NDArrays, NEW m \in Nat, NEW n \in Nat \ {0}, NDim(x) = n+m
  PROVE  /\ x.shape[n] <= 1 \/ x.steps[n] = 0 => RepeatsLoop(x, m+1)
         /\ ~Empty(x) /\ RepeatsLoop(x, m+1) => x.shape[n] <= 1 \/ x.steps[n] = 0
<1> DEFINE z == Inner(x, m+1)
<1>1. /\ z \in NDArrays /\ NDim(z) = m+1
      /\ \A j \in 1..(m+1) : z.shape[j] = x.shape[n+j-1]
  <2> DEFINE c == m+1
  <2>1. c \in Nat /\ c <= NDim(x) /\ \A j \in 1..c : NDim(x)-c+j = n+j-1
    OBVIOUS
  <2> HIDE DEF c
  <2>2. /\ Inner(x, c) \in NDArrays /\ NDim(Inner(x, c)) = c
        /\ \A j \in 1..c : Inner(x, c).shape[j] = x.shape[NDim(x)-c+j]
    BY ONLY <2>1, x \in NDArrays, InnerType
  <2>3. QED
    BY <2>1, <2>2 DEF c
<1>2. x.shape[n] \in Nat /\ x.steps[n] \in Int /\ \A i \in 1..(n+m) : x.shape[i] \in Nat
  <2>1. n \in 1..NDim(x)
    OBVIOUS
  <2>2. QED
    BY <2>1, ArrayType
<1>3. RepeatsLoop(x, m+1) <=> \A idx \in Indices(z.shape) : idx[1] * x.steps[n] = 0
  <2>1. NDim(x)-(m+1)+1 = n
    OBVIOUS
  <2>2. QED
    BY <2>1 DEF RepeatsLoop
<1> HIDE DEF z
<1>4. z.shape \in Shapes /\ Len(z.shape) = m+1 /\ z.shape[1] = x.shape[n] /\ 1 \in 1..(m+1)
  <2>1. 1 \in 1..(m+1) /\ n+1-1 = n
    OBVIOUS
  <2>2. QED
    BY <1>1, <2>1, ArrayType DEF NDim
<1>5. ASSUME x.shape[n] <= 1 \/ x.steps[n] = 0, NEW idx \in Indices(z.shape)
      PROVE  idx[1] * x.steps[n] = 0
  <2>1. idx[1] \in Nat /\ idx[1] < x.shape[n]
    <3>1. \A i \in 1..(m+1) : idx[i] \in Nat /\ idx[i] < z.shape[i]
      BY <1>4, IndexType
    <3>2. QED
      BY <1>4, <3>1
  <2>2. CASE x.steps[n] = 0
    BY <2>1, <2>2
  <2>3. CASE x.shape[n] <= 1
    <3>1. idx[1] = 0
      BY <1>2, <2>1, <2>3
    <3>2. QED
      BY <1>2, <3>1
  <2>4. QED
    BY <1>5, <2>2, <2>3
<1>6. ASSUME ~Empty(x), x.shape[n] > 1, \A idx \in Indices(z.shape) : idx[1] * x.steps[n] = 0
      PROVE  x.steps[n] = 0
  <2> DEFINE idx == [j \in 1..(m+1) |-> IF j = 1 THEN 1 ELSE 0]
  <2>1. \A j \in 1..(m+1) : z.shape[j] \in Nat /\ z.shape[j] # 0
    <3> SUFFICES ASSUME NEW j \in 1..(m+1) PROVE z.shape[j] \in Nat /\ z.shape[j] # 0
      OBVIOUS
    <3> DEFINE i == n+j-1
    <3>1. i \in 1..(n+m) /\ DOMAIN x.shape = 1..(n+m)
      BY ArrayType
    <3>2. z.shape[j] = x.shape[i]
      BY <1>1
    <3> HIDE DEF i
    <3>3. x.shape[i] # 0
      BY <1>6, <3>1 DEF Empty, Range
    <3>4. QED
      BY <1>2, <3>1, <3>2, <3>3
  <2>2. idx \in [1..(m+1) -> Nat] /\ idx[1] = 1
    BY <1>4
  <2>3. \A j \in 1..(m+1) : idx[j] < z.shape[j]
    <3>1. \A j \in 1..(m+1) : z.shape[j] > 0
      BY <2>1
    <3>2. \A j \in 1..(m+1) : j # 1 => idx[j] = 0
      OBVIOUS
    <3> HIDE DEF idx
    <3>3. QED
      BY <1>2, <1>4, <1>6, <2>2, <3>1, <3>2
  <2> HIDE DEF idx
  <2>4. idx \in Indices(z.shape)
    BY <1>4, <2>2, <2>3, IndexIs
  <2>5. 1 * x.steps[n] = 0
    BY <1>6, <2>2, <2>4
  <2>6. QED
    BY <1>2, <2>5
<1>7. QED
  BY <1>2, <1>3, <1>5, <1>6

\* The flags that a kernel asks for.
Asks(k) ==
  CASE k = "OptC"    -> {"EXT_C", "INNER_C"}
    [] k = "OptZ"    -> {"EXT_ZERO", "INNER_C"}
    [] k = "OptS"    -> {"EXT_S"}
    [] k = "C"       -> {"INNER_C"}
    [] k = "Fortran" -> {"INNER_F"}
    [] OTHER         -> {}

LEMMA RequestsMeans ==
  ASSUME NEW s \in Seq(NDArrays), NEW n, NEW k \in Kernels
  PROVE  Requests(k, SelectFlags(s, n)) <=> \A j \in 1..Len(s) : Asks(k) \subseteq Keeps(s[j], n)
<1> DEFINE fl == SelectFlags(s, n)
<1>1. ASSUME NEW f \in AllFlags
      PROVE  f \in fl <=> \A j \in 1..Len(s) : f \in Keeps(s[j], n)
  BY FlagsKept
<1> HIDE DEF fl
<1>2. "INNER_S" \in fl /\ "INNER_X" \in fl
  BY <1>1, KeepsMeans DEF AllFlags
<1>3. "EXT_C" \in fl => "EXT_ZERO" \in fl
  <2>1. \A j \in 1..Len(s) : "EXT_C" \in Keeps(s[j], n) => "EXT_ZERO" \in Keeps(s[j], n)
    BY KeepsMeans
  <2>2. QED
    BY <1>1, <2>1 DEF AllFlags
<1>4. Requests(k, fl) <=> Asks(k) \subseteq fl
  BY <1>2, <1>3 DEF Requests, Asks, Kernels
<1>5. Asks(k) \subseteq AllFlags
  BY DEF Asks, AllFlags, Kernels
<1>6. Asks(k) \subseteq fl <=> \A j \in 1..Len(s) : Asks(k) \subseteq Keeps(s[j], n)
  BY <1>1, <1>5
<1>7. QED
  BY <1>4, <1>6 DEF fl

\* A kernel may run on an array that keeps the flags it asks for, and on no other, unless
\* that has no elements.
LEMMA AsksMean ==
  ASSUME NEW x \in NDArrays, call.inner \in Nat, outer \in Nat, NDim(x) = outer + call.inner,
         NEW k \in Kernels
  PROVE  /\ Asks(k) \subseteq Keeps(x, outer) => MayRun(k, x, call.inner)
         /\ ~Empty(x) /\ MayRun(k, x, call.inner) => Asks(k) \subseteq Keeps(x, outer)
<1> DEFINE n == outer
           m == call.inner
           y == Inner(x, m)
           P == x.shape[n] > 1 /\ x.steps[n] # Product(y.shape)
           Z == x.shape[n] <= 1 \/ x.steps[n] = 0
           K == Keeps(x, n)
<1>1. NDim(x)-n = m /\ m \in Nat /\ n \in Nat /\ m <= NDim(x)
  OBVIOUS
<1>2. /\ "INNER_C" \in K <=> IsC(y)
      /\ "INNER_F" \in K <=> IsF(y)
      /\ "EXT_S" \in K <=> n # 0
      /\ "EXT_C" \in K <=> IsC(y) /\ n # 0 /\ ~P
      /\ "EXT_ZERO" \in K <=> IsC(y) /\ n # 0 /\ ~(P /\ x.steps[n] # 0)
  BY <1>1, KeepsMeans
<1>3. /\ IsC(y) => RowMajor(x, m)
      /\ IsF(y) => ColumnMajor(x, m)
      /\ ~Empty(x) /\ RowMajor(x, m) => IsC(y)
      /\ ~Empty(x) /\ ColumnMajor(x, m) => IsF(y)
  BY <1>1, OrderMeans
<1>4. ASSUME n # 0
      PROVE  /\ IsC(y) /\ ~P => RowMajor(x, m+1)
             /\ ~Empty(x) /\ RowMajor(x, m+1) => IsC(y) /\ ~P
             /\ Z => RepeatsLoop(x, m+1)
             /\ ~Empty(x) /\ RepeatsLoop(x, m+1) => Z
  <2>1. n \in Nat \ {0} /\ m+1 \in Nat /\ m+1 <= NDim(x)
    BY <1>4
  <2>2. IsC(Inner(x, m+1)) <=> IsC(y) /\ ~P
    BY <1>1, <2>1, IsCAround
  <2>3. /\ IsC(Inner(x, m+1)) => RowMajor(x, m+1)
        /\ ~Empty(x) /\ RowMajor(x, m+1) => IsC(Inner(x, m+1))
    BY <2>1, OrderMeans
  <2>4. /\ Z => RepeatsLoop(x, m+1)
        /\ ~Empty(x) /\ RepeatsLoop(x, m+1) => Z
    BY <1>1, <2>1, RepeatsMeans
  <2>5. QED
    BY <2>2, <2>3, <2>4
<1>5. n # 0 => x.shape[n] \in Nat
  <2>1. n # 0 => n \in 1..NDim(x)
    OBVIOUS
  <2>2. \A i \in 1..NDim(x) : x.shape[i] \in Nat
    BY ArrayType
  <2> HIDE DEF n
  <2>3. QED
    BY ONLY <2>1, <2>2
<1>6. n > 0 <=> n # 0
  OBVIOUS
<1>7. n # 0 => (Z \/ ~P <=> ~(P /\ x.steps[n] # 0))
  BY <1>5
<1>8. /\ MayRun("OptC", x, m) <=> n # 0 /\ RowMajor(x, m+1)
      /\ MayRun("OptZ", x, m) <=> n # 0 /\ RowMajor(x, m) /\ (RowMajor(x, m+1) \/ RepeatsLoop(x, m+1))
      /\ MayRun("OptS", x, m) <=> n # 0
      /\ MayRun("C", x, m) <=> RowMajor(x, m)
      /\ MayRun("Fortran", x, m) <=> ColumnMajor(x, m)
      /\ MayRun("Strided", x, m) /\ MayRun("Xnd", x, m)
  BY <1>6 DEF MayRun
<1>9. /\ Asks("OptC") = {"EXT_C", "INNER_C"}
      /\ Asks("OptZ") = {"EXT_ZERO", "INNER_C"}
      /\ Asks("OptS") = {"EXT_S"}
      /\ Asks("C") = {"INNER_C"}
      /\ Asks("Fortran") = {"INNER_F"}
      /\ Asks("Strided") = {} /\ Asks("Xnd") = {}
  BY DEF Asks
<1> HIDE DEF n, m, y, P, Z, K
<1>10. /\ Asks(k) \subseteq K => MayRun(k, x, m)
       /\ ~Empty(x) /\ MayRun(k, x, m) => Asks(k) \subseteq K
  <2>1. CASE k = "OptC"
    BY <1>2, <1>4, <1>8, <1>9, <2>1
  <2>2. CASE k = "OptZ"
    <3>1. ASSUME Asks(k) \subseteq K PROVE MayRun(k, x, m)
      <4>1. IsC(y) /\ n # 0 /\ (Z \/ ~P)
        BY <1>2, <1>7, <1>9, <2>2, <3>1
      <4>2. QED
        BY <1>3, <1>4, <1>8, <2>2, <4>1
    <3>2. ASSUME ~Empty(x), MayRun(k, x, m) PROVE Asks(k) \subseteq K
      <4>1. n # 0 /\ IsC(y) /\ (Z \/ ~P)
        BY <1>3, <1>4, <1>8, <2>2, <3>2
      <4>2. QED
        BY <1>2, <1>7, <1>9, <2>2, <4>1
    <3>3. QED
      BY <3>1, <3>2
  <2>3. CASE k = "OptS"
    BY <1>2, <1>8, <1>9, <2>3
  <2>4. CASE k = "C"
    BY <1>2, <1>3, <1>8, <1>9, <2>4
  <2>5. CASE k = "Fortran"
    BY <1>2, <1>3, <1>8, <1>9, <2>5
  <2>6. CASE k \in {"Strided", "Xnd"}
    BY <1>8, <1>9, <2>6
  <2>7. QED
    BY <2>1, <2>2, <2>3, <2>4, <2>5, <2>6 DEF Kernels
<1>11. QED
  BY <1>10 DEF K, n, m

-----------------------------------------------------------------------------
(* The selection.                                                          *)

\* The kernel that is selected, and a call that finds none.
Selected(i) == i \in DOMAIN Order /\ Usable(i) /\ \A j \in 1..i-1 : ~Usable(j)
Selecting == Ready(acc, types, outer) /\ flags = SelectFlags(types, outer)

KInv ==
  /\ pc \in {"select", "done"} => Selecting
  /\ pc = "done" => \E i \in DOMAIN Order : kernel = Order[i] /\ Selected(i)
  /\ why = "kernel" => Selecting /\ \A i \in DOMAIN Order : ~Usable(i)

LEMMA SelectingNext ==
  ASSUME call' = call, Ready(acc', types', outer'), flags' = SelectFlags(types', outer')
  PROVE  Selecting'
<1>1. Ready(acc, types, outer)'
  BY ReadyNext
<1>2. QED
  BY <1>1 DEF Selecting

LEMMA SelectingStays ==
  ASSUME Selecting, UNCHANGED <<call, acc, types, outer, flags>> PROVE Selecting'
BY SelectingNext DEF Selecting

LEMMA RefusedK ==
  ASSUME NEW e \in {"match", "broadcast", "out", "order"}, Refuse(e) PROVE KInv'
BY DEF Refuse, KInv

LEMMA KStep == ASSUME IInv, KInv, [Next]_vars PROVE KInv'
<1>1. Values /\ (why = "none" <=> pc # "refused")
  BY DEF IInv, Values
<1>2. CASE MatchArg
  <2>1. CASE Refuse("match") \/ Refuse("broadcast")
    BY <2>1, RefusedK
  <2>2. CASE pc' = pc /\ why' = why
    BY <1>1, <1>2, <2>2 DEF MatchArg, KInv
  <2>3. QED
    BY <1>2, <2>1, <2>2 DEF MatchArg
<1>3. CASE BroadcastAll
  <2>1. CASE Refuse("out")
    BY <2>1, RefusedK
  <2>2. CASE pc' = "broadcast" /\ why' = why
    BY <1>1, <1>3, <2>2 DEF BroadcastAll, KInv
  <2>3. QED
    BY <1>3, <2>1, <2>2 DEF BroadcastAll
<1>4. CASE Finish
  <2>1. CASE Refuse("order")
    BY <2>1, RefusedK
  <2>2. CASE pc' = "select" /\ why' = why /\ call' = call /\ flags' = SelectFlags(types', outer')
    <3>1. Ready(acc, types, outer)'
      BY <1>4, <2>2, FinishStep DEF IInv
    <3>2. Selecting'
      BY <2>2, <3>1 DEF Selecting
    <3>3. why' = "none"
      BY <1>1, <1>4, <2>2 DEF Finish
    <3>4. QED
      BY <2>2, <3>2, <3>3 DEF KInv
  <2>3. QED
    BY <1>4, <2>1, <2>2 DEF Finish
<1>5. CASE FastTypecheck
  <2>1. CASE Refuse("broadcast") \/ Refuse("out")
    BY <2>1, RefusedK
  <2>2. CASE pc' = "select" /\ why' = why /\ call' = call /\ flags' = SelectFlags(types', outer')
    <3>1. Ready(acc, types, outer)'
      BY <1>5, <2>2, FastStep DEF IInv
    <3>2. Selecting'
      BY <2>2, <3>1 DEF Selecting
    <3>3. why' = "none"
      BY <1>1, <1>5, <2>2 DEF FastTypecheck
    <3>4. QED
      BY <2>2, <3>2, <3>3 DEF KInv
  <2>3. QED
    BY <1>5, <2>1, <2>2 DEF FastTypecheck
<1>6. CASE SelectKernel
  <2>1. Selecting /\ pc = "select" /\ why = "none"
    BY <1>1, <1>6 DEF SelectKernel, KInv
  <2>2. CASE (\A i \in DOMAIN Order : ~Usable(i)) /\ Refuse("kernel")
    <3>1. UNCHANGED <<call, acc, types, outer, flags>> /\ pc' = "refused" /\ why' = "kernel"
      BY <2>2 DEF Refuse
    <3>2. \A i \in DOMAIN Order : ~Usable(i)'
      BY <2>2, <3>1 DEF Usable
    <3>3. Selecting'
      BY <2>1, <3>1, SelectingStays
    <3>4. QED
      BY <3>1, <3>2, <3>3 DEF KInv
  <2>3. ASSUME NEW i \in DOMAIN Order, Usable(i), \A j \in 1..i-1 : ~Usable(j),
               kernel' = Order[i], pc' = "done", UNCHANGED <<call, acc, types, outer, flags, why>>
        PROVE  KInv'
    <3>1. Selecting'
      BY <2>1, <2>3, SelectingStays
    <3>2. Selected(i)'
      BY <2>3 DEF Selected, Usable
    <3>3. QED
      BY <2>1, <2>3, <3>1, <3>2 DEF KInv
  <2>4. QED
    BY <1>6, <2>2, <2>3 DEF SelectKernel
<1>7. CASE UNCHANGED vars
  <2>1. UNCHANGED <<call, acc, types, outer, flags>> /\ pc' = pc /\ why' = why /\ kernel' = kernel
    BY <1>7 DEF vars
  <2>2. Selecting => Selecting'
    BY <2>1, SelectingStays
  <2>3. \A i \in DOMAIN Order : (Usable(i)' <=> Usable(i)) /\ (Selected(i)' <=> Selected(i))
    BY <2>1 DEF Usable, Selected
  <2>4. QED
    BY <2>1, <2>2, <2>3 DEF KInv
<1>8. QED
  BY <1>2, <1>3, <1>4, <1>5, <1>6, <1>7 DEF Next

\* While a kernel is selected, the kernels that are asked for are those whose flags all arrays keep.
LEMMA SelectingMeans ==
  ASSUME call \in Calls, Selecting, NEW k \in Kernels
  PROVE  /\ Requests(k, flags) => \A x \in Range(types) : MayRun(k, x, call.inner)
         /\ (\A x \in Range(types) : ~Empty(x) /\ MayRun(k, x, call.inner)) => Requests(k, flags)
<1>1. /\ DOMAIN types = 1..Out /\ \A i \in 1..Out : Shaped(types[i], acc)
      /\ types \in Seq(NDArrays) /\ Len(types) = Out /\ outer = Len(acc) /\ acc \in Shapes
  BY ReadyShaped DEF Selecting, Ready, Joins
<1>2. outer \in Nat /\ call.inner \in Nat
  BY <1>1, ValidCall DEF Shapes
<1>3. ASSUME NEW i \in 1..Out
      PROVE  /\ types[i] \in Range(types)
             /\ Asks(k) \subseteq Keeps(types[i], outer) => MayRun(k, types[i], call.inner)
             /\ ~Empty(types[i]) /\ MayRun(k, types[i], call.inner) => Asks(k) \subseteq Keeps(types[i], outer)
  <2> DEFINE x == types[i]
  <2>1. x \in NDArrays /\ NDim(x) = outer + call.inner
    BY <1>1 DEF Shaped
  <2>2. x \in Range(types)
    BY <1>1 DEF Range
  <2> HIDE DEF x
  <2>3. /\ Asks(k) \subseteq Keeps(x, outer) => MayRun(k, x, call.inner)
        /\ ~Empty(x) /\ MayRun(k, x, call.inner) => Asks(k) \subseteq Keeps(x, outer)
    BY <1>2, <2>1, AsksMean
  <2>4. QED
    BY <2>2, <2>3 DEF x
<1>4. Requests(k, flags) <=> \A j \in 1..Out : Asks(k) \subseteq Keeps(types[j], outer)
  BY <1>1, RequestsMeans DEF Selecting
<1>5. \A x \in Range(types) : \E i \in 1..Out : x = types[i]
  BY <1>1 DEF Range
<1>6. QED
  BY <1>3, <1>4, <1>5

LEMMA OrderIs ==
  /\ DOMAIN Order = 1..7 /\ \A i \in 1..7 : Order[i] \in Kernels
  /\ \A k \in Kernels : \E i \in 1..7 : Order[i] = k
  /\ \A i, j \in 1..7 : Order[i] = Order[j] => i = j
BY DEF Order, Kernels

LEMMA RightKernel == ASSUME IInv, KInv PROVE KernelRight
<1>1. call \in Calls
  BY DEF IInv, Values
<1> DEFINE Rank(k) == CHOOSE i \in DOMAIN Order : Order[i] = k
           Fit(k) == \A x \in Range(types) : ~Empty(x) /\ MayRun(k, x, call.inner)
<1>2. \A i \in 1..7 : Rank(Order[i]) = i
  BY OrderIs
<1>3. ASSUME pc = "done" PROVE /\ \A x \in Range(types) : MayRun(kernel, x, call.inner)
                               /\ \A k \in call.avail : Fit(k) => Rank(kernel) <= Rank(k)
  <2>1. Selecting
    BY <1>3 DEF KInv
  <2>2. PICK i \in 1..7 : kernel = Order[i] /\ Usable(i) /\ \A j \in 1..i-1 : ~Usable(j)
    BY <1>3, OrderIs DEF KInv, Selected
  <2>3. \A x \in Range(types) : MayRun(kernel, x, call.inner)
    BY <1>1, <2>1, <2>2, SelectingMeans, OrderIs DEF Usable
  <2>4. ASSUME NEW k \in call.avail, Fit(k) PROVE Rank(kernel) <= Rank(k)
    <3>1. k \in Kernels
      BY <1>1, CallsAssumption
    <3>2. PICK j \in 1..7 : Order[j] = k
      BY <3>1, OrderIs
    <3>3. Usable(j)
      BY <1>1, <2>1, <2>4, <3>1, <3>2, SelectingMeans DEF Usable
    <3>4. i <= j
      BY <2>2, <3>3
    <3> HIDE DEF Rank
    <3>5. QED
      BY <1>2, <2>2, <3>2, <3>4
  <2>5. QED
    BY <2>3, <2>4
<1>4. ASSUME why = "kernel", NEW k \in call.avail, Fit(k) PROVE FALSE
  <2>1. k \in Kernels
    BY <1>1, CallsAssumption
  <2>2. PICK j \in 1..7 : Order[j] = k
    BY <2>1, OrderIs
  <2>3. Selecting /\ ~Usable(j)
    BY <1>4, OrderIs DEF KInv
  <2>4. Usable(j)
    BY <1>1, <1>4, <2>1, <2>2, <2>3, SelectingMeans DEF Usable
  <2>5. QED
    BY <2>3, <2>4
<1>5. QED
  BY <1>3, <1>4 DEF KernelRight, KernelAssumptions, KernelFound

LEMMA InitK == ASSUME Init PROVE KInv
BY DEF Init, Begin, KInv

-----------------------------------------------------------------------------
(* The inner dimensions.                                                   *)

InnerShape(x) == Inner(x, call.inner).shape
SameInner(n) == \A j \in 1..n : InnerShape(call.args[j]) = InnerShape(call.args[1])

\* The arguments of a full type check, and an output that is inferred, have the same inner dimensions.
InnerInv ==
  /\ pc = "match" /\ ~call.fast => SameInner(Len(types))
  /\ pc \in {"broadcast", "select", "done"} /\ ~call.fast =>
       SameInner(NArgs) /\ (~HasOut => InnerShape(types[Out]) = InnerShape(call.args[1]))

LEMMA InnerNext ==
  ASSUME call' = call,
         pc' \in {"broadcast", "select", "done"},
         ~call.fast => SameInner(NArgs) /\ (~HasOut => InnerShape(types'[Out]) = InnerShape(call.args[1]))
  PROVE  InnerInv'
BY DEF InnerInv, SameInner, InnerShape, NArgs, HasOut, Out

LEMMA InnerRefused == ASSUME NEW e, Refuse(e) PROVE InnerInv'
BY DEF Refuse, InnerInv

\* broadcast() leaves the inner dimensions alone.
LEMMA InnerKept ==
  ASSUME NEW u \in NDArrays, NEW s \in Shapes, call.inner \in Nat,
         call.inner <= NDim(u), NDim(u) - call.inner <= Len(s),
         NEW y, y \in {Broadcast(u, s, call.inner, TRUE), Broadcast(u, s, call.inner, FALSE)}
  PROVE  InnerShape(y) = InnerShape(u)
<1> DEFINE n == call.inner
           a == InnerShape(y)
           b == InnerShape(u)
<1>1. /\ y \in NDArrays /\ NDim(y) = Len(s) + n
      /\ \A j \in 1..n : y.shape[Len(s)+j] = u.shape[NDim(u)-n+j]
  <2>1. Reshaped(y, u, s, n)
    BY BroadcastType
  <2>2. QED
    BY <2>1 DEF Reshaped
<1>2. n \in Nat /\ n <= NDim(y) /\ NDim(y)-n = Len(s) /\ Len(s) \in Nat
  BY <1>1 DEF Shapes
<1> HIDE DEF n
<1>3. /\ Inner(y, n) \in NDArrays /\ NDim(Inner(y, n)) = n
      /\ \A j \in 1..n : Inner(y, n).shape[j] = y.shape[NDim(y)-n+j]
  BY <1>1, <1>2, InnerType
<1>4. /\ Inner(u, n) \in NDArrays /\ NDim(Inner(u, n)) = n
      /\ \A j \in 1..n : Inner(u, n).shape[j] = u.shape[NDim(u)-n+j]
  BY <1>2, InnerType DEF n
<1>5. a = Inner(y, n).shape /\ b = Inner(u, n).shape
  BY DEF InnerShape, n
<1> HIDE DEF a, b
<1>6. a \in Seq(Nat) /\ b \in Seq(Nat) /\ Len(a) = n /\ Len(b) = n
  BY <1>3, <1>4, <1>5, ArrayType DEF NDim, Shapes
<1>7. \A j \in 1..n : a[j] = b[j]
  BY <1>1, <1>2, <1>3, <1>4, <1>5
<1>8. a = b
  BY ONLY <1>6, <1>7, SeqEqual
<1>9. QED
  BY <1>8 DEF a, b

\* An array without outer dimensions.
LEMMA InnerWhole ==
  ASSUME NEW u \in NDArrays, NDim(u) = call.inner PROVE InnerShape(u) = u.shape
<1> DEFINE n == NDim(u)
           t == u.shape
<1>1. n \in Nat /\ n = call.inner /\ t \in Seq(Nat) /\ Len(t) = n /\ n-n+1 = 1
  BY ArrayType DEF NDim, Shapes
<1>2. InnerShape(u) = SubSeq(t, n-n+1, n)
  BY DEF InnerShape, Inner
<1> HIDE DEF n, t
<1>3. InnerShape(u) = SubSeq(t, 1, n)
  BY <1>1, <1>2
<1>4. SubSeq(t, 1, n) = t
  BY <1>1
<1>5. QED
  BY <1>3, <1>4 DEF t

LEMMA OutTypeInner ==
  ASSUME call \in Calls, ~HasOut, NDim(call.args[1]) >= call.inner
  PROVE  InnerShape(OutType) = InnerShape(call.args[1])
<1> DEFINE v == Inner(call.args[1], call.inner)
<1>1. call.args[1] \in NDArrays /\ call.inner \in Nat
  <2>1. 1 \in 1..NArgs
    BY ValidCall
  <2>2. QED
    BY <2>1, ValidCall, ElementOfSeq DEF NArgs
<1>2. v \in NDArrays /\ NDim(v) = call.inner
  BY <1>1, InnerType
<1>3. OutType = CArray(v.shape) /\ InnerShape(call.args[1]) = v.shape
  BY DEF OutType, InnerShape
<1> HIDE DEF v
<1>4. v.shape \in Shapes /\ Len(v.shape) = call.inner
  BY <1>2, ArrayType DEF NDim
<1>5. OutType \in NDArrays /\ NDim(OutType) = call.inner /\ OutType.shape = v.shape
  BY <1>3, <1>4, CArrayType
<1>6. QED
  BY <1>3, <1>5, InnerWhole

LEMMA InnerMatch == ASSUME IInv, InnerInv, MatchArg PROVE InnerInv'
<1> DEFINE k == Len(types)+1
<1>1. CASE Refuse("match") \/ Refuse("broadcast")
  BY <1>1, InnerRefused
<1>2. CASE /\ Matches(k) /\ types' = Append(types, call.args[k]) /\ call' = call /\ pc' = pc
  <2>1. Len(types) \in Nat /\ SameInner(Len(types)) /\ pc = "match" /\ types \in Seq(NDArrays)
    BY DEF IInv, InnerInv, MatchArg, Seen
  <2>2. k \in Nat \ {0} /\ Len(types') = k
    BY <1>2, <2>1
  <2>3. \A j \in 1..k-1 : InnerShape(call.args[k]) = InnerShape(call.args[j])
    BY <1>2 DEF Matches, InnerShape
  <2>4. SameInner(k)
    <3>1. CASE k = 1
      BY <3>1 DEF SameInner
    <3>2. CASE k # 1
      <4>1. 1 \in 1..k-1 /\ \A j \in 1..k : j = k \/ j \in 1..Len(types)
        BY <2>1, <2>2, <3>2
      <4> HIDE DEF k
      <4>2. QED
        BY <2>1, <2>3, <4>1 DEF SameInner
    <3>3. QED
      BY <3>1, <3>2
  <2> HIDE DEF k
  <2>5. SameInner(Len(types))'
    BY <1>2, <2>2, <2>4 DEF SameInner, InnerShape
  <2>6. QED
    BY <1>2, <2>1, <2>5 DEF InnerInv
<1>3. QED
  BY <1>1, <1>2 DEF MatchArg

LEMMA InnerBroadcast == ASSUME IInv, InnerInv, BroadcastAll PROVE InnerInv'
<1> DEFINE out == Broadcast(OutType, acc, call.inner, TRUE)
           q == [i \in 1..call.nin |-> Broadcast(types[i], acc, call.inner, FALSE)]
<1>1. CASE Refuse("out")
  BY <1>1, InnerRefused
<1>2. CASE types' = Append(q, out) /\ pc' = "broadcast" /\ call' = call
  <2>1. call \in Calls /\ Len(types) = NArgs /\ Seen(acc, types) /\ SameInner(NArgs)
    BY DEF IInv, Values, BroadcastAll, NArgs, InnerInv
  <2>2. NArgs \in Nat \ {0} /\ call.nin \in Nat
    BY <2>1, ValidCall
  <2>3. Joins(acc, OuterShapes(NArgs)) /\ \A j \in 1..NArgs : NDim(call.args[j]) >= call.inner
    BY <2>1, <2>2 DEF Seen
  <2>4. /\ OutType \in NDArrays /\ call.inner \in Nat /\ acc \in Shapes
        /\ call.inner <= NDim(OutType) /\ NDim(OutType) - call.inner <= Len(acc)
    BY <2>1, <2>3, OutTypeFits
  <2>5. InnerShape(out) = InnerShape(OutType)
    <3>1. out \in {Broadcast(OutType, acc, call.inner, TRUE), Broadcast(OutType, acc, call.inner, FALSE)}
      OBVIOUS
    <3> HIDE DEF out
    <3>2. QED
      BY <2>4, <3>1, InnerKept
  <2>6. types'[Out] = out
    <3>1. Len(q) = call.nin /\ DOMAIN q = 1..call.nin
      BY <2>2
    <3>2. q \in [1..call.nin -> Range(q)]
      BY <3>1 DEF Range
    <3> HIDE DEF q, out
    <3>3. q \in Seq(Range(q) \union {out}) /\ out \in Range(q) \union {out}
      BY <2>2, <3>2
    <3>4. Append(q, out)[call.nin+1] = out
      BY ONLY <2>2, <3>1, <3>3, AppendOne
    <3>5. QED
      BY <1>2, <3>4 DEF Out
  <2>7. ~HasOut => InnerShape(OutType) = InnerShape(call.args[1])
    BY <2>1, <2>2, <2>3, OutTypeInner
  <2> HIDE DEF out
  <2>8. ~HasOut => InnerShape(types'[Out]) = InnerShape(call.args[1])
    BY <2>5, <2>6, <2>7
  <2>9. QED
    BY <1>2, <2>1, <2>8, InnerNext
<1>3. QED
  BY <1>1, <1>2 DEF BroadcastAll

LEMMA InnerFinish == ASSUME IInv, InnerInv, Finish PROVE InnerInv'
<1> DEFINE toF == ~HasOut /\ call.need[Out] = "F"
           ts == IF toF THEN [types EXCEPT ![Out] = ToFortran(@)] ELSE types
<1>1. CASE Refuse("order")
  BY <1>1, InnerRefused
<1>2. CASE types' = ts /\ pc' = "select" /\ call' = call
  <2>1. pc = "broadcast" /\ Ready(acc, types, outer) /\ call \in Calls
    BY DEF Finish, IInv, Values
  <2>2. Out \in 1..Out /\ DOMAIN types = 1..Out /\ types[Out] \in NDArrays
    <3>1. DOMAIN types = 1..Out /\ Out = call.nin+1 /\ call.nin \in Nat /\ Shaped(types[Out], acc)
      BY <2>1, ReadyShaped DEF Ready
    <3>2. QED
      BY <3>1 DEF Shaped
  <2>3. ts[Out] = types[Out] \/ ts[Out] = ToFortran(types[Out])
    BY <2>2
  <2>4. ToFortran(types[Out]).shape = types[Out].shape
    BY <2>2, FortranType
  <2> HIDE DEF ts
  <2>5. InnerShape(ts[Out]) = InnerShape(types[Out])
    BY <2>3, <2>4 DEF InnerShape, Inner, NDim
  <2>6. QED
    BY <1>2, <2>1, <2>5, InnerNext DEF InnerInv
<1>3. QED
  BY <1>1, <1>2 DEF Finish

LEMMA InnerStep == ASSUME IInv, InnerInv, [Next]_vars PROVE InnerInv'
<1>1. CASE FastTypecheck
  <2>1. CASE Refuse("broadcast") \/ Refuse("out")
    BY <2>1, InnerRefused
  <2>2. CASE pc' = "select" /\ call' = call
    BY <1>1, <2>2, InnerNext DEF FastTypecheck
  <2>3. QED
    BY <1>1, <2>1, <2>2 DEF FastTypecheck
<1>2. CASE SelectKernel
  <2>1. CASE Refuse("kernel")
    BY <2>1, InnerRefused
  <2>2. CASE pc' = "done" /\ UNCHANGED <<call, types>>
    BY <1>2, <2>2, InnerNext DEF SelectKernel, InnerInv
  <2>3. QED
    BY <1>2, <2>1, <2>2 DEF SelectKernel
<1>3. CASE UNCHANGED vars
  BY <1>3 DEF vars, InnerInv, SameInner, InnerShape, NArgs, HasOut, Out
<1>4. QED
  BY <1>1, <1>2, <1>3, InnerMatch, InnerBroadcast, InnerFinish DEF Next

LEMMA InitInner == ASSUME Init PROVE InnerInv
<1>1. pc = "match" /\ types = << >> /\ 1..0 = {}
  BY DEF Init, Begin
<1>2. QED
  BY <1>1 DEF InnerInv, SameInner

-----------------------------------------------------------------------------
(* Blocks of the same length, one after the other.                         *)

\* The first n blocks of length L are the beginning of t.
Upto(g, t, L, n) == Len(g[n]) = n*L /\ \A k \in 1..(n*L) : g[n][k] = t[k]

\* R blocks of length L make up t, and g puts them down one after the other.
BlocksOf(X, R, L, blocks, t) ==
  /\ R \in Nat /\ L \in Nat /\ blocks \in [1..R -> Seq(X)]
  /\ \A r \in 1..R : Len(blocks[r]) = L
  /\ t \in Seq(X) /\ Len(t) = R*L
  /\ \A r \in 1..R : \A q \in 1..L : t[(r-1)*L+q] = blocks[r][q]
PutsDown(g, X, R, L, blocks, t) ==
  /\ g \in [0..R -> Seq(X)] /\ g[0] = << >>
  /\ \A n \in 1..R : Upto(g, t, L, n-1) => g[n] = g[n-1] \o blocks[n]

LEMMA BlocksEnd ==
  ASSUME NEW X, NEW R, NEW L, NEW blocks, NEW t, NEW g,
         BlocksOf(X, R, L, blocks, t), PutsDown(g, X, R, L, blocks, t)
  PROVE  g[R] = t
<1>0. /\ R \in Nat /\ L \in Nat /\ blocks \in [1..R -> Seq(X)]
      /\ \A r \in 1..R : Len(blocks[r]) = L
      /\ t \in Seq(X) /\ Len(t) = R*L
      /\ \A r \in 1..R : \A q \in 1..L : t[(r-1)*L+q] = blocks[r][q]
      /\ g \in [0..R -> Seq(X)] /\ g[0] = << >>
      /\ \A n \in 1..R : Upto(g, t, L, n-1) => g[n] = g[n-1] \o blocks[n]
  BY DEF BlocksOf, PutsDown
<1> DEFINE T == {n \in 0..R : Upto(g, t, L, n)}
<1>1. 0 \in T
  BY <1>0 DEF Upto
<1>2. ASSUME NEW n \in 0..(R-1), n \in T PROVE n+1 \in T
  <2> DEFINE m == n+1
             p == n*L
             e == g[n]
             b == blocks[m]
  <2>1. m \in 1..R /\ m-1 = n /\ n \in 0..R /\ n \in Nat
    BY <1>0
  <2>2. p \in Nat /\ m*L = p+L
    BY <1>0, <2>1
  <2>3. e \in Seq(X) /\ b \in Seq(X) /\ Len(b) = L
    BY <1>0, <2>1
  <2>4. Len(e) = p /\ \A k \in 1..p : e[k] = t[k]
    BY <1>2 DEF Upto
  <2>5. g[m] = e \o b
    BY <1>0, <1>2, <2>1
  <2>6. \A q \in 1..L : t[p+q] = b[q]
    BY <1>0, <2>1
  <2> HIDE DEF p, e, b, m
  <2>7. /\ Len(e \o b) = p+L
        /\ \A k \in 1..(p+L) : (e \o b)[k] = IF k <= p THEN e[k] ELSE b[k-p]
    BY <1>0, <2>2, <2>3, <2>4, ConcatProperties
  <2>8. ASSUME NEW k \in 1..(p+L) PROVE (e \o b)[k] = t[k]
    <3>1. CASE k <= p
      BY <1>0, <2>2, <2>4, <2>7, <3>1
    <3>2. CASE ~(k <= p)
      <4>1. k-p \in 1..L /\ p+(k-p) = k
        BY <1>0, <2>2, <3>2
      <4>2. QED
        BY <2>6, <2>7, <3>2, <4>1
    <3>3. QED
      BY <3>1, <3>2
  <2>9. Upto(g, t, L, m)
    BY <2>2, <2>5, <2>7, <2>8 DEF Upto
  <2>10. QED
    BY <2>1, <2>9 DEF m
<1>3. R \in T
  <2> HIDE DEF T
  <2>1. \A n \in 0..R : n \in T
    BY <1>0, <1>1, <1>2, UpTo
  <2>2. QED
    BY <1>0, <2>1
<1>4. g[R] \in Seq(X) /\ Len(g[R]) = Len(t) /\ \A k \in 1..Len(t) : g[R][k] = t[k]
  BY <1>0, <1>3 DEF Upto
<1>5. QED
  BY <1>0, <1>4, SeqEqual

LEMMA BlocksFlat ==
  ASSUME NEW X, NEW R, NEW L, NEW blocks, NEW t, BlocksOf(X, R, L, blocks, t)
  PROVE  FlattenSeq(blocks) = t
<1>0. /\ R \in Nat /\ L \in Nat /\ blocks \in [1..R -> Seq(X)]
      /\ t \in Seq(X) /\ Len(t) = R*L
  BY DEF BlocksOf
<1>1. CASE R = 0
  <2>1. Len(blocks) = 0 /\ blocks \in Seq(Seq(X)) /\ Len(t) = 0
    BY <1>0, <1>1
  <2>2. blocks = << >> /\ t = << >>
    BY <1>0, <2>1, EmptySeq
  <2>3. FlattenSeq(blocks) = blocks
    BY <2>1 DEF FlattenSeq
  <2>4. QED
    BY <2>2, <2>3
<1>2. CASE R # 0
  <2>1. PICK g \in [0..R -> Seq(X)] : Flattened(g, R, blocks)
    BY <1>0, <1>2, FlattenRec
  <2>2. /\ g[0] = << >> /\ FlattenSeq(blocks) = g[R]
        /\ \A n \in 1..R : g[n] = g[n-1] \o blocks[n]
    BY <2>1 DEF Flattened
  <2>3. PutsDown(g, X, R, L, blocks, t)
    BY <2>2 DEF PutsDown
  <2>4. g[R] = t
    BY <2>3, BlocksEnd
  <2>5. QED
    BY <2>2, <2>4
<1>3. QED
  BY <1>1, <1>2

\* The walks of the outermost dimension, as long as there is no error.
UntilSteps(s, g) ==
  /\ g[0] = << >>
  /\ \A k \in 1..Len(s) : g[k] = IF Failed(g[k-1]) THEN g[k-1] ELSE g[k-1] \o s[k]
  /\ UntilError(s) = g[Len(s)]

LEMMA UntilRec ==
  ASSUME NEW X, NEW s \in Seq(Seq(X))
  PROVE  \E g \in [0..Len(s) -> Seq(X)] : UntilSteps(s, g)
<1> DEFINE N == Len(s)
           V == Seq(X)
           a == << >>
           E(k, x) == IF Failed(x) THEN x ELSE x \o s[k]
           H == [k \in 1..N |-> [x \in V |-> E(k, x)]]
           Body(f) == [t \in SUBSET DOMAIN s |-> IF t = {} THEN a ELSE E(Max(t), f[t \ {Max(t)}])]
<1>1. N \in Nat /\ DOMAIN s = 1..N /\ \A k \in 1..N : s[k] \in Seq(X)
  OBVIOUS
<1>2. a \in V
  OBVIOUS
<1>3. ASSUME NEW k \in 1..N, NEW x \in V PROVE E(k, x) \in V
  <2>1. s[k] \in V /\ x \in V
    BY <1>1
  <2>2. x \o s[k] \in V
    BY <2>1, ConcatProperties
  <2>3. QED
    BY <2>1, <2>2
<1>4. UntilError(s) = (CHOOSE f : f = Body(f))[DOMAIN s]
  BY DEF UntilError, FoldLeft, MapThenFoldSet
<1> HIDE DEF N, V, a, E
<1>5. H \in [1..N -> [V -> V]]
  BY <1>3
<1>6. PICK f \in [SUBSET (1..N) -> V] : FoldsTo(f, N, a, H)
  <2> HIDE DEF H
  <2>1. QED
    BY <1>1, <1>2, <1>5, FoldExists
<1>7. f = Body(f)
  <2>1. ASSUME NEW t \in SUBSET (1..N)
        PROVE  f[t] = IF t = {} THEN a ELSE E(Max(t), f[t \ {Max(t)}])
    <3>1. CASE t = {}
      BY <1>6, <3>1 DEF FoldsTo
    <3>2. CASE t # {}
      <4> DEFINE m == Max(t)
      <4>1. m \in t
        BY <1>1, <3>2, Largest
      <4>2. f[t] = H[m][f[t \ {m}]]
        BY <1>6, <3>2 DEF FoldsTo
      <4> HIDE DEF m
      <4>3. m \in 1..N /\ f[t \ {m}] \in V
        BY <4>1
      <4>4. QED
        BY <3>2, <4>2, <4>3 DEF m
    <3>3. QED
      BY <3>1, <3>2
  <2>2. QED
    BY <1>1, <2>1
<1> DEFINE v == CHOOSE f_1 : f_1 = Body(f_1)
<1>8. v = Body(v)
  <2> HIDE DEF Body
  <2>1. QED
    BY <1>7
<1>9. UntilError(s) = v[1..N]
  BY <1>1, <1>4
<1> HIDE DEF v
<1>10. \A t \in SUBSET (1..N) : v[t] = IF t = {} THEN a ELSE E(Max(t), v[t \ {Max(t)}])
  BY <1>1, <1>8
<1> HIDE DEF Body
<1>11. v[{}] = a
  BY <1>10
<1>12. GoesBy(v, N, V, H)
  <2> SUFFICES ASSUME NEW k \in 1..N, NEW x \in V, v[1..(k-1)] = x PROVE v[1..k] = H[k][x]
    BY DEF GoesBy
  <2>1. /\ 1..k \in SUBSET (1..N) /\ 1..k # {}
        /\ Max(1..k) = k
        /\ (1..k) \ {Max(1..k)} = 1..(k-1)
    BY <1>1, Segment
  <2>2. v[1..k] = E(k, v[1..(k-1)])
    BY <1>10, <2>1
  <2>3. QED
    BY <2>2
<1>13. PICK g \in [0..N -> V] : EndsAs(g, v, N, a, H)
  <2> HIDE DEF H
  <2>1. QED
    BY <1>1, <1>2, <1>5, <1>11, <1>12, FoldFollows
<1>14. \A k \in 1..N : g[k] = E(k, g[k-1])
  <2> SUFFICES ASSUME NEW k \in 1..N PROVE g[k] = E(k, g[k-1])
    OBVIOUS
  <2>1. g[k-1] \in V
    BY <1>1
  <2>2. g[k] = H[k][g[k-1]]
    BY <1>13 DEF EndsAs, Follows
  <2>3. QED
    BY <2>1, <2>2
<1>15. g[0] = a
  BY <1>13 DEF EndsAs, Follows
<1>16. UntilSteps(s, g)
  BY <1>9, <1>13, <1>14, <1>15 DEF EndsAs, UntilSteps, a, E, N
<1>17. QED
  BY <1>16 DEF N, V

LEMMA UntilFlat ==
  ASSUME NEW X, NEW R, NEW L, NEW blocks, NEW t, BlocksOf(X, R, L, blocks, t), Error \notin X
  PROVE  UntilError(blocks) = t
<1>0. R \in Nat /\ L \in Nat /\ blocks \in [1..R -> Seq(X)]
  BY DEF BlocksOf
<1>1. blocks \in Seq(Seq(X)) /\ Len(blocks) = R
  BY <1>0
<1>2. PICK g \in [0..R -> Seq(X)] : UntilSteps(blocks, g)
  <2>1. \E g \in [0..Len(blocks) -> Seq(X)] : UntilSteps(blocks, g)
    BY ONLY <1>1, UntilRec
  <2>2. QED
    BY <1>1, <2>1
<1>3. /\ g[0] = << >> /\ UntilError(blocks) = g[R]
      /\ \A n \in 1..R : g[n] = IF Failed(g[n-1]) THEN g[n-1] ELSE g[n-1] \o blocks[n]
  BY <1>1, <1>2 DEF UntilSteps
<1>4. \A e \in Seq(X) : ~Failed(e)
  <2> SUFFICES ASSUME NEW e \in Seq(X), e # << >> PROVE Last(e) # Error
    BY DEF Failed
  <2>1. Len(e) \in 1..Len(e)
    BY EmptySeq
  <2>2. e[Len(e)] \in X
    BY <2>1
  <2>3. QED
    BY <2>2 DEF Last
<1>5. \A n \in 1..R : g[n] = g[n-1] \o blocks[n]
  <2>1. \A n \in 1..R : g[n-1] \in Seq(X)
    BY <1>0
  <2>2. QED
    BY <1>3, <1>4, <2>1
<1>6. PutsDown(g, X, R, L, blocks, t)
  BY <1>3, <1>5 DEF PutsDown
<1>7. g[R] = t
  BY <1>6, BlocksEnd
<1>8. QED
  BY <1>3, <1>7

-----------------------------------------------------------------------------
(* The indices in row-major order.                                         *)

LEMMA Scaled ==
  ASSUME NEW x \in Nat, NEW L \in Nat, NEW A \in Nat, x < A
  PROVE  x * L \in Nat /\ x * L + L <= A * L
<1>1. x * L \in Nat /\ (x+1) * L = x * L + L
  OBVIOUS
<1>2. PICK d \in Nat : A = (x+1) + d
  <2>1. A - (x+1) \in Nat /\ A = (x+1) + (A-(x+1))
    OBVIOUS
  <2>2. QED
    BY <2>1
<1>3. A * L = (x+1) * L + d * L /\ d * L \in Nat
  BY <1>2
<1>4. QED
  BY <1>1, <1>3

\* The outer part of a position.
LEMMA DivisionOuter ==
  ASSUME NEW a \in Nat, NEW L \in Nat \ {0}, NEW b \in 0..(L-1), NEW A \in Nat \ {0}
  PROVE  (a * L + b) \div (A * L) = a \div A
<1> DEFINE q == a \div A
           r == a % A
           M == A * L
           z == r * L + b
<1>1. q \in Nat /\ r \in 0..(A-1) /\ a = r + q * A
  BY Division
<1> HIDE DEF q, r
<1>2. r \in Nat /\ r < A
  BY <1>1
<1>3. r * L \in Nat /\ r * L + L <= M
  BY <1>2, Scaled
<1>4. M \in Nat /\ M # 0
  <2>1. M \in Nat
    OBVIOUS
  <2> HIDE DEF M
  <2>2. QED
    BY <1>3, <2>1
<1>5. z \in 0..(M-1)
  <2> DEFINE w == r * L
  <2>1. w \in Nat /\ w + L <= M
    BY <1>3
  <2> HIDE DEF w, M
  <2>2. w + b \in 0..(M-1)
    BY <1>4, <2>1
  <2>3. QED
    BY <2>2 DEF w
<1>6. a * L + b = z + q * M
  <2>1. a * L = r * L + (q * A) * L /\ (q * A) * L = q * (A * L)
    BY <1>1, <1>2
  <2>2. q * (A * L) \in Nat
    BY <1>1
  <2>3. QED
    BY <1>3, <2>1, <2>2
<1> HIDE DEF z, M
<1>7. (a * L + b) \div M = q
  BY <1>1, <1>4, <1>5, <1>6, DivisionIs
<1>8. QED
  BY <1>7 DEF M, q

\* The inner part.
LEMMA DivisionInner ==
  ASSUME NEW C \in Nat, NEW n \in Nat \ {0}, NEW B \in Nat \ {0}, NEW b \in Nat
  PROVE  ((C * (n * B) + b) \div B) % n = (b \div B) % n
<1> DEFINE d == b \div B
           e == b % B
           f == d \div n
           g == d % n
           a == C * (n * B) + b
<1>1. d \in Nat /\ e \in 0..(B-1) /\ b = e + d * B
  BY Division
<1> HIDE DEF d, e
<1>2. f \in Nat /\ g \in 0..(n-1) /\ d = g + f * n
  BY <1>1, Division
<1> HIDE DEF f, g
<1>3. a = e + (C * n + d) * B
  <2>1. C * (n * B) = (C * n) * B /\ C * n \in Nat
    OBVIOUS
  <2>2. (C * n + d) * B = (C * n) * B + d * B /\ d * B \in Nat /\ (C * n) * B \in Nat
    BY <1>1, <2>1
  <2>3. QED
    BY <1>1, <2>1, <2>2
<1>4. C * n + d = g + (C + f) * n
  <2>1. (C + f) * n = C * n + f * n /\ C * n \in Nat /\ f * n \in Nat
    BY <1>2
  <2>2. QED
    BY <1>2, <2>1
<1>5. C * n + d \in Nat /\ C + f \in Nat
  BY <1>1, <1>2
<1> DEFINE h == C * n + d
<1>6. h \in Nat /\ h = g + (C + f) * n /\ a = e + h * B
  BY <1>3, <1>4, <1>5
<1> HIDE DEF h, a
<1>7. a \div B = h
  BY <1>1, <1>6, DivisionIs
<1>8. h % n = g
  BY <1>2, <1>5, <1>6, DivisionIs
<1>9. QED
  BY <1>7, <1>8 DEF a, d, g

\* What follows of what follows, and the beginning of it.
LEMMA PrefixIs ==
  ASSUME NEW S, NEW s \in Seq(S), NEW p \in Nat, p <= Len(s)
  PROVE  /\ SubSeq(s, 1, p) \in Seq(S) /\ Len(SubSeq(s, 1, p)) = p
         /\ \A j \in 1..p : SubSeq(s, 1, p)[j] = s[j]
<1>1. 1 \in Int /\ p \in Int /\ \A i \in 1..p : s[i] \in S
  OBVIOUS
<1>2. (IF 1 <= p THEN p-1+1 ELSE 0) = p /\ 1..(p-1+1) = 1..p /\ \A j \in 1..p : 1+j-1 = j
  OBVIOUS
<1>3. /\ SubSeq(s, 1, p) \in Seq(S)
      /\ Len(SubSeq(s, 1, p)) = IF 1 <= p THEN p-1+1 ELSE 0
      /\ \A i \in 1..(p-1+1) : SubSeq(s, 1, p)[i] = s[1+i-1]
  BY ONLY <1>1, SubSeqProperties
<1>4. QED
  BY <1>2, <1>3

LEMMA AfterAfter ==
  ASSUME NEW S, NEW s \in Seq(S), NEW a \in Nat, NEW b \in Nat, a+b <= Len(s)
  PROVE  After(After(s, a), b) = After(s, a+b)
<1> DEFINE N == Len(s)
           t == After(s, a)
           c == a+b
<1>1. N \in Nat /\ a <= N /\ c \in Nat /\ c <= N /\ b <= N-a /\ (N-a)-b = N-c
  OBVIOUS
<1> HIDE DEF N, t, c
<1>2. t \in Seq(S) /\ Len(t) = N-a /\ \A j \in 1..(N-a) : t[j] = s[a+j]
  BY ONLY s \in Seq(S), a \in Nat, <1>1, AfterIs DEF N, t
<1>3. t \in Seq(S) /\ b \in Nat /\ b <= Len(t)
  BY <1>1, <1>2
<1>4. /\ After(t, b) \in Seq(S) /\ Len(After(t, b)) = Len(t)-b
      /\ \A j \in 1..(Len(t)-b) : After(t, b)[j] = t[b+j]
  BY ONLY <1>3, AfterIs
<1>5. /\ After(s, c) \in Seq(S) /\ Len(After(s, c)) = N-c
      /\ \A j \in 1..(N-c) : After(s, c)[j] = s[c+j]
  BY ONLY s \in Seq(S), <1>1, AfterIs DEF N
<1>6. \A j \in 1..(N-c) : b+j \in 1..(N-a) /\ a+(b+j) = c+j
  BY <1>1 DEF c
<1>7. Len(After(t, b)) = N-c /\ \A j \in 1..(N-c) : After(t, b)[j] = After(s, c)[j]
  BY <1>1, <1>2, <1>4, <1>5, <1>6
<1>8. After(t, b) = After(s, c)
  BY ONLY <1>4, <1>5, <1>7, SeqEqual
<1>9. QED
  BY <1>8 DEF t, c

LEMMA PrefixAfter ==
  ASSUME NEW S, NEW s \in Seq(S), NEW p \in Nat, p <= Len(s), NEW i \in Nat, i <= p
  PROVE  SubSeq(After(s, i), 1, p-i) = After(SubSeq(s, 1, p), i)
<1> DEFINE N == Len(s)
           t == After(s, i)
           u == SubSeq(s, 1, p)
           d == p-i
<1>1. N \in Nat /\ i <= N /\ d \in Nat /\ d <= N-i /\ p <= N
  OBVIOUS
<1> HIDE DEF N, t, u, d
<1>2. t \in Seq(S) /\ Len(t) = N-i /\ \A j \in 1..(N-i) : t[j] = s[i+j]
  BY ONLY s \in Seq(S), i \in Nat, <1>1, AfterIs DEF N, t
<1>3. u \in Seq(S) /\ Len(u) = p /\ \A j \in 1..p : u[j] = s[j]
  BY ONLY s \in Seq(S), p \in Nat, <1>1, PrefixIs DEF N, u
<1>4. d <= Len(t) /\ i <= Len(u)
  BY <1>1, <1>2, <1>3
<1>5. SubSeq(t, 1, d) \in Seq(S) /\ Len(SubSeq(t, 1, d)) = d /\ \A j \in 1..d : SubSeq(t, 1, d)[j] = t[j]
  BY ONLY <1>1, <1>2, <1>4, PrefixIs
<1>6. /\ After(u, i) \in Seq(S) /\ Len(After(u, i)) = Len(u)-i
      /\ \A j \in 1..(Len(u)-i) : After(u, i)[j] = u[i+j]
  <2>1. u \in Seq(S) /\ i \in Nat /\ i <= Len(u)
    BY <1>3, <1>4
  <2>2. QED
    BY ONLY <2>1, AfterIs
<1>7. Len(After(u, i)) = d /\ \A j \in 1..d : SubSeq(t, 1, d)[j] = After(u, i)[j]
  <2>1. Len(u)-i = d
    BY <1>3 DEF d
  <2>2. \A j \in 1..d : j \in 1..(N-i) /\ i+j \in 1..p
    BY <1>1 DEF d
  <2>3. QED
    BY <1>2, <1>3, <1>5, <1>6, <2>1, <2>2
<1>8. SubSeq(t, 1, d) = After(u, i)
  BY ONLY <1>5, <1>6, <1>7, SeqEqual
<1>9. QED
  BY <1>8 DEF t, u, d

\* Products of parts of a shape without an extent of 0.
LEMMA PartsPositive ==
  ASSUME NEW s \in Shapes, Product(s) # 0, NEW i \in 0..Len(s)
  PROVE  /\ Product(After(s, i)) \in Nat \ {0}
         /\ i # 0 => s[i] \in Nat \ {0} /\ Product(After(s, i-1)) = s[i] * Product(After(s, i))
<1>1. \A j \in 0..Len(s) : Product(After(s, j)) \in Nat \ {0}
  <2> SUFFICES ASSUME NEW j \in 0..Len(s) PROVE Product(After(s, j)) \in Nat \ {0}
    OBVIOUS
  <2> DEFINE A == Product(SubSeq(s, 1, j))
             B == Product(After(s, j))
  <2>1. Product(s) = A * B /\ A \in Nat /\ B \in Nat
    BY ProductSplit
  <2> HIDE DEF A, B
  <2>2. B # 0
    BY <2>1
  <2>3. QED
    BY <2>1, <2>2 DEF B
<1>2. ASSUME i # 0 PROVE s[i] \in Nat \ {0} /\ Product(After(s, i-1)) = s[i] * Product(After(s, i))
  <2>1. i \in 1..Len(s) /\ i-1 \in 0..Len(s)
    BY <1>2 DEF Shapes
  <2> DEFINE A == Product(After(s, i-1))
             B == Product(After(s, i))
  <2>2. A = s[i] * B /\ s[i] \in Nat /\ B \in Nat /\ A # 0
    BY <1>1, <2>1, ProductFirst
  <2> HIDE DEF A, B
  <2>3. s[i] # 0
    BY <2>2
  <2>4. QED
    BY <2>2, <2>3 DEF A, B
<1>3. QED
  BY <1>1, <1>2

LEMMA RowMajorType ==
  ASSUME NEW s \in Shapes, NEW k \in 1..Product(s)
  PROVE  /\ RowMajorIndices(s)[k] = [i \in 1..Len(s) |-> ((k-1) \div Product(After(s, i))) % s[i]]
         /\ RowMajorIndices(s)[k] \in [1..Len(s) -> Nat]
         /\ \A i \in 1..Len(s) : RowMajorIndices(s)[k][i] < s[i]
         /\ Product(s) \in Nat \ {0}
<1>1. Product(s) \in Nat \ {0} /\ Len(s) \in Nat /\ DOMAIN s = 1..Len(s) /\ k-1 \in Nat
  BY ProductType DEF Shapes
<1> DEFINE F(i) == ((k-1) \div Product(After(s, i))) % s[i]
<1>2. RowMajorIndices(s)[k] = [i \in 1..Len(s) |-> F(i)]
  BY <1>1 DEF RowMajorIndices, After
<1>3. ASSUME NEW i \in 1..Len(s) PROVE F(i) \in Nat /\ F(i) < s[i]
  <2>1. Product(After(s, i)) \in Nat \ {0} /\ s[i] \in Nat \ {0}
    BY <1>1, PartsPositive
  <2> DEFINE B == Product(After(s, i))
             n == s[i]
             e == (k-1) \div B
  <2>2. B \in Nat \ {0} /\ n \in Nat \ {0}
    BY <2>1
  <2> HIDE DEF B, n
  <2>3. e \in Nat
    BY <1>1, <2>2, Division
  <2> HIDE DEF e
  <2>4. e % n \in 0..(n-1)
    BY <2>2, <2>3, Division
  <2>5. e % n \in Nat /\ e % n < n
    BY <2>2, <2>4
  <2>6. QED
    BY <2>5 DEF e, n, B
<1> HIDE DEF F
<1>4. QED
  BY <1>1, <1>2, <1>3 DEF F

\* The indices of an array are those of its outer dimensions, each followed by all of its inner ones.
LEMMA IndexSplit ==
  ASSUME NEW s \in Shapes, NEW p \in Nat, p <= Len(s),
         NEW r \in 1..Product(SubSeq(s, 1, p)), NEW q \in 1..Product(After(s, p)),
         NEW k, k = (r-1) * Product(After(s, p)) + q
  PROVE  /\ k \in 1..Product(s)
         /\ \A i \in 1..p : RowMajorIndices(s)[k][i] = RowMajorIndices(SubSeq(s, 1, p))[r][i]
         /\ \A j \in 1..(Len(s)-p) : RowMajorIndices(s)[k][p+j] = RowMajorIndices(After(s, p))[q][j]
<1> DEFINE N == Len(s)
           u == SubSeq(s, 1, p)
           t == After(s, p)
           P == Product(u)
           L == Product(t)
           a == r-1
           b == q-1
<1>1. N \in Nat /\ p <= N /\ p \in 0..N /\ s \in Seq(Nat)
  BY DEF Shapes
<1>2. u \in Shapes /\ Len(u) = p /\ \A j \in 1..p : u[j] = s[j]
  BY <1>1, PrefixIs DEF Shapes
<1>3. t \in Shapes /\ Len(t) = N-p /\ \A j \in 1..(N-p) : t[j] = s[p+j]
  BY <1>1, AfterIs DEF Shapes
<1>4. Product(s) = P * L /\ P \in Nat /\ L \in Nat
  BY <1>1, ProductSplit
<1>5. /\ r \in 1..P /\ q \in 1..L /\ k = (r-1) * L + q
  OBVIOUS
<1> HIDE DEF N, u, t, P, L
<1>6. /\ a \in Nat /\ a < P /\ b \in 0..(L-1) /\ b \in Nat /\ L \in Nat \ {0} /\ P \in Nat \ {0} /\ k = a*L + q
  BY <1>4, <1>5
<1>7. k \in 1..(P*L) /\ k-1 = a*L + b
  <2> HIDE DEF a
  <2>1. a*L \in Nat /\ a*L + L <= P*L
    BY <1>6, Scaled
  <2> DEFINE x == a*L
             y == P*L
  <2>2. x \in Nat /\ x + L <= y /\ y \in Nat /\ k = x + q
    BY <1>4, <1>6, <2>1
  <2> HIDE DEF x, y
  <2>3. k \in 1..y /\ k-1 = x + b
    BY <1>5, <1>6, <2>2
  <2>4. QED
    BY <2>3 DEF x, y
<1>8. Product(s) # 0 /\ k \in 1..Product(s)
  <2> DEFINE y == P*L
  <2>1. Product(s) = y /\ k \in 1..y
    BY <1>4, <1>7
  <2> HIDE DEF y
  <2>2. QED
    BY <2>1
<1> HIDE DEF a, b
<1>9. RowMajorIndices(s)[k] = [i \in 1..N |-> ((k-1) \div Product(After(s, i))) % s[i]]
  BY <1>8, RowMajorType DEF N
<1>10. RowMajorIndices(u)[r] = [i \in 1..p |-> (a \div Product(After(u, i))) % u[i]]
  <2>1. r \in 1..Product(u)
    BY <1>5 DEF P
  <2>2. QED
    BY <1>2, <2>1, RowMajorType DEF a
<1>11. RowMajorIndices(t)[q] = [j \in 1..(N-p) |-> (b \div Product(After(t, j))) % t[j]]
  <2>1. q \in 1..Product(t)
    BY <1>5 DEF L
  <2>2. QED
    BY <1>3, <2>1, RowMajorType DEF b
<1>12. ASSUME NEW i \in 1..p PROVE RowMajorIndices(s)[k][i] = RowMajorIndices(u)[r][i]
  <2> DEFINE v == After(s, i)
             A == Product(After(u, i))
  <2>1. i \in Nat /\ i <= p /\ i \in 1..N /\ i <= N /\ i \in 0..p /\ p-i \in Nat /\ i+(p-i) = p /\ i+(p-i) <= N
    BY <1>1
  <2>2. v \in Seq(Nat) /\ Len(v) = N-i /\ p-i <= Len(v)
    <3>1. v \in Seq(Nat) /\ Len(v) = N-i
      BY ONLY <1>1, <2>1, AfterIs DEF N
    <3>2. QED
      BY <1>1, <3>1
  <2>3. SubSeq(v, 1, p-i) = After(u, i)
    BY ONLY <1>1, <2>1, p \in Nat, PrefixAfter DEF N, u
  <2>4. After(v, p-i) = t
    BY ONLY <1>1, <2>1, AfterAfter DEF N, t
  <2>5. Product(v) = A * L
    <3>1. v \in Shapes /\ p-i \in 0..Len(v)
      BY <2>1, <2>2 DEF Shapes
    <3>2. Product(v) = Product(SubSeq(v, 1, p-i)) * Product(After(v, p-i))
      BY ONLY <3>1, ProductSplit
    <3>3. QED
      BY <2>3, <2>4, <3>2 DEF L
  <2>6. A \in Nat \ {0}
    <3>1. Product(u) # 0 /\ i \in 0..Len(u)
      BY <1>2, <1>6, <2>1 DEF P
    <3>2. QED
      BY ONLY <1>2, <3>1, PartsPositive
  <2> HIDE DEF v, A
  <2>7. (a*L + b) \div (A*L) = a \div A
    BY <1>6, <2>6, DivisionOuter
  <2>8. RowMajorIndices(s)[k][i] = ((k-1) \div Product(v)) % s[i]
    BY <1>9, <2>1 DEF v
  <2>9. RowMajorIndices(u)[r][i] = (a \div A) % u[i]
    BY <1>10 DEF A
  <2>10. u[i] = s[i]
    BY <1>2
  <2>11. QED
    BY <1>7, <2>5, <2>7, <2>8, <2>9, <2>10
<1>13. ASSUME NEW j \in 1..(N-p) PROVE RowMajorIndices(s)[k][p+j] = RowMajorIndices(t)[q][j]
  <2> DEFINE B == Product(After(t, j))
             n == t[j]
             Y == Product(SubSeq(t, 1, j-1))
  <2>1. j \in Nat \ {0} /\ j \in 1..Len(t) /\ j-1 \in 0..Len(t) /\ j \in 0..Len(t) /\ p+j \in 1..N /\ p+j <= N
    BY <1>1, <1>3
  <2>2. After(s, p+j) = After(t, j)
    BY ONLY <1>1, <2>1, p \in Nat, AfterAfter DEF N, t
  <2>3. Product(t) # 0
    BY <1>6 DEF L
  <2>4. B \in Nat \ {0} /\ n \in Nat \ {0} /\ Product(After(t, j-1)) = n * B
    BY ONLY <1>3, <2>1, <2>3, PartsPositive
  <2>5. L = Y * Product(After(t, j-1)) /\ Y \in Nat
    BY ONLY <1>3, <2>1, ProductSplit DEF L
  <2> HIDE DEF B, n, Y
  <2>6. a*L = (a*Y) * (n*B) /\ a*Y \in Nat
    <3>1. L = Y * (n*B)
      BY <2>4, <2>5
    <3> DEFINE z == n*B
    <3>2. z \in Nat
      BY <2>4
    <3> HIDE DEF z
    <3>3. a * (Y*z) = (a*Y) * z /\ a*Y \in Nat
      BY <1>6, <2>5, <3>2
    <3>4. QED
      BY <3>1, <3>3 DEF z
  <2>7. (((a*Y) * (n*B) + b) \div B) % n = (b \div B) % n
    <3> DEFINE C == a*Y
    <3>1. C \in Nat
      BY <2>6
    <3> HIDE DEF C
    <3>2. ((C * (n*B) + b) \div B) % n = (b \div B) % n
      BY ONLY <1>6, <2>4, <3>1, DivisionInner
    <3>3. QED
      BY <3>2 DEF C
  <2>8. RowMajorIndices(s)[k][p+j] = ((k-1) \div Product(After(s, p+j))) % s[p+j]
    BY <1>9, <2>1
  <2>9. RowMajorIndices(t)[q][j] = (b \div B) % n
    BY <1>11 DEF B, n
  <2>10. s[p+j] = n
    BY <1>3 DEF n
  <2>11. Product(After(s, p+j)) = B
    BY <2>2 DEF B
  <2>12. k-1 = (a*Y) * (n*B) + b
    BY <1>7, <2>6
  <2>13. QED
    BY <2>7, <2>8, <2>9, <2>10, <2>11, <2>12
<1>14. QED
  BY <1>8, <1>12, <1>13 DEF N, u, t

-----------------------------------------------------------------------------
(* The walk through the outer dimensions.                                  *)

LEMMA PlacedIs ==
  ASSUME NEW x \in Placed
  PROVE  /\ x.at \in Int /\ x.shape \in Seq(Nat) /\ x.steps \in Seq(Int) /\ Len(x.steps) = Len(x.shape)
         /\ x = [at |-> x.at, shape |-> x.shape, steps |-> x.steps] /\ Len(x.shape) \in Nat
BY DEF Placed

LEMMA AlongType ==
  ASSUME NEW x, x.steps \in Seq(Int), NEW n \in Nat, n <= Len(x.steps), NEW idx \in [1..n -> Nat]
  PROVE  /\ Terms(x, idx) \in Seq(Int) /\ Len(Terms(x, idx)) = n
         /\ \A j \in 1..n : Terms(x, idx)[j] = idx[j] * x.steps[j]
         /\ Offset(x, idx) = Total(Terms(x, idx)) /\ Offset(x, idx) \in Int
<1> DEFINE w == x.steps
           a == Terms(x, idx)
<1>1. \A j \in 1..n : w[j] \in Int /\ idx[j] \in Nat
  OBVIOUS
<1>2. a = [j \in 1..n |-> idx[j] * w[j]]
  BY DEF Terms
<1> HIDE DEF w, a
<1>3. \A j \in 1..n : idx[j] * w[j] \in Int
  BY <1>1
<1>4. a \in Seq(Int) /\ Len(a) = n /\ \A j \in 1..n : a[j] = idx[j] * w[j]
  BY <1>2, <1>3
<1>5. Offset(x, idx) = Total(a)
  BY DEF Offset, a, Terms
<1>6. Total(a) \in Int
  <2>1. PICK g \in [0..Len(a) -> Int] : Totals(a, g)
    BY <1>4, TotalRec
  <2>2. Len(a) \in 0..Len(a)
    BY <1>4
  <2>3. QED
    BY <2>1, <2>2 DEF Totals
<1>7. QED
  BY <1>4, <1>5, <1>6 DEF a, w

\* The array that begins at an index of the outer dimensions.
Advance(x, idx) ==
  [at |-> x.at + Offset(x, idx), shape |-> After(x.shape, Len(idx)), steps |-> After(x.steps, Len(idx))]

LEMMA AdvanceType ==
  ASSUME NEW x \in Placed, NEW n \in Nat, n <= Len(x.shape), NEW idx \in [1..n -> Nat]
  PROVE  /\ Advance(x, idx) \in Placed
         /\ Advance(x, idx).at = x.at + Offset(x, idx)
         /\ Advance(x, idx).shape = After(x.shape, n) /\ Advance(x, idx).steps = After(x.steps, n)
<1>1. x.at \in Int /\ x.shape \in Seq(Nat) /\ x.steps \in Seq(Int) /\ Len(x.steps) = Len(x.shape)
  BY PlacedIs
<1>2. Offset(x, idx) \in Int
  BY <1>1, AlongType
<1>3. Len(idx) = n
  OBVIOUS
<1>4. After(x.shape, n) \in Seq(Nat) /\ Len(After(x.shape, n)) = Len(x.shape) - n
  BY <1>1, AfterIs
<1>5. After(x.steps, n) \in Seq(Int) /\ Len(After(x.steps, n)) = Len(x.shape) - n
  <2>1. n \in Nat /\ n <= Len(x.steps)
    BY <1>1
  <2>2. After(x.steps, n) \in Seq(Int) /\ Len(After(x.steps, n)) = Len(x.steps) - n
    BY ONLY <1>1, <2>1, AfterIs
  <2>3. QED
    BY <1>1, <2>2
<1>6. x.at + Offset(x, idx) \in Int
  BY <1>1, <1>2
<1>7. QED
  BY <1>3, <1>4, <1>5, <1>6 DEF Advance, Placed

LEMMA AdvanceNone ==
  ASSUME NEW x \in Placed, NEW idx \in [1..0 -> Nat] PROVE Advance(x, idx) = x
<1>1. /\ x.at \in Int /\ x.shape \in Seq(Nat) /\ x.steps \in Seq(Int)
      /\ x = [at |-> x.at, shape |-> x.shape, steps |-> x.steps] /\ Len(x.steps) \in Nat
  BY PlacedIs
<1>2. Len(idx) = 0
  OBVIOUS
<1>3. /\ Terms(x, idx) \in Seq(Int) /\ Len(Terms(x, idx)) = 0 /\ Offset(x, idx) = Total(Terms(x, idx))
  <2>1. 0 \in Nat /\ 0 <= Len(x.steps)
    BY <1>1
  <2>2. QED
    BY ONLY <1>1, <2>1, idx \in [1..0 -> Nat], AlongType
<1>4. Offset(x, idx) = 0
  <2> DEFINE a == Terms(x, idx)
  <2>1. a \in Seq(Int) /\ Len(a) = 0
    BY <1>3
  <2> HIDE DEF a
  <2>2. PICK g \in [0..Len(a) -> Int] : Totals(a, g)
    BY <2>1, TotalRec
  <2>3. Total(a) = 0
    BY <2>1, <2>2 DEF Totals
  <2>4. QED
    BY <1>3, <2>3 DEF a
<1>5. After(x.shape, 0) = x.shape /\ After(x.steps, 0) = x.steps
  BY <1>1, AfterNone
<1>6. x.at + 0 = x.at
  BY <1>1
<1>7. QED
  BY <1>1, <1>2, <1>4, <1>5, <1>6 DEF Advance

\* xnd_fixed_dim_next() in the first dimension, and then the others.
LEMMA NextType ==
  ASSUME NEW x \in Placed, x.shape # << >>, NEW i \in Nat
  PROVE  /\ xnd_fixed_dim_next(x, i) \in Placed
         /\ xnd_fixed_dim_next(x, i).at = x.at + i * x.steps[1]
         /\ xnd_fixed_dim_next(x, i).shape = Tail(x.shape) /\ xnd_fixed_dim_next(x, i).steps = Tail(x.steps)
         /\ Len(x.shape) \in Nat \ {0} /\ Len(Tail(x.shape)) = Len(x.shape)-1 /\ Len(Tail(x.steps)) = Len(x.shape)-1
         /\ \A j \in 1..(Len(x.shape)-1) : Tail(x.shape)[j] = x.shape[1+j] /\ Tail(x.steps)[j] = x.steps[1+j]
         /\ Tail(x.shape) \in Seq(Nat) /\ Tail(x.steps) \in Seq(Int) /\ x.steps[1] \in Int
<1> DEFINE s == x.shape
           w == x.steps
<1>1. x.at \in Int /\ s \in Seq(Nat) /\ w \in Seq(Int) /\ Len(w) = Len(s) /\ s # << >> /\ Len(s) \in Nat
  BY PlacedIs
<1> HIDE DEF s, w
<1>2. Len(s) \in Nat \ {0}
  BY <1>1, EmptySeq
<1>3. w # << >>
  BY <1>1, <1>2
<1>4. /\ Tail(s) \in Seq(Nat) /\ Len(Tail(s)) = Len(s)-1 /\ \A j \in 1..Len(Tail(s)) : Tail(s)[j] = s[j+1]
      /\ Tail(w) \in Seq(Int) /\ Len(Tail(w)) = Len(w)-1 /\ \A j \in 1..Len(Tail(w)) : Tail(w)[j] = w[j+1]
  BY <1>1, <1>3, HeadTailProperties
<1>5. w[1] \in Int /\ i * w[1] \in Int /\ x.at + i * w[1] \in Int
  <2>1. w[1] \in Int
    BY <1>1, <1>2
  <2>2. QED
    BY <1>1, <2>1
<1>6. \A j \in 1..(Len(s)-1) : Tail(s)[j] = s[1+j] /\ Tail(w)[j] = w[1+j]
  <2>1. \A j \in 1..(Len(s)-1) : 1+j = j+1
    OBVIOUS
  <2>2. QED
    BY <1>1, <1>4, <2>1
<1>7. xnd_fixed_dim_next(x, i) = [at |-> x.at + i * w[1], shape |-> Tail(s), steps |-> Tail(w)]
  BY DEF xnd_fixed_dim_next, s, w
<1>9. Len(Tail(w)) = Len(s)-1
  BY <1>1, <1>4
<1> DEFINE a == x.at + i * w[1]
           b == Tail(s)
           c == Tail(w)
           y == xnd_fixed_dim_next(x, i)
<1>10. a \in Int /\ b \in Seq(Nat) /\ c \in Seq(Int) /\ Len(b) = Len(c) /\ y = [at |-> a, shape |-> b, steps |-> c]
  BY <1>4, <1>5, <1>7, <1>9
<1> HIDE DEF a, b, c, y
<1>8. y \in Placed /\ y.at = a /\ y.shape = b /\ y.steps = c
  BY ONLY <1>10 DEF Placed
<1>11. QED
  BY <1>2, <1>4, <1>5, <1>6, <1>8, <1>9 DEF s, w, a, b, c, y

LEMMA AdvanceFirst ==
  ASSUME NEW x \in Placed, x.shape # << >>, NEW i \in Nat, NEW n \in Nat, n+1 <= Len(x.shape),
         NEW idx \in [1..n -> Nat], NEW jdx \in [1..(n+1) -> Nat],
         jdx[1] = i, \A j \in 1..n : jdx[1+j] = idx[j]
  PROVE  Advance(x, jdx) = Advance(xnd_fixed_dim_next(x, i), idx)
<1> DEFINE y == xnd_fixed_dim_next(x, i)
           N == Len(x.shape)
<1>1. /\ y \in Placed /\ y.at = x.at + i * x.steps[1] /\ y.shape = Tail(x.shape) /\ y.steps = Tail(x.steps)
      /\ N \in Nat \ {0} /\ Len(y.shape) = N-1 /\ Len(y.steps) = N-1
      /\ \A j \in 1..(N-1) : y.shape[j] = x.shape[1+j] /\ y.steps[j] = x.steps[1+j]
      /\ x.steps[1] \in Int
  BY ONLY x \in Placed, x.shape # << >>, i \in Nat, NextType
<1>2. x.at \in Int /\ x.shape \in Seq(Nat) /\ x.steps \in Seq(Int) /\ Len(x.steps) = N
  BY PlacedIs
<1>3. y.shape \in Seq(Nat) /\ y.steps \in Seq(Int)
  BY <1>1, PlacedIs
<1>4. n \in 0..(N-1) /\ n <= Len(y.shape) /\ n <= Len(y.steps) /\ n+1 <= Len(x.steps) /\ n+1 \in Nat
  BY <1>1, <1>2
<1> HIDE DEF y, N
<1>5. After(x.shape, n+1) = After(y.shape, n)
  <2>1. Len(x.shape) = Len(y.shape)+1 /\ \A j \in 1..Len(y.shape) : x.shape[j+1] = y.shape[j]
    <3>1. \A j \in 1..(N-1) : j+1 = 1+j
      OBVIOUS
    <3>2. QED
      BY <1>1, <3>1 DEF N
  <2>2. n \in 0..Len(y.shape)
    BY <1>1, <1>4
  <2>3. QED
    BY ONLY <1>2, <1>3, <2>1, <2>2, AfterLonger
<1>6. After(x.steps, n+1) = After(y.steps, n)
  <2>1. Len(x.steps) = Len(y.steps)+1 /\ \A j \in 1..Len(y.steps) : x.steps[j+1] = y.steps[j]
    <3>1. \A j \in 1..(N-1) : j+1 = 1+j
      OBVIOUS
    <3>2. QED
      BY <1>1, <1>2, <3>1
  <2>2. n \in 0..Len(y.steps)
    BY <1>1, <1>4
  <2>3. QED
    BY ONLY <1>2, <1>3, <2>1, <2>2, AfterLonger
<1> DEFINE a == Terms(x, jdx)
           b == Terms(y, idx)
<1>7. /\ a \in Seq(Int) /\ Len(a) = n+1 /\ \A j \in 1..(n+1) : a[j] = jdx[j] * x.steps[j]
      /\ Offset(x, jdx) = Total(a)
  <2> DEFINE m == n+1
  <2>1. m \in Nat /\ m <= Len(x.steps) /\ jdx \in [1..m -> Nat]
    BY <1>4
  <2> HIDE DEF m
  <2>2. /\ a \in Seq(Int) /\ Len(a) = m /\ \A j \in 1..m : a[j] = jdx[j] * x.steps[j]
        /\ Offset(x, jdx) = Total(a)
    BY ONLY <1>2, <2>1, AlongType
  <2>3. QED
    BY <2>2 DEF m
<1>8. /\ b \in Seq(Int) /\ Len(b) = n /\ \A j \in 1..n : b[j] = idx[j] * y.steps[j]
      /\ Offset(y, idx) = Total(b)
  BY ONLY <1>3, <1>4, n \in Nat, idx \in [1..n -> Nat], AlongType
<1> HIDE DEF a, b
<1>9. \A j \in 1..n : a[1+j] = b[j]
  <2>1. \A j \in 1..n : 1+j \in 1..(n+1) /\ j \in 1..(N-1)
    <3>1. n \in Nat /\ N \in Nat /\ n <= N-1
      BY <1>1, <1>4
    <3>2. QED
      BY ONLY <3>1
  <2> SUFFICES ASSUME NEW j \in 1..n PROVE a[1+j] = b[j]
    OBVIOUS
  <2>2. a[1+j] = jdx[1+j] * x.steps[1+j]
    BY <1>7, <2>1
  <2>3. b[j] = idx[j] * y.steps[j] /\ y.steps[j] = x.steps[1+j] /\ jdx[1+j] = idx[j]
    BY <1>1, <1>8, <2>1
  <2>4. QED
    BY <2>2, <2>3
<1>10. Total(a) = a[1] + Total(b) /\ Total(b) \in Int /\ a[1] \in Int
  <2>1. Len(a) = 1 + Len(b) /\ \A j \in 1..Len(b) : a[1+j] = b[j]
    BY <1>7, <1>8, <1>9
  <2>2. QED
    BY ONLY <1>7, <1>8, <2>1, TotalCons
<1>11. a[1] = i * x.steps[1]
  <2>1. 1 \in 1..(n+1)
    OBVIOUS
  <2>2. QED
    BY <1>7, <2>1
<1>12. x.at + Offset(x, jdx) = y.at + Offset(y, idx)
  <2> DEFINE c == i * x.steps[1]
  <2>1. a[1] = c /\ c \in Int /\ y.at = x.at + c
    BY <1>1, <1>10, <1>11
  <2> HIDE DEF c
  <2>2. QED
    BY <1>2, <1>7, <1>8, <1>10, <2>1
<1>13. Len(jdx) = n+1 /\ Len(idx) = n
  OBVIOUS
<1>14. QED
  BY <1>5, <1>6, <1>12, <1>13 DEF Advance, y

-----------------------------------------------------------------------------
(* One dimension of the walk.                                              *)

LEMMA ProductNone == ASSUME NEW s \in Shapes, Len(s) = 0 PROVE Product(s) = 1
<1>1. PICK g \in [0..Len(s) -> Nat] : Products(s, g)
  BY ProductRec DEF Shapes
<1>2. QED
  BY <1>1 DEF Products

LEMMA ProductOne == ASSUME NEW s \in Shapes, Len(s) = 1 PROVE Product(s) = s[1]
<1>1. PICK g \in [0..Len(s) -> Nat] : Products(s, g)
  BY ProductRec DEF Shapes
<1>2. s[1] \in Nat
  BY DEF Shapes
<1>3. g[0] = 1 /\ g[1] = g[0] * s[1] /\ Product(s) = g[1]
  BY <1>1 DEF Products
<1>4. QED
  BY <1>2, <1>3

\* The first extent of a shape and the shape of the others.
LEMMA FirstExtent ==
  ASSUME NEW p \in Shapes, p # << >>
  PROVE  /\ Len(p) \in Nat \ {0} /\ p[1] \in Nat /\ 1 \in DOMAIN p
         /\ After(p, 1) \in Shapes /\ Len(After(p, 1)) = Len(p)-1
         /\ \A j \in 1..(Len(p)-1) : After(p, 1)[j] = p[1+j]
         /\ Product(SubSeq(p, 1, 1)) = p[1]
         /\ Product(p) = p[1] * Product(After(p, 1)) /\ Product(After(p, 1)) \in Nat
<1>1. p \in Seq(Nat) /\ Len(p) \in Nat \ {0} /\ 1 \in 1..Len(p) /\ 1 \in Nat /\ 1 <= Len(p)
  BY EmptySeq DEF Shapes
<1>2. p[1] \in Nat /\ 1 \in DOMAIN p
  BY <1>1
<1>3. /\ After(p, 1) \in Seq(Nat) /\ Len(After(p, 1)) = Len(p)-1
      /\ \A j \in 1..(Len(p)-1) : After(p, 1)[j] = p[1+j]
  BY ONLY <1>1, AfterIs
<1>4. SubSeq(p, 1, 1) \in Seq(Nat) /\ Len(SubSeq(p, 1, 1)) = 1 /\ SubSeq(p, 1, 1)[1] = p[1]
  BY ONLY <1>1, PrefixIs
<1>5. Product(SubSeq(p, 1, 1)) = p[1]
  BY <1>4, ProductOne DEF Shapes
<1>6. /\ Product(p) = Product(SubSeq(p, 1, 1)) * Product(After(p, 1))
      /\ Product(After(p, 1)) \in Nat
  <2>1. 1 \in 0..Len(p)
    BY <1>1
  <2>2. QED
    BY <2>1, ProductSplit
<1>7. QED
  BY <1>1, <1>2, <1>3, <1>5, <1>6 DEF Shapes

\* The index in the first dimension, and those in the others.
LEMMA FirstIndex ==
  ASSUME NEW p \in Shapes, p # << >>, NEW i \in 1..p[1], NEW q \in 1..Product(After(p, 1)),
         NEW k, k = (i-1) * Product(After(p, 1)) + q
  PROVE  /\ k \in 1..Product(p)
         /\ RowMajorIndices(p)[k][1] = i-1
         /\ \A j \in 1..(Len(p)-1) : RowMajorIndices(p)[k][1+j] = RowMajorIndices(After(p, 1))[q][j]
<1> DEFINE u == SubSeq(p, 1, 1)
<1>1. /\ Len(p) \in Nat \ {0} /\ p[1] \in Nat /\ p \in Seq(Nat) /\ 1 \in Nat /\ 1 <= Len(p)
      /\ Product(u) = p[1]
  BY FirstExtent DEF Shapes
<1>2. u \in Shapes /\ Len(u) = 1 /\ u[1] = p[1]
  <2>1. u \in Seq(Nat) /\ Len(u) = 1 /\ u[1] = p[1]
    BY ONLY <1>1, PrefixIs
  <2>2. QED
    BY <2>1 DEF Shapes
<1> HIDE DEF u
<1>3. i \in 1..Product(u)
  BY <1>1
<1>4. /\ k \in 1..Product(p)
      /\ \A j \in 1..1 : RowMajorIndices(p)[k][j] = RowMajorIndices(u)[i][j]
      /\ \A j \in 1..(Len(p)-1) : RowMajorIndices(p)[k][1+j] = RowMajorIndices(After(p, 1))[q][j]
  <2>1. i \in 1..Product(SubSeq(p, 1, 1))
    BY <1>3 DEF u
  <2>2. QED
    BY ONLY p \in Shapes, <1>1, <2>1, q \in 1..Product(After(p, 1)),
            k = (i-1) * Product(After(p, 1)) + q, IndexSplit DEF u
<1>5. RowMajorIndices(u)[i] = [j \in 1..1 |-> ((i-1) \div Product(After(u, j))) % u[j]]
  BY <1>2, <1>3, RowMajorType
<1>6. Product(After(u, 1)) = 1
  <2>1. 1 \in Nat /\ 1 <= Len(u) /\ u \in Seq(Nat)
    BY <1>2 DEF Shapes
  <2>2. After(u, 1) \in Seq(Nat) /\ Len(After(u, 1)) = Len(u)-1
    BY ONLY <2>1, AfterIs
  <2>3. QED
    BY <1>2, <2>2, ProductNone DEF Shapes
<1>7. ((i-1) \div 1) % p[1] = i-1
  <2> DEFINE a == i-1
             n == p[1]
  <2>1. a \in Nat /\ n \in Nat \ {0} /\ a \in 0..(n-1)
    BY <1>1
  <2> HIDE DEF a, n
  <2>2. a \div 1 = a
    BY <2>1
  <2>3. a % n = a
    <3>1. a = a + 0 * n
      BY <2>1
    <3>2. \A r \in 0..(n-1) : \A m \in Nat : \A c : c = r + m * n => c % n = r
      BY <2>1, DivisionIs
    <3>3. QED
      BY <2>1, <3>1, <3>2
  <2>4. QED
    BY <2>2, <2>3 DEF a, n
<1>8. QED
  BY <1>2, <1>4, <1>5, <1>6, <1>7

\* What all arrays of a stack begin with.
Begins(p, s) ==
  /\ p \in Shapes /\ s \in Stacks
  /\ \A k \in DOMAIN s : Len(p) <= Len(s[k].shape) /\ \A i \in 1..Len(p) : s[k].shape[i] = p[i]

\* The stacks of the arrays at all indices of these dimensions, in row-major order.
Rows(p, s) == [r \in 1..Product(p) |-> [k \in DOMAIN s |-> Advance(s[k], RowMajorIndices(p)[r])]]

LEMMA StackIs ==
  ASSUME NEW s \in Stacks
  PROVE  /\ s \in Seq(Placed) /\ s # << >> /\ Len(s) \in Nat \ {0} /\ DOMAIN s = 1..Len(s)
         /\ \A k \in DOMAIN s : s[k] \in Placed
<1>1. s \in Seq(Placed) /\ s # << >>
  BY DEF Stacks
<1>2. QED
  BY <1>1, EmptySeq

LEMMA StackOf ==
  ASSUME NEW s, NEW n \in Nat \ {0}, DOMAIN s = 1..n, s = [k \in 1..n |-> s[k]],
         \A k \in 1..n : s[k] \in Placed
  PROVE  s \in Stacks
<1>1. s \in Seq(Placed) /\ Len(s) = n
  BY SeqDef
<1>2. s # << >>
  BY <1>1
<1>3. QED
  BY <1>1, <1>2 DEF Stacks

LEMMA RowsType ==
  ASSUME NEW p, NEW s, Begins(p, s)
  PROVE  /\ Rows(p, s) \in Seq(Stacks) /\ Len(Rows(p, s)) = Product(p) /\ Product(p) \in Nat
         /\ \A r \in 1..Product(p) :
              /\ Rows(p, s)[r] \in Stacks /\ DOMAIN Rows(p, s)[r] = DOMAIN s
              /\ \A k \in DOMAIN s : Rows(p, s)[r][k] = Advance(s[k], RowMajorIndices(p)[r])
<1>1. p \in Shapes /\ s \in Stacks /\ Product(p) \in Nat /\ Len(p) \in Nat
  BY ProductType DEF Begins, Shapes
<1>2. Len(s) \in Nat \ {0} /\ DOMAIN s = 1..Len(s) /\ \A k \in DOMAIN s : s[k] \in Placed
  BY <1>1, StackIs
<1> DEFINE N == Len(s)
           R(r) == [k \in DOMAIN s |-> Advance(s[k], RowMajorIndices(p)[r])]
<1>3. ASSUME NEW r \in 1..Product(p) PROVE R(r) \in Stacks
  <2>1. RowMajorIndices(p)[r] \in [1..Len(p) -> Nat]
    BY <1>1, RowMajorType
  <2>2. \A k \in 1..N : Advance(s[k], RowMajorIndices(p)[r]) \in Placed
    BY <1>1, <1>2, <2>1, AdvanceType DEF Begins
  <2>3. DOMAIN R(r) = 1..N /\ R(r) = [k \in 1..N |-> R(r)[k]] /\ \A k \in 1..N : R(r)[k] \in Placed
    BY <1>2, <2>2
  <2> HIDE DEF R
  <2>4. QED
    BY <1>2, <2>3, StackOf
<1>4. Rows(p, s) = [r \in 1..Product(p) |-> R(r)]
  BY DEF Rows
<1>5. \A r \in 1..Product(p) :
        DOMAIN R(r) = DOMAIN s /\ \A k \in DOMAIN s : R(r)[k] = Advance(s[k], RowMajorIndices(p)[r])
  OBVIOUS
<1> HIDE DEF R
<1>6. QED
  BY <1>1, <1>3, <1>4, <1>5

\* One step of the walk goes into the first dimension of all arrays.
LEMMA BeginsNext ==
  ASSUME NEW p, NEW s, Begins(p, s), p # << >>, NEW i \in Nat
  PROVE  /\ Begins(After(p, 1), NextOf(s, i))
         /\ DOMAIN NextOf(s, i) = DOMAIN s
         /\ \A k \in DOMAIN s :
              /\ NextOf(s, i)[k] = xnd_fixed_dim_next(s[k], i)
              /\ s[k] \in Placed /\ s[k].shape # << >> /\ s[k].shape[1] = p[1]
<1>1. p \in Shapes /\ s \in Stacks
  BY DEF Begins
<1>2. Len(s) \in Nat \ {0} /\ DOMAIN s = 1..Len(s) /\ \A k \in DOMAIN s : s[k] \in Placed
  BY <1>1, StackIs
<1>3. /\ Len(p) \in Nat \ {0} /\ After(p, 1) \in Shapes /\ Len(After(p, 1)) = Len(p)-1
      /\ \A j \in 1..(Len(p)-1) : After(p, 1)[j] = p[1+j]
  BY <1>1, FirstExtent
<1> DEFINE N == Len(s)
           t == NextOf(s, i)
           L == Len(p)
           a == After(p, 1)
<1>4. ASSUME NEW k \in DOMAIN s PROVE s[k].shape # << >> /\ s[k].shape[1] = p[1]
  <2>1. L <= Len(s[k].shape) /\ \A j \in 1..L : s[k].shape[j] = p[j]
    BY DEF Begins
  <2>2. s[k].shape \in Seq(Nat)
    BY <1>2, PlacedIs
  <2>3. 1 \in 1..L
    BY <1>3
  <2> HIDE DEF L
  <2>4. s[k].shape # << >>
    <3>1. Len(<< >>) = 0 /\ 1 <= L /\ L \in Nat
      BY <1>3 DEF L
    <3>2. QED
      BY <2>1, <3>1
  <2>5. QED
    BY <2>1, <2>3, <2>4
<1>5. DOMAIN t = 1..N /\ t = [k \in 1..N |-> t[k]] /\ \A k \in 1..N : t[k] = xnd_fixed_dim_next(s[k], i)
  BY <1>2 DEF NextOf
<1> HIDE DEF t, N, L, a
<1>6. ASSUME NEW k \in 1..N
      PROVE  t[k] \in Placed /\ Len(a) <= Len(t[k].shape) /\ \A j \in 1..Len(a) : t[k].shape[j] = a[j]
  <2> DEFINE x == s[k]
             y == t[k]
             M == Len(x.shape)
  <2>1. x \in Placed /\ x.shape # << >>
    BY <1>2, <1>4 DEF N
  <2>2. /\ xnd_fixed_dim_next(x, i) \in Placed
        /\ xnd_fixed_dim_next(x, i).shape = Tail(x.shape)
        /\ Len(x.shape) \in Nat \ {0} /\ Len(Tail(x.shape)) = Len(x.shape)-1
        /\ \A j \in 1..(Len(x.shape)-1) : Tail(x.shape)[j] = x.shape[1+j]
    <3> HIDE DEF x
    <3>1. QED
      BY <2>1, NextType
  <2>3. y = xnd_fixed_dim_next(x, i)
    BY <1>5
  <2>4. L <= M /\ \A j \in 1..L : x.shape[j] = p[j]
    BY <1>2 DEF Begins, N, L
  <2> HIDE DEF x, y
  <2>5. y \in Placed /\ Len(y.shape) = M-1 /\ M \in Nat /\ \A j \in 1..(M-1) : y.shape[j] = x.shape[1+j]
    BY <2>2, <2>3
  <2> HIDE DEF M
  <2>6. L \in Nat /\ Len(a) = L-1 /\ \A j \in 1..(L-1) : a[j] = p[1+j]
    BY <1>3 DEF L, a
  <2>7. \A j \in 1..(L-1) : 1+j \in 1..L /\ j \in 1..(M-1)
    BY <2>4, <2>5, <2>6
  <2>8. \A j \in 1..(L-1) : y.shape[j] = a[j]
    BY <2>4, <2>5, <2>6, <2>7
  <2>9. QED
    BY <2>4, <2>5, <2>6, <2>8 DEF y
<1>7. t \in Stacks
  <2>1. N \in Nat \ {0}
    BY <1>2 DEF N
  <2>2. QED
    BY <1>5, <1>6, <2>1, StackOf
<1>8. Begins(a, t)
  BY <1>3, <1>5, <1>6, <1>7 DEF Begins, a
<1>9. QED
  BY <1>2, <1>4, <1>5, <1>8 DEF a, t, N

LEMMA RowsStep ==
  ASSUME NEW p, NEW s, Begins(p, s), p # << >>,
         NEW i \in 1..p[1], NEW q \in 1..Product(After(p, 1)),
         NEW k, k = (i-1) * Product(After(p, 1)) + q
  PROVE  Rows(p, s)[k] = Rows(After(p, 1), NextOf(s, i-1))[q]
<1> DEFINE a == After(p, 1)
           t == NextOf(s, i-1)
           L == Len(p)
           n == L-1
           jdx == RowMajorIndices(p)[k]
           idx == RowMajorIndices(a)[q]
<1>1. p \in Shapes /\ s \in Stacks /\ \A e \in DOMAIN s : L <= Len(s[e].shape)
  BY DEF Begins
<1>2. p[1] \in Nat /\ L \in Nat \ {0} /\ a \in Shapes /\ Len(a) = n
  BY <1>1, FirstExtent
<1>3. i-1 \in Nat /\ n \in Nat /\ L = n+1
  BY <1>2
<1>4. /\ Begins(a, t) /\ DOMAIN t = DOMAIN s
      /\ \A e \in DOMAIN s : t[e] = xnd_fixed_dim_next(s[e], i-1) /\ s[e] \in Placed /\ s[e].shape # << >>
  <2> DEFINE j == i-1
  <2>1. j \in Nat
    BY <1>3
  <2> HIDE DEF j
  <2>2. /\ Begins(After(p, 1), NextOf(s, j)) /\ DOMAIN NextOf(s, j) = DOMAIN s
        /\ \A e \in DOMAIN s :
             NextOf(s, j)[e] = xnd_fixed_dim_next(s[e], j) /\ s[e] \in Placed /\ s[e].shape # << >>
    BY <2>1, BeginsNext
  <2>3. QED
    BY <2>2 DEF j
<1>5. k \in 1..Product(p) /\ jdx[1] = i-1 /\ \A j \in 1..n : jdx[1+j] = idx[j]
  BY <1>1, FirstIndex
<1>6. jdx \in [1..L -> Nat]
  BY <1>1, <1>5, RowMajorType
<1>7. idx \in [1..n -> Nat]
  <2>1. idx \in [1..Len(a) -> Nat]
    BY <1>2, RowMajorType
  <2>2. QED
    BY <1>2, <2>1
<1> HIDE DEF jdx, idx, t, a, L, n
<1>8. Rows(p, s)[k] = [e \in DOMAIN s |-> Advance(s[e], jdx)]
  BY <1>5 DEF Rows, jdx
<1>9. Rows(a, t)[q] = [e \in DOMAIN s |-> Advance(t[e], idx)]
  BY <1>4 DEF Rows, idx, a
<1>10. ASSUME NEW e \in DOMAIN s PROVE Advance(s[e], jdx) = Advance(t[e], idx)
  <2> DEFINE x == s[e]
             c == i-1
  <2>1. x \in Placed /\ x.shape # << >> /\ c \in Nat /\ n+1 <= Len(x.shape) /\ t[e] = xnd_fixed_dim_next(x, c)
    BY <1>1, <1>3, <1>4
  <2>2. jdx \in [1..(n+1) -> Nat] /\ jdx[1] = c
    BY <1>3, <1>5, <1>6
  <2> HIDE DEF x, c
  <2>3. Advance(x, jdx) = Advance(xnd_fixed_dim_next(x, c), idx)
    <3>1. n \in Nat /\ idx \in [1..n -> Nat] /\ \A j \in 1..n : jdx[1+j] = idx[j]
      BY <1>3, <1>5, <1>7
    <3>2. QED
      BY ONLY <2>1, <2>2, <3>1, AdvanceFirst
  <2>4. QED
    BY <2>1, <2>3 DEF x
<1>11. QED
  BY <1>8, <1>9, <1>10 DEF a, t

\* The rows of an array are those of its first part, then those of the second, and so on.
LEMMA RowsBlocks ==
  ASSUME NEW p, NEW s, Begins(p, s), p # << >>, NEW blocks,
         blocks = [i \in 1..p[1] |-> Rows(After(p, 1), NextOf(s, i-1))]
  PROVE  BlocksOf(Stacks, p[1], Product(After(p, 1)), blocks, Rows(p, s))
<1> DEFINE R == p[1]
           L == Product(After(p, 1))
           t == Rows(p, s)
<1>1. p \in Shapes /\ R \in Nat /\ L \in Nat /\ Product(p) = R*L
  BY FirstExtent DEF Begins
<1>2. t \in Seq(Stacks) /\ Len(t) = R*L
  BY <1>1, RowsType
<1>3. ASSUME NEW i \in 1..R PROVE blocks[i] \in Seq(Stacks) /\ Len(blocks[i]) = L
  <2> DEFINE j == i-1
             u == NextOf(s, j)
             a == After(p, 1)
  <2>1. j \in Nat
    BY <1>1
  <2> HIDE DEF j
  <2>2. Begins(a, u)
    BY <2>1, BeginsNext
  <2> HIDE DEF u, a
  <2>3. Rows(a, u) \in Seq(Stacks) /\ Len(Rows(a, u)) = Product(a)
    BY <2>2, RowsType
  <2>4. QED
    BY <2>3 DEF a, u, j
<1>4. blocks \in [1..R -> Seq(Stacks)]
  BY <1>3
<1>5. ASSUME NEW i \in 1..R, NEW q \in 1..L PROVE t[(i-1)*L+q] = blocks[i][q]
  <2> DEFINE k == (i-1)*L+q
  <2>1. Rows(p, s)[k] = Rows(After(p, 1), NextOf(s, i-1))[q]
    BY RowsStep
  <2>2. QED
    BY <2>1
<1> HIDE DEF R, L, t
<1>6. QED
  BY <1>1, <1>2, <1>3, <1>4, <1>5 DEF BlocksOf, R, L, t

-----------------------------------------------------------------------------
(* gm_xnd_map().                                                           *)

\* The first dimensions differ, and the walk through n dimensions by the one through n-1.
Differ(s) == \E x \in Range(s) : x.shape = << >> \/ x.shape[1] # s[1].shape[1]
Walks(v, n) ==
  /\ \A s \in Stacks : v[0][s] = <<s>>
  /\ \A m \in 1..n : \A s \in Stacks :
       v[m][s] = IF Differ(s) THEN <<Error>>
                 ELSE UntilError([i \in 1..s[1].shape[1] |-> v[m-1][NextOf(s, i-1)]])
  /\ \A s \in Stacks : gm_xnd_map(s, n) = v[n][s]

LEMMA UntilType ==
  ASSUME NEW X, NEW s \in Seq(Seq(X)) PROVE UntilError(s) \in Seq(X)
<1>1. PICK g \in [0..Len(s) -> Seq(X)] : UntilSteps(s, g)
  BY UntilRec
<1>2. Len(s) \in 0..Len(s)
  OBVIOUS
<1>3. QED
  BY <1>1, <1>2 DEF UntilSteps

\* Arrays whose first extents are the same can be walked through.
LEMMA NextStack ==
  ASSUME NEW s \in Stacks, ~Differ(s), NEW i \in Nat
  PROVE  NextOf(s, i) \in Stacks /\ s[1].shape[1] \in Nat
<1>1. Len(s) \in Nat \ {0} /\ DOMAIN s = 1..Len(s) /\ \A k \in DOMAIN s : s[k] \in Placed
  BY StackIs
<1>2. \A k \in DOMAIN s : s[k].shape # << >>
  BY DEF Differ, Range
<1>3. \A k \in DOMAIN s : xnd_fixed_dim_next(s[k], i) \in Placed
  BY <1>1, <1>2, NextType
<1> DEFINE N == Len(s)
           t == NextOf(s, i)
<1>4. N \in Nat \ {0} /\ DOMAIN t = 1..N /\ t = [k \in 1..N |-> t[k]] /\ \A k \in 1..N : t[k] \in Placed
  BY <1>1, <1>3 DEF NextOf
<1> HIDE DEF t, N
<1>5. t \in Stacks
  BY <1>4, StackOf
<1>6. s[1].shape[1] \in Nat
  <2>1. 1 \in DOMAIN s
    BY <1>1
  <2> DEFINE u == s[1].shape
  <2>2. u \in Seq(Nat) /\ u # << >>
    BY <1>1, <1>2, <2>1, PlacedIs
  <2> HIDE DEF u
  <2>3. 1 \in 1..Len(u)
    BY <2>2, EmptySeq
  <2>4. u[1] \in Nat
    BY <2>2, <2>3
  <2>5. QED
    BY <2>4 DEF u
<1>7. QED
  BY <1>5, <1>6 DEF t

LEMMA MapRec == ASSUME NEW n \in Nat PROVE \E v : Walks(v, n)
<1> DEFINE Y == Stacks \cup {Error}
           V == [Stacks -> Seq(Y)]
           a == [s \in Stacks |-> <<s>>]
           Go(x, s) == IF Differ(s) THEN <<Error>>
                         ELSE UntilError([i \in 1..s[1].shape[1] |-> x[NextOf(s, i-1)]])
           E(x) == [s \in Stacks |-> Go(x, s)]
           H == [k \in 1..n |-> [x \in V |-> E(x)]]
           Body(f) == [m \in 0..n |-> [s \in Stacks |-> IF m = 0 THEN <<s>> ELSE Go(f[m-1], s)]]
<1>1. a \in V
  <2>1. \A s \in Stacks : <<s>> \in Seq(Y)
    OBVIOUS
  <2>2. QED
    BY <2>1
<1>2. ASSUME NEW x \in V PROVE E(x) \in V
  <2>1. ASSUME NEW s \in Stacks PROVE Go(x, s) \in Seq(Y)
    <3>1. CASE Differ(s)
      <4>1. Error \in Y
        OBVIOUS
      <4>2. <<Error>> \in Seq(Y)
        BY <4>1
      <4>3. QED
        BY <3>1, <4>2
    <3>2. CASE ~Differ(s)
      <4> DEFINE R == s[1].shape[1]
                 b == [i \in 1..R |-> x[NextOf(s, i-1)]]
      <4>1. R \in Nat
        <5>1. 0 \in Nat
          OBVIOUS
        <5>2. QED
          BY <3>2, <5>1, NextStack
      <4>2. \A i \in 1..R : x[NextOf(s, i-1)] \in Seq(Y)
        <5>1. \A i \in 1..R : i-1 \in Nat
          BY <4>1
        <5>2. \A i \in 1..R : NextOf(s, i-1) \in Stacks
          BY <3>2, <5>1, NextStack
        <5> HIDE DEF Y
        <5>3. QED
          BY <5>2
      <4> HIDE DEF R, Y
      <4>3. b \in Seq(Seq(Y))
        BY <4>1, <4>2
      <4>4. UntilError(b) \in Seq(Y)
        <5> HIDE DEF b
        <5>1. QED
          BY <4>3, UntilType
      <4>5. QED
        BY <3>2, <4>4 DEF R
    <3>3. QED
      BY <3>1, <3>2
  <2> HIDE DEF Go, Y
  <2>2. QED
    BY <2>1
<1> HIDE DEF Go, V, a, Y
<1>3. H \in [1..n -> [V -> V]]
  <2> HIDE DEF E
  <2>1. QED
    BY <1>2
<1>4. PICK g \in [0..n -> V] : Follows(g, n, a, H)
  <2> HIDE DEF H
  <2>1. QED
    BY <1>1, <1>3, RecursionExists
<1>5. g[0] = a /\ \A k \in 1..n : g[k] = E(g[k-1])
  <2> SUFFICES ASSUME NEW k \in 1..n PROVE g[k] = E(g[k-1])
    BY <1>4 DEF Follows
  <2>1. g[k-1] \in V
    OBVIOUS
  <2> HIDE DEF E
  <2>2. QED
    BY <1>4, <2>1 DEF Follows
<1>6. g = Body(g)
  <2>1. ASSUME NEW k \in 0..n PROVE g[k] = [s \in Stacks |-> IF k = 0 THEN <<s>> ELSE Go(g[k-1], s)]
    <3>1. CASE k = 0
      BY <1>5, <3>1 DEF a
    <3>2. CASE k # 0
      <4>1. k \in 1..n
        BY <3>2
      <4>2. g[k] = [s \in Stacks |-> Go(g[k-1], s)]
        BY <1>5, <4>1
      <4>3. QED
        BY <3>2, <4>2
    <3>3. QED
      BY <3>1, <3>2
  <2>2. QED
    BY <2>1
<1> DEFINE v == CHOOSE f : f = Body(f)
<1>7. v = Body(v)
  <2> HIDE DEF Body
  <2>1. QED
    BY <1>6
<1>8. \A s \in Stacks : gm_xnd_map(s, n) = v[n][s]
  BY DEF gm_xnd_map, Go, Differ
<1> HIDE DEF v
<1>9. \A m \in 0..n : \A s \in Stacks : v[m][s] = IF m = 0 THEN <<s>> ELSE Go(v[m-1], s)
  BY <1>7
<1> HIDE DEF Body
<1>10. \A s \in Stacks : v[0][s] = <<s>>
  <2>1. 0 \in 0..n
    OBVIOUS
  <2>2. QED
    BY <1>9, <2>1
<1>11. \A m \in 1..n : \A s \in Stacks : v[m][s] = Go(v[m-1], s)
  <2>1. \A m \in 1..n : m \in 0..n /\ m # 0
    OBVIOUS
  <2>2. QED
    BY <1>9, <2>1
<1>12. Walks(v, n)
  BY <1>8, <1>10, <1>11 DEF Walks, Go
<1>13. QED
  BY <1>12

LEMMA RowsNone == ASSUME NEW p, NEW s, Begins(p, s), Len(p) = 0 PROVE Rows(p, s) = <<s>>
<1>1. p \in Shapes /\ s \in Stacks
  BY DEF Begins
<1>2. Product(p) = 1
  BY <1>1, ProductNone
<1>3. Len(s) \in Nat /\ DOMAIN s = 1..Len(s) /\ s = [k \in DOMAIN s |-> s[k]] /\ \A k \in DOMAIN s : s[k] \in Placed
  BY <1>1, StackIs DEF Stacks
<1>4. RowMajorIndices(p)[1] \in [1..0 -> Nat]
  <2>1. 1 \in 1..Product(p)
    BY <1>2
  <2>2. RowMajorIndices(p)[1] \in [1..Len(p) -> Nat]
    BY <1>1, <2>1, RowMajorType
  <2>3. QED
    BY <2>2
<1> DEFINE idx == RowMajorIndices(p)[1]
<1> HIDE DEF idx
<1>5. [k \in DOMAIN s |-> Advance(s[k], idx)] = s
  <2>1. \A k \in DOMAIN s : Advance(s[k], idx) = s[k]
    BY <1>3, <1>4, AdvanceNone DEF idx
  <2>2. QED
    BY <1>3, <2>1
<1>6. Rows(p, s) = [r \in 1..1 |-> s]
  <2>1. \A r \in 1..1 : r = 1
    OBVIOUS
  <2>2. Rows(p, s) = [r \in 1..1 |-> [k \in DOMAIN s |-> Advance(s[k], RowMajorIndices(p)[r])]]
    BY <1>2 DEF Rows
  <2>3. \A r \in 1..1 : [k \in DOMAIN s |-> Advance(s[k], RowMajorIndices(p)[r])] = s
    BY <1>5, <2>1 DEF idx
  <2>4. QED
    BY <2>2, <2>3
<1>7. QED
  BY <1>6

\* gm_xnd_map() calls the kernel once with the arrays at each index of the outer dimensions, in order.
LEMMA MapMeans ==
  ASSUME NEW p, NEW s, Begins(p, s) PROVE gm_xnd_map(s, Len(p)) = Rows(p, s)
<1> DEFINE n == Len(p)
<1>1. n \in Nat
  BY DEF Begins, Shapes
<1>2. PICK v : Walks(v, n)
  BY <1>1, MapRec
<1> DEFINE T == {m \in 0..n : \A u, t : Begins(u, t) /\ Len(u) = m => v[m][t] = Rows(u, t)}
<1>3. 0 \in T
  <2>1. ASSUME NEW u, NEW t, Begins(u, t), Len(u) = 0 PROVE v[0][t] = Rows(u, t)
    BY <1>2, <2>1, RowsNone DEF Walks, Begins
  <2>2. QED
    BY <1>1, <2>1
<1>4. ASSUME NEW m \in 0..(n-1), m \in T PROVE m+1 \in T
  <2> DEFINE b == m+1
  <2>1. b \in 1..n /\ b \in 0..n /\ b-1 = m
    BY <1>1
  <2> HIDE DEF b
  <2>2. ASSUME NEW u, NEW t, Begins(u, t), Len(u) = b PROVE v[b][t] = Rows(u, t)
    <3>1. u # << >> /\ t \in Stacks /\ u \in Shapes
      <4>1. Len(u) # 0
        BY <2>1, <2>2
      <4>2. QED
        BY <2>2, <4>1 DEF Begins
    <3>2. \A k \in DOMAIN t : t[k].shape # << >> /\ t[k].shape[1] = u[1]
      <4>1. 0 \in Nat
        OBVIOUS
      <4>2. QED
        BY <2>2, <3>1, <4>1, BeginsNext
    <3>3. 1 \in DOMAIN t
      BY <3>1, StackIs
    <3>4. ~Differ(t) /\ t[1].shape[1] = u[1]
      BY <3>2, <3>3 DEF Differ, Range
    <3> DEFINE R == u[1]
               a == After(u, 1)
               blocks == [i \in 1..R |-> Rows(a, NextOf(t, i-1))]
    <3>5. v[b][t] = UntilError([i \in 1..R |-> v[m][NextOf(t, i-1)]])
      BY <1>2, <2>1, <3>1, <3>4 DEF Walks
    <3>6. R \in Nat /\ Len(a) = m
      BY <2>1, <2>2, <3>1, FirstExtent
    <3>7. ASSUME NEW i \in 1..R PROVE v[m][NextOf(t, i-1)] = Rows(a, NextOf(t, i-1))
      <4> DEFINE j == i-1
      <4>1. j \in Nat
        BY <3>6
      <4> HIDE DEF j
      <4>2. Begins(a, NextOf(t, j))
        BY <2>2, <3>1, <4>1, BeginsNext
      <4> HIDE DEF a
      <4>3. v[m][NextOf(t, j)] = Rows(a, NextOf(t, j))
        BY <1>4, <3>6, <4>2
      <4>4. QED
        BY <4>3 DEF j
    <3>8. v[b][t] = UntilError(blocks)
      BY <3>5, <3>7
    <3>9. BlocksOf(Stacks, R, Product(a), blocks, Rows(u, t))
      BY <2>2, <3>1, RowsBlocks
    <3>10. UntilError(blocks) = Rows(u, t)
      <4>1. Error \notin Stacks
        BY DEF Error, Stacks
      <4> HIDE DEF blocks, R, a
      <4>2. QED
        BY <3>9, <4>1, UntilFlat
    <3>11. QED
      BY <3>8, <3>10
  <2>3. b \in T
    BY <2>1, <2>2
  <2>4. QED
    BY <2>3 DEF b
<1>5. n \in T
  <2> HIDE DEF T, n
  <2>1. \A m \in 0..n : m \in T
    BY <1>1, <1>3, <1>4, UpTo
  <2>2. QED
    BY <1>1, <2>1
<1>6. v[n][s] = Rows(p, s) /\ s \in Stacks
  BY <1>5 DEF Begins
<1>7. QED
  BY <1>2, <1>6 DEF Walks

-----------------------------------------------------------------------------
(* The elements on which the kernel works.                                 *)

\* The places of the elements of all arrays of a stack, in row-major order.
Places(S, s) == [r \in 1..Product(S) |-> [k \in DOMAIN s |-> s[k].at + Offset(s[k], RowMajorIndices(S)[r])]]

\* One dimension more.
LEMMA OffsetLast ==
  ASSUME NEW x, x.steps \in Seq(Int), NEW n \in Nat \ {0}, n <= Len(x.steps),
         NEW idx \in [1..n -> Nat], NEW jdx \in [1..(n-1) -> Nat], \A j \in 1..(n-1) : jdx[j] = idx[j]
  PROVE  Offset(x, idx) = Offset(x, jdx) + idx[n] * x.steps[n] /\ Offset(x, jdx) \in Int
<1> DEFINE m == n-1
           a == Terms(x, idx)
           b == Terms(x, jdx)
<1>1. m \in Nat /\ m <= Len(x.steps) /\ n \in Nat /\ n = m+1 /\ jdx \in [1..m -> Nat]
  <2>1. Len(x.steps) \in Nat
    OBVIOUS
  <2>2. QED
    BY <2>1
<1> HIDE DEF m
<1>2. /\ a \in Seq(Int) /\ Len(a) = n /\ \A j \in 1..n : a[j] = idx[j] * x.steps[j]
      /\ Offset(x, idx) = Total(a)
  BY <1>1, AlongType
<1>3. /\ b \in Seq(Int) /\ Len(b) = m /\ \A j \in 1..m : b[j] = jdx[j] * x.steps[j]
      /\ Offset(x, jdx) = Total(b) /\ Offset(x, jdx) \in Int
  BY ONLY <1>1, x.steps \in Seq(Int), AlongType
<1> HIDE DEF a, b
<1>4. \A j \in 1..m : a[j] = b[j]
  <2>1. \A j \in 1..m : j \in 1..n /\ j \in 1..(n-1)
    BY <1>1
  <2>2. QED
    BY <1>2, <1>3, <2>1
<1>5. PICK g \in [0..Len(a) -> Int] : Totals(a, g)
  BY <1>2, TotalRec
<1>6. PICK h \in [0..Len(b) -> Int] : Totals(b, h)
  BY <1>3, TotalRec
<1> DEFINE T == {j \in 0..m : g[j] = h[j]}
<1>7. 0 \in T
  BY <1>1, <1>5, <1>6 DEF Totals
<1>8. ASSUME NEW j \in 0..(m-1), j \in T PROVE j+1 \in T
  <2> DEFINE i == j+1
  <2>1. i \in 1..m /\ i \in 1..n /\ i \in 0..m /\ i-1 = j
    BY <1>1
  <2> HIDE DEF i
  <2>2. g[i] = g[i-1] + a[i] /\ h[i] = h[i-1] + b[i]
    BY <1>2, <1>3, <1>5, <1>6, <2>1 DEF Totals
  <2>3. g[i] = h[i]
    BY <1>4, <1>8, <2>1, <2>2
  <2>4. QED
    BY <2>1, <2>3 DEF i
<1> HIDE DEF T
<1>9. m \in T
  <2>1. \A j \in 0..m : j \in T
    BY <1>1, <1>7, <1>8, UpTo
  <2>2. QED
    BY <1>1, <2>1
<1>10. Total(a) = g[m] + a[n]
  <2>1. n \in 1..Len(a) /\ n-1 = m
    BY <1>1, <1>2
  <2>2. QED
    BY <1>2, <1>5, <2>1 DEF Totals
<1>11. Total(b) = g[m]
  BY <1>3, <1>6, <1>9 DEF Totals, T
<1>12. a[n] = idx[n] * x.steps[n]
  <2>1. n \in 1..n
    BY <1>1
  <2>2. QED
    BY <1>2, <2>1
<1>13. QED
  BY <1>2, <1>3, <1>10, <1>11, <1>12

\* An index that goes on with zeros.
LEMMA OffsetZeros ==
  ASSUME NEW x, x.steps \in Seq(Int), NEW n \in Nat, NEW m \in Nat, m <= n, n <= Len(x.steps),
         NEW idx \in [1..n -> Nat], NEW jdx \in [1..m -> Nat],
         \A j \in 1..m : jdx[j] = idx[j], \A j \in 1..n : j > m => idx[j] = 0
  PROVE  Offset(x, idx) = Offset(x, jdx)
<1> DEFINE a == Terms(x, idx)
           b == Terms(x, jdx)
<1>1. /\ a \in Seq(Int) /\ Len(a) = n /\ \A j \in 1..n : a[j] = idx[j] * x.steps[j]
      /\ Offset(x, idx) = Total(a)
  BY AlongType
<1>2. m <= Len(x.steps)
  <2>1. Len(x.steps) \in Nat
    OBVIOUS
  <2>2. QED
    BY <2>1
<1>3. /\ b \in Seq(Int) /\ Len(b) = m /\ \A j \in 1..m : b[j] = jdx[j] * x.steps[j]
      /\ Offset(x, jdx) = Total(b)
  BY <1>2, AlongType
<1> HIDE DEF a, b
<1>4. \A j \in 1..m : a[j] = b[j]
  <2>1. \A j \in 1..m : j \in 1..n
    OBVIOUS
  <2>2. QED
    BY <1>1, <1>3, <2>1
<1>5. ASSUME NEW j \in 1..n, j > m PROVE a[j] = 0
  <2>1. a[j] = 0 * x.steps[j] /\ x.steps[j] \in Int
    <3>1. j \in 1..Len(x.steps)
      <4>1. Len(x.steps) \in Nat
        OBVIOUS
      <4>2. QED
        BY <4>1
    <3>2. x.steps[j] \in Int
      BY <3>1
    <3>3. idx[j] = 0
      BY <1>5
    <3>4. QED
      BY <1>1, <3>2, <3>3
  <2>2. QED
    BY <2>1
<1>6. PICK g \in [0..Len(a) -> Int] : Totals(a, g)
  BY <1>1, TotalRec
<1>7. PICK h \in [0..Len(b) -> Int] : Totals(b, h)
  BY <1>3, TotalRec
<1> DEFINE T == {j \in 0..n : g[j] = IF j <= m THEN h[j] ELSE h[m]}
<1>8. 0 \in T
  BY <1>6, <1>7 DEF Totals
<1>9. ASSUME NEW j \in 0..(n-1), j \in T PROVE j+1 \in T
  <2> DEFINE i == j+1
  <2>1. i \in 1..n /\ i \in 0..n /\ i-1 = j
    OBVIOUS
  <2> HIDE DEF i
  <2>2. g[i] = g[j] + a[i] /\ g[j] = IF j <= m THEN h[j] ELSE h[m]
    BY <1>1, <1>6, <1>9, <2>1 DEF Totals
  <2>3. CASE i <= m
    <3>1. i \in 1..m /\ j <= m
      BY <2>1, <2>3
    <3>2. h[i] = h[j] + b[i] /\ a[i] = b[i]
      BY <1>3, <1>4, <1>7, <2>1, <3>1 DEF Totals
    <3>3. QED
      BY <2>1, <2>2, <2>3, <3>1, <3>2 DEF i
  <2>4. CASE ~(i <= m)
    <3>1. a[i] = 0 /\ i > m
      <4>1. i > m
        BY <2>1, <2>4
      <4>2. QED
        BY <1>5, <2>1, <4>1
    <3>2. g[j] = h[m]
      <4>1. j <= m => j = m
        BY <2>1, <2>4
      <4>2. QED
        BY <2>2, <4>1
    <3>3. h[m] \in Int
      <4>1. m \in 0..Len(b)
        BY <1>3
      <4>2. QED
        BY <4>1
    <3>4. g[i] = h[m]
      BY <2>2, <3>1, <3>2, <3>3
    <3>5. QED
      BY <2>1, <2>4, <3>4 DEF i
  <2>5. QED
    BY <2>3, <2>4
<1> HIDE DEF T
<1>10. n \in T
  <2>1. \A j \in 0..n : j \in T
    BY <1>8, <1>9, UpTo
  <2>2. QED
    BY <2>1
<1>11. g[n] = h[m]
  BY <1>10 DEF T
<1>12. QED
  BY <1>1, <1>3, <1>6, <1>7, <1>11 DEF Totals

\* All dimensions but the last, and the index in the last one.
LEMMA LastExtent ==
  ASSUME NEW S \in Shapes, S # << >>
  PROVE  LET n == Len(S)
             P == SubSeq(S, 1, n-1)
         IN  /\ n \in Nat \ {0} /\ n-1 \in Nat /\ S[n] \in Nat
             /\ P \in Shapes /\ Len(P) = n-1 /\ \A j \in 1..(n-1) : P[j] = S[j]
             /\ After(S, n-1) \in Shapes /\ Len(After(S, n-1)) = 1 /\ After(S, n-1)[1] = S[n]
             /\ Product(After(S, n-1)) = S[n]
             /\ Product(S) = Product(P) * S[n] /\ Product(P) \in Nat
<1> DEFINE n == Len(S)
           m == n-1
           P == SubSeq(S, 1, m)
           A == After(S, m)
<1>1. S \in Seq(Nat) /\ n \in Nat \ {0} /\ m \in Nat /\ m <= n /\ n-m = 1 /\ m+1 = n /\ m \in 0..Len(S)
  BY EmptySeq DEF Shapes
<1>2. S[n] \in Nat
  BY <1>1
<1> HIDE DEF m
<1>3. P \in Seq(Nat) /\ Len(P) = m /\ \A j \in 1..m : P[j] = S[j]
  BY ONLY <1>1, PrefixIs
<1>4. A \in Seq(Nat) /\ Len(A) = n-m /\ \A j \in 1..(n-m) : A[j] = S[m+j]
  BY ONLY <1>1, AfterIs
<1>5. Product(S) = Product(P) * Product(A) /\ Product(P) \in Nat
  BY <1>1, ProductSplit
<1> HIDE DEF P, A, n
<1>6. Len(A) = 1 /\ A[1] = S[n]
  <2>1. 1 \in 1..(n-m)
    BY <1>1
  <2>2. QED
    BY <1>1, <1>4, <2>1
<1>7. Product(A) = S[n]
  BY <1>4, <1>6, ProductOne DEF Shapes
<1>8. QED
  BY <1>1, <1>2, <1>3, <1>4, <1>5, <1>6, <1>7 DEF Shapes, n, m, P, A

LEMMA LastIndex ==
  ASSUME NEW S \in Shapes, S # << >>,
         NEW r \in 1..Product(SubSeq(S, 1, Len(S)-1)), NEW i \in 1..S[Len(S)],
         NEW k, k = (r-1) * S[Len(S)] + i
  PROVE  /\ k \in 1..Product(S) /\ RowMajorIndices(S)[k][Len(S)] = i-1
         /\ \A j \in 1..(Len(S)-1) : RowMajorIndices(S)[k][j] = RowMajorIndices(SubSeq(S, 1, Len(S)-1))[r][j]
<1> DEFINE n == Len(S)
           m == n-1
           A == After(S, m)
<1>1. /\ n \in Nat \ {0} /\ m \in Nat /\ S[n] \in Nat /\ A \in Shapes /\ Len(A) = 1 /\ A[1] = S[n]
      /\ Product(A) = S[n]
  BY LastExtent
<1>2. m <= Len(S) /\ Len(S)-m = 1 /\ m+1 = n
  BY <1>1
<1>3. i \in 1..Product(A) /\ k = (r-1) * Product(A) + i /\ r \in 1..Product(SubSeq(S, 1, m))
  BY <1>1
<1> HIDE DEF m, A
<1>4. /\ k \in 1..Product(S)
      /\ \A j \in 1..m : RowMajorIndices(S)[k][j] = RowMajorIndices(SubSeq(S, 1, m))[r][j]
      /\ \A j \in 1..(Len(S)-m) : RowMajorIndices(S)[k][m+j] = RowMajorIndices(A)[i][j]
  BY ONLY S \in Shapes, <1>1, <1>2, <1>3, IndexSplit DEF A
<1>5. RowMajorIndices(S)[k][n] = RowMajorIndices(A)[i][1]
  <2>1. 1 \in 1..(Len(S)-m)
    BY <1>2
  <2>2. QED
    BY <1>2, <1>4, <2>1
\* The array of the last dimension has only itself.
<1>6. RowMajorIndices(A)[i][1] = i-1
  <2> DEFINE Q == After(A, 1)
             q == 1
  <2>1. A # << >> /\ i \in 1..A[1] /\ Product(Q) = 1
    <3>1. A # << >> /\ i \in 1..A[1]
      <4>1. A[1] = S[n] /\ Len(A) = 1 /\ Len(<< >>) = 0
        BY <1>1
      <4>2. QED
        BY ONLY <4>1, i \in 1..S[n]
    <3>2. Q \in Shapes /\ Len(Q) = 0
      <4>1. Q \in Shapes /\ Len(Q) = Len(A)-1
        BY <1>1, <3>1, FirstExtent
      <4>2. QED
        BY ONLY <1>1, <4>1
    <3>3. QED
      BY <3>1, <3>2, ProductNone
  <2> HIDE DEF Q
  <2>2. q \in 1..Product(Q) /\ i = (i-1) * Product(Q) + q
    BY <2>1
  <2> HIDE DEF q
  <2>3. RowMajorIndices(A)[i][1] = i-1
    BY ONLY <1>1, <2>1, <2>2, FirstIndex DEF Q
  <2>4. QED
    BY <2>3
<1>7. QED
  BY <1>4, <1>5, <1>6 DEF m

\* Fewer dimensions than all arrays have.
LEMMA BeginsLess ==
  ASSUME NEW S, NEW s, Begins(S, s), NEW m \in Nat, m <= Len(S) PROVE Begins(SubSeq(S, 1, m), s)
<1> DEFINE P == SubSeq(S, 1, m)
<1>1. S \in Seq(Nat) /\ s \in Stacks /\ Len(S) \in Nat
  BY DEF Begins, Shapes
<1>2. P \in Seq(Nat) /\ Len(P) = m /\ \A j \in 1..m : P[j] = S[j]
  BY ONLY <1>1, m \in Nat, m <= Len(S), PrefixIs
<1> HIDE DEF P
<1>3. ASSUME NEW k \in DOMAIN s PROVE m <= Len(s[k].shape) /\ \A j \in 1..m : s[k].shape[j] = P[j]
  <2>1. Len(S) <= Len(s[k].shape) /\ \A j \in 1..Len(S) : s[k].shape[j] = S[j]
    BY DEF Begins
  <2>2. s[k] \in Placed /\ Len(s[k].shape) \in Nat
    BY <1>1, StackIs, PlacedIs
  <2> DEFINE w == s[k].shape
             n == Len(S)
  <2>3. n \in Nat /\ m <= n /\ n <= Len(w) /\ Len(w) \in Nat /\ \A j \in 1..n : w[j] = S[j]
    BY <1>1, <2>1, <2>2
  <2> HIDE DEF w, n
  <2>4. m <= Len(w) /\ \A j \in 1..m : j \in 1..n
    BY <2>3
  <2>5. \A j \in 1..m : w[j] = P[j]
    BY <1>2, <2>3, <2>4
  <2>6. QED
    BY <2>4, <2>5 DEF w
<1>4. QED
  BY <1>1, <1>2, <1>3 DEF Begins, Shapes, P

LEMMA PlacesType ==
  ASSUME NEW S, NEW s, Begins(S, s)
  PROVE  /\ Places(S, s) \in Seq([DOMAIN s -> Int]) /\ Len(Places(S, s)) = Product(S) /\ Product(S) \in Nat
<1>1. S \in Shapes /\ s \in Stacks /\ Product(S) \in Nat /\ Len(S) \in Nat
  BY ProductType DEF Begins, Shapes
<1>2. ASSUME NEW r \in 1..Product(S), NEW k \in DOMAIN s
      PROVE  s[k].at + Offset(s[k], RowMajorIndices(S)[r]) \in Int
  <2> DEFINE x == s[k]
             idx == RowMajorIndices(S)[r]
             n == Len(S)
  <2>1. x \in Placed /\ n <= Len(x.shape)
    BY <1>1, StackIs DEF Begins
  <2>2. idx \in [1..n -> Nat] /\ n \in Nat
    BY <1>1, RowMajorType
  <2> HIDE DEF x, idx, n
  <2>3. x.at \in Int /\ x.steps \in Seq(Int) /\ n <= Len(x.steps)
    BY <2>1, PlacedIs
  <2>4. Offset(x, idx) \in Int
    BY ONLY <2>2, <2>3, AlongType
  <2>5. x.at + Offset(x, idx) \in Int
    BY <2>3, <2>4
  <2>6. QED
    BY <2>5 DEF x, idx
<1>3. QED
  BY <1>1, <1>2 DEF Places

\* Rows of the last of the dimensions, one after the other.
LEMMA LastDimension ==
  ASSUME NEW S, NEW s, Begins(S, s), S # << >>, NEW blocks,
         blocks = [r \in 1..Product(SubSeq(S, 1, Len(S)-1)) |->
                     [i \in 1..S[Len(S)] |->
                        [k \in DOMAIN s |->
                           Rows(SubSeq(S, 1, Len(S)-1), s)[r][k].at + (i-1) * s[k].steps[Len(S)]]]]
  PROVE  FlattenSeq(blocks) = Places(S, s)
<1> DEFINE n == Len(S)
           m == n-1
           P == SubSeq(S, 1, m)
           R == Product(P)
           L == S[n]
           X == [DOMAIN s -> Int]
           t == Places(S, s)
           B(r, i) == [k \in DOMAIN s |-> Rows(P, s)[r][k].at + (i-1) * s[k].steps[n]]
<1>1. S \in Shapes /\ s \in Stacks /\ \A k \in DOMAIN s : s[k] \in Placed /\ n <= Len(s[k].shape)
  BY StackIs DEF Begins
<1>2. /\ n \in Nat \ {0} /\ m \in Nat /\ L \in Nat /\ P \in Shapes /\ Len(P) = m
      /\ Product(S) = R*L /\ R \in Nat /\ m <= n
  <2>1. /\ n \in Nat \ {0} /\ m \in Nat /\ L \in Nat /\ P \in Shapes /\ Len(P) = m
        /\ Product(S) = R*L /\ R \in Nat
    BY <1>1, LastExtent
  <2>2. QED
    BY <2>1
<1>3. Begins(P, s)
  BY <1>2, BeginsLess
<1>4. ASSUME NEW r \in 1..R, NEW i \in 1..L, NEW k \in DOMAIN s
      PROVE  LET c == (r-1)*L+i
             IN  /\ Rows(P, s)[r][k].at + (i-1) * s[k].steps[n] = s[k].at + Offset(s[k], RowMajorIndices(S)[c])
                 /\ Rows(P, s)[r][k].at + (i-1) * s[k].steps[n] \in Int
                 /\ c \in 1..Product(S)
  <2> DEFINE c == (r-1)*L+i
             x == s[k]
             idx == RowMajorIndices(S)[c]
             jdx == RowMajorIndices(P)[r]
             w == x.steps[n]
  <2>1. c \in 1..Product(S) /\ idx[n] = i-1 /\ \A j \in 1..m : idx[j] = jdx[j]
    BY <1>1, LastIndex
  <2>2. idx \in [1..n -> Nat]
    BY <1>1, <2>1, RowMajorType
  <2>3. jdx \in [1..m -> Nat]
    <3>1. jdx \in [1..Len(P) -> Nat]
      BY <1>2, RowMajorType
    <3>2. QED
      BY <1>2, <3>1
  <2>4. /\ x \in Placed /\ n <= Len(x.shape) /\ m <= Len(x.shape)
        /\ x.at \in Int /\ x.steps \in Seq(Int) /\ n <= Len(x.steps) /\ w \in Int
    <3>1. x \in Placed /\ n <= Len(x.shape)
      BY <1>1
    <3>2. x.at \in Int /\ x.steps \in Seq(Int) /\ Len(x.steps) = Len(x.shape) /\ Len(x.shape) \in Nat
      <4> HIDE DEF x
      <4>1. QED
        BY <3>1, PlacedIs
    <3>3. m <= Len(x.shape) /\ n \in 1..Len(x.steps)
      BY <1>2, <3>1, <3>2
    <3>4. QED
      BY <3>1, <3>2, <3>3
  <2>5. Rows(P, s)[r][k] = Advance(x, jdx)
    BY <1>3, RowsType
  <2> HIDE DEF x, idx, jdx, w, c
  <2>6. Advance(x, jdx).at = x.at + Offset(x, jdx)
    <3> HIDE DEF n, m
    <3>1. QED
      BY <1>2, <2>3, <2>4, AdvanceType
  <2>7. Offset(x, idx) = Offset(x, jdx) + idx[n] * x.steps[n] /\ Offset(x, jdx) \in Int
    <3>1. jdx \in [1..(n-1) -> Nat] /\ \A j \in 1..(n-1) : jdx[j] = idx[j]
      BY <2>1, <2>3
    <3> HIDE DEF n, m
    <3>2. QED
      BY ONLY <1>2, <2>2, <2>4, <3>1, OffsetLast
  <2> DEFINE e == (i-1) * w
             o == Offset(x, jdx)
  <2>8. e \in Int /\ o \in Int /\ Offset(x, idx) = o + e /\ Rows(P, s)[r][k].at = x.at + o
    <3>1. i-1 \in Int
      BY <1>2
    <3>2. e \in Int
      BY <2>4, <3>1
    <3>3. QED
      BY <2>1, <2>5, <2>6, <2>7, <3>2 DEF w
  <2> HIDE DEF e, o
  <2>9. Rows(P, s)[r][k].at + e = x.at + Offset(x, idx) /\ Rows(P, s)[r][k].at + e \in Int
    BY <2>4, <2>8
  <2>10. QED
    BY <2>1, <2>9 DEF e, w, x, idx, c
<1>5. ASSUME NEW r \in 1..R, NEW i \in 1..L PROVE B(r, i) \in X /\ t[(r-1)*L+i] = B(r, i)
  <2> DEFINE c == (r-1)*L+i
  <2>1. \A k \in DOMAIN s : Rows(P, s)[r][k].at + (i-1) * s[k].steps[n] \in Int
    BY <1>4
  <2>2. \A k \in DOMAIN s :
          Rows(P, s)[r][k].at + (i-1) * s[k].steps[n] = s[k].at + Offset(s[k], RowMajorIndices(S)[c])
    BY <1>4
  <2>3. c \in 1..Product(S)
    <3>1. r \in 1..Product(SubSeq(S, 1, Len(S)-1)) /\ i \in 1..S[Len(S)]
      OBVIOUS
    <3>2. QED
      BY <1>1, <3>1, LastIndex
  <2> HIDE DEF c
  <2>4. t[c] = [k \in DOMAIN s |-> s[k].at + Offset(s[k], RowMajorIndices(S)[c])]
    BY <2>3 DEF Places
  <2>5. t[c] = B(r, i)
    BY <2>2, <2>4
  <2>6. QED
    BY <2>1, <2>5 DEF c
<1>6. blocks = [r \in 1..R |-> [i \in 1..L |-> B(r, i)]]
  OBVIOUS
<1>7. t \in Seq(X) /\ Len(t) = R*L
  BY <1>2, PlacesType
<1> HIDE DEF n, m, P, R, L, X, t, B
<1>8. ASSUME NEW r \in 1..R PROVE blocks[r] \in Seq(X) /\ Len(blocks[r]) = L /\ \A i \in 1..L : blocks[r][i] = B(r, i)
  <2> DEFINE b == blocks[r]
  <2>1. b = [i \in 1..L |-> B(r, i)]
    BY <1>6
  <2>2. \A i \in 1..L : B(r, i) \in X
    BY <1>5
  <2> HIDE DEF b
  <2>3. b \in [1..L -> X] /\ L \in Nat
    BY <1>2, <2>1, <2>2
  <2>4. b \in Seq(X) /\ Len(b) = L
    BY ONLY <2>3
  <2>5. \A i \in 1..L : b[i] = B(r, i)
    BY <2>1
  <2>6. QED
    BY <2>4, <2>5 DEF b
<1>9. blocks \in [1..R -> Seq(X)]
  BY <1>6, <1>8
<1>10. \A r \in 1..R : \A i \in 1..L : t[(r-1)*L+i] = blocks[r][i]
  BY <1>5, <1>8
<1>11. BlocksOf(X, R, L, blocks, t)
  BY <1>2, <1>7, <1>8, <1>9, <1>10 DEF BlocksOf
<1>12. FlattenSeq(blocks) = t
  BY <1>11, BlocksFlat
<1>13. QED
  BY <1>12 DEF t

\* Kernels that are called for each index of the outer dimensions.
LEMMA RunRows ==
  ASSUME NEW S, NEW s, Begins(S, s), NEW rows, rows = Rows(S, s), NEW blocks,
         blocks = [i \in DOMAIN rows |-> IF rows[i] = Error THEN <<Error>>
                                         ELSE <<[k \in DOMAIN rows[i] |-> rows[i][k].at]>>]
  PROVE  FlattenSeq(blocks) = Places(S, s)
<1> DEFINE R == Product(S)
           X == [DOMAIN s -> Int]
           t == Places(S, s)
<1>1. S \in Shapes /\ s \in Stacks
  BY DEF Begins
<1>2. /\ rows \in Seq(Stacks) /\ Len(rows) = R /\ R \in Nat /\ DOMAIN rows = 1..R
      /\ \A r \in 1..R : /\ rows[r] \in Stacks /\ DOMAIN rows[r] = DOMAIN s
                         /\ \A k \in DOMAIN s : rows[r][k] = Advance(s[k], RowMajorIndices(S)[r])
  <2>1. /\ rows \in Seq(Stacks) /\ Len(rows) = R /\ R \in Nat
        /\ \A r \in 1..R : /\ rows[r] \in Stacks /\ DOMAIN rows[r] = DOMAIN s
                           /\ \A k \in DOMAIN s : rows[r][k] = Advance(s[k], RowMajorIndices(S)[r])
    BY RowsType
  <2>2. QED
    BY <2>1
<1>3. t \in Seq(X) /\ Len(t) = R
  BY PlacesType
<1>4. ASSUME NEW r \in 1..R PROVE blocks[r] = <<t[r]>>
  <2>1. rows[r] # Error
    BY <1>2 DEF Error, Stacks
  <2>2. ASSUME NEW k \in DOMAIN s PROVE rows[r][k].at = s[k].at + Offset(s[k], RowMajorIndices(S)[r])
    <3> DEFINE x == s[k]
               idx == RowMajorIndices(S)[r]
               n == Len(S)
    <3>1. x \in Placed /\ n <= Len(x.shape) /\ n \in Nat
      BY <1>1, StackIs DEF Begins, Shapes
    <3>2. idx \in [1..n -> Nat]
      BY <1>1, RowMajorType
    <3> HIDE DEF x, idx, n
    <3>3. Advance(x, idx).at = x.at + Offset(x, idx)
      BY <3>1, <3>2, AdvanceType
    <3>4. QED
      BY <1>2, <3>3 DEF x, idx
  <2>3. t[r] = [k \in DOMAIN s |-> s[k].at + Offset(s[k], RowMajorIndices(S)[r])]
    BY DEF Places
  <2>4. [k \in DOMAIN rows[r] |-> rows[r][k].at] = t[r]
    <3> HIDE DEF t
    <3>1. QED
      BY <1>2, <2>2, <2>3
  <2>5. r \in DOMAIN rows
    BY <1>2
  <2>6. QED
    BY <2>1, <2>4, <2>5
<1>5. DOMAIN blocks = 1..R /\ blocks = [r \in 1..R |-> blocks[r]]
  BY <1>2
<1> HIDE DEF R, X, t
<1>6. \A r \in 1..R : t[r] \in X
  BY <1>3
<1>7. ASSUME NEW r \in 1..R PROVE blocks[r] \in Seq(X) /\ Len(blocks[r]) = 1 /\ blocks[r][1] = t[r]
  <2> DEFINE e == t[r]
  <2>1. e \in X /\ blocks[r] = <<e>>
    BY <1>4, <1>6
  <2> HIDE DEF e
  <2>2. <<e>> \in Seq(X) /\ Len(<<e>>) = 1 /\ <<e>>[1] = e
    BY ONLY <2>1
  <2>3. QED
    BY <2>1, <2>2 DEF e
<1>8. blocks \in [1..R -> Seq(X)]
  BY <1>5, <1>7
<1>9. \A r \in 1..R : \A q \in 1..1 : t[(r-1)*1+q] = blocks[r][q]
  <2> SUFFICES ASSUME NEW r \in 1..R, NEW q \in 1..1 PROVE t[(r-1)*1+q] = blocks[r][q]
    OBVIOUS
  <2>1. q = 1 /\ (r-1)*1+q = r
    BY <1>2
  <2>2. QED
    BY <1>7, <2>1
<1>10. BlocksOf(X, R, 1, blocks, t)
  <2>1. R*1 = R
    BY <1>2
  <2>2. QED
    BY <1>2, <1>3, <1>7, <1>8, <1>9, <2>1 DEF BlocksOf
<1>11. QED
  BY <1>10, BlocksFlat DEF t

LEMMA TailIs == ASSUME NEW X, NEW s \in Seq(X), s # << >> PROVE Tail(s) = After(s, 1)
<1>1. Len(s) \in Nat \ {0} /\ 1 \in Nat /\ 1 <= Len(s)
  BY EmptySeq
<1>2. Tail(s) \in Seq(X) /\ Len(Tail(s)) = Len(s)-1 /\ \A j \in 1..Len(Tail(s)) : Tail(s)[j] = s[j+1]
  BY HeadTailProperties
<1>3. After(s, 1) \in Seq(X) /\ Len(After(s, 1)) = Len(s)-1 /\ \A j \in 1..(Len(s)-1) : After(s, 1)[j] = s[1+j]
  BY ONLY s \in Seq(X), <1>1, AfterIs
<1>4. \A j \in 1..(Len(s)-1) : 1+j = j+1
  OBVIOUS
<1>5. QED
  BY <1>2, <1>3, <1>4, SeqEqual

\* The kernels for C-contiguous arguments take one step after the other instead of the steps that
\* the arrays have.
StepsPacked(S, s) ==
  kernel = "OptC" => \A k \in DOMAIN s :
    S[Len(S)] > 1 => s[k].steps[Len(S)] = Product(After(s[k].shape, Len(S)))

\* One row of an array.
LEMMA RowIs ==
  ASSUME NEW x \in Placed, NEW n \in Nat \ {0}, n <= Len(x.shape), NEW idx \in [1..(n-1) -> Nat]
  PROVE  /\ Advance(x, idx).shape[1] = x.shape[n] /\ Advance(x, idx).steps[1] = x.steps[n]
         /\ Tail(Advance(x, idx).shape) = After(x.shape, n)
         /\ x.shape[n] \in Nat /\ x.steps[n] \in Int
         /\ After(x.shape, n) \in Shapes /\ Product(After(x.shape, n)) \in Nat
<1> DEFINE m == n-1
           N == Len(x.shape)
           v == x.shape
           w == x.steps
           a == After(v, m)
           b == After(w, m)
<1>1. v \in Seq(Nat) /\ w \in Seq(Int) /\ Len(w) = N /\ N \in Nat
  BY PlacedIs
<1>2. m \in Nat /\ m <= N /\ m+1 = n /\ n <= N /\ N-m \in Nat \ {0} /\ n \in 1..N /\ idx \in [1..m -> Nat]
  BY <1>1
<1> HIDE DEF m
<1>3. Advance(x, idx).shape = a /\ Advance(x, idx).steps = b
  <2>1. m <= Len(x.shape)
    BY <1>2
  <2>2. QED
    BY <1>2, <2>1, AdvanceType
<1>4. v[n] \in Nat /\ w[n] \in Int
  BY <1>1, <1>2
<1> HIDE DEF v, w
<1>5. a \in Seq(Nat) /\ Len(a) = N-m /\ \A j \in 1..(N-m) : a[j] = v[m+j]
  BY ONLY <1>1, <1>2, AfterIs DEF N, v
<1>6. \A j \in 1..(N-m) : b[j] = w[m+j]
  <2>1. w \in Seq(Int) /\ m \in Nat /\ m <= Len(w) /\ Len(w) = N
    BY <1>1, <1>2
  <2>2. \A j \in 1..(Len(w)-m) : After(w, m)[j] = w[m+j]
    BY ONLY <2>1, AfterIs
  <2>3. QED
    BY <2>1, <2>2
<1> HIDE DEF a, b
<1>7. a[1] = v[n] /\ b[1] = w[n]
  <2>1. 1 \in 1..(N-m)
    BY <1>2
  <2>2. QED
    BY <1>2, <1>5, <1>6, <2>1
<1>8. Tail(a) = After(v, n)
  <2>1. a # << >>
    BY <1>2, <1>5
  <2>2. Tail(a) = After(a, 1)
    BY <1>5, <2>1, TailIs
  <2>3. After(After(v, m), 1) = After(v, n)
    <3> DEFINE e == 1
    <3>1. e \in Nat /\ m+e <= Len(v) /\ m+e = n
      BY <1>2 DEF N, v
    <3> HIDE DEF e
    <3>2. After(After(v, m), e) = After(v, m+e)
      BY ONLY <1>1, <1>2, <3>1, AfterAfter
    <3>3. QED
      BY <3>1, <3>2 DEF e
  <2>4. QED
    BY <2>2, <2>3 DEF a
<1>9. After(v, n) \in Shapes /\ Product(After(v, n)) \in Nat
  <2>1. n \in Nat /\ n <= Len(v)
    BY <1>2 DEF N, v
  <2>2. After(v, n) \in Seq(Nat)
    BY ONLY <1>1, <2>1, AfterIs
  <2>3. QED
    BY <2>2, ProductType DEF Shapes
<1>10. QED
  BY <1>3, <1>4, <1>7, <1>8, <1>9 DEF v, w

\* Kernels that loop over the last of the outer dimensions themselves.
LEMMA RunLoops ==
  ASSUME NEW S, NEW s, Begins(S, s), S # << >>, StepsPacked(S, s),
         NEW rows, rows = Rows(SubSeq(S, 1, Len(S)-1), s), NEW blocks,
         blocks = [i \in DOMAIN rows |-> IF rows[i] = Error THEN <<Error>> ELSE LoopOver(rows[i])]
  PROVE  FlattenSeq(blocks) = Places(S, s)
<1> DEFINE n == Len(S)
           m == n-1
           P == SubSeq(S, 1, m)
           R == Product(P)
           L == S[n]
<1>1. S \in Shapes /\ s \in Stacks
  BY DEF Begins
<1>2. n \in Nat \ {0} /\ m \in Nat /\ L \in Nat /\ P \in Shapes /\ Len(P) = m /\ m <= n
  <2>1. n \in Nat \ {0} /\ m \in Nat /\ L \in Nat /\ P \in Shapes /\ Len(P) = m
    BY <1>1, LastExtent
  <2>2. QED
    BY <2>1
<1>3. Begins(P, s)
  BY <1>2, BeginsLess
<1>4. /\ DOMAIN rows = 1..R
      /\ \A r \in 1..R : /\ rows[r] \in Stacks /\ DOMAIN rows[r] = DOMAIN s
                         /\ \A k \in DOMAIN s : rows[r][k] = Advance(s[k], RowMajorIndices(P)[r])
  <2>1. /\ rows \in Seq(Stacks) /\ Len(rows) = R /\ R \in Nat
        /\ \A r \in 1..R : /\ rows[r] \in Stacks /\ DOMAIN rows[r] = DOMAIN s
                           /\ \A k \in DOMAIN s : rows[r][k] = Advance(s[k], RowMajorIndices(P)[r])
    BY <1>3, RowsType
  <2>2. QED
    BY <2>1
<1>5. ASSUME NEW r \in 1..R, NEW k \in DOMAIN s
      PROVE  /\ rows[r][k].shape[1] = L
             /\ \A i \in 1..L : (i-1) * LoopStep(rows[r][k]) = (i-1) * s[k].steps[n]
  <2> DEFINE x == s[k]
             idx == RowMajorIndices(P)[r]
             y == rows[r][k]
             e == LoopStep(y)
             w == x.steps[n]
  <2>1. x \in Placed /\ n <= Len(x.shape) /\ \A j \in 1..n : x.shape[j] = S[j]
    BY <1>1, StackIs DEF Begins
  <2>2. y = Advance(x, idx)
    BY <1>4
  <2>3. idx \in [1..(n-1) -> Nat]
    <3>1. idx \in [1..Len(P) -> Nat]
      BY <1>2, RowMajorType
    <3>2. QED
      BY <1>2, <3>1
  <2>4. L > 1 /\ kernel = "OptC" => w = Product(After(x.shape, n))
    BY DEF StepsPacked
  <2> HIDE DEF x, idx
  <2>5. /\ Advance(x, idx).shape[1] = x.shape[n] /\ Advance(x, idx).steps[1] = x.steps[n]
        /\ Tail(Advance(x, idx).shape) = After(x.shape, n) /\ x.steps[n] \in Int
        /\ Product(After(x.shape, n)) \in Nat
    <3> HIDE DEF n
    <3>1. QED
      BY <1>2, <2>1, <2>3, RowIs
  <2>6. y.shape[1] = L
    <3>1. n \in 1..n
      BY <1>2
    <3>2. QED
      BY <2>1, <2>2, <2>5, <3>1
  <2>7. w \in Int /\ e \in Int /\ (L > 1 => e = w)
    <3>1. CASE kernel = "OptC"
      <4>1. e = Product(After(x.shape, n))
        BY <2>2, <2>5, <3>1 DEF LoopStep
      <4>2. QED
        BY <2>4, <2>5, <3>1, <4>1
    <3>2. CASE kernel # "OptC"
      <4>1. e = w
        BY <2>2, <2>5, <3>2 DEF LoopStep
      <4>2. QED
        BY <2>5, <4>1
    <3>3. QED
      BY <3>1, <3>2
  <2> HIDE DEF e, w, y, L
  <2>8. ASSUME NEW i \in 1..L PROVE (i-1) * e = (i-1) * w
    <3>1. CASE L > 1
      BY <2>7, <3>1
    <3>2. CASE ~(L > 1)
      <4>1. i-1 = 0
        BY <1>2, <3>2
      <4>2. 0 * e = 0 /\ 0 * w = 0
        BY <2>7
      <4>3. QED
        BY <4>1, <4>2
    <3>3. QED
      BY <3>1, <3>2
  <2>9. QED
    BY <2>6, <2>8 DEF e, w, y, x
<1>6. 1 \in DOMAIN s
  BY <1>1, StackIs
<1>7. ASSUME NEW r \in 1..R
      PROVE  blocks[r] = [i \in 1..L |-> [k \in DOMAIN s |-> Rows(P, s)[r][k].at + (i-1) * s[k].steps[n]]]
  <2> HIDE DEF n, m, P, R, L
  <2>1. r \in DOMAIN rows /\ rows[r] # Error
    BY <1>4 DEF Error, Stacks
  <2>2. blocks[r] = LoopOver(rows[r])
    BY <2>1
  <2>3. DOMAIN rows[r] = DOMAIN s /\ rows[r][1].shape[1] = L
    BY <1>4, <1>5, <1>6
  <2>4. LoopOver(rows[r]) = [i \in 1..L |-> [k \in DOMAIN s |-> rows[r][k].at + (i-1) * LoopStep(rows[r][k])]]
    BY <2>3 DEF LoopOver
  <2>5. \A i \in 1..L : \A k \in DOMAIN s : (i-1) * LoopStep(rows[r][k]) = (i-1) * s[k].steps[n]
    BY <1>5
  <2>6. rows = Rows(P, s)
    BY DEF P, m, n
  <2>7. QED
    BY <2>2, <2>4, <2>5, <2>6
<1>8. blocks = [r \in 1..R |-> [i \in 1..L |-> [k \in DOMAIN s |-> Rows(P, s)[r][k].at + (i-1) * s[k].steps[n]]]]
  <2>1. blocks = [r \in 1..R |-> blocks[r]]
    BY <1>4
  <2> HIDE DEF n, m, P, R, L
  <2>2. QED
    BY <1>7, <2>1
<1>9. QED
  BY <1>8, LastDimension

-----------------------------------------------------------------------------
(* Arguments as NumPy passes them.                                         *)

LEMMA Quotient ==
  ASSUME NEW a \in Nat, NEW b \in Nat \ {0}, NEW n \in Nat, a < n*b PROVE a \div b \in Nat /\ a \div b < n
<1> DEFINE q == a \div b
<1>1. q \in Nat /\ a % b \in Nat /\ a = (a % b) + q*b
  BY Division
<1> HIDE DEF q
<1>2. ASSUME q >= n PROVE FALSE
  <2>1. (q-n) \in Nat /\ q*b = (q-n)*b + n*b
    BY <1>1, <1>2
  <2>2. (q-n)*b \in Nat /\ n*b \in Nat /\ q*b \in Nat
    BY <1>1, <2>1
  <2>3. q*b >= n*b
    BY <2>1, <2>2
  <2>4. a >= q*b
    BY <1>1, <2>2
  <2>5. QED
    BY <2>2, <2>3, <2>4
<1>3. QED
  BY <1>1, <1>2 DEF q

\* Sequences of the same length, one after the other.
LEMMA FlatBlocks ==
  ASSUME NEW X, NEW R \in Nat, NEW L \in Nat \ {0}, NEW blocks \in [1..R -> Seq(X)],
         \A r \in 1..R : Len(blocks[r]) = L
  PROVE  /\ FlattenSeq(blocks) \in Seq(X) /\ Len(FlattenSeq(blocks)) = R*L
         /\ \A r \in 1..R : \A q \in 1..L : FlattenSeq(blocks)[(r-1)*L+q] = blocks[r][q]
<1> DEFINE t == [j \in 1..(R*L) |-> blocks[((j-1) \div L) + 1][((j-1) % L) + 1]]
<1>1. R*L \in Nat
  OBVIOUS
<1>2. ASSUME NEW j \in 1..(R*L) PROVE blocks[((j-1) \div L) + 1][((j-1) % L) + 1] \in X
  <2> DEFINE a == j-1
             r == (a \div L) + 1
             q == (a % L) + 1
  <2>1. a \in Nat /\ a < R*L
    BY <1>1
  <2> HIDE DEF a
  <2>2. a \div L \in Nat /\ a \div L < R /\ a % L \in 0..(L-1)
    BY <2>1, Quotient, Division
  <2>3. r \in 1..R /\ q \in 1..L
    BY <2>2
  <2> HIDE DEF r, q
  <2>4. blocks[r] \in Seq(X) /\ Len(blocks[r]) = L
    BY <2>3
  <2>5. blocks[r][q] \in X
    BY <2>3, <2>4
  <2>6. QED
    BY <2>5 DEF r, q, a
<1>3. t \in Seq(X) /\ Len(t) = R*L
  BY <1>1, <1>2
<1>4. ASSUME NEW r \in 1..R, NEW q \in 1..L PROVE t[(r-1)*L+q] = blocks[r][q]
  <2> DEFINE c == r-1
             d == q-1
             j == c*L+q
             y == R*L
  <2>1. c \in Nat /\ c < R /\ d \in 0..(L-1) /\ d \in Nat /\ c+1 = r /\ d+1 = q
    OBVIOUS
  <2> HIDE DEF c
  <2>2. c*L \in Nat /\ c*L + L <= R*L
    BY <2>1, Scaled
  <2>3. j \in 1..y /\ j-1 = d + c*L
    <3> DEFINE x == c*L
    <3>1. x \in Nat /\ x + L <= y /\ y \in Nat
      BY <1>1, <2>2
    <3> HIDE DEF x, y
    <3>2. x+q \in 1..y /\ (x+q)-1 = d + x
      BY <2>1, <3>1
    <3>3. QED
      BY <3>2 DEF x
  <2>4. (j-1) \div L = c /\ (j-1) % L = d
    <3> DEFINE a == j-1
    <3>1. a = d + c*L
      BY <2>3
    <3> HIDE DEF a, d
    <3>2. a \div L = c /\ a % L = d
      BY ONLY <2>1, <3>1, L \in Nat \ {0}, DivisionIs
    <3>3. QED
      BY <3>2 DEF a
  <2> HIDE DEF j
  <2>5. t[j] = blocks[((j-1) \div L) + 1][((j-1) % L) + 1]
    BY <2>3
  <2>6. t[j] = blocks[r][q]
    <3> HIDE DEF t
    <3>1. QED
      BY <2>1, <2>4, <2>5
  <2>7. QED
    BY <2>6 DEF j, c
<1> HIDE DEF t
<1>5. BlocksOf(X, R, L, blocks, t)
  BY <1>3, <1>4 DEF BlocksOf
<1>6. FlattenSeq(blocks) = t
  BY <1>5, BlocksFlat
<1>7. QED
  BY <1>3, <1>4, <1>6

LEMMA FlatNone ==
  ASSUME NEW R \in Nat, NEW blocks, blocks = [r \in 1..R |-> << >>] PROVE FlattenSeq(blocks) = << >>
<1>1. BlocksOf(Int, R, 0, blocks, << >>)
  <2>1. << >> \in Seq(Int) /\ Len(<< >>) = 0 /\ R*0 = 0
    OBVIOUS
  <2>2. blocks \in [1..R -> Seq(Int)] /\ \A r \in 1..R : Len(blocks[r]) = 0
    BY <2>1
  <2>3. QED
    BY <2>1, <2>2 DEF BlocksOf
<1>2. QED
  BY <1>1, BlocksFlat

LEMMA TotalOnes ==
  ASSUME NEW a \in Seq(Int), \A j \in 1..Len(a) : a[j] = 1 PROVE Total(a) = Len(a)
<1> DEFINE N == Len(a)
<1>1. PICK g \in [0..N -> Int] : Totals(a, g)
  BY TotalRec
<1> DEFINE T == {j \in 0..N : g[j] = j}
<1>2. N \in Nat /\ 0 \in T
  BY <1>1 DEF Totals
<1>3. ASSUME NEW j \in 0..(N-1), j \in T PROVE j+1 \in T
  <2> DEFINE i == j+1
  <2>1. i \in 1..N /\ i \in 0..N /\ i-1 = j
    BY <1>2
  <2> HIDE DEF i
  <2>2. g[i] = g[i-1] + a[i] /\ a[i] = 1
    BY <1>1, <2>1 DEF Totals
  <2>3. QED
    BY <1>3, <2>1, <2>2 DEF i
<1> HIDE DEF T
<1>4. N \in T
  <2>1. \A j \in 0..N : j \in T
    BY <1>2, <1>3, UpTo
  <2>2. QED
    BY <1>2, <2>1
<1>5. QED
  BY <1>1, <1>4 DEF T, Totals

\* gm_np_convert_xnd() when the kernel gets scalars: the outer dimensions and, one dimension after
\* the other, the steps of all arguments.
Converted(c, s, S) ==
  /\ c.args = [k \in DOMAIN s |-> s[k].at] /\ c.dims = S
  /\ c.steps \in Seq(Int) /\ Len(c.steps) = Len(S) * Len(s)
  /\ \A d \in 1..Len(S) : \A k \in 1..Len(s) : c.steps[(d-1) * Len(s) + k] = s[k].steps[d]

LEMMA NothingAfter == ASSUME NEW X, NEW v \in Seq(X) PROVE SubSeq(v, Len(v)+1, Len(v)) = << >>
<1> DEFINE n == Len(v)
           e == SubSeq(v, n+1, n)
<1>1. n \in Nat /\ n <= Len(v)
  OBVIOUS
<1>2. After(v, n) \in Seq(X) /\ Len(After(v, n)) = Len(v)-n
  <2> HIDE DEF n
  <2>1. QED
    BY ONLY v \in Seq(X), <1>1, AfterIs
<1>3. e \in Seq(X) /\ Len(e) = 0
  BY <1>1, <1>2 DEF After
<1> HIDE DEF e
<1>4. e = << >>
  BY <1>3, EmptySeq
<1>5. QED
  BY <1>4 DEF e, n

LEMMA ConvertOuter ==
  ASSUME NEW S, NEW s, Begins(S, s), S # << >>, \A k \in DOMAIN s : Len(s[k].shape) = Len(S)
  PROVE  Converted(gm_np_convert_xnd(s, Len(S)), s, S) /\ ~Refuses(s, Len(S))
<1> DEFINE n == Len(S)
           N == Len(s)
           nd == [k \in DOMAIN s |-> gm_as_ndarray(s[k])]
           c == gm_np_convert_xnd(s, n)
           Below(v) == SubSeq(v, n+1, Len(v))
           blocks == [i \in 1..n |-> [k \in DOMAIN nd |-> nd[k].steps[i]]]
           da == [k \in DOMAIN nd |-> Below(nd[k].shape)]
           db == [k \in DOMAIN nd |-> Below(nd[k].steps)]
<1>1. S \in Shapes /\ S \in Seq(Nat) /\ s \in Stacks /\ n \in Nat \ {0}
  BY EmptySeq DEF Begins, Shapes
<1>2. N \in Nat \ {0} /\ DOMAIN s = 1..N /\ \A k \in 1..N : s[k] \in Placed
  BY <1>1, StackIs
<1>3. ASSUME NEW k \in 1..N
      PROVE  /\ s[k].at \in Int /\ s[k].shape = S /\ s[k].steps \in Seq(Int) /\ Len(s[k].steps) = n
             /\ gm_as_ndarray(s[k]) = s[k]
  <2>1. s[k].at \in Int /\ s[k].shape \in Seq(Nat) /\ s[k].steps \in Seq(Int) /\ Len(s[k].steps) = Len(s[k].shape)
    BY <1>2, PlacedIs
  <2>2. Len(s[k].shape) = n /\ \A j \in 1..n : s[k].shape[j] = S[j]
    BY <1>2 DEF Begins
  <2>3. s[k].shape = S
    BY <1>1, <2>1, <2>2, SeqEqual
  <2>4. QED
    BY <2>1, <2>2, <2>3 DEF gm_as_ndarray
<1>4. DOMAIN nd = 1..N /\ \A k \in 1..N : nd[k] = s[k]
  BY <1>2, <1>3
<1>5. /\ c.args = [k \in DOMAIN nd |-> nd[k].at]
      /\ c.dims = SubSeq(nd[1].shape, 1, n) \o FlattenSeq(da)
      /\ c.steps = FlattenSeq(blocks) \o FlattenSeq(db)
  BY DEF gm_np_convert_xnd
<1> HIDE DEF nd, c, n, N
<1>6. c.args = [k \in DOMAIN s |-> s[k].at]
  BY <1>2, <1>4, <1>5
<1>7. FlattenSeq(da) = << >> /\ FlattenSeq(db) = << >>
  <2>1. \A k \in 1..N : Below(nd[k].shape) = << >>
    BY <1>1, <1>3, <1>4, NothingAfter DEF n
  <2>2. \A k \in 1..N : Below(nd[k].steps) = << >>
    <3> SUFFICES ASSUME NEW k \in 1..N PROVE Below(nd[k].steps) = << >>
      OBVIOUS
    <3> DEFINE w == s[k].steps
    <3>1. w \in Seq(Int) /\ Len(w) = n /\ nd[k].steps = w
      BY <1>3, <1>4
    <3> HIDE DEF w
    <3>2. QED
      BY <3>1, NothingAfter
  <2>3. da = [k \in 1..N |-> << >>] /\ db = [k \in 1..N |-> << >>]
    <3> HIDE DEF Below
    <3>1. QED
      BY <1>4, <2>1, <2>2
  <2> HIDE DEF da, db
  <2>4. QED
    BY <1>2, <2>3, FlatNone
<1>8. SubSeq(nd[1].shape, 1, n) = S
  <2>1. 1 \in 1..N
    BY <1>2
  <2>2. nd[1].shape = S
    BY <1>3, <1>4, <2>1
  <2>3. n <= Len(S) /\ n \in Nat
    BY <1>1 DEF n
  <2>4. SubSeq(S, 1, n) \in Seq(Nat) /\ Len(SubSeq(S, 1, n)) = n /\ \A j \in 1..n : SubSeq(S, 1, n)[j] = S[j]
    BY ONLY <1>1, <2>3, PrefixIs
  <2>5. SubSeq(S, 1, n) = S
    BY <1>1, <2>4, SeqEqual DEF n
  <2>6. QED
    BY <2>2, <2>5
<1> HIDE DEF da, db
<1>9. c.dims = S
  <2>1. S \o << >> = S
    BY <1>1, ConcatEmptySeq
  <2>2. QED
    BY <1>5, <1>7, <1>8, <2>1
<1>10. ASSUME NEW i \in 1..n
       PROVE  blocks[i] \in Seq(Int) /\ Len(blocks[i]) = N /\ \A k \in 1..N : blocks[i][k] = s[k].steps[i]
  <2> DEFINE b == blocks[i]
  <2>1. \A k \in 1..N : s[k].steps[i] \in Int
    <3> SUFFICES ASSUME NEW k \in 1..N PROVE s[k].steps[i] \in Int
      OBVIOUS
    <3> DEFINE w == s[k].steps
    <3>1. w \in Seq(Int) /\ Len(w) = n
      BY <1>3
    <3> HIDE DEF w
    <3>2. w[i] \in Int
      BY <3>1
    <3>3. QED
      BY <3>2 DEF w
  <2>2. b = [k \in 1..N |-> s[k].steps[i]]
    BY <1>4
  <2> HIDE DEF b
  <2>3. b \in [1..N -> Int] /\ N \in Nat
    BY <1>2, <2>1, <2>2
  <2>4. b \in Seq(Int) /\ Len(b) = N
    BY ONLY <2>3
  <2>5. \A k \in 1..N : b[k] = s[k].steps[i]
    BY <2>2
  <2>6. QED
    BY <2>4, <2>5 DEF b
<1>11. blocks \in [1..n -> Seq(Int)] /\ \A i \in 1..n : Len(blocks[i]) = N
  <2>1. blocks = [i \in 1..n |-> blocks[i]]
    OBVIOUS
  <2> HIDE DEF blocks
  <2>2. QED
    BY <1>10, <2>1
<1> HIDE DEF blocks
<1>12. /\ FlattenSeq(blocks) \in Seq(Int) /\ Len(FlattenSeq(blocks)) = n*N
       /\ \A r \in 1..n : \A q \in 1..N : FlattenSeq(blocks)[(r-1)*N+q] = blocks[r][q]
  <2> DEFINE X == Int
  <2>1. n \in Nat /\ N \in Nat \ {0} /\ blocks \in [1..n -> Seq(X)] /\ \A r \in 1..n : Len(blocks[r]) = N
    BY <1>1, <1>2, <1>11
  <2> HIDE DEF X
  <2>2. /\ FlattenSeq(blocks) \in Seq(X) /\ Len(FlattenSeq(blocks)) = n*N
        /\ \A r \in 1..n : \A q \in 1..N : FlattenSeq(blocks)[(r-1)*N+q] = blocks[r][q]
    BY ONLY <2>1, FlatBlocks
  <2>3. QED
    BY <2>2 DEF X
<1>13. c.steps = FlattenSeq(blocks)
  <2> DEFINE f == FlattenSeq(blocks)
  <2>1. f \in Seq(Int) /\ c.steps = f \o << >>
    BY <1>5, <1>7, <1>12
  <2> HIDE DEF f
  <2>2. f \o << >> = f
    BY <2>1, ConcatEmptySeq
  <2>3. QED
    BY <2>1, <2>2 DEF f
<1>14. Converted(c, s, S)
  BY <1>6, <1>9, <1>10, <1>12, <1>13 DEF Converted, n, N
<1>15. ~Refuses(s, n)
  <2> DEFINE a == [k \in DOMAIN s |-> IF NDim(s[k]) = n THEN 1 ELSE NDim(s[k]) - n]
             room == sum_inner_dimensions(s, n)
  <2>1. a \in Seq(Nat)
    <3>1. \A k \in 1..N : NDim(s[k]) = n
      BY <1>2, <1>3 DEF n, NDim
    <3>2. a = [k \in 1..N |-> 1]
      BY <1>2, <3>1
    <3>3. QED
      BY <1>2, <3>2
  <2>2. room \in Nat
    <3> HIDE DEF a
    <3>1. Total(a) \in Nat
      BY <2>1, TotalNat
    <3>2. QED
      BY <3>1 DEF sum_inner_dimensions, a
  <2> HIDE DEF room
  <2>3. \A x \in Range(s) : SubSeq(x.shape, 1, n) = SubSeq(s[1].shape, 1, n)
    <3>1. \A x \in Range(s) : x.shape = S
      BY <1>2, <1>3 DEF Range
    <3>2. s[1].shape = S
      <4>1. 1 \in 1..N
        BY <1>2
      <4>2. QED
        BY <1>3, <4>1
    <3>3. QED
      BY <3>1, <3>2
  <2>4. ~(Len(c.dims) > n + room)
    <3>1. Len(c.dims) = n /\ n \in Nat
      BY <1>1, <1>9 DEF n
    <3>2. QED
      BY <2>2, <3>1
  <2>5. ~(Len(c.steps) > N*n + room)
    <3> DEFINE e == N*n
    <3>1. Len(c.steps) = e /\ e \in Nat
      BY <1>1, <1>2, <1>12, <1>13
    <3> HIDE DEF e
    <3>2. QED
      BY <2>2, <3>1 DEF e
  <2>6. QED
    BY <2>3, <2>4, <2>5 DEF Refuses, room, c, N
<1>16. QED
  BY <1>14, <1>15 DEF c, n

-----------------------------------------------------------------------------
(* gm_np_map().                                                            *)

Ahead(c, args, m, i) == [k \in 1..Len(c.args) |-> args[k] + (i-1) * c.steps[m * Len(c.args) + k]]
NpWalks(v, c, n) ==
  /\ \A m \in 0..n : m <= 1 => \A args \in [1..Len(c.args) -> Int] : v[m][args] = <<Inside(c, n-m, args)>>
  /\ \A m \in 2..n : \A args \in [1..Len(c.args) -> Int] :
       v[m][args] = FlattenSeq([i \in 1..c.dims[n-m+1] |-> v[m-1][Ahead(c, args, n-m, i)]])
  /\ gm_np_map(c, n) = v[n][c.args]

LEMMA NpRec ==
  ASSUME NEW c, NEW n \in Nat, Len(c.args) \in Nat,
         \A m \in 2..n : /\ c.dims[n-m+1] \in Nat
                         /\ \A k \in 1..Len(c.args) : c.steps[(n-m) * Len(c.args) + k] \in Int
  PROVE  \E v : NpWalks(v, c, n)
<1> DEFINE A == [1..Len(c.args) -> Int]
           Y == UNION {{Inside(c, d, args) : args \in A} : d \in Int}
           V == [A -> Seq(Y)]
           Go(m, x, args) == IF m <= 1 THEN <<Inside(c, n-m, args)>>
                             ELSE FlattenSeq([i \in 1..c.dims[n-m+1] |-> x[Ahead(c, args, n-m, i)]])
           E(m, x) == [args \in A |-> Go(m, x, args)]
           a == [args \in A |-> <<Inside(c, n, args)>>]
           H == [m \in 1..n |-> [x \in V |-> E(m, x)]]
           Body(f) == [m \in 0..n |-> [args \in A |-> Go(m, f[m-1], args)]]
<1>a. ASSUME NEW m \in 2..n PROVE c.dims[n-m+1] \in Nat
  OBVIOUS
<1> DEFINE StepIs(m, k) == c.steps[(n-m) * Len(c.args) + k] \in Int
<1>b. ASSUME NEW m \in 2..n, NEW k \in 1..Len(c.args) PROVE StepIs(m, k)
  OBVIOUS
<1> HIDE DEF StepIs
<1>1. ASSUME NEW d \in Int, NEW args \in A PROVE <<Inside(c, d, args)>> \in Seq(Y)
  <2>1. Inside(c, d, args) \in Y
    OBVIOUS
  <2> HIDE DEF Y
  <2>2. QED
    BY <2>1
<1>2. a \in V
  <2>1. n \in Int
    OBVIOUS
  <2> HIDE DEF Y, A
  <2>2. QED
    BY <1>1, <2>1
<1>3. ASSUME NEW m \in 1..n, NEW x \in V PROVE E(m, x) \in V
  <2>1. ASSUME NEW args \in A PROVE Go(m, x, args) \in Seq(Y)
    <3>1. CASE m <= 1
      <4>1. n-m \in Int
        OBVIOUS
      <4> HIDE DEF Y, A
      <4>2. <<Inside(c, n-m, args)>> \in Seq(Y)
        BY <1>1, <4>1
      <4>3. QED
        BY <3>1, <4>2
    <3>2. CASE ~(m <= 1)
      <4>1. m \in 2..n
        BY <3>2
      <4> DEFINE R == c.dims[n-m+1]
                 b == [i \in 1..R |-> x[Ahead(c, args, n-m, i)]]
      <4>2. R \in Nat
        BY ONLY <1>a, <4>1
      <4>3. ASSUME NEW i \in 1..R PROVE Ahead(c, args, n-m, i) \in A
        <5> DEFINE e(k) == args[k] + (i-1) * c.steps[(n-m) * Len(c.args) + k]
        <5>1. ASSUME NEW k \in 1..Len(c.args) PROVE e(k) \in Int
          <6> DEFINE w == c.steps[(n-m) * Len(c.args) + k]
          <6>1. w \in Int
            <7>1. StepIs(m, k)
              BY ONLY <1>b, <4>1, k \in 1..Len(c.args)
            <7>2. QED
              BY ONLY <7>1 DEF StepIs
          <6>2. args[k] \in Int
            OBVIOUS
          <6>3. i-1 \in Int
            BY <4>2
          <6> HIDE DEF w
          <6>4. args[k] + (i-1) * w \in Int
            BY ONLY <6>1, <6>2, <6>3
          <6>5. QED
            BY <6>4 DEF w
        <5>2. Ahead(c, args, n-m, i) = [k \in 1..Len(c.args) |-> e(k)]
          BY DEF Ahead
        <5> HIDE DEF e
        <5>3. QED
          BY <5>1, <5>2
      <4> HIDE DEF R, Y, A
      <4>4. \A i \in 1..R : x[Ahead(c, args, n-m, i)] \in Seq(Y)
        BY <4>3
      <4>5. b \in Seq(Seq(Y))
        BY <4>2, <4>4
      <4>6. FlattenSeq(b) \in Seq(Y)
        <5> HIDE DEF b
        <5>1. QED
          BY <4>5, FlattenType
      <4>7. QED
        BY <3>2, <4>6 DEF R
    <3>3. QED
      BY <3>1, <3>2
  <2> HIDE DEF Go, Y, A
  <2>2. QED
    BY <2>1
<1> HIDE DEF Go, V, a, Y, A
<1>4. H \in [1..n -> [V -> V]]
  <2> HIDE DEF E
  <2>1. QED
    BY <1>3
<1>5. PICK g \in [0..n -> V] : Follows(g, n, a, H)
  <2> HIDE DEF H
  <2>1. QED
    BY <1>2, <1>4, RecursionExists
<1>6. g[0] = a /\ \A k \in 1..n : g[k] = E(k, g[k-1])
  <2> SUFFICES ASSUME NEW k \in 1..n PROVE g[k] = E(k, g[k-1])
    BY <1>5 DEF Follows
  <2>1. g[k-1] \in V
    OBVIOUS
  <2> HIDE DEF E
  <2>2. QED
    BY <1>5, <2>1 DEF Follows
<1>7. g = Body(g)
  <2>1. ASSUME NEW m \in 0..n PROVE g[m] = [args \in A |-> Go(m, g[m-1], args)]
    <3>1. CASE m = 0
      <4>1. n-m = n /\ m <= 1
        BY <3>1
      <4>2. \A args \in A : Go(m, g[m-1], args) = <<Inside(c, n, args)>>
        BY <4>1 DEF Go
      <4>3. g[m] = [args \in A |-> <<Inside(c, n, args)>>]
        BY <1>6, <3>1 DEF a
      <4>4. QED
        BY <4>2, <4>3
    <3>2. CASE m # 0
      <4>1. m \in 1..n
        BY <3>2
      <4>2. QED
        BY <1>6, <4>1
    <3>3. QED
      BY <3>1, <3>2
  <2>2. QED
    BY <2>1
<1> DEFINE v == CHOOSE f : f = Body(f)
<1>8. v = Body(v)
  <2> HIDE DEF Body
  <2>1. QED
    BY <1>7
<1>9. gm_np_map(c, n) = v[n][c.args]
  BY DEF gm_np_map, Go, Ahead, A
<1> HIDE DEF v
<1>10. \A m \in 0..n : \A args \in A : v[m][args] = Go(m, v[m-1], args)
  <2>1. \A m \in 0..n : v[m] = Body(v)[m]
    <3> HIDE DEF Body
    <3>1. QED
      BY <1>8
  <2>2. \A m \in 0..n : Body(v)[m] = [args \in A |-> Go(m, v[m-1], args)]
    OBVIOUS
  <2> HIDE DEF Body
  <2>3. \A m \in 0..n : v[m] = [args \in A |-> Go(m, v[m-1], args)]
    BY <2>1, <2>2
  <2>4. QED
    BY <2>3
<1> HIDE DEF Body
<1>11. \A m \in 2..n : m \in 0..n /\ ~(m <= 1)
  OBVIOUS
<1>12. QED
  BY <1>9, <1>10, <1>11 DEF NpWalks, Go, A

\* The calls of a strided kernel for rows of arrays.
CallWith(c, d, row) == Inside(c, d, [k \in DOMAIN row |-> row[k].at])
CallsAt(c, d, rows) == [r \in DOMAIN rows |-> CallWith(c, d, rows[r])]

LEMMA BlocksMapped ==
  ASSUME NEW X, NEW Y, NEW F \in [X -> Y], NEW R, NEW L, NEW blocks, NEW t, BlocksOf(X, R, L, blocks, t)
  PROVE  BlocksOf(Y, R, L, [r \in 1..R |-> [q \in 1..L |-> F[blocks[r][q]]]], [j \in 1..(R*L) |-> F[t[j]]])
<1> DEFINE B == [r \in 1..R |-> [q \in 1..L |-> F[blocks[r][q]]]]
           T == [j \in 1..(R*L) |-> F[t[j]]]
<1>1. /\ R \in Nat /\ L \in Nat /\ R*L \in Nat /\ blocks \in [1..R -> Seq(X)]
      /\ \A r \in 1..R : Len(blocks[r]) = L
      /\ t \in Seq(X) /\ Len(t) = R*L
      /\ \A r \in 1..R : \A q \in 1..L : t[(r-1)*L+q] = blocks[r][q]
  BY DEF BlocksOf
<1>2. \A r \in 1..R : \A q \in 1..L : blocks[r][q] \in X
  <2> SUFFICES ASSUME NEW r \in 1..R, NEW q \in 1..L PROVE blocks[r][q] \in X
    OBVIOUS
  <2>1. blocks[r] \in Seq(X) /\ Len(blocks[r]) = L
    BY <1>1
  <2>2. QED
    BY <2>1
<1>3. ASSUME NEW r \in 1..R PROVE B[r] \in Seq(Y) /\ Len(B[r]) = L
  <2> DEFINE b == B[r]
  <2>1. b = [q \in 1..L |-> F[blocks[r][q]]] /\ \A q \in 1..L : F[blocks[r][q]] \in Y
    BY <1>2
  <2> HIDE DEF b
  <2>2. b \in [1..L -> Y] /\ L \in Nat
    BY <1>1, <2>1
  <2>3. b \in Seq(Y) /\ Len(b) = L
    BY ONLY <2>2
  <2>4. QED
    BY <2>3 DEF b
<1>4. T \in Seq(Y) /\ Len(T) = R*L
  <2> DEFINE e == R*L
  <2>1. e \in Nat /\ t \in Seq(X) /\ Len(t) = e
    BY <1>1
  <2> HIDE DEF e
  <2>2. \A j \in 1..e : F[t[j]] \in Y
    BY <2>1
  <2>3. [j \in 1..e |-> F[t[j]]] \in Seq(Y) /\ Len([j \in 1..e |-> F[t[j]]]) = e
    BY <2>1, <2>2
  <2>4. QED
    BY <2>3 DEF e
<1>5. ASSUME NEW r \in 1..R, NEW q \in 1..L PROVE T[(r-1)*L+q] = B[r][q]
  <2> DEFINE j == (r-1)*L+q
             e == R*L
             c == r-1
  <2>1. j \in 1..e
    <3>1. c \in Nat /\ c < R
      BY <1>1
    <3> HIDE DEF c
    <3>2. c*L \in Nat /\ c*L + L <= R*L
      BY <1>1, <3>1, Scaled
    <3> DEFINE x == c*L
    <3>3. x \in Nat /\ x + L <= e /\ e \in Nat
      BY <1>1, <3>2
    <3> HIDE DEF x, e
    <3>4. x+q \in 1..e
      BY <1>1, <3>3
    <3>5. QED
      BY <3>4 DEF x, c
  <2>2. t[j] = blocks[r][q]
    BY <1>1
  <2> HIDE DEF j
  <2>3. T[j] = F[t[j]]
    BY <2>1
  <2>4. B[r][q] = F[blocks[r][q]]
    OBVIOUS
  <2>5. QED
    BY <2>2, <2>3, <2>4 DEF j
<1>6. B \in [1..R -> Seq(Y)]
  <2>1. B = [r \in 1..R |-> B[r]]
    OBVIOUS
  <2> HIDE DEF B
  <2>2. QED
    BY <1>3, <2>1
<1> HIDE DEF B, T
<1>7. BlocksOf(Y, R, L, B, T)
  BY <1>1, <1>3, <1>4, <1>5, <1>6 DEF BlocksOf
<1>8. QED
  BY <1>7 DEF B, T

\* The calls for the rows of the dimensions further inside make up those for the rows of all.
LEMMA CallsFlat ==
  ASSUME NEW p, NEW s, Begins(p, s), p # << >>, NEW c, NEW d, NEW blocks,
         blocks = [i \in 1..p[1] |-> CallsAt(c, d, Rows(After(p, 1), NextOf(s, i-1)))]
  PROVE  FlattenSeq(blocks) = CallsAt(c, d, Rows(p, s))
<1> DEFINE R == p[1]
           L == Product(After(p, 1))
           b == [i \in 1..R |-> Rows(After(p, 1), NextOf(s, i-1))]
           t == Rows(p, s)
           F == [row \in Stacks |-> CallWith(c, d, row)]
           Y == {CallWith(c, d, row) : row \in Stacks}
           B == [r \in 1..R |-> [q \in 1..L |-> F[b[r][q]]]]
           T == [j \in 1..(R*L) |-> F[t[j]]]
<1>1. BlocksOf(Stacks, R, L, b, t)
  BY RowsBlocks
<1>2. F \in [Stacks -> Y] /\ \A row \in Stacks : F[row] = CallWith(c, d, row)
  OBVIOUS
<1> HIDE DEF R, L, F, Y, b, t
<1>3. BlocksOf(Y, R, L, B, T)
  BY <1>1, <1>2, BlocksMapped
<1>4. FlattenSeq(B) = T
  <2> HIDE DEF B, T
  <2>1. QED
    BY <1>3, BlocksFlat
<1>5. /\ R \in Nat /\ L \in Nat /\ b \in [1..R -> Seq(Stacks)] /\ \A r \in 1..R : Len(b[r]) = L
      /\ t \in Seq(Stacks) /\ Len(t) = R*L /\ R*L \in Nat
  BY <1>1 DEF BlocksOf
<1>6. ASSUME NEW r \in 1..R PROVE CallsAt(c, d, b[r]) = [q \in 1..L |-> F[b[r][q]]]
  <2> DEFINE e == b[r]
  <2>1. e \in Seq(Stacks) /\ Len(e) = L
    BY <1>5
  <2> HIDE DEF e
  <2>2. DOMAIN e = 1..L /\ \A q \in 1..L : e[q] \in Stacks
    BY <1>5, <2>1
  <2>3. CallsAt(c, d, e) = [q \in 1..L |-> F[e[q]]]
    BY <1>2, <2>2 DEF CallsAt
  <2>4. QED
    BY <2>3 DEF e
<1>7. CallsAt(c, d, t) = T
  <2> DEFINE e == R*L
  <2>1. DOMAIN t = 1..e /\ \A q \in 1..e : t[q] \in Stacks
    BY <1>5
  <2> HIDE DEF e
  <2>2. CallsAt(c, d, t) = [q \in 1..e |-> F[t[q]]]
    BY <1>2, <2>1 DEF CallsAt
  <2>3. QED
    BY <2>2 DEF e
<1>8. blocks = B
  <2>1. blocks = [i \in 1..R |-> CallsAt(c, d, b[i])]
    BY DEF b, R
  <2>2. QED
    BY <1>6, <2>1
<1>9. QED
  BY <1>4, <1>7, <1>8 DEF t

\* The arrays of a stack d dimensions further inside.
IsWithin(s, S, d, t) ==
  /\ t \in Stacks /\ DOMAIN t = DOMAIN s
  /\ \A k \in DOMAIN s : t[k].shape = After(S, d) /\ t[k].steps = After(s[k].steps, d)

LEMMA WithinNext ==
  ASSUME NEW S \in Shapes, NEW s \in Stacks, \A k \in DOMAIN s : Len(s[k].steps) = Len(S),
         NEW d \in Nat, d < Len(S), NEW t, IsWithin(s, S, d, t), NEW i \in Nat
  PROVE  /\ IsWithin(s, S, d+1, NextOf(t, i)) /\ DOMAIN NextOf(t, i) = DOMAIN s
         /\ \A k \in DOMAIN s : NextOf(t, i)[k].at = t[k].at + i * s[k].steps[d+1]
<1> DEFINE n == Len(S)
           u == NextOf(t, i)
           e == 1
<1>1. S \in Seq(Nat) /\ n \in Nat /\ d \in Nat /\ d <= n /\ d+1 <= n /\ n-d \in Nat \ {0}
  BY DEF Shapes
<1>2. Len(t) \in Nat \ {0} /\ DOMAIN t = 1..Len(t) /\ \A k \in DOMAIN s : t[k] \in Placed /\ s[k] \in Placed
  BY StackIs DEF IsWithin
<1>3. ASSUME NEW k \in DOMAIN s
      PROVE  /\ xnd_fixed_dim_next(t[k], i) \in Placed
             /\ xnd_fixed_dim_next(t[k], i).at = t[k].at + i * s[k].steps[d+1]
             /\ xnd_fixed_dim_next(t[k], i).shape = After(S, d+1)
             /\ xnd_fixed_dim_next(t[k], i).steps = After(s[k].steps, d+1)
  <2> DEFINE x == t[k]
             w == s[k].steps
             a == After(S, d)
             b == After(w, d)
  <2>1. x \in Placed /\ x.shape = a /\ x.steps = b
    BY <1>2 DEF IsWithin
  <2>2. w \in Seq(Int) /\ Len(w) = n
    BY <1>2, PlacedIs
  <2> HIDE DEF x, w
  <2>3. a \in Seq(Nat) /\ Len(a) = n-d
    BY ONLY <1>1, AfterIs DEF n
  <2>4. b \in Seq(Int) /\ Len(b) = n-d /\ \A j \in 1..(n-d) : b[j] = w[d+j]
    <3>1. w \in Seq(Int) /\ d \in Nat /\ d <= Len(w)
      BY <1>1, <2>2
    <3>2. b \in Seq(Int) /\ Len(b) = Len(w)-d /\ \A j \in 1..(Len(w)-d) : b[j] = w[d+j]
      BY ONLY <3>1, AfterIs
    <3>3. QED
      BY <2>2, <3>2
  <2>5. Tail(a) = After(S, d+1)
    <3>1. a # << >>
      BY <1>1, <2>3
    <3>2. Tail(a) = After(a, 1)
      BY <2>3, <3>1, TailIs
    <3>3. e \in Nat /\ d+e <= Len(S) /\ d+e = d+1
      BY <1>1 DEF n
    <3> HIDE DEF e
    <3>4. After(a, e) = After(S, d+e)
      BY ONLY <1>1, <3>3, AfterAfter
    <3>5. QED
      BY <3>2, <3>3, <3>4 DEF e
  <2>6. Tail(b) = After(w, d+1) /\ b # << >>
    <3>1. b # << >>
      BY <1>1, <2>4
    <3>2. Tail(b) = After(b, 1)
      BY <2>4, <3>1, TailIs
    <3>3. e \in Nat /\ d+e <= Len(w) /\ d+e = d+1
      BY <1>1, <2>2
    <3> HIDE DEF e
    <3>4. After(b, e) = After(w, d+e)
      BY ONLY <1>1, <2>2, <3>3, AfterAfter
    <3>5. QED
      BY <3>1, <3>2, <3>3, <3>4 DEF e
  <2>7. x.shape # << >>
    BY <1>1, <2>1, <2>3
  <2>8. /\ xnd_fixed_dim_next(x, i) \in Placed
        /\ xnd_fixed_dim_next(x, i).at = x.at + i * x.steps[1]
        /\ xnd_fixed_dim_next(x, i).shape = Tail(x.shape)
        /\ xnd_fixed_dim_next(x, i).steps = Tail(x.steps)
    BY <2>1, <2>7, NextType
  <2>9. x.steps[1] = w[d+1]
    <3>1. 1 \in 1..(n-d)
      BY <1>1
    <3>2. QED
      BY <2>1, <2>4, <3>1
  <2>10. QED
    BY <2>1, <2>5, <2>6, <2>8, <2>9 DEF x, w
<1>4. DOMAIN u = DOMAIN s /\ \A k \in DOMAIN s : u[k] = xnd_fixed_dim_next(t[k], i)
  BY DEF NextOf, IsWithin
<1>5. u \in Stacks
  <2> DEFINE N == Len(t)
  <2>1. N \in Nat \ {0} /\ DOMAIN u = 1..N /\ u = [k \in 1..N |-> u[k]] /\ \A k \in 1..N : u[k] \in Placed
    <3>1. DOMAIN s = 1..N
      BY <1>2 DEF IsWithin
    <3>2. u = [k \in DOMAIN u |-> u[k]]
      BY DEF NextOf
    <3> HIDE DEF u
    <3>3. QED
      BY <1>2, <1>3, <1>4, <3>1, <3>2
  <2> HIDE DEF u, N
  <2>2. QED
    BY <2>1, StackOf
<1>6. QED
  BY <1>3, <1>4, <1>5 DEF IsWithin

\* gm_np_map() calls the kernel once with the rows at each index of the outer dimensions but the last.
LEMMA NpMapMeans ==
  ASSUME NEW S, NEW s, Begins(S, s), S # << >>, \A k \in DOMAIN s : Len(s[k].shape) = Len(S),
         NEW c, Converted(c, s, S)
  PROVE  gm_np_map(c, Len(S)) = CallsAt(c, Len(S)-1, Rows(SubSeq(S, 1, Len(S)-1), s))
<1> DEFINE n == Len(S)
           N == Len(s)
           A == [1..N -> Int]
           args(t) == [k \in DOMAIN t |-> t[k].at]
           Q(d) == SubSeq(After(S, d), 1, n-1-d)
<1>1. S \in Shapes /\ S \in Seq(Nat) /\ s \in Stacks /\ n \in Nat \ {0} /\ n-1 \in Nat
  BY EmptySeq DEF Begins, Shapes
<1>2. N \in Nat \ {0} /\ DOMAIN s = 1..N
  BY <1>1, StackIs
<1>3. \A k \in DOMAIN s : s[k] \in Placed /\ Len(s[k].steps) = n
  BY <1>1, StackIs, PlacedIs
<1>4. /\ c.args = args(s) /\ c.dims = S /\ Len(c.steps) = n*N /\ c.steps \in Seq(Int)
      /\ \A d \in 1..n : \A k \in 1..N : c.steps[(d-1)*N+k] = s[k].steps[d]
  BY DEF Converted
<1>5. Len(c.args) = N
  BY <1>2, <1>4
<1>6. \A d \in 1..n : \A k \in 1..N : s[k].steps[d] \in Int
  <2> SUFFICES ASSUME NEW d \in 1..n, NEW k \in 1..N PROVE s[k].steps[d] \in Int
    OBVIOUS
  <2> DEFINE w == s[k].steps
  <2>1. w \in Seq(Int) /\ Len(w) = n
    BY <1>2, <1>3, PlacedIs
  <2> HIDE DEF w
  <2>2. w[d] \in Int
    BY <2>1
  <2>3. QED
    BY <2>2 DEF w
<1>7. ASSUME NEW t, NEW d, IsWithin(s, S, d, t) PROVE args(t) \in A
  <2>1. \A k \in 1..N : t[k].at \in Int
    BY <1>2, <1>7, StackIs, PlacedIs DEF IsWithin
  <2>2. DOMAIN t = 1..N
    BY <1>2, <1>7 DEF IsWithin
  <2>3. QED
    BY <2>1, <2>2
<1>8. PICK v : NpWalks(v, c, n)
  <2> HIDE DEF n, N, args, A
  <2>1. ASSUME NEW m \in 2..n
        PROVE  /\ c.dims[n-m+1] \in Nat
               /\ \A k \in 1..Len(c.args) : c.steps[(n-m) * Len(c.args) + k] \in Int
    <3> DEFINE d == n-m+1
    <3>1. d \in 1..n /\ d-1 = n-m
      BY <1>1
    <3> HIDE DEF d
    <3>2. c.dims[d] \in Nat
      BY <1>1, <1>4, <3>1 DEF n
    <3>3. \A k \in 1..N : c.steps[(d-1)*N+k] \in Int
      BY <1>4, <1>6, <3>1
    <3>4. QED
      BY <1>5, <3>1, <3>2, <3>3 DEF d
  <2>2. n \in Nat /\ Len(c.args) \in Nat
    BY <1>1, <1>2, <1>5
  <2>3. QED
    BY ONLY <2>1, <2>2, NpRec
<1> HIDE DEF A
<1> DEFINE Claim(d) == \A t : IsWithin(s, S, d, t) => v[n-d][args(t)] = CallsAt(c, n-1, Rows(Q(d), t))
           T == {j \in 0..(n-1) : Claim(n-1-j)}
<1>9. 0 \in T
  <2> DEFINE m == n-1
  <2>1. m \in Nat /\ n-m = 1 /\ m-m = 0 /\ n-1-m = 0 /\ n-1-0 = m
    BY <1>1
  <2> HIDE DEF m
  <2>2. ASSUME NEW t, IsWithin(s, S, m, t) PROVE v[1][args(t)] = CallsAt(c, m, Rows(Q(m), t))
    <3> DEFINE q == Q(m)
               a == After(S, m)
    <3>1. a \in Seq(Nat)
      <4>1. m <= Len(S)
        BY <1>1, <2>1
      <4>2. QED
        BY ONLY <1>1, <2>1, <4>1, AfterIs
    <3>2. q \in Shapes /\ Len(q) = 0
      <4> HIDE DEF a
      <4>1. 0 \in Nat /\ 0 <= Len(a) /\ q = SubSeq(a, 1, 0)
        BY <2>1, <3>1 DEF a
      <4> HIDE DEF q
      <4>2. SubSeq(a, 1, 0) \in Seq(Nat) /\ Len(SubSeq(a, 1, 0)) = 0
        <5> DEFINE z == 0
        <5>1. z \in Nat /\ z <= Len(a)
          BY <4>1
        <5> HIDE DEF z
        <5>2. SubSeq(a, 1, z) \in Seq(Nat) /\ Len(SubSeq(a, 1, z)) = z
          BY ONLY <3>1, <5>1, PrefixIs
        <5>3. QED
          BY <5>2 DEF z
      <4>3. QED
        BY <4>1, <4>2 DEF Shapes
    <3> HIDE DEF q
    <3>3. Begins(q, t)
      <4>1. t \in Stacks /\ \A k \in DOMAIN t : Len(t[k].shape) \in Nat
        BY <2>2, StackIs, PlacedIs DEF IsWithin
      <4>2. QED
        BY <3>2, <4>1 DEF Begins
    <3>4. Rows(q, t) = <<t>>
      BY <3>2, <3>3, RowsNone
    <3>5. v[1][args(t)] = <<Inside(c, n-1, args(t))>>
      <4>1. args(t) \in [1..Len(c.args) -> Int]
        BY <1>5, <1>7, <2>2 DEF A
      <4>2. 1 \in 0..n /\ 1 <= 1
        BY <1>1
      <4> HIDE DEF args
      <4>3. QED
        BY <1>8, <4>1, <4>2 DEF NpWalks
    <3>6. CallsAt(c, m, <<t>>) = <<Inside(c, m, args(t))>>
      BY DEF CallsAt, CallWith
    <3>7. QED
      BY <3>4, <3>5, <3>6 DEF m, q
  <2>3. Claim(m)
    BY <2>1, <2>2 DEF m
  <2>4. QED
    BY <1>1, <2>1, <2>3
<1>10. ASSUME NEW j \in 0..(n-1-1), j \in T PROVE j+1 \in T
  <2> DEFINE d == n-1-(j+1)
             e == d+1
             m == n-d
  <2>1. d \in Nat /\ d < n /\ e = n-1-j /\ e <= n-1 /\ e \in 1..n /\ m \in 2..n /\ m-1 = n-e /\ n-m = d
        /\ n-m+1 = e /\ j+1 \in 0..(n-1) /\ e \in Nat /\ n-1-d \in Nat /\ n-1-d = (n-1-e)+1 /\ n-1-e \in Nat
    BY <1>1
  <2>2. Claim(e)
    BY <1>10, <2>1
  <2> HIDE DEF d, e, m, T
  <2>3. ASSUME NEW t, IsWithin(s, S, d, t) PROVE v[m][args(t)] = CallsAt(c, n-1, Rows(Q(d), t))
    <3> DEFINE a == After(S, d)
               q == Q(d)
    <3>1. a \in Seq(Nat) /\ Len(a) = n-d /\ \A i \in 1..(n-d) : a[i] = S[d+i]
      <4>1. d <= Len(S)
        BY <2>1
      <4>2. QED
        BY ONLY <1>1, <2>1, <4>1, AfterIs
    <3> DEFINE l == n-1-d
    <3>2. l \in Nat /\ l <= Len(a) /\ l = (n-1-e)+1
      BY <1>1, <2>1, <3>1
    <3> HIDE DEF l, a
    <3>3. q = SubSeq(a, 1, l) /\ q \in Seq(Nat) /\ Len(q) = l /\ \A i \in 1..l : q[i] = a[i]
      <4>1. SubSeq(a, 1, l) \in Seq(Nat) /\ Len(SubSeq(a, 1, l)) = l /\ \A i \in 1..l : SubSeq(a, 1, l)[i] = a[i]
        BY ONLY <3>1, <3>2, PrefixIs
      <4>2. QED
        BY <4>1 DEF l, a
    <3>4. q # << >> /\ q[1] = S[e] /\ q[1] = c.dims[e]
      <4>1. q # << >>
        <5> HIDE DEF q
        <5>1. Len(q) = l /\ l > 0
          BY <2>1, <3>2, <3>3
        <5>2. QED
          BY ONLY <5>1
      <4>2. 1 \in 1..l /\ 1 \in 1..(n-d)
        BY <1>1, <2>1, <3>2
      <4>3. q[1] = S[d+1]
        BY <3>1, <3>3, <4>2
      <4>4. QED
        BY <1>4, <4>1, <4>3 DEF e
    <3>5. After(q, 1) = Q(e)
      <4> DEFINE z == 1
      <4>1. z \in Nat /\ z <= l /\ l-z = n-1-e /\ d+z = e /\ d+z <= Len(S)
        BY <1>1, <2>1, <3>2 DEF e
      <4> HIDE DEF z
      <4>2. SubSeq(After(a, z), 1, l-z) = After(SubSeq(a, 1, l), z)
        BY ONLY <3>1, <3>2, <4>1, PrefixAfter
      <4>3. After(a, z) = After(S, d+z)
        BY ONLY <1>1, <2>1, <4>1, AfterAfter DEF a
      <4>4. QED
        BY <3>3, <4>1, <4>2, <4>3 DEF z
    <3> HIDE DEF Q, q
    <3>6. Begins(q, t)
      <4>1. t \in Stacks /\ \A k \in DOMAIN t : t[k].shape = a
        BY <2>3 DEF IsWithin, a
      <4>2. QED
        BY <3>2, <3>3, <4>1 DEF Begins, Shapes
    <3>7. v[m][args(t)] = FlattenSeq([i \in 1..q[1] |-> v[m-1][Ahead(c, args(t), n-m, i)]])
      <4>1. args(t) \in [1..Len(c.args) -> Int]
        BY <1>5, <1>7, <2>3 DEF A
      <4> HIDE DEF args
      <4>2. v[m][args(t)] = FlattenSeq([i \in 1..c.dims[n-m+1] |-> v[m-1][Ahead(c, args(t), n-m, i)]])
        BY <1>8, <2>1, <4>1 DEF NpWalks
      <4>3. QED
        BY <2>1, <3>4, <4>2
    <3> DEFINE R == q[1]
    <3>8. R \in Nat
      BY <3>3, <3>4, FirstExtent DEF Shapes
    <3> HIDE DEF R
    <3>9. ASSUME NEW i \in 1..R
          PROVE  v[m-1][Ahead(c, args(t), n-m, i)] = CallsAt(c, n-1, Rows(After(q, 1), NextOf(t, i-1)))
      <4> DEFINE h == i-1
                 u == NextOf(t, h)
      <4>1. h \in Nat
        BY <3>8
      <4> HIDE DEF h
      <4>2. /\ IsWithin(s, S, d+1, u) /\ DOMAIN u = DOMAIN s
            /\ \A k \in DOMAIN s : u[k].at = t[k].at + h * s[k].steps[d+1]
        <5>1. /\ S \in Shapes /\ s \in Stacks /\ \A k \in DOMAIN s : Len(s[k].steps) = Len(S)
              /\ d \in Nat /\ d < Len(S) /\ h \in Nat
          BY <1>1, <1>3, <2>1, <4>1
        <5>2. QED
          BY ONLY <2>3, <5>1, WithinNext DEF u
      <4> HIDE DEF u
      <4>3. Ahead(c, args(t), n-m, i) = args(u)
        <5>1. \A k \in 1..N : c.steps[d*N+k] = s[k].steps[e]
          <6>1. e-1 = d
            BY <2>1 DEF e
          <6>2. QED
            BY <1>4, <2>1, <6>1
        <5>2. DOMAIN t = 1..N
          BY <1>2, <2>3 DEF IsWithin
        <5>3. Ahead(c, args(t), d, i) = [k \in 1..N |-> t[k].at + h * c.steps[d*N+k]]
          BY <1>5, <5>2 DEF Ahead, h
        <5>4. args(u) = [k \in 1..N |-> t[k].at + h * s[k].steps[e]]
          BY <1>2, <4>2 DEF e
        <5>5. Ahead(c, args(t), d, i) = args(u)
          <6> HIDE DEF args
          <6>1. QED
            BY <5>1, <5>3, <5>4
        <5>6. QED
          BY <2>1, <5>5
      <4> HIDE DEF args
      <4>4. v[n-e][args(u)] = CallsAt(c, n-1, Rows(Q(e), u))
        BY <2>2, <4>2 DEF e
      <4>5. QED
        BY <2>1, <3>5, <4>3, <4>4 DEF u, h
    <3>10. [i \in 1..R |-> v[m-1][Ahead(c, args(t), n-m, i)]]
           = [i \in 1..R |-> CallsAt(c, n-1, Rows(After(q, 1), NextOf(t, i-1)))]
      BY <3>9
    <3>11. FlattenSeq([i \in 1..R |-> CallsAt(c, n-1, Rows(After(q, 1), NextOf(t, i-1)))]) = CallsAt(c, n-1, Rows(q, t))
      <4> DEFINE blocks == [i \in 1..R |-> CallsAt(c, n-1, Rows(After(q, 1), NextOf(t, i-1)))]
                 f == n-1
      <4>1. blocks = [i \in 1..q[1] |-> CallsAt(c, f, Rows(After(q, 1), NextOf(t, i-1)))]
        BY DEF R
      <4> HIDE DEF blocks, f
      <4>2. FlattenSeq(blocks) = CallsAt(c, f, Rows(q, t))
        BY ONLY <3>4, <3>6, <4>1, CallsFlat
      <4>3. QED
        BY <4>2 DEF blocks, f
    <3>12. QED
      BY <3>7, <3>10, <3>11 DEF R, q
  <2>4. Claim(d)
    BY <2>3 DEF m
  <2>5. QED
    BY <2>1, <2>4 DEF T, d
<1>11. Claim(0)
  <2> DEFINE M == n-1
  <2>1. M \in Nat
    BY <1>1
  <2>2. \A j \in 0..M : j \in T
    <3> HIDE DEF T
    <3>1. QED
      BY <1>9, <1>10, <2>1, UpTo
  <2>3. M \in T /\ n-1-M = 0
    <3> HIDE DEF T
    <3>1. QED
      BY <2>1, <2>2
  <2>4. QED
    BY <2>3
<1>12. IsWithin(s, S, 0, s)
  <2>1. After(S, 0) = S /\ \A k \in DOMAIN s : After(s[k].steps, 0) = s[k].steps
    BY <1>1, <1>3, AfterNone, PlacedIs
  <2>2. \A k \in DOMAIN s : s[k].shape = S
    <3> SUFFICES ASSUME NEW k \in DOMAIN s PROVE s[k].shape = S
      OBVIOUS
    <3>1. s[k].shape \in Seq(Nat) /\ Len(s[k].shape) = n /\ \A i \in 1..n : s[k].shape[i] = S[i]
      BY <1>3, PlacedIs DEF Begins
    <3>2. QED
      BY <1>1, <3>1, SeqEqual
  <2>3. QED
    BY <1>1, <2>1, <2>2 DEF IsWithin
<1>13. v[n][args(s)] = CallsAt(c, n-1, Rows(SubSeq(S, 1, n-1), s))
  <2>1. n-0 = n /\ n-1-0 = n-1 /\ After(S, 0) = S
    BY <1>1, AfterNone
  <2>2. Q(0) = SubSeq(S, 1, n-1)
    BY <2>1
  <2> HIDE DEF Q, args
  <2>3. v[n-0][args(s)] = CallsAt(c, n-1, Rows(Q(0), s))
    BY <1>11, <1>12
  <2>4. QED
    BY <2>1, <2>2, <2>3
<1>14. QED
  BY <1>4, <1>8, <1>13 DEF NpWalks

\* A strided kernel runs through the last of the outer dimensions.
LEMMA RunStrided ==
  ASSUME NEW S, NEW s, Begins(S, s), S # << >>, \A k \in DOMAIN s : Len(s[k].shape) = Len(S),
         NEW c, Converted(c, s, S), NEW calls, calls = gm_np_map(c, Len(S)), NEW blocks,
         blocks = [i \in DOMAIN calls |-> StridedLoop(calls[i])]
  PROVE  FlattenSeq(blocks) = Places(S, s)
<1> DEFINE n == Len(S)
           N == Len(s)
           m == n-1
           P == SubSeq(S, 1, m)
           rows == Rows(P, s)
           R == Product(P)
<1>1. /\ S \in Shapes /\ S \in Seq(Nat) /\ s \in Stacks /\ n \in Nat \ {0} /\ m \in Nat /\ m <= Len(S) /\ n-m = 1
      /\ n = Len(S) /\ m = n-1
  BY EmptySeq DEF Begins, Shapes
<1>2. N \in Nat \ {0} /\ DOMAIN s = 1..N /\ N = Len(s)
  BY <1>1, StackIs
<1>3. /\ After(S, m) \in Shapes /\ Len(After(S, m)) = 1 /\ After(S, m)[1] = S[n]
  BY ONLY <1>1, S # << >>, LastExtent
<1>4. Begins(P, s)
  <2> HIDE DEF m
  <2>1. QED
    BY ONLY <1>1, Begins(S, s), BeginsLess
<1>5. calls = CallsAt(c, m, rows)
  BY NpMapMeans
<1>6. c.dims = S /\ c.steps \in Seq(Int) /\ Len(c.steps) = n*N
      /\ \A d \in 1..n : \A k \in 1..N : c.steps[(d-1)*N+k] = s[k].steps[d]
  BY DEF Converted
<1> HIDE DEF P
<1>7. /\ Len(rows) = R /\ R \in Nat /\ DOMAIN rows = 1..R
      /\ \A r \in 1..R : DOMAIN rows[r] = DOMAIN s
  <2>1. rows \in Seq(Stacks) /\ Len(rows) = R /\ R \in Nat /\ \A r \in 1..R : DOMAIN rows[r] = DOMAIN s
    BY <1>4, RowsType
  <2> HIDE DEF rows
  <2>2. DOMAIN rows = 1..Len(rows)
    BY <2>1
  <2>3. QED
    BY <2>1, <2>2
<1> HIDE DEF rows, R, n, N, m
<1>8. ASSUME NEW k \in 1..N PROVE SubSeq(c.steps, m*N+1, Len(c.steps))[k] = s[k].steps[n]
  <2> DEFINE a == m*N
             w == c.steps
  <2>1. a \in Nat /\ n*N = a + N
    <3>1. n = m+1 /\ (m+1)*N = m*N + N
      BY <1>1, <1>2
    <3>2. QED
      BY <1>1, <1>2, <3>1
  <2>2. w \in Seq(Int) /\ Len(w) = a + N /\ a <= Len(w) /\ k \in 1..(Len(w)-a)
    BY <1>2, <1>6, <2>1
  <2>3. w[a+k] = s[k].steps[n]
    <3>1. n \in 1..n /\ n-1 = m
      BY <1>1
    <3>2. c.steps[(n-1)*N+k] = s[k].steps[n]
      BY ONLY <1>6, <3>1, k \in 1..N
    <3>3. QED
      BY <3>1, <3>2
  <2> HIDE DEF a, w
  <2>4. After(w, a)[k] = w[a+k]
    BY <2>1, <2>2, AfterIs
  <2>5. SubSeq(w, a+1, Len(w))[k] = s[k].steps[n]
    BY <2>3, <2>4 DEF After
  <2>6. QED
    BY <2>5 DEF w, a
<1>9. SubSeq(c.dims, m+1, Len(c.dims))[1] = S[n]
  BY <1>3, <1>6 DEF After
<1>10. ASSUME NEW r \in 1..R
       PROVE  StridedLoop(calls[r]) = [i \in 1..S[n] |-> [k \in DOMAIN s |-> rows[r][k].at + (i-1) * s[k].steps[n]]]
  <2> DEFINE row == rows[r]
             args == [k \in DOMAIN row |-> row[k].at]
             u == calls[r]
  <2>1. u = Inside(c, m, args)
    BY <1>5, <1>7 DEF CallsAt, CallWith
  <2>2. DOMAIN row = 1..N /\ DOMAIN s = 1..N /\ DOMAIN args = 1..N
    BY <1>2, <1>7
  <2>3. Len(c.args) = N
    BY <1>2 DEF Converted
  <2> HIDE DEF u, args, row
  <2>8. u = [args |-> args, dims |-> SubSeq(c.dims, m+1, Len(c.dims)), steps |-> SubSeq(c.steps, m*N+1, Len(c.steps))]
    BY <2>1, <2>3 DEF Inside
  <2>9. u.args = args /\ u.dims = SubSeq(c.dims, m+1, Len(c.dims)) /\ u.steps = SubSeq(c.steps, m*N+1, Len(c.steps))
    BY ONLY <2>8
  <2>4. u.args = args /\ u.dims[1] = S[n] /\ \A k \in 1..N : u.steps[k] = s[k].steps[n]
    BY <1>8, <1>9, <2>9
  <2>5. StridedLoop(u) = [i \in 1..S[n] |-> [k \in 1..N |-> args[k] + (i-1) * u.steps[k]]]
    BY <2>2, <2>4 DEF StridedLoop
  <2>6. \A i \in 1..S[n] : [k \in 1..N |-> args[k] + (i-1) * u.steps[k]]
                           = [k \in 1..N |-> row[k].at + (i-1) * s[k].steps[n]]
    BY <2>2, <2>4 DEF args
  <2>7. QED
    BY <2>2, <2>5, <2>6 DEF u, row
<1>11. blocks = [r \in 1..R |-> [i \in 1..S[n] |-> [k \in DOMAIN s |-> rows[r][k].at + (i-1) * s[k].steps[n]]]]
  <2>1. DOMAIN calls = 1..R
    BY <1>5, <1>7 DEF CallsAt
  <2>2. QED
    BY <1>10, <2>1
<1>12. blocks = [r \in 1..Product(SubSeq(S, 1, Len(S)-1)) |->
                   [i \in 1..S[Len(S)] |->
                      [k \in DOMAIN s |-> Rows(SubSeq(S, 1, Len(S)-1), s)[r][k].at + (i-1) * s[k].steps[Len(S)]]]]
  BY <1>11 DEF R, rows, P, n, m
<1>13. QED
  BY ONLY Begins(S, s), S # << >>, <1>12, LastDimension

\* Without outer dimensions, gm_np_convert_xnd() puts the only dimension of each argument one after
\* the other; a scalar is an array of one element.
LEMMA ConvertInner ==
  ASSUME NEW S \in Shapes, NEW s \in Stacks, Len(S) <= 1, \A k \in DOMAIN s : s[k].shape = S
  PROVE  /\ ~Refuses(s, 0)
         /\ gm_np_convert_xnd(s, 0).args = [k \in DOMAIN s |-> s[k].at]
         /\ gm_np_convert_xnd(s, 0).dims \in Seq(Nat) /\ gm_np_convert_xnd(s, 0).steps \in Seq(Int)
         /\ gm_np_convert_xnd(s, 0).dims[1] = IF S = << >> THEN 1 ELSE S[1]
         /\ \A k \in DOMAIN s : gm_np_convert_xnd(s, 0).steps[k] = IF S = << >> THEN 0 ELSE s[k].steps[1]
<1> DEFINE z == 0
           N == Len(s)
           nd == [k \in DOMAIN s |-> gm_as_ndarray(s[k])]
           c == gm_np_convert_xnd(s, z)
           Below(v) == SubSeq(v, z+1, Len(v))
           blocks == [i \in 1..z |-> [k \in DOMAIN nd |-> nd[k].steps[i]]]
           da == [k \in DOMAIN nd |-> Below(nd[k].shape)]
           db == [k \in DOMAIN nd |-> Below(nd[k].steps)]
           extent == IF S = << >> THEN 1 ELSE S[1]
           step(k) == IF S = << >> THEN 0 ELSE s[k].steps[1]
<1>1. N \in Nat \ {0} /\ DOMAIN s = 1..N /\ \A k \in 1..N : s[k] \in Placed
  BY StackIs
<1>2. S \in Seq(Nat) /\ Len(S) \in Nat /\ (S = << >> => Len(S) = 0) /\ (S # << >> => Len(S) = 1)
  <2>1. S \in Seq(Nat) /\ Len(<< >>) = 0
    BY DEF Shapes
  <2> DEFINE l == Len(S)
  <2>2. l \in Nat /\ l <= 1 /\ (S # << >> => l # 0)
    BY <2>1, EmptySeq
  <2> HIDE DEF l
  <2>3. S # << >> => l = 1
    BY ONLY <2>2
  <2>4. QED
    BY <2>1, <2>2, <2>3 DEF l
<1>3. ASSUME NEW k \in 1..N
      PROVE  /\ nd[k].at = s[k].at
             /\ nd[k].shape \in Seq(Nat) /\ Len(nd[k].shape) = 1 /\ nd[k].shape[1] = extent
             /\ nd[k].steps \in Seq(Int) /\ Len(nd[k].steps) = 1 /\ nd[k].steps[1] = step(k)
  <2> DEFINE x == s[k]
  <2>1. /\ x \in Placed /\ x.shape = S /\ nd[k] = gm_as_ndarray(x)
    BY <1>1
  <2>2. step(k) = IF S = << >> THEN 0 ELSE x.steps[1]
    OBVIOUS
  <2>3. /\ x.steps \in Seq(Int) /\ Len(x.steps) = Len(S)
        /\ x = [at |-> x.at, shape |-> x.shape, steps |-> x.steps]
    BY <2>1, PlacedIs
  <2> HIDE DEF x, nd, step
  <2>4. CASE S = << >>
    <3>1. nd[k] = [at |-> x.at, shape |-> <<1>>, steps |-> <<0>>]
      BY <2>1, <2>3, <2>4 DEF gm_as_ndarray
    <3>2. <<1>> \in Seq(Nat) /\ Len(<<1>>) = 1 /\ <<0>> \in Seq(Int) /\ Len(<<0>>) = 1 /\ <<1>>[1] = 1 /\ <<0>>[1] = 0
      OBVIOUS
    <3>3. QED
      BY <2>2, <2>4, <3>1, <3>2 DEF x
  <2>5. CASE S # << >>
    <3>1. nd[k] = x
      BY <2>1, <2>5 DEF gm_as_ndarray
    <3>2. QED
      BY <1>2, <2>1, <2>2, <2>3, <2>5, <3>1 DEF x
  <2>6. QED
    BY <2>4, <2>5
<1>4. /\ c.args = [k \in DOMAIN nd |-> nd[k].at]
      /\ c.dims = SubSeq(nd[1].shape, 1, z) \o FlattenSeq(da)
      /\ c.steps = FlattenSeq(blocks) \o FlattenSeq(db)
  BY DEF gm_np_convert_xnd
<1>5. DOMAIN nd = 1..N
  BY <1>1
<1>6. z = 0 /\ z \in Nat
  OBVIOUS
<1> HIDE DEF nd, c, N, z, extent, step
<1>7. c.args = [k \in DOMAIN s |-> s[k].at]
  BY <1>1, <1>3, <1>4, <1>5
<1>8. SubSeq(nd[1].shape, 1, z) = << >>
  <2> DEFINE w == nd[1].shape
             e == SubSeq(w, 1, z)
  <2>1. 1 \in 1..N
    BY <1>1
  <2>2. w \in Seq(Nat) /\ Len(w) = 1 /\ z <= Len(w)
    BY <1>3, <1>6, <2>1
  <2> HIDE DEF w
  <2>3. e \in Seq(Nat) /\ Len(e) = 0
    BY ONLY <1>6, <2>2, PrefixIs
  <2> HIDE DEF e
  <2>4. e = << >>
    BY <2>3, EmptySeq
  <2>5. QED
    BY <2>4 DEF e, w
<1>9. FlattenSeq(blocks) = << >>
  <2>1. 1..z = {}
    BY <1>6
  <2>2. blocks = [i \in 1..z |-> << >>]
    BY <2>1
  <2> HIDE DEF blocks
  <2>3. QED
    BY <1>6, <2>2, FlatNone
<1>10. ASSUME NEW X, NEW v \in Seq(X) PROVE Below(v) = v
  <2>1. After(v, z) = v
    BY <1>6, AfterNone
  <2>2. QED
    BY <2>1 DEF After
<1>11. ASSUME NEW k \in 1..N PROVE da[k] = nd[k].shape /\ db[k] = nd[k].steps
  <2>1. da[k] = Below(nd[k].shape) /\ db[k] = Below(nd[k].steps)
    BY <1>5
  <2>2. nd[k].shape \in Seq(Nat) /\ nd[k].steps \in Seq(Int)
    BY <1>3
  <2> HIDE DEF Below, da, db
  <2>3. Below(nd[k].shape) = nd[k].shape
    BY <1>10, <2>2
  <2>4. Below(nd[k].steps) = nd[k].steps
    BY <1>10, <2>2
  <2>5. QED
    BY <2>1, <2>3, <2>4
<1>12. DOMAIN da = 1..N /\ DOMAIN db = 1..N /\ da = [k \in 1..N |-> da[k]] /\ db = [k \in 1..N |-> db[k]]
  BY <1>5
<1> HIDE DEF da, db, blocks, Below
<1>13. da \in [1..N -> Seq(Nat)] /\ \A k \in 1..N : Len(da[k]) = 1 /\ da[k][1] = extent
  BY <1>3, <1>11, <1>12
<1>14. db \in [1..N -> Seq(Int)] /\ \A k \in 1..N : Len(db[k]) = 1 /\ db[k][1] = step(k)
  BY <1>3, <1>11, <1>12
<1>15. ASSUME NEW X, NEW b \in [1..N -> Seq(X)], \A k \in 1..N : Len(b[k]) = 1
       PROVE  FlattenSeq(b) \in Seq(X) /\ Len(FlattenSeq(b)) = N /\ \A k \in 1..N : FlattenSeq(b)[k] = b[k][1]
  <2> DEFINE L == 1
             f == FlattenSeq(b)
  <2>1. L \in Nat \ {0} /\ N \in Nat /\ b \in [1..N -> Seq(X)] /\ \A k \in 1..N : Len(b[k]) = L
    BY <1>1, <1>15
  <2> HIDE DEF L
  <2>2. f \in Seq(X) /\ Len(f) = N*L /\ \A r \in 1..N : \A q \in 1..L : f[(r-1)*L+q] = b[r][q]
    BY ONLY <2>1, FlatBlocks
  <2> HIDE DEF f
  <2>3. N*L = N /\ 1 \in 1..L /\ \A r \in 1..N : (r-1)*L+1 = r
    BY <1>1 DEF L
  <2>4. QED
    BY <2>2, <2>3 DEF f
<1>16. FlattenSeq(da) \in Seq(Nat) /\ Len(FlattenSeq(da)) = N /\ \A k \in 1..N : FlattenSeq(da)[k] = da[k][1]
  BY <1>13, <1>15
<1>17. FlattenSeq(db) \in Seq(Int) /\ Len(FlattenSeq(db)) = N /\ \A k \in 1..N : FlattenSeq(db)[k] = db[k][1]
  BY <1>14, <1>15
<1>18. c.dims = FlattenSeq(da) /\ c.steps = FlattenSeq(db)
  <2> DEFINE f == FlattenSeq(da)
             g == FlattenSeq(db)
  <2>1. f \in Seq(Nat) /\ g \in Seq(Int) /\ c.dims = << >> \o f /\ c.steps = << >> \o g
    BY <1>4, <1>8, <1>9, <1>16, <1>17
  <2> HIDE DEF f, g
  <2>2. << >> \o f = f /\ << >> \o g = g
    BY <2>1, ConcatEmptySeq
  <2>3. QED
    BY <2>1, <2>2 DEF f, g
<1>19. c.dims[1] = extent /\ \A k \in DOMAIN s : c.steps[k] = step(k)
  <2>1. 1 \in 1..N
    BY <1>1
  <2>2. QED
    BY <1>1, <1>13, <1>14, <1>16, <1>17, <1>18, <2>1
<1>20. ~Refuses(s, z)
  <2> DEFINE a == [k \in DOMAIN s |-> IF NDim(s[k]) = z THEN 1 ELSE NDim(s[k]) - z]
             room == sum_inner_dimensions(s, z)
  <2>1. a = [k \in 1..N |-> 1]
    <3>1. \A k \in 1..N : NDim(s[k]) = Len(S)
      BY <1>1 DEF NDim
    <3>2. Len(S) \in {0, 1}
      BY <1>2
    <3>3. QED
      BY <1>1, <1>6, <3>1, <3>2
  <2>2. room = N
    <3> HIDE DEF a
    <3>1. a \in Seq(Int) /\ Len(a) = N /\ \A j \in 1..Len(a) : a[j] = 1
      BY <1>1, <2>1
    <3>2. Total(a) = N
      BY <3>1, TotalOnes
    <3>3. QED
      BY <3>2 DEF sum_inner_dimensions, a
  <2> HIDE DEF room
  <2>3. \A x \in Range(s) : SubSeq(x.shape, 1, z) = SubSeq(s[1].shape, 1, z)
    <3>1. \A x \in Range(s) : x.shape = S
      BY <1>1 DEF Range
    <3>2. s[1].shape = S
      BY <1>1
    <3>3. QED
      BY <3>1, <3>2
  <2>4. ~(Len(c.dims) > z + room) /\ ~(Len(c.steps) > N*z + room)
    <3>1. Len(c.dims) = N /\ Len(c.steps) = N
      BY <1>16, <1>17, <1>18
    <3>2. N*z = 0 /\ z + N = N
      BY <1>1, <1>6
    <3>3. QED
      BY <1>1, <2>2, <3>1, <3>2
  <2>5. QED
    BY <2>3, <2>4 DEF Refuses, room, c, N
<1>21. c.dims \in Seq(Nat) /\ c.steps \in Seq(Int)
  BY <1>16, <1>17, <1>18
<1>22. QED
  BY <1>7, <1>19, <1>20, <1>21 DEF c, z, extent, step

\* Without outer dimensions there is one call.
LEMMA RunOne ==
  ASSUME NEW S \in Shapes, NEW s \in Stacks, Len(S) <= 1, \A k \in DOMAIN s : s[k].shape = S,
         NEW calls, calls = gm_np_map(gm_np_convert_xnd(s, 0), 0), NEW blocks,
         blocks = [i \in DOMAIN calls |-> StridedLoop(calls[i])]
  PROVE  FlattenSeq(blocks) = Places(S, s)
<1> DEFINE c == gm_np_convert_xnd(s, 0)
           N == Len(s)
           args == [k \in DOMAIN s |-> s[k].at]
           u == Inside(c, 0, args)
<1>1. N \in Nat \ {0} /\ DOMAIN s = 1..N /\ \A k \in 1..N : s[k] \in Placed /\ s[k].shape = S
  BY StackIs
<1>2. /\ c.args = args /\ c.dims \in Seq(Nat) /\ c.steps \in Seq(Int)
      /\ c.dims[1] = IF S = << >> THEN 1 ELSE S[1]
      /\ \A k \in DOMAIN s : c.steps[k] = IF S = << >> THEN 0 ELSE s[k].steps[1]
  BY ConvertInner
<1> HIDE DEF c
<1>3. Begins(S, s)
  BY <1>1 DEF Begins, Shapes
<1>4. args \in [1..N -> Int] /\ Len(c.args) = N /\ DOMAIN args = 1..N
  <2>1. \A k \in 1..N : s[k].at \in Int
    BY <1>1, PlacedIs
  <2>2. args = [k \in 1..N |-> s[k].at]
    BY <1>1
  <2> HIDE DEF args
  <2>3. args \in [1..N -> Int]
    BY <2>1, <2>2
  <2>4. args \in Seq(Int) /\ Len(args) = N
    BY ONLY <2>3, <1>1
  <2>5. QED
    BY <1>2, <2>3, <2>4
<1> HIDE DEF args
<1>5. calls = <<u>>
  <2> DEFINE n == 0
  <2>1. n \in Nat /\ \A m \in 2..n : /\ c.dims[n-m+1] \in Nat
                                     /\ \A k \in 1..Len(c.args) : c.steps[(n-m) * Len(c.args) + k] \in Int
    OBVIOUS
  <2>2. n \in 0..n /\ n <= 1 /\ n-n = 0 /\ Len(c.args) \in Nat
    BY <1>1, <1>4
  <2>3. calls = gm_np_map(c, n)
    BY DEF c
  <2> HIDE DEF n
  <2>4. PICK v : NpWalks(v, c, n)
    BY ONLY <2>1, <2>2, NpRec
  <2>5. v[n][args] = <<Inside(c, n-n, args)>>
    BY <1>4, <2>2, <2>4 DEF NpWalks
  <2>6. gm_np_map(c, n) = v[n][c.args]
    BY <2>4 DEF NpWalks
  <2>7. QED
    BY <1>2, <2>2, <2>3, <2>5, <2>6
<1>6. u.args = args /\ u.dims = After(c.dims, 0) /\ u.steps = After(c.steps, 0)
  <2>1. 0 * Len(c.args) + 1 = 1 /\ 0+1 = 1
    BY <1>1, <1>4
  <2>2. QED
    BY <2>1 DEF Inside, After
<1>7. u.dims[1] = c.dims[1] /\ \A k \in 1..N : u.steps[k] = c.steps[k]
  <2>1. After(c.dims, 0) = c.dims /\ After(c.steps, 0) = c.steps
    BY <1>2, AfterNone
  <2> HIDE DEF u
  <2>2. QED
    BY <1>6, <2>1
<1> HIDE DEF u
<1>8. StridedLoop(u) = [i \in 1..c.dims[1] |-> [k \in DOMAIN s |-> args[k] + (i-1) * c.steps[k]]]
  BY <1>1, <1>4, <1>6, <1>7 DEF StridedLoop
<1>9. blocks = <<StridedLoop(u)>>
  BY <1>5
<1>10. CASE S = << >>
  <2> DEFINE rows == <<s>>
  <2>1. Rows(S, s) = rows
    <3>1. Len(S) = 0
      BY <1>10
    <3>2. QED
      BY <1>3, <3>1, RowsNone
  <2>2. StridedLoop(u) = <<args>>
    <3>1. \A k \in 1..N : args[k] + (1-1) * c.steps[k] = args[k]
      <4> SUFFICES ASSUME NEW k \in 1..N PROVE args[k] + (1-1) * c.steps[k] = args[k]
        OBVIOUS
      <4> DEFINE a == args[k]
      <4>1. a \in Int /\ c.steps[k] = 0
        BY <1>1, <1>2, <1>4, <1>10
      <4> HIDE DEF a
      <4>2. QED
        BY <4>1 DEF a
    <3>2. [k \in DOMAIN s |-> args[k] + (1-1) * c.steps[k]] = [k \in 1..N |-> args[k]]
      BY <1>1, <3>1
    <3>3. c.dims[1] = 1 /\ 1..1 = {1}
      BY <1>2, <1>10
    <3>4. args = [k \in 1..N |-> args[k]]
      BY <1>4
    <3>5. QED
      BY <1>8, <3>2, <3>3, <3>4
  <2>3. s # Error
    BY <1>1 DEF Error
  <2>4. blocks = [i \in DOMAIN rows |-> IF rows[i] = Error THEN <<Error>>
                                        ELSE <<[k \in DOMAIN rows[i] |-> rows[i][k].at]>>]
    BY <1>9, <2>2, <2>3 DEF args
  <2> HIDE DEF rows
  <2>5. QED
    BY ONLY <1>3, <2>1, <2>4, RunRows
<1>11. CASE S # << >>
  <2> DEFINE P == SubSeq(S, 1, Len(S)-1)
  <2>1. Len(S) = 1 /\ S \in Seq(Nat)
    <3>1. S \in Seq(Nat)
      BY DEF Shapes
    <3>2. Len(S) # 0
      BY <1>11, <3>1, EmptySeq
    <3> DEFINE l == Len(S)
    <3>3. l \in Nat /\ l <= 1 /\ l # 0
      BY <3>1, <3>2
    <3> HIDE DEF l
    <3>4. l = 1
      BY ONLY <3>3
    <3>5. QED
      BY <3>1, <3>4 DEF l
  <2>2. P \in Shapes /\ Len(P) = 0
    <3>1. P \in Shapes /\ Len(P) = Len(S)-1
      BY ONLY S \in Shapes, <1>11, LastExtent
    <3>2. QED
      BY <2>1, <3>1
  <2>3. Begins(P, s)
    <3> DEFINE m == Len(S)-1
    <3>1. m \in Nat /\ m <= Len(S)
      BY <2>1
    <3> HIDE DEF m
    <3>2. Begins(SubSeq(S, 1, m), s)
      BY ONLY <1>3, <3>1, BeginsLess
    <3>3. QED
      BY <3>2 DEF m
  <2> HIDE DEF P
  <2>4. Product(P) = 1 /\ Rows(P, s) = <<s>>
    BY <2>2, <2>3, ProductNone, RowsNone
  <2>5. StridedLoop(u) = [i \in 1..S[Len(S)] |->
                            [k \in DOMAIN s |-> Rows(P, s)[1][k].at + (i-1) * s[k].steps[Len(S)]]]
    <3>1. \A k \in DOMAIN s : args[k] = s[k].at /\ c.steps[k] = s[k].steps[1]
      BY <1>2, <1>11 DEF args
    <3>2. c.dims[1] = S[1] /\ <<s>>[1] = s
      BY <1>2, <1>11
    <3>3. QED
      BY <1>8, <2>1, <2>4, <3>1, <3>2
  <2>6. blocks = [r \in 1..Product(P) |->
                    [i \in 1..S[Len(S)] |->
                       [k \in DOMAIN s |-> Rows(P, s)[r][k].at + (i-1) * s[k].steps[Len(S)]]]]
    <3> DEFINE b(r) == [i \in 1..S[Len(S)] |-> [k \in DOMAIN s |-> Rows(P, s)[r][k].at + (i-1) * s[k].steps[Len(S)]]]
    <3>1. blocks = <<b(1)>>
      BY <1>9, <2>5
    <3> HIDE DEF b
    <3>2. blocks = [r \in 1..Product(P) |-> b(r)]
      BY <2>4, <3>1
    <3>3. QED
      BY <3>2 DEF b
  <2>7. QED
    BY ONLY <1>3, <1>11, <2>6, LastDimension DEF P
<1>12. QED
  BY <1>10, <1>11

-----------------------------------------------------------------------------
(* gm_apply().                                                             *)

\* The stack that gm_apply() is called with.
Start == [k \in DOMAIN types |-> From(types[k], 0)]

LEMMA StartIs ==
  ASSUME call \in Calls, Ready(acc, types, outer)
  PROVE  /\ Begins(acc, Start) /\ Len(acc) = outer /\ outer \in Nat /\ call.inner \in Nat /\ Out \in Nat \ {0}
         /\ types \in Seq(NDArrays) /\ Len(types) = Out /\ DOMAIN types = 1..Out /\ DOMAIN Start = 1..Out
         /\ \A k \in 1..Out :
              /\ Start[k].at = 0 /\ Start[k].shape = types[k].shape /\ Start[k].steps = types[k].steps
              /\ types[k] \in NDArrays /\ NDim(types[k]) = outer + call.inner
              /\ Len(types[k].shape) = outer + call.inner /\ Len(types[k].steps) = outer + call.inner
              /\ \A i \in 1..outer : types[k].shape[i] = acc[i]
<1>1. /\ DOMAIN types = 1..Out /\ \A k \in 1..Out : Shaped(types[k], acc)
      /\ types \in Seq(NDArrays) /\ Len(types) = Out /\ outer = Len(acc) /\ acc \in Shapes
      /\ Out \in Nat \ {0}
  <2>1. DOMAIN types = 1..Out /\ Out = call.nin+1 /\ call.nin \in Nat /\ \A k \in 1..Out : Shaped(types[k], acc)
    BY ReadyShaped
  <2>2. types \in Seq(NDArrays) /\ Len(types) = Out /\ outer = Len(acc) /\ acc \in Shapes
    BY DEF Ready, Joins
  <2> HIDE DEF Out
  <2>3. QED
    BY <2>1, <2>2
<1>2. outer \in Nat /\ call.inner \in Nat
  BY <1>1, ValidCall DEF Shapes
<1>3. ASSUME NEW k \in 1..Out
      PROVE  /\ Start[k].at = 0 /\ Start[k].shape = types[k].shape /\ Start[k].steps = types[k].steps
             /\ Start[k] \in Placed
             /\ types[k] \in NDArrays /\ NDim(types[k]) = outer + call.inner
             /\ Len(types[k].shape) = outer + call.inner /\ Len(types[k].steps) = outer + call.inner
             /\ \A i \in 1..outer : types[k].shape[i] = acc[i]
  <2> DEFINE x == types[k]
  <2>1. Start[k] = From(x, 0)
    BY <1>1 DEF Start
  <2>2. x \in NDArrays /\ NDim(x) = outer + call.inner /\ OuterShape(x) = acc
    BY <1>1 DEF Shaped
  <2> HIDE DEF x
  <2>3. x.shape \in Shapes /\ x.steps \in Seq(Int) /\ Len(x.steps) = Len(x.shape) /\ Len(x.shape) = outer + call.inner
    BY <2>2, ArrayType DEF NDim
  <2>4. Start[k] \in Placed
    BY <2>1, <2>3 DEF From, Placed, Shapes
  <2>5. \A i \in 1..outer : x.shape[i] = acc[i]
    BY <1>1, <1>2, <2>2, OuterType
  <2>6. QED
    BY <2>1, <2>2, <2>3, <2>4, <2>5 DEF From, x
<1>4. DOMAIN Start = 1..Out
  BY <1>1 DEF Start
<1>5. Start \in Stacks
  <2>1. Start = [k \in 1..Out |-> Start[k]]
    BY <1>1, <1>4 DEF Start
  <2>2. \A k \in 1..Out : Start[k] \in Placed
    BY <1>3
  <2>3. QED
    BY ONLY <1>1, <1>4, <2>1, <2>2, StackOf
<1>6. Begins(acc, Start)
  <2>1. \A k \in DOMAIN Start : Len(acc) <= Len(Start[k].shape) /\ \A i \in 1..Len(acc) : Start[k].shape[i] = acc[i]
    BY <1>1, <1>2, <1>3, <1>4
  <2>2. QED
    BY <1>1, <1>5, <2>1 DEF Begins
<1>7. QED
  BY <1>1, <1>2, <1>3, <1>4, <1>6

\* What the kernel that is selected asks of the arguments for its last outer dimension.
LEMMA SelectedSteps ==
  ASSUME call \in Calls, KInv, pc = "done"
  PROVE  /\ kernel \in Kernels
         /\ kernel \in {"OptC", "OptZ", "OptS"} => outer # 0
         /\ outer # 0 => StepsPacked(acc, Start)
<1>1. Ready(acc, types, outer) /\ flags = SelectFlags(types, outer)
  BY DEF KInv, Selecting
<1>2. PICK i \in 1..7 : kernel = Order[i] /\ Requests(kernel, flags)
  BY OrderIs DEF KInv, Selected, Usable
<1>3. kernel \in Kernels
  BY <1>2, OrderIs
<1>4. /\ Len(acc) = outer /\ outer \in Nat /\ call.inner \in Nat /\ Out \in Nat \ {0}
      /\ types \in Seq(NDArrays) /\ Len(types) = Out /\ DOMAIN Start = 1..Out
      /\ \A k \in 1..Out :
           /\ Start[k].at = 0 /\ Start[k].shape = types[k].shape /\ Start[k].steps = types[k].steps
           /\ types[k] \in NDArrays /\ NDim(types[k]) = outer + call.inner
           /\ Len(types[k].shape) = outer + call.inner
           /\ \A j \in 1..outer : types[k].shape[j] = acc[j]
  BY <1>1, StartIs
<1>5. \A k \in 1..Out : Asks(kernel) \subseteq Keeps(types[k], outer)
  BY <1>1, <1>2, <1>3, <1>4, RequestsMeans
<1>6. ASSUME kernel \in {"OptC", "OptZ", "OptS"} PROVE outer # 0
  <2>1. 1 \in 1..Out
    BY <1>4
  <2>2. Asks(kernel) \subseteq Keeps(types[1], outer)
    BY <1>5, <2>1
  <2>3. "EXT_C" \in Asks(kernel) \/ "EXT_ZERO" \in Asks(kernel) \/ "EXT_S" \in Asks(kernel)
    BY <1>6 DEF Asks
  <2>4. QED
    BY <2>2, <2>3, KeepsMeans
<1>7. ASSUME outer # 0, kernel = "OptC", NEW k \in 1..Out, acc[outer] > 1
      PROVE  Start[k].steps[outer] = Product(After(Start[k].shape, outer))
  <2> DEFINE x == types[k]
             n == outer
  <2>1. /\ Start[k].shape = x.shape /\ Start[k].steps = x.steps /\ x.shape[n] = acc[n]
        /\ NDim(x) = n + call.inner /\ Len(x.shape) = n + call.inner
    <3>1. outer \in 1..outer
      BY <1>4, <1>7
    <3>2. QED
      BY <1>4, <3>1
  <2>2. "EXT_C" \in Keeps(x, n)
    BY <1>5, <1>7 DEF Asks
  <2> HIDE DEF x, n
  <2>3. ~(x.shape[n] > 1 /\ x.steps[n] # Product(Inner(x, NDim(x)-n).shape))
    BY <2>2, KeepsMeans
  <2>4. x.steps[n] = Product(Inner(x, NDim(x)-n).shape)
    BY <1>7, <2>1, <2>3 DEF n
  <2>5. Inner(x, NDim(x)-n).shape = After(x.shape, n)
    <3> DEFINE D == NDim(x)
    <3>4. D = n + call.inner /\ D = Len(x.shape)
      BY <2>1
    <3>5. n \in Nat /\ call.inner \in Nat
      BY <1>4 DEF n
    <3> HIDE DEF D
    <3>7. \A a, b \in Nat : a+b \in Nat /\ (a+b)-((a+b)-a)+1 = a+1
      OBVIOUS
    <3>1. D \in Nat /\ n \in Nat /\ D-(D-n)+1 = n+1 /\ D = Len(x.shape)
      BY ONLY <3>4, <3>5, <3>7, Zenon
    <3>2. Inner(x, D-n).shape = SubSeq(x.shape, D-(D-n)+1, D)
      BY DEF Inner, D
    <3>3. Inner(x, D-n).shape = SubSeq(x.shape, n+1, Len(x.shape))
      BY <3>1, <3>2
    <3>6. QED
      BY <3>3 DEF After, D
  <2>6. QED
    BY <2>1, <2>4, <2>5 DEF n
<1>8. outer # 0 => StepsPacked(acc, Start)
  BY <1>4, <1>7 DEF StepsPacked
<1>9. QED
  BY <1>3, <1>6, <1>8

\* What a kernel with inner dimensions is applied to has the same inner dimensions everywhere.
LEMMA TypesInner ==
  ASSUME FoldsFast, call \in Calls, KInv, InnerInv, pc = "done", ~call.fast, NEW k \in 1..Out
  PROVE  InnerShape(types[k]) = InnerShape(call.args[1])
<1>1. Ready(acc, types, outer)
  BY DEF KInv, Selecting
<1>2. SameInner(NArgs) /\ (~HasOut => InnerShape(types[Out]) = InnerShape(call.args[1]))
  BY DEF InnerInv
<1>3. /\ call.nin \in Nat \ {0} /\ NArgs \in {call.nin, call.nin+1} /\ (HasOut <=> NArgs = call.nin+1)
      /\ Out = call.nin+1 /\ (call.check => HasOut)
  BY ValidCall DEF Out
<1>4. CASE k \in 1..call.nin
  <2>1. k \in 1..NArgs
    BY <1>3, <1>4
  <2>2. types[k] = Broadcast(call.args[k], acc, call.inner, FALSE)
    BY <1>1, <1>4 DEF Ready
  <2> DEFINE u == call.args[k]
  <2>3. Joins(acc, OuterShapes(NArgs)) /\ NDim(u) >= call.inner
    BY <1>1, <2>1 DEF Ready
  <2>4. u \in NDArrays /\ call.inner \in Nat /\ acc \in Shapes /\ call.inner <= NDim(u) /\ Fits(OuterShape(u), acc)
    BY <2>1, <2>3, ArgumentFits
  <2>5. InnerShape(u) = InnerShape(call.args[1])
    BY <1>2, <2>1 DEF SameInner
  <2> HIDE DEF u
  <2>6. NDim(u) - call.inner <= Len(acc)
    <3>1. Len(OuterShape(u)) = NDim(u) - call.inner
      BY <2>4, OuterType
    <3>2. QED
      BY <2>4, <3>1 DEF Fits
  <2>7. InnerShape(Broadcast(u, acc, call.inner, FALSE)) = InnerShape(u)
    BY <2>4, <2>6, InnerKept
  <2>8. QED
    BY <2>2, <2>5, <2>7 DEF u
<1>5. CASE k = Out /\ HasOut /\ call.check
  <2>1. types[Out] = call.args[Out] /\ Out \in 1..NArgs
    BY <1>1, <1>3, <1>5 DEF Ready
  <2>2. QED
    BY <1>2, <1>5, <2>1 DEF SameInner
<1>6. CASE k = Out /\ HasOut /\ ~call.check
  BY <1>6 DEF FoldsFast, HasOut
<1>7. CASE k = Out /\ ~HasOut
  BY <1>2, <1>7
<1>8. k \in 1..call.nin \/ k = Out
  BY <1>3
<1>9. QED
  BY <1>4, <1>5, <1>6, <1>7, <1>8

\* The dimensions through which gm_apply() goes, and what it runs through.
LEMMA StridedShapes ==
  ASSUME FoldsFast, call \in Calls, KInv, InnerInv, pc = "done", call.inner = 0 \/ outer + call.inner <= 1,
         NEW k \in 1..Out
  PROVE  types[k].shape = types[1].shape
<1> DEFINE a == types[k].shape
           b == types[1].shape
<1>1. Ready(acc, types, outer)
  BY DEF KInv, Selecting
<1>2. /\ outer \in Nat /\ call.inner \in Nat /\ Out \in Nat \ {0} /\ 1 \in 1..Out
      /\ \A j \in 1..Out : /\ types[j] \in NDArrays /\ NDim(types[j]) = outer + call.inner
                           /\ Len(types[j].shape) = outer + call.inner
                           /\ \A i \in 1..outer : types[j].shape[i] = acc[i]
  BY <1>1, StartIs
<1>3. a \in Seq(Nat) /\ b \in Seq(Nat)
  BY <1>2, ArrayType DEF Shapes
<1>4. CASE call.inner = 0
  <2>1. Len(a) = outer /\ Len(b) = outer /\ \A i \in 1..outer : a[i] = acc[i] /\ b[i] = acc[i]
    BY <1>2, <1>4
  <2> HIDE DEF a, b
  <2>2. a = b
    BY <1>2, <1>3, <2>1, SeqEqual
  <2>3. QED
    BY <2>2 DEF a, b
<1>5. CASE call.inner # 0
  <2>1. outer = 0 /\ ~call.fast
    BY <1>2, <1>5, ValidCall
  <2>2. NDim(types[k]) = call.inner /\ NDim(types[1]) = call.inner
    BY <1>2, <2>1
  <2>3. InnerShape(types[k]) = types[k].shape /\ InnerShape(types[1]) = types[1].shape
    BY <1>2, <2>2, InnerWhole
  <2>4. InnerShape(types[k]) = InnerShape(types[1])
    BY <1>2, <2>1, TypesInner
  <2>5. QED
    BY <2>3, <2>4
<1>6. QED
  BY <1>4, <1>5

LEMMA ApplyRuns ==
  ASSUME FoldsFast, call \in Calls, KInv, InnerInv, pc = "done", ~LosesInner
  PROVE  Begins(Looped, Start) /\ gm_apply(Start) = Places(Looped, Start)
<1>1. Ready(acc, types, outer)
  BY DEF KInv, Selecting
<1>2. /\ Begins(acc, Start) /\ Len(acc) = outer /\ outer \in Nat /\ call.inner \in Nat /\ Out \in Nat \ {0}
      /\ DOMAIN Start = 1..Out /\ 1 \in 1..Out
      /\ \A k \in 1..Out : /\ Start[k].shape = types[k].shape /\ types[k] \in NDArrays
                           /\ Len(types[k].shape) = outer + call.inner
                           /\ \A i \in 1..outer : types[k].shape[i] = acc[i]
  BY <1>1, StartIs
<1>3. /\ kernel \in Kernels
      /\ kernel \in {"OptC", "OptZ", "OptS"} => outer # 0
      /\ outer # 0 => StepsPacked(acc, Start)
  BY SelectedSteps
<1>4. acc \in Shapes /\ Start \in Stacks /\ (outer # 0 <=> acc # << >>)
  <2>1. acc \in Shapes /\ Start \in Stacks /\ acc \in Seq(Nat)
    BY <1>2 DEF Begins, Shapes
  <2>2. QED
    BY <1>2, <2>1, EmptySeq
<1> HIDE DEF Start
<1>5. CASE kernel \in {"OptC", "OptZ", "OptS"}
  <2> DEFINE P == SubSeq(acc, 1, outer-1)
             rows == gm_xnd_map(Start, outer-1)
             blocks == [i \in DOMAIN rows |-> IF rows[i] = Error THEN <<Error>> ELSE LoopOver(rows[i])]
             m == outer-1
  <2>1. m \in Nat /\ m <= Len(acc) /\ outer > 0 /\ acc # << >>
    BY <1>2, <1>3, <1>4, <1>5
  <2>2. gm_apply(Start) = FlattenSeq(blocks) /\ Looped = acc
    BY <1>5, <2>1 DEF gm_apply, WorkOn, Looped
  <2> HIDE DEF m
  <2>3. Begins(SubSeq(acc, 1, m), Start)
    BY ONLY <1>2, <2>1, BeginsLess
  <2>4. Len(SubSeq(acc, 1, m)) = m
    BY <1>4, <2>1, PrefixIs DEF Shapes
  <2>5. Begins(P, Start) /\ Len(P) = outer-1
    BY <2>3, <2>4 DEF m
  <2> HIDE DEF P
  <2>6. gm_xnd_map(Start, Len(P)) = Rows(P, Start)
    BY <2>5, MapMeans
  <2>7. rows = Rows(SubSeq(acc, 1, Len(acc)-1), Start)
    BY <1>2, <2>5, <2>6 DEF P
  <2>8. StepsPacked(acc, Start) /\ blocks = [i \in DOMAIN rows |-> IF rows[i] = Error THEN <<Error>> ELSE LoopOver(rows[i])]
    BY <1>3, <1>4, <2>1
  <2> HIDE DEF rows, blocks
  <2>9. FlattenSeq(blocks) = Places(acc, Start)
    BY ONLY <1>2, <2>1, <2>7, <2>8, RunLoops
  <2>10. QED
    BY <1>2, <2>2, <2>9
<1>6. CASE kernel \in {"C", "Fortran", "Xnd"}
  <2> DEFINE rows == gm_xnd_map(Start, outer)
             blocks == [i \in DOMAIN rows |-> IF rows[i] = Error THEN <<Error>>
                                              ELSE <<[k \in DOMAIN rows[i] |-> rows[i][k].at]>>]
  <2>1. gm_apply(Start) = FlattenSeq(blocks) /\ Looped = acc
    BY <1>6 DEF gm_apply, WorkOn, Looped
  <2>2. gm_xnd_map(Start, Len(acc)) = Rows(acc, Start)
    BY <1>2, MapMeans
  <2>3. rows = Rows(acc, Start)
    BY <1>2, <2>2
  <2>4. blocks = [i \in DOMAIN rows |-> IF rows[i] = Error THEN <<Error>>
                                        ELSE <<[k \in DOMAIN rows[i] |-> rows[i][k].at]>>]
    OBVIOUS
  <2> HIDE DEF rows, blocks
  <2>5. FlattenSeq(blocks) = Places(acc, Start)
    BY ONLY <1>2, <2>3, <2>4, RunRows
  <2>6. QED
    BY <1>2, <2>1, <2>5
<1>7. CASE kernel = "Strided"
  <2> DEFINE S == types[1].shape
             s == Start
             n == outer
             c == gm_np_convert_xnd(s, n)
             calls == gm_np_map(c, n)
             blocks == [i \in DOMAIN calls |-> StridedLoop(calls[i])]
  <2>1. /\ Looped = S
        /\ gm_apply(s) = IF Refuses(s, n) THEN <<Error>> ELSE FlattenSeq(blocks)
    BY <1>7 DEF gm_apply, Looped
  <2>2. call.inner = 0 \/ outer + call.inner <= 1
    BY <1>2, <1>7 DEF LosesInner
  <2>3. \A k \in 1..Out : types[k].shape = S
    BY <2>2, StridedShapes
  <2>4. \A k \in DOMAIN s : s[k].shape = S
    BY <1>2, <2>3
  <2>5. S \in Shapes /\ Len(S) = outer + call.inner
    BY <1>2, ArrayType
  <2>6. Begins(S, s)
    BY <1>4, <2>4, <2>5 DEF Begins, Shapes
  <2> HIDE DEF s, S
  <2>7. CASE outer # 0
    <3>1. call.inner = 0
      BY <1>2, <2>2, <2>7
    <3>2. Len(S) = n /\ S # << >> /\ \A k \in DOMAIN s : Len(s[k].shape) = Len(S)
      <4>1. Len(S) = n
        BY <1>2, <2>5, <3>1
      <4>2. S # << >>
        BY <2>5, <2>7, <4>1, EmptySeq DEF Shapes
      <4>3. QED
        BY <2>4, <4>1, <4>2
    <3> HIDE DEF n
    <3>3. Converted(gm_np_convert_xnd(s, Len(S)), s, S) /\ ~Refuses(s, Len(S))
      BY <2>6, <3>2, ConvertOuter
    <3>4. Converted(c, s, S) /\ ~Refuses(s, n) /\ calls = gm_np_map(c, Len(S))
      BY <3>2, <3>3
    <3> HIDE DEF c
    <3>5. blocks = [i \in DOMAIN calls |-> StridedLoop(calls[i])]
      OBVIOUS
    <3> HIDE DEF calls, blocks
    <3>6. FlattenSeq(blocks) = Places(S, s)
      BY ONLY <2>6, <3>2, <3>4, <3>5, RunStrided
    <3>7. QED
      BY <2>1, <2>6, <3>4, <3>6 DEF s
  <2>8. CASE outer = 0
    <3>1. Len(S) <= 1
      BY <1>2, <2>2, <2>5, <2>8
    <3>2. ~Refuses(s, 0)
      BY <1>4, <2>4, <2>5, <3>1, ConvertInner DEF s
    <3>3. calls = gm_np_map(gm_np_convert_xnd(s, 0), 0) /\ blocks = [i \in DOMAIN calls |-> StridedLoop(calls[i])]
      BY <2>8
    <3>4. s \in Stacks
      BY <1>4 DEF s
    <3> HIDE DEF c, calls, blocks, n
    <3>5. FlattenSeq(blocks) = Places(S, s)
      BY ONLY <2>4, <2>5, <3>1, <3>3, <3>4, RunOne
    <3>6. QED
      BY <2>1, <2>6, <2>8, <3>2, <3>5 DEF s, n
  <2>9. QED
    BY <2>7, <2>8
<1>8. QED
  BY <1>3, <1>5, <1>6, <1>7 DEF Kernels

-----------------------------------------------------------------------------
(* The elements of the arguments.                                          *)

\* The place to which an index of the loops leads is that of the element of the argument as it was
\* passed: ElementReached for the arguments that are stretched, for indices that say nothing of the
\* inner dimensions as well.
LEMMA PlaceOf ==
  ASSUME FoldsFast, call \in Calls, KInv, pc = "done", NEW i \in 1..Out,
         NEW l \in Nat, outer <= l, l <= outer + call.inner, NEW idx \in [1..l -> Nat],
         \A j \in 1..l : idx[j] < types[i].shape[j]
  PROVE  ElementAt(i, idx) = Offset(types[i], idx)
<1> DEFINE y == types[i]
           m == call.inner
           N == outer + m
           J == Index(i, idx)
<1>1. Ready(acc, types, outer)
  BY DEF KInv, Selecting
<1>2. /\ outer \in Nat /\ m \in Nat /\ N \in Nat /\ Len(acc) = outer
      /\ y \in NDArrays /\ NDim(y) = N /\ Len(y.shape) = N /\ Len(y.steps) = N
      /\ \A j \in 1..outer : y.shape[j] = acc[j]
  BY <1>1, StartIs
<1>3. J \in [1..N -> Nat] /\ Len(J) = N /\ \A j \in 1..N : J[j] = IF j <= l THEN idx[j] ELSE 0
  <2> DEFINE z == [j \in 1..(N-l) |-> 0]
  <2>1. l \in Nat /\ l <= N /\ N-l \in Nat /\ l + (N-l) = N
    BY <1>2
  <2>2. idx \in Seq(Nat) /\ Len(idx) = l
    OBVIOUS
  <2>3. J = idx \o z
    BY <1>2, <2>2 DEF Index
  <2> HIDE DEF J
  <2>4. z \in Seq(Nat) /\ Len(z) = N-l /\ \A j \in 1..(N-l) : z[j] = 0
    <3>1. z \in [1..(N-l) -> Nat]
      OBVIOUS
    <3>2. QED
      BY <2>1, <3>1
  <2> HIDE DEF z, N
  <2>5. idx \o z \in Seq(Nat) /\ Len(idx \o z) = l + (N-l)
    <3>1. \A v, w \in Seq(Nat) : v \o w \in Seq(Nat) /\ Len(v \o w) = Len(v) + Len(w)
      OBVIOUS
    <3>2. QED
      BY ONLY <2>2, <2>4, <3>1, Zenon
  <2>6. \A j \in 1..(l + (N-l)) : (idx \o z)[j] = IF j <= l THEN idx[j] ELSE z[j-l]
    BY <2>1, <2>2, <2>4
  <2>7. J \in Seq(Nat) /\ Len(J) = N
    BY <2>1, <2>3, <2>5
  <2>8. \A j \in 1..N : J[j] = IF j <= l THEN idx[j] ELSE 0
    <3> SUFFICES ASSUME NEW j \in 1..N PROVE J[j] = IF j <= l THEN idx[j] ELSE 0
      OBVIOUS
    <3>1. J[j] = IF j <= l THEN idx[j] ELSE z[j-l]
      BY <2>1, <2>3, <2>6
    <3>2. j > l => j-l \in 1..(N-l)
      BY <2>1
    <3>3. QED
      BY <2>4, <3>1, <3>2
  <2>9. J \in [1..N -> Nat]
    BY ONLY <2>7
  <2>10. QED
    BY <2>7, <2>8, <2>9
<1> HIDE DEF J
<1>4. Offset(y, J) = Offset(y, idx)
  <2>1. y.steps \in Seq(Int) /\ N \in Nat /\ l \in Nat /\ l <= N /\ N <= Len(y.steps)
    BY <1>2, ArrayType
  <2>2. \A j \in 1..l : idx[j] = J[j]
    <3>1. \A j \in 1..l : j \in 1..N /\ j <= l
      BY <2>1
    <3>2. QED
      BY <1>3, <3>1
  <2>3. \A j \in 1..N : j > l => J[j] = 0
    BY <1>3, <2>1
  <2> HIDE DEF y, N
  <2>4. idx \in [1..l -> Nat] /\ J \in [1..N -> Nat]
    BY <1>3
  <2>5. QED
    BY ONLY <2>1, <2>2, <2>3, <2>4, OffsetZeros
<1>5. CASE i \in DOMAIN call.args
  <2> DEFINE u == call.args[i]
  <2>1. i \in 1..NArgs
    BY <1>5, ValidCall
  <2>2. /\ u \in NDArrays /\ acc \in Shapes /\ m <= NDim(u) /\ Fits(OuterShape(u), acc)
        /\ y = Broadcast(u, acc, m, FALSE) \/ y = u
    BY <1>1, <2>1, ArgumentIs
  <2>3. ElementAt(i, idx) = Offset(u, Source(u, J))
    BY <1>5 DEF ElementAt, J
  <2> HIDE DEF u, y
  <2>4. CASE y = Broadcast(u, acc, m, FALSE)
    <3> DEFINE D == NDim(u)
    <3>1. NDim(u) - m <= Len(acc)
      <4>1. Len(OuterShape(u)) = NDim(u) - m
        BY <1>2, <2>2, OuterType
      <4>2. QED
        BY <2>2, <4>1 DEF Fits
    <3>2. \A k \in 1..m : y.shape[outer+k] = u.shape[NDim(u)-m+k]
      <4>1. Reshaped(y, u, acc, m)
        BY <1>2, <2>2, <2>4, <3>1, BroadcastType
      <4>2. QED
        BY <1>2, <4>1 DEF Reshaped
    <3>3. ASSUME NEW j \in 1..Len(acc) PROVE J[j] < acc[j]
      <4>1. j \in 1..l /\ j \in 1..N /\ j \in 1..outer
        BY <1>2
      <4>2. QED
        BY <1>2, <1>3, <4>1 DEF y
    <3>4. ASSUME NEW k \in 1..m PROVE J[Len(acc)+k] < u.shape[NDim(u)-m+k] \/ J[Len(acc)+k] = 0
      <4> DEFINE j == outer+k
      <4>1. j \in 1..N
        BY <1>2
      <4> HIDE DEF j
      <4>2. CASE j <= l
        <5>1. j \in 1..l
          BY <4>1, <4>2
        <5>2. J[j] < y.shape[j]
          BY <1>3, <4>1, <5>1 DEF y
        <5>3. QED
          BY <1>2, <3>2, <5>2 DEF j
      <4>3. CASE ~(j <= l)
        BY <1>2, <1>3, <4>1, <4>3 DEF j
      <4>4. QED
        BY <4>2, <4>3
    <3>5. J \in [1..(Len(acc)+m) -> Nat]
      BY <1>2, <1>3
    <3>6. Offset(Broadcast(u, acc, m, FALSE), J) = Offset(u, Source(u, J))
      BY <1>2, <2>2, <3>3, <3>4, <3>5, ElementReached
    <3>7. QED
      BY <1>4, <2>3, <2>4, <3>6 DEF y
  <2>5. CASE y = u
    <3>1. NDim(u) = N /\ DOMAIN u.shape = 1..N
      BY <1>2, <2>5, ArrayType
    <3>2. ASSUME NEW j \in 1..N PROVE (IF u.shape[j] = 1 THEN 0 ELSE J[Len(J)-NDim(u)+j]) = J[j]
      <4>1. Len(J)-NDim(u)+j = j
        BY <1>2, <1>3, <3>1
      <4>2. ASSUME u.shape[j] = 1 PROVE J[j] = 0
        <5>1. CASE j <= l
          <6>1. j \in 1..l
            BY <1>2, <5>1
          <6>2. idx[j] < 1 /\ idx[j] \in Nat
            BY <2>5, <4>2, <6>1 DEF y
          <6>3. QED
            BY <1>3, <5>1, <6>2
        <5>2. CASE ~(j <= l)
          BY <1>3, <5>2
        <5>3. QED
          BY <5>1, <5>2
      <4>3. QED
        BY <4>1, <4>2
    <3>3. Source(u, J) = J
      <4>1. Source(u, J) = [j \in 1..N |-> IF u.shape[j] = 1 THEN 0 ELSE J[Len(J)-NDim(u)+j]]
        BY <3>1 DEF Source
      <4>2. J = [j \in 1..N |-> J[j]]
        BY <1>3
      <4>3. QED
        BY <3>2, <4>1, <4>2
    <3>4. QED
      BY <1>4, <2>3, <2>5, <3>3 DEF y
  <2>6. QED
    BY <2>2, <2>4, <2>5
<1>6. CASE i \notin DOMAIN call.args
  BY <1>4, <1>6 DEF ElementAt, J
<1>7. QED
  BY <1>5, <1>6

-----------------------------------------------------------------------------
(* The theorems.                                                           *)

\* The elements that the arguments have at the indices of the loops.
Elements == [k \in 1..Product(Looped) |-> [i \in DOMAIN types |-> ElementAt(i, RowMajorIndices(Looped)[k])]]

LEMMA ApplyAgrees ==
  ASSUME FoldsFast, call \in Calls, KInv, InnerInv, pc = "done", ~LosesInner
  PROVE  gm_apply(Start) = Elements
<1> DEFINE S == Looped
           l == Len(S)
<1>1. Begins(S, Start) /\ gm_apply(Start) = Places(S, Start)
  BY ApplyRuns
<1>2. Ready(acc, types, outer)
  BY DEF KInv, Selecting
<1>3. /\ Len(acc) = outer /\ outer \in Nat /\ call.inner \in Nat /\ Out \in Nat \ {0}
      /\ DOMAIN types = 1..Out /\ DOMAIN Start = 1..Out
      /\ \A k \in 1..Out : /\ Start[k].at = 0 /\ Start[k].shape = types[k].shape /\ Start[k].steps = types[k].steps
                           /\ Len(types[k].shape) = outer + call.inner
                           /\ Len(types[k].steps) = outer + call.inner /\ types[k] \in NDArrays
  BY <1>2, StartIs
<1>4. l \in Nat /\ outer <= l /\ l <= outer + call.inner /\ S \in Shapes
  <2>1. S \in Shapes
    BY <1>1 DEF Begins
  <2>2. 1 \in 1..Out
    BY <1>3
  <2>3. S = acc \/ S = types[1].shape
    BY DEF Looped
  <2>4. l = outer \/ l = outer + call.inner
    BY <1>3, <2>2, <2>3
  <2> HIDE DEF l
  <2>5. QED
    BY <1>3, <2>1, <2>4
<1> HIDE DEF S
<1>5. ASSUME NEW r \in 1..Product(S), NEW i \in 1..Out
      PROVE  Start[i].at + Offset(Start[i], RowMajorIndices(S)[r]) = ElementAt(i, RowMajorIndices(S)[r])
  <2> DEFINE idx == RowMajorIndices(S)[r]
             x == Start[i]
  <2>1. idx \in [1..l -> Nat] /\ \A j \in 1..l : idx[j] < S[j]
    BY <1>4, RowMajorType
  <2> HIDE DEF idx
  <2>2. \A j \in 1..l : x.shape[j] = S[j]
    BY <1>1, <1>3 DEF Begins
  <2>3. \A j \in 1..l : idx[j] < types[i].shape[j]
    BY <1>3, <2>1, <2>2
  <2> HIDE DEF l
  <2>4. ElementAt(i, idx) = Offset(types[i], idx)
    BY ONLY <1>3, <1>4, <2>1, <2>3, FoldsFast, call \in Calls, KInv, pc = "done", PlaceOf
  <2>5. x.at = 0 /\ x.steps = types[i].steps
    BY <1>3
  <2>6. Offset(x, idx) = Offset(types[i], idx)
    BY <2>5 DEF Offset
  <2>7. Offset(types[i], idx) \in Int
    <3> DEFINE y == types[i]
    <3>1. y.steps \in Seq(Int) /\ l <= Len(y.steps)
      BY <1>3, <1>4, ArrayType
    <3> HIDE DEF y
    <3>2. Offset(y, idx) \in Int
      BY ONLY <1>4, <2>1, <3>1, AlongType
    <3>3. QED
      BY <3>2 DEF y
  <2> HIDE DEF x
  <2>8. x.at + Offset(x, idx) = ElementAt(i, idx)
    BY <2>4, <2>5, <2>6, <2>7
  <2>9. QED
    BY <2>8 DEF x, idx
<1>6. Places(S, Start) = [r \in 1..Product(S) |-> [i \in 1..Out |-> ElementAt(i, RowMajorIndices(S)[r])]]
  BY <1>3, <1>5 DEF Places
<1>7. QED
  BY <1>1, <1>3, <1>6 DEF Elements, S

\* What holds until the kernel is applied, and after that.
LoopInv == IF pc = "applied" THEN why = "none" /\ LoopsAgree ELSE IInv /\ KInv /\ InnerInv

LEMMA ElementsNext == ASSUME UNCHANGED <<call, acc, types, kernel>> PROVE Elements' = Elements
<1>1. Looped' = Looped
  BY DEF Looped
<1>2. \A i, idx : ElementAt(i, idx)' = ElementAt(i, idx)
  BY DEF ElementAt, Index
<1>3. QED
  BY <1>1, <1>2 DEF Elements

LEMMA AgreesNext ==
  ASSUME UNCHANGED <<call, acc, types, outer, kernel>>, ~LosesInner => ran' = Elements PROVE LoopsAgree'
<1>1. LosesInner' <=> LosesInner
  BY DEF LosesInner
<1>2. Elements' = Elements
  BY ElementsNext
<1>3. ~LosesInner' => ran' = Elements'
  BY <1>1, <1>2
<1>4. QED
  BY <1>3 DEF LoopsAgree, Elements

LEMMA LoopStays == ASSUME FoldsFast, LoopInv, [LoopNext]_loopVars PROVE LoopInv'
<1>1. CASE [Next]_vars /\ pc # "applied"
  <2>1. IInv /\ KInv /\ InnerInv
    BY <1>1 DEF LoopInv
  <2>2. IInv' /\ KInv' /\ InnerInv'
    BY <1>1, <2>1, KStep, InnerStep, MatchStep, BroadcastStep, FinishStep, FastStep, KernelStep, Stutter DEF Next
  <2>3. pc' # "applied"
    BY <2>2 DEF IInv, Values
  <2>4. QED
    BY <2>2, <2>3 DEF LoopInv
<1>2. CASE Apply
  <2>1. pc = "done" /\ IInv /\ KInv /\ InnerInv /\ call \in Calls /\ why = "none"
    BY <1>2 DEF Apply, LoopInv, IInv, Values
  <2>2. UNCHANGED <<call, acc, types, outer, flags, kernel, why>> /\ pc' = "applied" /\ ran' = gm_apply(Start)
    BY <1>2 DEF Apply, Start
  <2>3. ~LosesInner => ran' = Elements
    BY <2>1, <2>2, ApplyAgrees
  <2>4. LoopsAgree'
    BY <2>2, <2>3, AgreesNext
  <2>5. QED
    BY <2>1, <2>2, <2>4 DEF LoopInv
<1>3. CASE UNCHANGED loopVars /\ pc = "applied"
  <2>1. ~LosesInner => ran' = Elements
    BY <1>3 DEF LoopInv, LoopsAgree, Elements, loopVars
  <2>2. LoopsAgree'
    BY <1>3, <2>1, AgreesNext DEF loopVars, vars
  <2>3. QED
    BY <1>3, <2>2 DEF LoopInv, loopVars, vars
<1>4. ~(Next /\ pc = "applied")
  BY DEF Next, MatchArg, BroadcastAll, Finish, FastTypecheck, SelectKernel
<1>5. QED
  BY <1>1, <1>2, <1>3, <1>4 DEF LoopNext, loopVars

LEMMA AppliedRight == ASSUME LoopInv PROVE KernelApplied
<1>1. CASE pc = "applied"
  BY <1>1 DEF LoopInv, KernelApplied, KernelRight, KernelAssumptions, KernelFound
<1>2. CASE pc # "applied"
  BY <1>2, RightKernel DEF LoopInv, KernelApplied, LoopsAgree
<1>3. QED
  BY <1>1, <1>2

\* For all calls: the kernel that select_kernel() takes is one that the arguments allow, all of
\* them, and the first in its order that they allow.
THEOREM BestKernel == Spec => []KernelRight
<1>1. Init => IInv /\ KInv
  BY InitInv, InitK
<1>2. IInv /\ KInv /\ [Next]_vars => (IInv /\ KInv)'
  BY KStep, MatchStep, BroadcastStep, FinishStep, FastStep, KernelStep, Stutter DEF Next
<1>3. IInv /\ KInv => KernelRight
  BY RightKernel
<1>4. QED
  BY <1>1, <1>2, <1>3, PTL DEF Spec

\* For all calls, if only functions with a fast type check fold: a kernel works once on each
\* element of the common shape, in row-major order, and on the elements that the arguments as they
\* were passed have there, whether gm_xnd_map() or gm_np_map() calls it; it is the best of the
\* kernels that the arguments allow.
THEOREM KernelsApplied == ASSUME FoldsFast PROVE LoopSpec => []KernelApplied
<1>1. LoopInit => LoopInv
  BY InitInv, InitK, InitInner DEF LoopInit, LoopInv, Init, Begin
<1>2. LoopInv /\ [LoopNext]_loopVars => LoopInv'
  BY LoopStays
<1>3. LoopInv => KernelApplied
  BY AppliedRight
<1>4. QED
  BY <1>1, <1>2, <1>3, PTL DEF LoopSpec
=============================================================================
