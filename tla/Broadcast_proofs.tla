-------------------------- MODULE Broadcast_proofs --------------------------
(***************************************************************************)
(* Broadcasting for every number of arguments and dimensions: the shape is *)
(* that of NumPy's rule, arguments are addressed where they have elements, *)
(* and the elements of outputs are at different places.                    *)
(***************************************************************************)
EXTENDS Broadcast, Recursion_proofs, FiniteSetTheorems

-----------------------------------------------------------------------------
(* Products and sums of sequences.                                         *)

\* The products of the first k extents.
Products(s, g) ==
  /\ g[0] = 1
  /\ \A k \in 1..Len(s) : g[k] = g[k-1] * s[k]
  /\ Product(s) = g[Len(s)]

LEMMA ProductRec ==
  ASSUME NEW s \in Seq(Nat)
  PROVE  \E g \in [0..Len(s) -> Nat] : Products(s, g)
<1> DEFINE N == Len(s)
           V == Nat
           a == 1
           E(k, x) == x * s[k]
           H == [k \in 1..N |-> [x \in V |-> E(k, x)]]
           Body(f) == [t \in SUBSET DOMAIN s |-> IF t = {} THEN a ELSE E(Max(t), f[t \ {Max(t)}])]
<1>1. N \in Nat /\ DOMAIN s = 1..N /\ \A k \in 1..N : s[k] \in Nat
  OBVIOUS
<1>2. a \in V
  OBVIOUS
<1>3. ASSUME NEW k \in 1..N, NEW x \in V PROVE E(k, x) \in V
  BY <1>1
<1>4. Product(s) = (CHOOSE f : f = Body(f))[DOMAIN s]
  BY DEF Product, FoldLeft, MapThenFoldSet
<1> HIDE DEF N, V, a, E
<1>5. H \in [1..N -> [V -> V]]
  BY <1>3
<1>6. PICK f \in [SUBSET (1..N) -> V] : FoldsTo(f, N, a, H)
  <2> HIDE DEF H
  <2>1. QED
    BY <1>1, <1>2, <1>5, FoldExists
<1>7. f = Body(f)
  <2>1. ASSUME NEW t \in SUBSET (1..N)
        PROVE  f[t] = IF t = {} THEN a ELSE E(Max(t), f[t \ {Max(t)}])
    <3>1. CASE t = {}
      BY <1>6, <3>1 DEF FoldsTo
    <3>2. CASE t # {}
      <4> DEFINE m == Max(t)
      <4>1. m \in t
        BY <1>1, <3>2, Largest
      <4>2. f[t] = H[m][f[t \ {m}]]
        BY <1>6, <3>2 DEF FoldsTo
      <4> HIDE DEF m
      <4>3. m \in 1..N /\ f[t \ {m}] \in V
        BY <4>1
      <4>4. QED
        BY <3>2, <4>2, <4>3 DEF m
    <3>3. QED
      BY <3>1, <3>2
  <2>2. QED
    BY <1>1, <2>1
<1> DEFINE v == CHOOSE f_1 : f_1 = Body(f_1)
<1>8. v = Body(v)
  <2> HIDE DEF Body
  <2>1. QED
    BY <1>7
<1>9. Product(s) = v[1..N]
  BY <1>1, <1>4
<1> HIDE DEF v
<1>10. \A t \in SUBSET (1..N) : v[t] = IF t = {} THEN a ELSE E(Max(t), v[t \ {Max(t)}])
  BY <1>1, <1>8
<1> HIDE DEF Body
<1>11. v[{}] = a
  BY <1>10
<1>12. GoesBy(v, N, V, H)
  <2> SUFFICES ASSUME NEW k \in 1..N, NEW x \in V, v[1..(k-1)] = x PROVE v[1..k] = H[k][x]
    BY DEF GoesBy
  <2>1. /\ 1..k \in SUBSET (1..N) /\ 1..k # {}
        /\ Max(1..k) = k
        /\ (1..k) \ {Max(1..k)} = 1..(k-1)
    BY <1>1, Segment
  <2>2. v[1..k] = E(k, v[1..(k-1)])
    BY <1>10, <2>1
  <2>3. QED
    BY <2>2
<1>13. PICK g \in [0..N -> V] : EndsAs(g, v, N, a, H)
  <2> HIDE DEF H
  <2>1. QED
    BY <1>1, <1>2, <1>5, <1>11, <1>12, FoldFollows
<1>14. \A k \in 1..N : g[k] = E(k, g[k-1])
  <2> SUFFICES ASSUME NEW k \in 1..N PROVE g[k] = E(k, g[k-1])
    OBVIOUS
  <2>1. g[k-1] \in V
    BY <1>1
  <2>2. g[k] = H[k][g[k-1]]
    BY <1>13 DEF EndsAs, Follows
  <2>3. QED
    BY <2>1, <2>2
<1>15. g[0] = a
  BY <1>13 DEF EndsAs, Follows
<1>16. Products(s, g)
  BY <1>9, <1>13, <1>14, <1>15 DEF EndsAs, Products, a, E, N
<1>17. QED
  BY <1>16 DEF N, V

\* The sums of the first k numbers.
Totals(s, g) ==
  /\ g[0] = 0
  /\ \A k \in 1..Len(s) : g[k] = g[k-1] + s[k]
  /\ Total(s) = g[Len(s)]

LEMMA TotalRec ==
  ASSUME NEW s \in Seq(Int)
  PROVE  \E g \in [0..Len(s) -> Int] : Totals(s, g)
<1> DEFINE N == Len(s)
           V == Int
           a == 0
           E(k, x) == x + s[k]
           H == [k \in 1..N |-> [x \in V |-> E(k, x)]]
           Body(f) == [t \in SUBSET DOMAIN s |-> IF t = {} THEN a ELSE E(Max(t), f[t \ {Max(t)}])]
<1>1. N \in Nat /\ DOMAIN s = 1..N /\ \A k \in 1..N : s[k] \in Int
  OBVIOUS
<1>2. a \in V
  OBVIOUS
<1>3. ASSUME NEW k \in 1..N, NEW x \in V PROVE E(k, x) \in V
  BY <1>1
<1>4. Total(s) = (CHOOSE f : f = Body(f))[DOMAIN s]
  BY DEF Total, FoldLeft, MapThenFoldSet
<1> HIDE DEF N, V, a, E
<1>5. H \in [1..N -> [V -> V]]
  BY <1>3
<1>6. PICK f \in [SUBSET (1..N) -> V] : FoldsTo(f, N, a, H)
  <2> HIDE DEF H
  <2>1. QED
    BY <1>1, <1>2, <1>5, FoldExists
<1>7. f = Body(f)
  <2>1. ASSUME NEW t \in SUBSET (1..N)
        PROVE  f[t] = IF t = {} THEN a ELSE E(Max(t), f[t \ {Max(t)}])
    <3>1. CASE t = {}
      BY <1>6, <3>1 DEF FoldsTo
    <3>2. CASE t # {}
      <4> DEFINE m == Max(t)
      <4>1. m \in t
        BY <1>1, <3>2, Largest
      <4>2. f[t] = H[m][f[t \ {m}]]
        BY <1>6, <3>2 DEF FoldsTo
      <4> HIDE DEF m
      <4>3. m \in 1..N /\ f[t \ {m}] \in V
        BY <4>1
      <4>4. QED
        BY <3>2, <4>2, <4>3 DEF m
    <3>3. QED
      BY <3>1, <3>2
  <2>2. QED
    BY <1>1, <2>1
<1> DEFINE v == CHOOSE f_1 : f_1 = Body(f_1)
<1>8. v = Body(v)
  <2> HIDE DEF Body
  <2>1. QED
    BY <1>7
<1>9. Total(s) = v[1..N]
  BY <1>1, <1>4
<1> HIDE DEF v
<1>10. \A t \in SUBSET (1..N) : v[t] = IF t = {} THEN a ELSE E(Max(t), v[t \ {Max(t)}])
  BY <1>1, <1>8
<1> HIDE DEF Body
<1>11. v[{}] = a
  BY <1>10
<1>12. GoesBy(v, N, V, H)
  <2> SUFFICES ASSUME NEW k \in 1..N, NEW x \in V, v[1..(k-1)] = x PROVE v[1..k] = H[k][x]
    BY DEF GoesBy
  <2>1. /\ 1..k \in SUBSET (1..N) /\ 1..k # {}
        /\ Max(1..k) = k
        /\ (1..k) \ {Max(1..k)} = 1..(k-1)
    BY <1>1, Segment
  <2>2. v[1..k] = E(k, v[1..(k-1)])
    BY <1>10, <2>1
  <2>3. QED
    BY <2>2
<1>13. PICK g \in [0..N -> V] : EndsAs(g, v, N, a, H)
  <2> HIDE DEF H
  <2>1. QED
    BY <1>1, <1>2, <1>5, <1>11, <1>12, FoldFollows
<1>14. \A k \in 1..N : g[k] = E(k, g[k-1])
  <2> SUFFICES ASSUME NEW k \in 1..N PROVE g[k] = E(k, g[k-1])
    OBVIOUS
  <2>1. g[k-1] \in V
    BY <1>1
  <2>2. g[k] = H[k][g[k-1]]
    BY <1>13 DEF EndsAs, Follows
  <2>3. QED
    BY <2>1, <2>2
<1>15. g[0] = a
  BY <1>13 DEF EndsAs, Follows
<1>16. Totals(s, g)
  BY <1>9, <1>13, <1>14, <1>15 DEF EndsAs, Totals, a, E, N
<1>17. QED
  BY <1>16 DEF N, V

-----------------------------------------------------------------------------
(* The shape that several shapes broadcast to.                             *)

\* The extent of a shape in dimension d, counted from the last one.
At(s, d) == s[Len(s)+1-d]

Shapes == Seq(Nat)

\* An array with the outer shape w can be stretched to s: where it does not repeat,
\* its extent is that of s, or s has no elements.
Fits(w, s) ==
  /\ Len(w) <= Len(s)
  /\ \A d \in 1..Len(w) : At(w, d) = 1 \/ At(s, d) \in {0, At(w, d)}

\* The shapes W broadcast to s: all of them fit, and each extent of s is one of theirs.
Joins(s, W) ==
  /\ s \in Shapes
  /\ \A w \in W : Fits(w, s)
  /\ \A d \in 1..Len(s) : \E w \in W : d <= Len(w) /\ At(w, d) = At(s, d)

\* Two shapes differ in a dimension that neither of them repeats.
Conflict(W) ==
  \E v, w \in W : \E d \in 1..Len(v) :
    d <= Len(w) /\ At(v, d) # 1 /\ At(w, d) # 1 /\ At(v, d) # At(w, d)

\* A shape is no error.
LEMMA ShapeIsNone == NoShape \notin Shapes
<1> SUFFICES ASSUME NoShape \in Shapes PROVE FALSE
  OBVIOUS
<1>1. Len(NoShape) = 1 /\ NoShape[1] = -1
  BY DEF NoShape
<1>2. NoShape[1] \in Nat
  <2> DEFINE e == NoShape
  <2>1. e \in Seq(Nat) /\ 1 \in 1..Len(e)
    BY <1>1 DEF Shapes
  <2> HIDE DEF e
  <2>2. e[1] \in Nat
    BY <2>1, ElementOfSeq
  <2>3. QED
    BY <2>2 DEF e
<1>3. QED
  BY <1>1, <1>2

LEMMA AtType ==
  ASSUME NEW s \in Shapes, NEW d \in 1..Len(s)
  PROVE  At(s, d) \in Nat /\ Len(s) \in Nat /\ Len(s)+1-d \in 1..Len(s)
<1>1. Len(s) \in Nat
  BY DEF Shapes
<1>2. Len(s)+1-d \in 1..Len(s)
  BY <1>1
<1>3. QED
  BY <1>1, <1>2 DEF At, Shapes

\* Shapes of the same length and with the same extents are the same.
LEMMA ShapesEqual ==
  ASSUME NEW s \in Shapes, NEW t \in Shapes, Len(s) = Len(t), \A d \in 1..Len(s) : At(s, d) = At(t, d)
  PROVE  s = t
<1>1. Len(s) \in Nat
  BY DEF Shapes
<1>2. ASSUME NEW i \in 1..Len(s) PROVE s[i] = t[i]
  <2>1. Len(s)+1-i \in 1..Len(s) /\ Len(s)+1-(Len(s)+1-i) = i
    BY <1>1
  <2>2. At(s, Len(s)+1-i) = At(t, Len(s)+1-i)
    BY <2>1
  <2>3. QED
    BY <2>1, <2>2 DEF At
<1>3. QED
  BY <1>2, SeqEqual DEF Shapes

LEMMA JoinFirst == ASSUME NEW w \in Shapes PROVE Joins(w, {w})
<1>1. Len(w) \in Nat
  BY DEF Shapes
<1>2. QED
  BY <1>1 DEF Joins, Fits

\* What _resolve_broadcast() returns, dimension by dimension.
LEMMA Resolved ==
  ASSUME NEW v \in Shapes, NEW w \in Shapes
  PROVE  LET r == ResolveBroadcast(v, w)
             size == IF Len(v) >= Len(w) THEN Len(v) ELSE Len(w)
         IN  \/ /\ r = NoShape
                /\ \E d \in 1..Len(v) : d <= Len(w) /\ Extent(At(v, d), At(w, d)) = -1
             \/ /\ r \in Shapes /\ Len(r) = size
                /\ \A d \in 1..size :
                     /\ At(r, d) # -1
                     /\ At(r, d) = IF d <= Len(v) /\ d <= Len(w) THEN Extent(At(v, d), At(w, d))
                                   ELSE IF d <= Len(v) THEN At(v, d) ELSE At(w, d)
<1> DEFINE size == IF Len(v) >= Len(w) THEN Len(v) ELSE Len(w)
           E(d) == IF d <= Len(v) /\ d <= Len(w) THEN Extent(At(v, d), At(w, d))
                   ELSE IF d <= Len(v) THEN At(v, d) ELSE At(w, d)
           result == [i \in 1..size |-> E(size+1-i)]
<1>1. Len(v) \in Nat /\ Len(w) \in Nat /\ size \in Nat
  BY DEF Shapes
<1>2. \A i \in 1..size : size+1-i \in 1..size
  BY <1>1
<1>3. \A d \in 1..size : E(d) \in Nat \union {-1}
  <2> SUFFICES ASSUME NEW d \in 1..size PROVE E(d) \in Nat \union {-1}
    OBVIOUS
  <2>1. CASE d <= Len(v) /\ d <= Len(w)
    <3>1. At(v, d) \in Nat /\ At(w, d) \in Nat
      BY <1>1, <2>1, AtType
    <3>2. QED
      BY <2>1, <3>1 DEF Extent
  <2>2. CASE d <= Len(v) /\ ~(d <= Len(w))
    BY <1>1, <2>2, AtType
  <2>3. CASE ~(d <= Len(v))
    <3>1. d \in 1..Len(w)
      BY <1>1, <2>3
    <3>2. QED
      BY <2>3, <3>1, AtType
  <2>4. QED
    BY <2>1, <2>2, <2>3
<1>4. ResolveBroadcast(v, w) = IF -1 \in Range(result) THEN NoShape ELSE result
  <2> DEFINE full == [i \in 1..size |->
        IF i > size - Len(v) /\ i > size - Len(w) THEN Extent(v[i - (size - Len(v))], w[i - (size - Len(w))])
        ELSE IF i > size - Len(v) THEN v[i - (size - Len(v))] ELSE w[i - (size - Len(w))]]
  <2>1. ResolveBroadcast(v, w) = IF -1 \in Range(full) THEN NoShape ELSE full
    BY DEF ResolveBroadcast
  <2>2. ASSUME NEW i \in 1..size PROVE full[i] = E(size+1-i)
    <3>1. /\ i > size - Len(v) <=> size+1-i <= Len(v)
          /\ i > size - Len(w) <=> size+1-i <= Len(w)
          /\ i - (size - Len(v)) = Len(v)+1-(size+1-i)
          /\ i - (size - Len(w)) = Len(w)+1-(size+1-i)
      BY <1>1
    <3> HIDE DEF size
    <3>2. QED
      BY <3>1 DEF At
  <2>3. full = result
    BY <2>2
  <2>4. QED
    BY <2>1, <2>3
<1> HIDE DEF E
<1>5. DOMAIN result = 1..size
  OBVIOUS
<1>6. CASE -1 \in Range(result)
  <2>1. PICK i \in 1..size : E(size+1-i) = -1
    BY <1>6 DEF Range
  <2> DEFINE d == size+1-i
  <2>2. d \in 1..size
    BY <1>2
  <2>3. E(d) = -1
    BY <2>1
  <2> HIDE DEF d
  <2>4. d <= Len(v) /\ d <= Len(w)
    <3>1. CASE d <= Len(v) /\ ~(d <= Len(w))
      <4>1. E(d) \in Nat
        BY <1>1, <2>2, <3>1, AtType DEF E
      <4>2. QED
        BY <2>3, <4>1
    <3>2. CASE ~(d <= Len(v))
      <4>1. d \in 1..Len(w)
        BY <1>1, <2>2, <3>2
      <4>2. E(d) \in Nat
        BY <3>2, <4>1, AtType DEF E
      <4>3. QED
        BY <2>3, <4>2
    <3>3. QED
      BY <3>1, <3>2
  <2>5. d \in 1..Len(v) /\ Extent(At(v, d), At(w, d)) = -1
    BY <1>1, <2>2, <2>3, <2>4 DEF E
  <2>6. QED
    BY <1>4, <1>6, <2>4, <2>5
<1>7. CASE -1 \notin Range(result)
  <2>1. \A d \in 1..size : E(d) # -1
    <3> SUFFICES ASSUME NEW d \in 1..size, E(d) = -1 PROVE FALSE
      OBVIOUS
    <3>1. size+1-d \in 1..size /\ size+1-(size+1-d) = d
      BY <1>1
    <3>2. result[size+1-d] = -1
      BY <3>1
    <3>3. QED
      BY <1>5, <1>7, <3>1, <3>2 DEF Range
  <2>2. \A d \in 1..size : E(d) \in Nat
    BY <1>3, <2>1
  <2>3. result \in Shapes /\ Len(result) = size
    <3>1. \A i \in 1..size : E(size+1-i) \in Nat
      BY <1>2, <2>2
    <3> HIDE DEF size
    <3>2. result \in [1..size -> Nat]
      BY <3>1
    <3>3. QED
      BY <1>1, <3>2 DEF Shapes
  <2>4. ASSUME NEW d \in 1..size PROVE At(result, d) = E(d) /\ At(result, d) # -1
    <3>1. size+1-d \in 1..size /\ size+1-(size+1-d) = d
      BY <1>1
    <3>2. At(result, d) = E(d)
      BY <2>3, <3>1 DEF At
    <3>3. QED
      BY <2>1, <3>2
  <2>5. ResolveBroadcast(v, w) = result
    BY <1>4, <1>7
  <2> HIDE DEF result, size
  <2>6. QED
    BY <2>3, <2>4, <2>5 DEF E, size
<1>8. QED
  BY <1>6, <1>7

\* The shape of one more argument.
LEMMA JoinStep ==
  ASSUME NEW W \in SUBSET Shapes, NEW s, Joins(s, W), NEW w \in Shapes
  PROVE  LET r == ResolveBroadcast(s, w)
         IN  IF r = NoShape THEN Conflict(W \union {w}) ELSE Joins(r, W \union {w})
<1> DEFINE r == ResolveBroadcast(s, w)
           V == W \union {w}
           size == IF Len(s) >= Len(w) THEN Len(s) ELSE Len(w)
<1>1. s \in Shapes /\ Len(s) \in Nat /\ Len(w) \in Nat
  BY DEF Joins, Shapes
<1>2. ASSUME NEW d \in 1..Len(s)
      PROVE  \E v \in V : d \in 1..Len(v) /\ At(v, d) = At(s, d)
  BY DEF Joins
<1>3. CASE r = NoShape
  <2>1. PICK d \in 1..Len(s) : d <= Len(w) /\ Extent(At(s, d), At(w, d)) = -1
    BY <1>1, <1>3, Resolved, ShapeIsNone
  <2>2. PICK v \in V : d \in 1..Len(v) /\ At(v, d) = At(s, d)
    BY <1>2
  <2>3. At(s, d) \in Nat /\ At(w, d) \in Nat
    BY <1>1, <2>1, AtType
  <2>4. At(s, d) # 1 /\ At(w, d) # 1 /\ At(s, d) # At(w, d)
    BY <2>1, <2>3 DEF Extent
  <2>5. Conflict(V)
    BY <2>1, <2>2, <2>4 DEF Conflict
  <2>6. QED
    BY <1>3, <2>5
<1>4. CASE r # NoShape
  <2>1. /\ r \in Shapes /\ Len(r) = size
        /\ \A d \in 1..size :
             /\ At(r, d) # -1
             /\ At(r, d) = IF d <= Len(s) /\ d <= Len(w) THEN Extent(At(s, d), At(w, d))
                           ELSE IF d <= Len(s) THEN At(s, d) ELSE At(w, d)
    BY <1>1, <1>4, Resolved
  <2> HIDE DEF r
  <2>2. ASSUME NEW v \in V PROVE Fits(v, r)
    <3>1. CASE v \in W
      <4>1. Fits(v, s) /\ v \in Shapes
        BY <3>1 DEF Joins
      <4>2. Len(v) \in Nat /\ Len(v) <= Len(s) /\ Len(v) <= Len(r)
        BY <1>1, <2>1, <4>1 DEF Fits, Shapes
      <4>3. ASSUME NEW d \in 1..Len(v) PROVE At(v, d) = 1 \/ At(r, d) \in {0, At(v, d)}
        <5>1. d \in 1..size /\ d \in 1..Len(s)
          BY <1>1, <4>2
        <5>2. At(v, d) = 1 \/ At(s, d) \in {0, At(v, d)}
          BY <4>1 DEF Fits
        <5>3. At(s, d) \in Nat /\ At(v, d) \in Nat
          BY <1>1, <4>1, <5>1, AtType
        <5>4. CASE d <= Len(w)
          <6>1. At(r, d) = Extent(At(s, d), At(w, d)) /\ At(r, d) # -1
            BY <2>1, <5>1, <5>4
          <6>2. At(w, d) \in Nat
            BY <1>1, <5>4, AtType
          <6>3. QED
            BY <5>2, <5>3, <6>1, <6>2 DEF Extent
        <5>5. CASE ~(d <= Len(w))
          <6>1. At(r, d) = At(s, d)
            BY <2>1, <5>1, <5>5
          <6>2. QED
            BY <5>2, <6>1
        <5>6. QED
          BY <5>4, <5>5
      <4>4. QED
        BY <4>2, <4>3 DEF Fits
    <3>2. CASE v = w
      <4>1. Len(w) <= Len(r)
        BY <1>1, <2>1
      <4>2. ASSUME NEW d \in 1..Len(w) PROVE At(w, d) = 1 \/ At(r, d) \in {0, At(w, d)}
        <5>1. d \in 1..size /\ At(w, d) \in Nat
          BY <1>1, AtType
        <5>2. CASE d <= Len(s)
          <6>1. At(r, d) = Extent(At(s, d), At(w, d)) /\ At(r, d) # -1
            BY <2>1, <5>1, <5>2
          <6>2. At(s, d) \in Nat
            BY <1>1, <5>2, AtType
          <6>3. QED
            BY <5>1, <6>1, <6>2 DEF Extent
        <5>3. CASE ~(d <= Len(s))
          <6>1. At(r, d) = At(w, d)
            BY <2>1, <5>1, <5>3
          <6>2. QED
            BY <6>1
        <5>4. QED
          BY <5>2, <5>3
      <4>3. QED
        BY <3>2, <4>1, <4>2 DEF Fits
    <3>3. QED
      BY <3>1, <3>2
  <2>3. ASSUME NEW d \in 1..Len(r) PROVE \E v \in V : d <= Len(v) /\ At(v, d) = At(r, d)
    <3>1. d \in 1..size
      BY <2>1
    <3>2. CASE d <= Len(s) /\ At(r, d) = At(s, d)
      <4>1. d \in 1..Len(s)
        BY <1>1, <3>1, <3>2
      <4>2. PICK v \in V : d \in 1..Len(v) /\ At(v, d) = At(s, d)
        BY <1>2, <4>1
      <4>3. QED
        BY <3>2, <4>2
    <3>3. CASE d <= Len(w) /\ At(r, d) = At(w, d)
      BY <3>3
    <3>4. QED
      <4>1. CASE d <= Len(s) /\ d <= Len(w)
        <5>1. At(r, d) = Extent(At(s, d), At(w, d)) /\ At(r, d) # -1
          BY <2>1, <3>1, <4>1
        <5>2. At(s, d) \in Nat /\ At(w, d) \in Nat
          BY <1>1, <3>1, <4>1, AtType
        <5>3. At(r, d) = At(s, d) \/ At(r, d) = At(w, d)
          BY <5>1, <5>2 DEF Extent
        <5>4. QED
          BY <3>2, <3>3, <4>1, <5>3
      <4>2. CASE ~(d <= Len(s) /\ d <= Len(w))
        BY <1>1, <2>1, <3>1, <3>2, <3>3, <4>2
      <4>3. QED
        BY <4>1, <4>2
  <2>4. Joins(r, V)
    BY <2>1, <2>2, <2>3 DEF Joins
  <2>5. QED
    BY <1>4, <2>4 DEF r
<1>5. QED
  BY <1>3, <1>4

-----------------------------------------------------------------------------
(* NumPy's rule.                                                           *)

\* The outer shapes of the first k arguments.
OuterShapes(k) == {OuterShape(call.args[j]) : j \in 1..k}
NArgs == Len(call.args)

LEMMA ValidCall ==
  ASSUME call \in Calls
  PROVE  /\ call.inner \in Nat /\ call.nin \in Nat \ {0}
         /\ call.args \in Seq(NDArrays) /\ NArgs \in {call.nin, call.nin+1} /\ NArgs \in Nat \ {0}
         /\ DOMAIN call.args = 1..NArgs
         /\ HasOut <=> NArgs = call.nin + 1
         /\ call.check => HasOut
         /\ call.fast => call.inner = 0
         /\ call.fast \in BOOLEAN /\ call.check \in BOOLEAN
<1>1. /\ call.inner \in Nat /\ call.nin \in Nat \ {0}
      /\ call.args \in Seq(NDArrays) /\ Len(call.args) \in {call.nin, call.nin+1}
      /\ call.check => Len(call.args) = call.nin + 1
      /\ call.fast => call.inner = 0
      /\ call.fast \in BOOLEAN /\ call.check \in BOOLEAN
  BY CallsAssumption
<1>2. DOMAIN call.args = 1..NArgs
  BY <1>1, LenProperties DEF NArgs
<1>3. NArgs \in Nat \ {0} /\ (HasOut <=> NArgs = call.nin + 1)
  BY <1>1 DEF NArgs, HasOut
<1>4. QED
  BY <1>1, <1>2, <1>3 DEF NArgs

LEMMA ArrayType ==
  ASSUME NEW x \in NDArrays
  PROVE  /\ x.shape \in Shapes /\ x.steps \in Seq(Int) /\ Len(x.steps) = Len(x.shape)
         /\ x = [shape |-> x.shape, steps |-> x.steps]
         /\ NDim(x) \in Nat /\ DOMAIN x.shape = 1..NDim(x) /\ DOMAIN x.steps = 1..NDim(x)
         /\ \A i \in 1..NDim(x) : x.shape[i] \in Nat /\ x.steps[i] \in Int
<1>1. x \in [shape : Seq(Nat), steps : Seq(Int)] /\ Len(x.shape) = Len(x.steps)
  BY DEF NDArrays
<1>2. QED
  BY <1>1, LenProperties, ElementOfSeq DEF Shapes, NDim

\* The outer dimensions of an array.
LEMMA OuterType ==
  ASSUME call.inner \in Nat, NEW x \in NDArrays
  PROVE  /\ OuterShape(x) \in Shapes
         /\ Len(OuterShape(x)) = IF NDim(x) >= call.inner THEN NDim(x) - call.inner ELSE 0
         /\ \A d \in Nat \ {0} : NDim(x) - call.inner >= d <=> d <= Len(OuterShape(x))
         /\ \A d \in 1..Len(OuterShape(x)) : At(OuterShape(x), d) = OuterShape(x)[NDim(x)-call.inner+1-d]
         /\ \A i \in 1..Len(OuterShape(x)) : OuterShape(x)[i] = x.shape[i]
<1> DEFINE n == NDim(x) - call.inner
           s == x.shape
<1>1. NDim(x) \in Nat /\ s \in Seq(Nat) /\ \A i \in 1..NDim(x) : s[i] \in Nat
  BY ArrayType DEF Shapes
<1>2. n \in Int /\ \A i \in 1..n : s[i] \in Nat
  BY <1>1
<1> HIDE DEF s
<1>3. /\ SubSeq(s, 1, n) \in Seq(Nat)
      /\ Len(SubSeq(s, 1, n)) = IF 1 <= n THEN n-1+1 ELSE 0
      /\ \A i \in 1..(n-1+1) : SubSeq(s, 1, n)[i] = s[1+i-1]
  <2> HIDE DEF n
  <2>1. QED
    BY <1>2, SubSeqProperties
<1>4. OuterShape(x) = SubSeq(s, 1, n)
  BY DEF OuterShape, s
<1> DEFINE t == SubSeq(s, 1, n)
<1>5. t \in Seq(Nat) /\ Len(t) = (IF NDim(x) >= call.inner THEN NDim(x) - call.inner ELSE 0)
      /\ \A i \in 1..Len(t) : t[i] = s[i]
  BY <1>1, <1>3
<1> HIDE DEF t
<1>6. OuterShape(x) = t
  BY <1>4 DEF t
<1>7. Len(t) \in Nat /\ \A d \in Nat \ {0} : NDim(x) - call.inner >= d <=> d <= Len(t)
  BY <1>1, <1>5
<1>8. ASSUME NEW d \in 1..Len(t) PROVE At(t, d) = t[NDim(x)-call.inner+1-d]
  <2>1. Len(t) = NDim(x) - call.inner
    BY <1>1, <1>5
  <2>2. QED
    BY <2>1 DEF At
<1>9. QED
  BY <1>5, <1>6, <1>7, <1>8 DEF Shapes, s

\* The shapes of a call, and its dimensions and extents in terms of them.
LEMMA CallShapes ==
  ASSUME call \in Calls
  PROVE  /\ \A k \in 0..NArgs : OuterShapes(k) \in SUBSET Shapes
         /\ Dims = UNION {1..Len(w) : w \in OuterShapes(NArgs)}
         /\ \A d \in Nat \ {0} :
              /\ \A w \in OuterShapes(NArgs) : d <= Len(w) => At(w, d) \in Extents(d)
              /\ \A n \in Extents(d) : \E w \in OuterShapes(NArgs) : d <= Len(w) /\ At(w, d) = n
<1>1. /\ call.inner \in Nat /\ NArgs \in Nat /\ DOMAIN call.args = 1..NArgs
      /\ \A j \in 1..NArgs : call.args[j] \in NDArrays
  BY ValidCall, ElementOfSeq DEF NArgs
<1>2. ASSUME NEW k \in 0..NArgs PROVE OuterShapes(k) \in SUBSET Shapes
  BY <1>1, OuterType DEF OuterShapes
<1>3. Range(call.args) = {call.args[j] : j \in 1..NArgs}
  BY <1>1 DEF Range
<1>4. Dims = UNION {1..Len(w) : w \in OuterShapes(NArgs)}
  <2>1. ASSUME NEW j \in 1..NArgs PROVE 1..(NDim(call.args[j])-call.inner) = 1..Len(OuterShape(call.args[j]))
    <3>1. /\ Len(OuterShape(call.args[j])) = IF NDim(call.args[j]) >= call.inner THEN NDim(call.args[j]) - call.inner ELSE 0
          /\ NDim(call.args[j]) \in Nat
      BY <1>1, OuterType, ArrayType
    <3>2. QED
      BY <1>1, <3>1
  <2>2. Dims = UNION {1..(NDim(call.args[j])-call.inner) : j \in 1..NArgs}
    BY <1>3 DEF Dims
  <2>3. UNION {1..Len(w) : w \in OuterShapes(NArgs)} = UNION {1..Len(OuterShape(call.args[j])) : j \in 1..NArgs}
    BY DEF OuterShapes
  <2>4. QED
    BY <2>1, <2>2, <2>3
<1>5. ASSUME NEW d \in Nat \ {0}
      PROVE  /\ \A w \in OuterShapes(NArgs) : d <= Len(w) => At(w, d) \in Extents(d)
             /\ \A n \in Extents(d) : \E w \in OuterShapes(NArgs) : d <= Len(w) /\ At(w, d) = n
  <2>1. \A j \in 1..NArgs : LET x == call.args[j]
                        IN  /\ NDim(x) - call.inner >= d <=> d <= Len(OuterShape(x))
                            /\ d <= Len(OuterShape(x)) =>
                                 At(OuterShape(x), d) = OuterShape(x)[NDim(x)-call.inner+1-d]
    <3> SUFFICES ASSUME NEW j \in 1..NArgs
                 PROVE  LET x == call.args[j]
                        IN  /\ NDim(x) - call.inner >= d <=> d <= Len(OuterShape(x))
                            /\ d <= Len(OuterShape(x)) =>
                                 At(OuterShape(x), d) = OuterShape(x)[NDim(x)-call.inner+1-d]
      OBVIOUS
    <3>1. call.args[j] \in NDArrays
      BY <1>1
    <3>2. Len(OuterShape(call.args[j])) \in Nat
      BY <1>1, <3>1, OuterType DEF Shapes
    <3>3. d <= Len(OuterShape(call.args[j])) => d \in 1..Len(OuterShape(call.args[j]))
      BY <3>2
    <3>4. QED
      BY <1>1, <3>1, <3>3, OuterType
  <2>2. QED
    BY <1>3, <2>1 DEF Extents, OuterShapes
<1>6. QED
  BY <1>2, <1>4, <1>5

\* Shapes conflict exactly if NumPy does not broadcast them.
LEMMA ConflictMeans ==
  ASSUME call \in Calls
  PROVE  /\ Conflict(OuterShapes(NArgs)) => ~Compatible
         /\ ~Compatible => \E d \in Dims : \E n, m \in Extents(d) \ {1} : n # m
<1>1. ASSUME Conflict(OuterShapes(NArgs)) PROVE ~Compatible
  <2>1. PICK v \in OuterShapes(NArgs), w \in OuterShapes(NArgs) : \E d \in 1..Len(v) :
          d <= Len(w) /\ At(v, d) # 1 /\ At(w, d) # 1 /\ At(v, d) # At(w, d)
    BY <1>1 DEF Conflict
  <2>2. PICK d \in 1..Len(v) :
          d <= Len(w) /\ At(v, d) # 1 /\ At(w, d) # 1 /\ At(v, d) # At(w, d)
    BY <2>1
  <2>3. NArgs \in 0..NArgs
    BY ValidCall
  <2>4. v \in Shapes
    BY <2>3, CallShapes
  <2>5. d \in Nat \ {0} /\ d <= Len(v)
    BY <2>4 DEF Shapes
  <2>6. At(v, d) \in Extents(d) /\ At(w, d) \in Extents(d)
    BY <2>2, <2>5, CallShapes
  <2>7. d \in Dims
    BY CallShapes
  <2>8. QED
    BY <2>2, <2>6, <2>7 DEF Compatible
<1>2. QED
  BY <1>1 DEF Compatible

\* What all arguments broadcast to is NumPy's shape, or has no elements.
LEMMA JoinMeans ==
  ASSUME call \in Calls, NEW s, Joins(s, OuterShapes(NArgs))
  PROVE  IF Compatible THEN s = Common ELSE 0 \in Range(s)
<1>1. s \in Shapes /\ Len(s) \in Nat /\ OuterShapes(NArgs) \in SUBSET Shapes
  <2>1. NArgs \in 0..NArgs
    BY ValidCall
  <2>2. QED
    BY <2>1, CallShapes DEF Joins, Shapes
<1>2. \A d \in 1..Len(s) : \E w \in OuterShapes(NArgs) : d <= Len(w) /\ At(w, d) = At(s, d)
  BY DEF Joins
<1>3. \A w \in OuterShapes(NArgs) : Fits(w, s)
  BY DEF Joins
<1>4. Dims = 1..Len(s)
  <2>1. Dims = UNION {1..Len(w) : w \in OuterShapes(NArgs)}
    BY CallShapes
  <2>2. ASSUME NEW d \in Dims PROVE d \in 1..Len(s)
    <3>1. PICK w \in OuterShapes(NArgs) : d \in 1..Len(w)
      BY <2>1
    <3>2. Len(w) \in Nat /\ Len(w) <= Len(s)
      BY <1>1, <1>3 DEF Fits, Shapes
    <3>3. QED
      BY <1>1, <3>1, <3>2
  <2>3. ASSUME NEW d \in 1..Len(s) PROVE d \in Dims
    <3>1. PICK w \in OuterShapes(NArgs) : d <= Len(w)
      BY <1>2
    <3>2. Len(w) \in Nat
      BY <1>1 DEF Shapes
    <3>3. d \in 1..Len(w)
      BY <1>1, <3>1, <3>2
    <3>4. QED
      BY <2>1, <3>3
  <2>4. QED
    BY <2>2, <2>3
<1>5. ASSUME NEW d \in 1..Len(s), NEW n \in Extents(d), n # 1
      PROVE  At(s, d) \in {0, n}
  <2>1. d \in Nat \ {0}
    BY <1>1
  <2>2. PICK w \in OuterShapes(NArgs) : d <= Len(w) /\ At(w, d) = n
    BY <2>1, CallShapes
  <2>3. d \in 1..Len(w)
    BY <1>1, <2>1, <2>2 DEF Shapes
  <2>4. QED
    BY <1>3, <1>5, <2>2, <2>3 DEF Fits
<1>6. CASE Compatible
  <2>1. Cardinality(Dims) = Len(s)
    <3>1. Cardinality(1..Len(s)) = IF 1 > Len(s) THEN 0 ELSE Len(s)-1+1
      BY <1>1, FS_Interval
    <3>2. QED
      BY <1>1, <1>4, <3>1
  <2> DEFINE e(i) == Extents(Len(s)+1-i) \ {1}
  <2>2. Common = [i \in 1..Len(s) |-> IF e(i) = {} THEN 1 ELSE CHOOSE n \in e(i) : TRUE]
    BY <2>1 DEF Common
  <2>3. ASSUME NEW i \in 1..Len(s) PROVE s[i] = IF e(i) = {} THEN 1 ELSE CHOOSE n \in e(i) : TRUE
    <3> DEFINE d == Len(s)+1-i
    <3>1. d \in 1..Len(s) /\ Len(s)+1-d = i
      BY <1>1
    <3> HIDE DEF d
    <3>2. s[i] = At(s, d)
      BY <3>1 DEF At
    <3>3. PICK w \in OuterShapes(NArgs) : d <= Len(w) /\ At(w, d) = At(s, d)
      BY <1>2, <3>1
    <3>4. At(s, d) \in Extents(d)
      <4>1. d \in Nat \ {0}
        BY <1>1, <3>1
      <4>2. At(w, d) \in Extents(d)
        BY <3>3, <4>1, CallShapes
      <4>3. QED
        BY <3>3, <4>2
    <3>5. \A n, m \in Extents(d) \ {1} : n = m
      BY <1>4, <1>6, <3>1 DEF Compatible
    <3>6. ASSUME NEW n \in Extents(d) \ {1} PROVE At(s, d) = n
      <4>1. At(s, d) \in {0, n}
        BY <1>5, <3>1
      <4>2. CASE At(s, d) = 0
        BY <3>4, <3>5, <4>2
      <4>3. QED
        BY <4>1, <4>2
    <3>7. CASE Extents(d) \ {1} = {}
      BY <3>2, <3>4, <3>7 DEF d
    <3>8. CASE Extents(d) \ {1} # {}
      <4>1. (CHOOSE n \in Extents(d) \ {1} : TRUE) \in Extents(d) \ {1}
        BY <3>8
      <4>2. At(s, d) = CHOOSE n \in Extents(d) \ {1} : TRUE
        BY <3>6, <4>1
      <4>3. QED
        BY <3>2, <3>8, <4>2 DEF d
    <3>9. QED
      BY <3>7, <3>8
  <2> HIDE DEF e
  <2>4. DOMAIN s = 1..Len(s) /\ s = [i \in 1..Len(s) |-> s[i]]
    BY <1>1, LenProperties DEF Shapes
  <2>5. s = Common
    BY <2>2, <2>3, <2>4
  <2>6. QED
    BY <1>6, <2>5
<1>7. CASE ~Compatible
  <2>1. PICK d \in Dims : \E n, m \in Extents(d) \ {1} : n # m
    BY <1>7, ConflictMeans
  <2>2. d \in 1..Len(s)
    BY <1>4
  <2>3. At(s, d) = 0
    BY <1>5, <2>1, <2>2
  <2>4. Len(s)+1-d \in DOMAIN s
    BY <1>1, <2>2, AtType, LenProperties DEF Shapes
  <2>5. QED
    BY <1>7, <2>3, <2>4 DEF At, Range
<1>8. QED
  BY <1>6, <1>7

-----------------------------------------------------------------------------
(* Sums.                                                                   *)

\* The sum of a sequence is that of its first numbers and that of the others.
LEMMA PlacesAfter ==
  ASSUME NEW p \in Nat, NEW L \in Nat, NEW n \in 0..(L-1)
  PROVE  /\ n+1 \in 1..L /\ n \in 0..L /\ (n+1)-1 = n
         /\ p+(n+1) \in 1..(p+L) /\ p+(n+1)-1 = p+n /\ p+n \in 0..(p+L)
OBVIOUS

LEMMA TotalAfter ==
  ASSUME NEW a \in Seq(Int), NEW b \in Seq(Int), NEW p \in Nat, Len(a) = p + Len(b),
         \A j \in 1..Len(b) : a[p+j] = b[j],
         NEW g \in [0..Len(a) -> Int], Totals(a, g)
  PROVE  Total(a) = g[p] + Total(b)
<1>1. PICK h \in [0..Len(b) -> Int] : Totals(b, h)
  BY TotalRec
<1> DEFINE L == Len(b)
           T == {k \in 0..L : g[p+k] = g[p] + h[k]}
<1>2. L \in Nat /\ Len(a) = p + L
  OBVIOUS
<1>3. g[p] \in Int
  BY <1>2
<1>4. 0 \in T
  BY <1>1, <1>2, <1>3 DEF Totals
<1>5. ASSUME NEW n \in 0..(L-1), n \in T PROVE n+1 \in T
  <2>1. /\ n+1 \in 1..L /\ n \in 0..L /\ (n+1)-1 = n
        /\ p+(n+1) \in 1..Len(a) /\ p+(n+1)-1 = p+n /\ p+n \in 0..Len(a)
    <3> HIDE DEF L, T
    <3>1. QED
      BY <1>2, PlacesAfter
  <2>2. h[n+1] = h[n] + b[n+1]
    <3>1. h[n+1] = h[(n+1)-1] + b[n+1]
      BY <1>1, <2>1 DEF Totals
    <3>2. QED
      BY <2>1, <3>1
  <2>3. g[p+(n+1)] = g[p+n] + a[p+(n+1)]
    <3> DEFINE k == p+(n+1)
    <3>1. k \in 1..Len(a) /\ k-1 = p+n
      BY ONLY <2>1
    <3> HIDE DEF k
    <3>2. g[k] = g[k-1] + a[k]
      BY <3>1 DEF Totals
    <3>3. QED
      BY <3>1, <3>2 DEF k
  <2>4. a[p+(n+1)] = b[n+1] /\ b[n+1] \in Int /\ h[n] \in Int
    <3>1. h[n] \in Int
      BY <2>1
    <3>2. a[p+(n+1)] = b[n+1]
      BY <2>1
    <3>3. b[n+1] \in Int
      BY <2>1, ElementOfSeq
    <3>4. QED
      BY ONLY <3>1, <3>2, <3>3
  <2>5. g[p+n] = g[p] + h[n]
    BY <1>5
  <2> HIDE DEF T, L
  <2>6. g[p+(n+1)] = g[p] + h[n+1]
    BY <1>3, <2>2, <2>3, <2>4, <2>5
  <2>7. QED
    BY <2>1, <2>6 DEF T
<1>6. L \in T
  <2> HIDE DEF T, L
  <2>1. \A n \in 0..L : n \in T
    BY <1>2, <1>4, <1>5, UpTo
  <2>2. L \in 0..L
    BY <1>2
  <2>3. QED
    BY <2>1, <2>2
<1>7. QED
  BY <1>1, <1>2, <1>6 DEF Totals

\* Zeros in front add nothing.
LEMMA TotalPadded ==
  ASSUME NEW a \in Seq(Int), NEW b \in Seq(Int), NEW p \in Nat, Len(a) = p + Len(b),
         \A i \in 1..p : a[i] = 0, \A j \in 1..Len(b) : a[p+j] = b[j]
  PROVE  Total(a) = Total(b) /\ Total(a) \in Int
<1>1. PICK g \in [0..Len(a) -> Int] : Totals(a, g)
  BY TotalRec
<1>2. Total(a) = g[p] + Total(b)
  BY <1>1, TotalAfter
<1>3. Len(a) \in Nat /\ p \in 0..Len(a)
  OBVIOUS
<1> DEFINE T == {k \in 0..p : g[k] = 0}
<1>4. 0 \in T
  BY <1>1 DEF Totals
<1>5. ASSUME NEW n \in 0..(p-1), n \in T PROVE n+1 \in T
  <2>1. n+1 \in 1..p /\ n+1 \in 1..Len(a) /\ (n+1)-1 = n
    BY <1>3
  <2>2. g[n+1] = g[n] + a[n+1]
    BY <1>1, <2>1 DEF Totals
  <2>3. QED
    BY <1>5, <2>1, <2>2
<1>6. p \in T
  <2> HIDE DEF T
  <2>1. \A n \in 0..p : n \in T
    BY <1>4, <1>5, UpTo
  <2>2. QED
    BY <2>1
<1>7. Total(b) \in Int
  <2>1. PICK h \in [0..Len(b) -> Int] : Totals(b, h)
    BY TotalRec
  <2>2. Len(b) \in 0..Len(b)
    OBVIOUS
  <2>3. QED
    BY <2>1, <2>2 DEF Totals
<1>8. QED
  BY <1>2, <1>6, <1>7

\* One number in front.
LEMMA TotalCons ==
  ASSUME NEW a \in Seq(Int), NEW b \in Seq(Int), Len(a) = 1 + Len(b),
         \A j \in 1..Len(b) : a[1+j] = b[j]
  PROVE  Total(a) = a[1] + Total(b) /\ Total(b) \in Int /\ a[1] \in Int
<1>1. PICK g \in [0..Len(a) -> Int] : Totals(a, g)
  BY TotalRec
<1>2. Total(a) = g[1] + Total(b)
  BY <1>1, TotalAfter
<1>3. 1 \in 1..Len(a) /\ a[1] \in Int
  OBVIOUS
<1>4. g[1] = g[0] + a[1] /\ g[0] = 0
  <2>1. g[1] = g[1-1] + a[1]
    BY <1>1, <1>3 DEF Totals
  <2>2. QED
    BY <1>1, <2>1 DEF Totals
<1>5. Total(b) \in Int
  <2>1. PICK h \in [0..Len(b) -> Int] : Totals(b, h)
    BY TotalRec
  <2>2. Len(b) \in 0..Len(b)
    OBVIOUS
  <2>3. QED
    BY <2>1, <2>2 DEF Totals
<1>6. QED
  BY <1>2, <1>3, <1>4, <1>5

LEMMA TotalNat == ASSUME NEW a \in Seq(Nat) PROVE Total(a) \in Nat
<1>1. a \in Seq(Int) /\ Len(a) \in Nat /\ \A k \in 1..Len(a) : a[k] \in Nat
  OBVIOUS
<1>2. PICK g \in [0..Len(a) -> Int] : Totals(a, g)
  BY <1>1, TotalRec
<1> DEFINE L == Len(a)
           T == {k \in 0..L : g[k] \in Nat}
<1>3. 0 \in T
  BY <1>1, <1>2 DEF Totals
<1>4. ASSUME NEW n \in 0..(L-1), n \in T PROVE n+1 \in T
  <2>1. n+1 \in 1..L /\ (n+1)-1 = n
    BY <1>1
  <2>2. g[n+1] = g[n] + a[n+1] /\ a[n+1] \in Nat
    BY <1>1, <1>2, <2>1 DEF Totals
  <2>3. QED
    BY <1>4, <2>1, <2>2
<1>5. L \in T
  <2> HIDE DEF T, L
  <2>1. \A n \in 0..L : n \in T
    BY <1>1, <1>3, <1>4, UpTo DEF L
  <2>2. L \in 0..L
    BY <1>1 DEF L
  <2>3. QED
    BY <2>1, <2>2
<1>6. QED
  BY <1>2, <1>5 DEF Totals

-----------------------------------------------------------------------------
(* Arrays.                                                                 *)

LEMMA InnerType ==
  ASSUME NEW x \in NDArrays, NEW n \in Nat, n <= NDim(x)
  PROVE  /\ Inner(x, n) \in NDArrays /\ NDim(Inner(x, n)) = n
         /\ \A j \in 1..n : /\ Inner(x, n).shape[j] = x.shape[NDim(x)-n+j]
                            /\ Inner(x, n).steps[j] = x.steps[NDim(x)-n+j]
<1> DEFINE m == NDim(x)-n+1
           l == NDim(x)
           s == x.shape
           t == x.steps
<1>1. m \in Int /\ l \in Int /\ l-m+1 = n /\ (IF m <= l THEN l-m+1 ELSE 0) = n
  BY ArrayType
<1>2. \A i \in m..l : s[i] \in Nat /\ t[i] \in Int
  BY ArrayType
<1>3. \A j \in 1..n : m+j-1 = NDim(x)-n+j
  BY ArrayType
<1>4. Inner(x, n) = [shape |-> SubSeq(s, m, l), steps |-> SubSeq(t, m, l)]
  BY DEF Inner
<1> HIDE DEF m, l, s, t
<1>5. /\ SubSeq(s, m, l) \in Seq(Nat)
      /\ Len(SubSeq(s, m, l)) = n
      /\ \A j \in 1..n : SubSeq(s, m, l)[j] = s[m+j-1]
  BY <1>1, <1>2, SubSeqProperties
<1>6. /\ SubSeq(t, m, l) \in Seq(Int)
      /\ Len(SubSeq(t, m, l)) = n
      /\ \A j \in 1..n : SubSeq(t, m, l)[j] = t[m+j-1]
  BY <1>1, <1>2, SubSeqProperties
<1>7. Inner(x, n) \in NDArrays /\ NDim(Inner(x, n)) = n
  BY <1>4, <1>5, <1>6 DEF NDArrays, NDim
<1>8. QED
  BY <1>3, <1>4, <1>5, <1>6, <1>7 DEF s, t

LEMMA AroundType ==
  ASSUME NEW x \in NDArrays, NEW y \in NDArrays
  PROVE  /\ Around(x, y) \in NDArrays /\ NDim(Around(x, y)) = NDim(x) + NDim(y)
         /\ \A i \in 1..NDim(x) : /\ Around(x, y).shape[i] = x.shape[i]
                                  /\ Around(x, y).steps[i] = x.steps[i]
         /\ \A j \in 1..NDim(y) : /\ Around(x, y).shape[NDim(x)+j] = y.shape[j]
                                  /\ Around(x, y).steps[NDim(x)+j] = y.steps[j]
<1> DEFINE s == x.shape
           t == y.shape
           p == x.steps
           q == y.steps
           m == NDim(x)
           n == NDim(y)
<1>1. /\ s \in Seq(Nat) /\ t \in Seq(Nat) /\ p \in Seq(Int) /\ q \in Seq(Int)
      /\ Len(s) = m /\ Len(p) = m /\ Len(t) = n /\ Len(q) = n /\ m \in Nat /\ n \in Nat
  BY ArrayType DEF NDim, Shapes
<1>2. Around(x, y) = [shape |-> s \o t, steps |-> p \o q]
  BY DEF Around
<1> HIDE DEF s, t, p, q, m, n
<1>3. /\ s \o t \in Seq(Nat) /\ Len(s \o t) = m + n
      /\ \A i \in 1..m+n : (s \o t)[i] = IF i <= m THEN s[i] ELSE t[i-m]
  <2>1. /\ s \o t \in Seq(Nat) /\ Len(s \o t) = Len(s) + Len(t)
        /\ \A i \in 1..Len(s)+Len(t) : (s \o t)[i] = IF i <= Len(s) THEN s[i] ELSE t[i-Len(s)]
    BY <1>1, ConcatProperties
  <2>2. QED
    BY <1>1, <2>1
<1>4. /\ p \o q \in Seq(Int) /\ Len(p \o q) = m + n
      /\ \A i \in 1..m+n : (p \o q)[i] = IF i <= m THEN p[i] ELSE q[i-m]
  <2>1. /\ p \o q \in Seq(Int) /\ Len(p \o q) = Len(p) + Len(q)
        /\ \A i \in 1..Len(p)+Len(q) : (p \o q)[i] = IF i <= Len(p) THEN p[i] ELSE q[i-Len(p)]
    BY <1>1, ConcatProperties
  <2>2. QED
    BY <1>1, <2>1
<1>5. \A i \in 1..m : i \in 1..m+n /\ i <= m
  BY <1>1
<1>6. \A j \in 1..n : m+j \in 1..m+n /\ ~(m+j <= m) /\ m+j-m = j
  BY <1>1
<1>7. Around(x, y) \in NDArrays /\ NDim(Around(x, y)) = m + n
  BY <1>2, <1>3, <1>4 DEF NDArrays, NDim
<1>8. \A i \in 1..m : (s \o t)[i] = s[i] /\ (p \o q)[i] = p[i]
  BY <1>3, <1>4, <1>5
<1>9. ASSUME NEW j \in 1..n PROVE (s \o t)[m+j] = t[j] /\ (p \o q)[m+j] = q[j]
  <2>1. m+j \in 1..m+n /\ ~(m+j <= m) /\ m+j-m = j
    BY <1>6
  <2> DEFINE k == m+j
  <2>2. k \in 1..m+n /\ ~(k <= m) /\ k-m = j
    BY <1>1, <2>1
  <2> HIDE DEF k
  <2>3. (s \o t)[k] = t[k-m] /\ (p \o q)[k] = q[k-m]
    BY <1>3, <1>4, <2>2
  <2>4. QED
    BY <2>2, <2>3 DEF k
<1>10. Around(x, y).shape = s \o t /\ Around(x, y).steps = p \o q
  BY <1>2
<1>11. QED
  BY <1>7, <1>8, <1>9, <1>10 DEF s, t, p, q, m, n

\* The size of an array, and a dimension around it.
LEMMA SpanType == ASSUME NEW x \in NDArrays PROVE Span(x) \in Nat
<1> DEFINE E(i) == (x.shape[i]-1) * Abs(x.steps[i])
<1>1. NDim(x) \in Nat /\ DOMAIN x.shape = 1..NDim(x)
  BY ArrayType
<1>2. \A i \in 1..NDim(x) : x.shape[i] \in Nat /\ Abs(x.steps[i]) \in Nat
  BY ArrayType DEF Abs
<1>3. \A i \in 1..NDim(x) : E(i) \in Int /\ (x.shape[i] # 0 => E(i) \in Nat)
  <2> SUFFICES ASSUME NEW i \in 1..NDim(x) PROVE E(i) \in Int /\ (x.shape[i] # 0 => E(i) \in Nat)
    OBVIOUS
  <2>1. \A a, b \in Nat : (a-1) * b \in Int /\ (a # 0 => (a-1) * b \in Nat)
    OBVIOUS
  <2>2. QED
    BY <1>2, <2>1
<1> DEFINE e == [i \in DOMAIN x.shape |-> E(i)]
<1>4. e \in Seq(Int) /\ Len(e) = NDim(x)
  <2> HIDE DEF E
  <2>1. QED
    BY <1>1, <1>3
<1>5. CASE \E i \in DOMAIN x.shape : x.shape[i] = 0
  BY <1>5 DEF Span
<1>6. CASE ~(\E i \in DOMAIN x.shape : x.shape[i] = 0)
  <2>1. e \in Seq(Nat)
    <3> HIDE DEF E
    <3>1. QED
      BY <1>1, <1>3, <1>6
  <2>2. Span(x) = 1 + Total(e)
    BY <1>6 DEF Span
  <2> HIDE DEF e
  <2>3. Total(e) \in Nat
    BY <2>1, TotalNat
  <2>4. QED
    BY <2>2, <2>3
<1>7. QED
  BY <1>5, <1>6

LEMMA FixedDimType ==
  ASSUME NEW x \in NDArrays, NEW n \in Nat
  PROVE  /\ FixedDim(n, x) \in NDArrays /\ NDim(FixedDim(n, x)) = 1 + NDim(x)
         /\ FixedDim(n, x).shape[1] = n /\ FixedDim(n, x).steps[1] = Span(x)
         /\ \A j \in 1..NDim(x) : /\ FixedDim(n, x).shape[1+j] = x.shape[j]
                                  /\ FixedDim(n, x).steps[1+j] = x.steps[j]
<1> DEFINE o == [shape |-> <<n>>, steps |-> <<Span(x)>>]
<1>1. Span(x) \in Int
  BY SpanType
<1>2. o \in NDArrays /\ NDim(o) = 1 /\ o.shape[1] = n /\ o.steps[1] = Span(x)
  BY <1>1 DEF NDArrays, NDim
<1>3. FixedDim(n, x) = Around(o, x)
  BY DEF FixedDim, Around
<1> HIDE DEF o
<1>4. 1 \in 1..NDim(o)
  BY <1>2
<1>5. QED
  BY <1>2, <1>3, <1>4, AroundType

\* Several dimensions around an array, one after the other.
Nested(s, x, g) ==
  /\ g[0] = x
  /\ \A k \in 1..Len(s) : g[k] = FixedDim(At(s, k), g[k-1])
  /\ FixedDims(s, x) = g[Len(s)]

LEMMA FixedDimsRec ==
  ASSUME NEW s \in Shapes, NEW x \in NDArrays
  PROVE  \E g \in [0..Len(s) -> NDArrays] : Nested(s, x, g)
<1> DEFINE L == Len(s)
           H == [k \in 1..L |-> [y \in NDArrays |-> FixedDim(At(s, k), y)]]
           Body(f) == [k \in 0..L |-> IF k = 0 THEN x ELSE FixedDim(s[L-k+1], f[k-1])]
<1>1. L \in Nat /\ \A k \in 1..L : At(s, k) \in Nat
  BY AtType DEF Shapes
<1>2. \A k \in 1..L : s[L-k+1] = At(s, k)
  <2>1. \A k \in 1..L : L-k+1 = L+1-k
    BY <1>1
  <2>2. QED
    BY <2>1 DEF At
<1>3. H \in [1..L -> [NDArrays -> NDArrays]]
  <2>1. \A k \in 1..L : \A y \in NDArrays : FixedDim(At(s, k), y) \in NDArrays
    BY <1>1, FixedDimType
  <2>2. QED
    BY <2>1
<1> HIDE DEF L
<1>4. PICK g \in [0..L -> NDArrays] : Follows(g, L, x, H)
  <2> HIDE DEF H
  <2>1. QED
    BY <1>1, <1>3, RecursionExists
<1>5. g[0] = x /\ \A k \in 1..L : g[k] = FixedDim(At(s, k), g[k-1])
  <2> SUFFICES ASSUME NEW k \in 1..L PROVE g[k] = FixedDim(At(s, k), g[k-1])
    BY <1>4 DEF Follows
  <2>1. g[k-1] \in NDArrays
    BY <1>1
  <2>2. QED
    BY <1>4, <2>1 DEF Follows
<1>6. g = Body(g)
  <2>1. \A k \in 0..L : g[k] = Body(g)[k]
    <3> SUFFICES ASSUME NEW k \in 0..L PROVE g[k] = IF k = 0 THEN x ELSE FixedDim(s[L-k+1], g[k-1])
      OBVIOUS
    <3>1. CASE k = 0
      BY <1>5, <3>1
    <3>2. CASE k # 0
      <4>1. k \in 1..L
        BY <1>1, <3>2
      <4>2. QED
        BY <1>2, <1>5, <3>2, <4>1
    <3>3. QED
      BY <3>1, <3>2
  <2>2. QED
    BY <2>1
<1>7. FixedDims(s, x) = (CHOOSE f : f = Body(f))[L]
  BY DEF FixedDims, L
<1> DEFINE v == CHOOSE f : f = Body(f)
<1>8. v = Body(v)
  <2> HIDE DEF Body
  <2>1. QED
    BY <1>6
<1> HIDE DEF v
<1>9. \A k \in 0..L : v[k] = IF k = 0 THEN x ELSE FixedDim(s[L-k+1], v[k-1])
  BY <1>8
<1> DEFINE T == {k \in 0..L : v[k] = g[k]}
<1>10. 0 \in T
  BY <1>1, <1>5, <1>9
<1>11. ASSUME NEW n \in 0..(L-1), n \in T PROVE n+1 \in T
  <2>1. n+1 \in 1..L /\ n+1 \in 0..L /\ (n+1)-1 = n /\ n+1 # 0 /\ v[n] = g[n]
    BY <1>1, <1>11
  <2>2. v[n+1] = FixedDim(s[L-(n+1)+1], v[(n+1)-1])
    BY <1>9, <2>1
  <2>3. g[n+1] = FixedDim(At(s, n+1), g[(n+1)-1])
    BY <1>5, <2>1
  <2>4. QED
    BY <1>2, <2>1, <2>2, <2>3
<1> HIDE DEF T
<1>12. L \in T
  <2>1. \A n \in 0..L : n \in T
    BY <1>1, <1>10, <1>11, UpTo
  <2>2. QED
    BY <1>1, <2>1
<1>13. FixedDims(s, x) = g[L]
  BY <1>7, <1>12 DEF T, v
<1>14. Nested(s, x, g)
  BY <1>5, <1>13 DEF Nested, L
<1>15. QED
  BY <1>14 DEF L

LEMMA FixedDimsType ==
  ASSUME NEW s \in Shapes, NEW x \in NDArrays
  PROVE  /\ FixedDims(s, x) \in NDArrays /\ NDim(FixedDims(s, x)) = Len(s) + NDim(x)
         /\ \A i \in 1..Len(s) : FixedDims(s, x).shape[i] = s[i]
         /\ \A j \in 1..NDim(x) : FixedDims(s, x).shape[Len(s)+j] = x.shape[j]
<1> DEFINE L == Len(s)
           OK(k, y) == /\ NDim(y) = k + NDim(x)
                       /\ \A d \in 1..k : y.shape[k+1-d] = At(s, d)
                       /\ \A j \in 1..NDim(x) : y.shape[k+j] = x.shape[j]
<1>1. PICK g \in [0..L -> NDArrays] : Nested(s, x, g)
  BY FixedDimsRec
<1> DEFINE T == {k \in 0..L : OK(k, g[k])}
<1>2. L \in Nat /\ NDim(x) \in Nat
  BY ArrayType DEF Shapes
<1>3. 0 \in T
  <2>1. g[0] = x
    BY <1>1 DEF Nested
  <2>2. 1..0 = {} /\ 0 \in 0..L /\ \A j \in 1..NDim(x) : 0+j = j
    BY <1>2
  <2>3. QED
    BY <1>2, <2>1, <2>2
<1>4. ASSUME NEW n \in 0..(L-1), n \in T PROVE n+1 \in T
  <2>1. n+1 \in 1..L /\ n+1 \in 0..L /\ n \in 0..L /\ (n+1)-1 = n
    BY <1>2
  <2> DEFINE y == g[n]
             z == g[n+1]
  <2>2. y \in NDArrays /\ OK(n, y) /\ At(s, n+1) \in Nat
    BY <1>4, <2>1, AtType
  <2>3. z = FixedDim(At(s, n+1), y)
    <3>1. g[n+1] = FixedDim(At(s, n+1), g[(n+1)-1])
      BY <1>1, <2>1 DEF Nested
    <3>2. QED
      BY <2>1, <3>1
  <2> HIDE DEF y, z
  <2>4. /\ NDim(z) = 1 + NDim(y) /\ z.shape[1] = At(s, n+1)
        /\ \A j \in 1..NDim(y) : z.shape[1+j] = y.shape[j]
    BY <2>2, <2>3, FixedDimType
  <2>5. NDim(y) = n + NDim(x)
    BY <2>2
  <2>6. ASSUME NEW d \in 1..(n+1) PROVE z.shape[(n+1)+1-d] = At(s, d)
    <3>1. CASE d = n+1
      <4>1. (n+1)+1-d = 1
        BY <3>1
      <4>2. QED
        BY <2>4, <3>1, <4>1
    <3>2. CASE d # n+1
      <4> DEFINE e == n+1-d
      <4>1. d \in 1..n /\ e \in 1..NDim(y) /\ (n+1)+1-d = 1+e
        BY <1>2, <2>5, <3>2
      <4>2. y.shape[e] = At(s, d)
        BY <2>2, <4>1
      <4> HIDE DEF e
      <4>3. z.shape[1+e] = y.shape[e]
        BY <2>4, <4>1
      <4>4. QED
        BY <4>1, <4>2, <4>3
    <3>3. QED
      BY <3>1, <3>2
  <2>7. ASSUME NEW j \in 1..NDim(x) PROVE z.shape[(n+1)+j] = x.shape[j]
    <3> DEFINE e == n+j
    <3>1. e \in 1..NDim(y) /\ (n+1)+j = 1+e
      BY <1>2, <2>5
    <3>2. y.shape[e] = x.shape[j]
      BY <2>2
    <3> HIDE DEF e
    <3>3. z.shape[1+e] = y.shape[e]
      BY <2>4, <3>1
    <3>4. QED
      BY <3>1, <3>2, <3>3
  <2>8. NDim(z) = (n+1) + NDim(x)
    BY <1>2, <2>4, <2>5
  <2>9. OK(n+1, z)
    BY <2>6, <2>7, <2>8
  <2> HIDE DEF OK
  <2>10. QED
    BY <2>1, <2>9 DEF z
<1>5. L \in T
  <2> HIDE DEF T
  <2>1. \A n \in 0..L : n \in T
    BY <1>2, <1>3, <1>4, UpTo
  <2>2. QED
    BY <1>2, <2>1
<1> DEFINE f == FixedDims(s, x)
<1>6. f = g[L] /\ f \in NDArrays
  <2>1. L \in 0..L
    BY <1>2
  <2>2. QED
    BY <1>1, <2>1 DEF Nested
<1>7. OK(L, f)
  BY <1>5, <1>6
<1> HIDE DEF f
<1>8. ASSUME NEW i \in 1..L PROVE f.shape[i] = s[i]
  <2>1. L+1-i \in 1..L /\ L+1-(L+1-i) = i
    BY <1>2
  <2>2. f.shape[L+1-(L+1-i)] = At(s, L+1-i)
    BY <1>7, <2>1
  <2>3. QED
    BY <2>1, <2>2 DEF At
<1>9. QED
  BY <1>6, <1>7, <1>8 DEF f

-----------------------------------------------------------------------------
(* Indices and where their elements are.                                   *)

LEMMA IndexType ==
  ASSUME NEW s \in Shapes, NEW idx \in Indices(s)
  PROVE  /\ idx \in [1..Len(s) -> Nat] /\ idx \in Seq(Nat) /\ Len(idx) = Len(s) /\ DOMAIN idx = 1..Len(s)
         /\ \A i \in 1..Len(s) : idx[i] \in Nat /\ idx[i] < s[i]
<1> DEFINE U == UNION {0..(n-1) : n \in Range(s)}
<1>1. Len(s) \in Nat /\ DOMAIN s = 1..Len(s) /\ \A i \in 1..Len(s) : s[i] \in Nat
  BY LenProperties DEF Shapes
<1>2. U \in SUBSET Nat
  <2>1. \A n \in Range(s) : n \in Nat
    BY <1>1 DEF Range
  <2>2. QED
    BY <2>1
<1>3. idx \in [1..Len(s) -> U] /\ \A i \in 1..Len(s) : idx[i] < s[i]
  BY <1>1 DEF Indices
<1> HIDE DEF U
<1>4. idx \in [1..Len(s) -> Nat]
  BY <1>2, <1>3
<1>5. QED
  BY <1>1, <1>3, <1>4

LEMMA IndexIs ==
  ASSUME NEW s \in Shapes, NEW idx \in [1..Len(s) -> Nat], \A i \in 1..Len(s) : idx[i] < s[i]
  PROVE  idx \in Indices(s)
<1> DEFINE U == UNION {0..(n-1) : n \in Range(s)}
<1>1. Len(s) \in Nat /\ DOMAIN s = 1..Len(s) /\ \A i \in 1..Len(s) : s[i] \in Nat
  BY LenProperties DEF Shapes
<1>2. ASSUME NEW i \in 1..Len(s) PROVE idx[i] \in U
  <2>1. s[i] \in Range(s) /\ idx[i] \in 0..(s[i]-1)
    BY <1>1 DEF Range
  <2>2. QED
    BY <2>1
<1>3. idx \in [DOMAIN s -> U]
  <2> HIDE DEF U
  <2>1. QED
    BY <1>1, <1>2
<1>4. QED
  BY <1>1, <1>3 DEF Indices

\* The steps to an element.
Terms(x, idx) == [i \in DOMAIN idx |-> idx[i] * x.steps[i]]

LEMMA TermsType ==
  ASSUME NEW x \in NDArrays, NEW idx \in [1..NDim(x) -> Nat]
  PROVE  /\ Offset(x, idx) = Total(Terms(x, idx))
         /\ Terms(x, idx) \in Seq(Int) /\ Len(Terms(x, idx)) = NDim(x)
         /\ \A i \in 1..NDim(x) : Terms(x, idx)[i] = idx[i] * x.steps[i]
<1>1. NDim(x) \in Nat /\ DOMAIN idx = 1..NDim(x)
  BY ArrayType
<1>2. ASSUME NEW i \in 1..NDim(x) PROVE idx[i] * x.steps[i] \in Int
  <2>1. x.steps[i] \in Int /\ idx[i] \in Int
    BY ArrayType
  <2>2. QED
    BY <2>1
<1>3. Terms(x, idx) = [i \in 1..NDim(x) |-> idx[i] * x.steps[i]]
  BY <1>1 DEF Terms
<1>4. Offset(x, idx) = Total(Terms(x, idx))
  BY DEF Offset, Terms
<1> DEFINE t == [i \in 1..NDim(x) |-> idx[i] * x.steps[i]]
<1>5. t \in [1..NDim(x) -> Int]
  BY <1>2
<1>6. t \in Seq(Int) /\ Len(t) = NDim(x)
  BY <1>1, <1>5
<1>7. QED
  BY <1>3, <1>4, <1>6

-----------------------------------------------------------------------------
(* The elements of a stretched array.                                      *)

\* The outer dimensions of an array, and the dimensions that broadcast() leaves.
Own(u, inner) ==
  [shape |-> SubSeq(u.shape, 1, NDim(u)-inner), steps |-> SubSeq(u.steps, 1, NDim(u)-inner)]
Left(u, s, inner) == Around(Stretch(Own(u, inner), s), Inner(u, inner))

LEMMA TailType ==
  ASSUME NEW u \in NDArrays, NEW s \in Shapes, NEW inner \in Nat,
         inner <= NDim(u), NDim(u) - inner <= Len(s)
  PROVE  /\ NDim(Own(u, inner)) = NDim(u) - inner
         /\ Left(u, s, inner) \in NDArrays /\ NDim(Left(u, s, inner)) = NDim(u)
         /\ \A j \in 1..NDim(u) :
              /\ Left(u, s, inner).shape[j] =
                   IF j <= NDim(u) - inner THEN s[Len(s)-(NDim(u)-inner)+j] ELSE u.shape[j]
              /\ Left(u, s, inner).steps[j] =
                   IF j <= NDim(u) - inner /\ u.shape[j] <= 1 THEN 0 ELSE u.steps[j]
<1> DEFINE n == NDim(u) - inner
           a == u.shape
           b == u.steps
           own == [shape |-> SubSeq(a, 1, n), steps |-> SubSeq(b, 1, n)]
           m == Len(s)-n+1
           l == Len(s)
<1>1. /\ NDim(u) \in Nat /\ n \in Nat /\ n <= NDim(u) /\ l \in Nat /\ n <= l
      /\ \A i \in 1..NDim(u) : a[i] \in Nat /\ b[i] \in Int
      /\ \A i \in 1..l : s[i] \in Nat
  BY ArrayType DEF Shapes
<1>2. NDim(u) = n + inner
  BY <1>1
<1> HIDE DEF n, a, b, l
<1>3. /\ SubSeq(a, 1, n) \in Seq(Nat) /\ Len(SubSeq(a, 1, n)) = n
      /\ \A i \in 1..n : SubSeq(a, 1, n)[i] = a[i]
  <2>1. \A i \in 1..n : a[i] \in Nat
    BY <1>1
  <2>2. /\ SubSeq(a, 1, n) \in Seq(Nat) /\ Len(SubSeq(a, 1, n)) = IF 1 <= n THEN n-1+1 ELSE 0
        /\ \A i \in 1..(n-1+1) : SubSeq(a, 1, n)[i] = a[1+i-1]
    BY <1>1, <2>1, SubSeqProperties
  <2>3. QED
    BY <1>1, <2>2
<1>4. NDim(own) = n /\ own.shape = SubSeq(a, 1, n) /\ DOMAIN own.shape = 1..n /\ \A i \in 1..n : own.shape[i] = a[i]
  BY <1>3 DEF NDim
<1>5. \A i \in 1..n : own.steps[i] = b[i]
  <2>1. \A i \in 1..n : b[i] \in Int
    BY <1>1
  <2>2. \A i \in 1..(n-1+1) : SubSeq(b, 1, n)[i] = b[1+i-1]
    BY <1>1, <2>1, SubSeqProperties
  <2>3. QED
    BY <1>1, <2>2
<1>6. /\ SubSeq(s, m, l) \in Seq(Nat) /\ Len(SubSeq(s, m, l)) = n
      /\ \A i \in 1..n : SubSeq(s, m, l)[i] = s[m+i-1]
  <2>1. m \in Int /\ m = l-n+1 /\ \A i \in m..l : s[i] \in Nat
    BY <1>1 DEF l
  <2> HIDE DEF m
  <2>2. /\ SubSeq(s, m, l) \in Seq(Nat) /\ Len(SubSeq(s, m, l)) = IF m <= l THEN l-m+1 ELSE 0
        /\ \A i \in 1..(l-m+1) : SubSeq(s, m, l)[i] = s[m+i-1]
    BY ONLY <1>1, <2>1, SubSeqProperties
  <2>3. l-m+1 = n /\ (IF m <= l THEN l-m+1 ELSE 0) = n
    BY ONLY <1>1, <2>1
  <2>4. QED
    BY <2>2, <2>3
<1> DEFINE e == [shape |-> SubSeq(s, m, l),
                 steps |-> [i \in 1..n |-> IF own.shape[i] <= 1 THEN 0 ELSE own.steps[i]]]
<1>7. Stretch(own, s) = e
  BY <1>4 DEF Stretch, l
<1> HIDE DEF m
<1>8. /\ e \in NDArrays /\ NDim(e) = n
      /\ \A i \in 1..n : e.shape[i] = s[m+i-1] /\ e.steps[i] = IF a[i] <= 1 THEN 0 ELSE b[i]
  <2> DEFINE t == [i \in 1..n |-> IF own.shape[i] <= 1 THEN 0 ELSE own.steps[i]]
  <2>1. \A i \in 1..n : (IF own.shape[i] <= 1 THEN 0 ELSE own.steps[i]) = IF a[i] <= 1 THEN 0 ELSE b[i]
    BY <1>4, <1>5
  <2>2. \A i \in 1..n : b[i] \in Int
    BY <1>1
  <2>3. t \in [1..n -> Int] /\ \A i \in 1..n : t[i] = IF a[i] <= 1 THEN 0 ELSE b[i]
    <3> HIDE DEF own
    <3>1. \A i \in 1..n : t[i] = IF a[i] <= 1 THEN 0 ELSE b[i]
      BY <2>1
    <3>2. \A i \in 1..n : t[i] \in Int
      BY <2>2, <3>1
    <3>3. t = [i \in 1..n |-> t[i]]
      OBVIOUS
    <3> HIDE DEF t
    <3>4. QED
      BY <3>1, <3>2, <3>3
  <2> HIDE DEF t, own
  <2>4. t \in Seq(Int) /\ Len(t) = n
    BY <1>1, <2>3
  <2>5. e.shape = SubSeq(s, m, l) /\ e.steps = t /\ e = [shape |-> SubSeq(s, m, l), steps |-> t]
    BY DEF t
  <2> HIDE DEF e
  <2>6. QED
    BY <1>6, <2>3, <2>4, <2>5 DEF NDArrays, NDim
<1> DEFINE c == Inner(u, inner)
<1>9. /\ c \in NDArrays /\ NDim(c) = inner
      /\ \A j \in 1..inner : c.shape[j] = a[NDim(u)-inner+j] /\ c.steps[j] = b[NDim(u)-inner+j]
  BY <1>1, <1>2, InnerType DEF a, b
<1> HIDE DEF e, c, own
<1> DEFINE tail == Around(e, c)
<1>10. tail \in NDArrays /\ NDim(tail) = n + inner
       /\ (\A i \in 1..n : tail.shape[i] = e.shape[i] /\ tail.steps[i] = e.steps[i])
       /\ \A j \in 1..inner : tail.shape[n+j] = c.shape[j] /\ tail.steps[n+j] = c.steps[j]
  BY <1>8, <1>9, AroundType
<1> HIDE DEF tail
<1>11. ASSUME NEW j \in 1..NDim(u)
       PROVE  /\ tail.shape[j] = IF j <= n THEN s[l-n+j] ELSE a[j]
              /\ tail.steps[j] = IF j <= n /\ a[j] <= 1 THEN 0 ELSE b[j]
  <2>1. CASE j <= n
    <3>1. j \in 1..n /\ m+j-1 = l-n+j
      BY <1>1, <2>1 DEF m, l
    <3>2. tail.shape[j] = s[m+j-1] /\ tail.steps[j] = IF a[j] <= 1 THEN 0 ELSE b[j]
      BY <1>8, <1>10, <3>1
    <3>3. QED
      BY <2>1, <3>1, <3>2
  <2>2. CASE ~(j <= n)
    <3> DEFINE k == j-n
    <3>1. k \in 1..inner /\ n+k = j /\ NDim(u)-inner+k = j
      BY <1>1, <1>2, <2>2
    <3> HIDE DEF k
    <3>2. tail.shape[n+k] = a[NDim(u)-inner+k] /\ tail.steps[n+k] = b[NDim(u)-inner+k]
      BY <1>9, <1>10, <3>1
    <3>3. QED
      BY <2>2, <3>1, <3>2
  <2>3. QED
    BY <2>1, <2>2
<1>12. own = Own(u, inner)
  BY DEF own, Own, n, a, b
<1>13. tail = Left(u, s, inner)
  BY <1>7, <1>12 DEF tail, c, Left
<1>14. NDim(own) = n /\ n + inner = NDim(u)
  BY <1>2, <1>4
<1>15. QED
  BY <1>10, <1>11, <1>12, <1>13, <1>14 DEF n, a, b, l

LEMMA Differences ==
  ASSUME NEW D \in Nat, NEW L \in Nat, NEW k \in Nat, k <= D, D-k <= L
  PROVE  /\ D-k \in Nat /\ L-(D-k) \in Nat
         /\ D = (D-k)+k /\ L = (L-(D-k)) + (D-k)
         /\ (L-(D-k)) + D = L + k
OBVIOUS

\* The dimensions of an array after broadcast(), and its steps.
Reshaped(y, u, s, inner) ==
  /\ y \in NDArrays /\ NDim(y) = Len(s) + inner
  /\ \A i \in 1..Len(s) : y.shape[i] = s[i]
  /\ \A j \in 1..inner : y.shape[Len(s)+j] = u.shape[NDim(u)-inner+j]
Stepping(y, u, s, inner) ==
  /\ \A i \in 1..(Len(s)-(NDim(u)-inner)) : y.steps[i] = 0
  /\ \A j \in 1..NDim(u) :
       y.steps[Len(s)-(NDim(u)-inner)+j] =
         IF j <= NDim(u)-inner /\ u.shape[j] <= 1 THEN 0 ELSE u.steps[j]

LEMMA BroadcastType ==
  ASSUME NEW u \in NDArrays, NEW s \in Shapes, NEW inner \in Nat,
         inner <= NDim(u), NDim(u) - inner <= Len(s),
         NEW y, y \in {Broadcast(u, s, inner, TRUE), Broadcast(u, s, inner, FALSE)}
  PROVE  /\ Reshaped(y, u, s, inner)
         /\ y = Broadcast(u, s, inner, FALSE) => Stepping(y, u, s, inner)
<1> DEFINE D == NDim(u)
           L == Len(s)
           n == D - inner
           p == L - n
           tail == Left(u, s, inner)
           new == SubSeq(s, 1, p)
           z == [shape |-> new, steps |-> [i \in DOMAIN new |-> 0]]
           max == y # Broadcast(u, s, inner, FALSE)
<1>1. /\ NDim(Own(u, inner)) = n
      /\ tail \in NDArrays /\ NDim(tail) = D
      /\ \A j \in 1..D :
           /\ tail.shape[j] = IF j <= n THEN s[L-n+j] ELSE u.shape[j]
           /\ tail.steps[j] = IF j <= n /\ u.shape[j] <= 1 THEN 0 ELSE u.steps[j]
  BY TailType
<1>2. y = IF max THEN FixedDims(new, tail) ELSE Around(z, tail)
  <2>1. Broadcast(u, s, inner, TRUE) = FixedDims(SubSeq(s, 1, L-NDim(Own(u, inner))), tail)
    BY DEF Broadcast, Own, Left
  <2>2. Broadcast(u, s, inner, FALSE) =
          Around([shape |-> SubSeq(s, 1, L-NDim(Own(u, inner))),
                  steps |-> [i \in DOMAIN SubSeq(s, 1, L-NDim(Own(u, inner))) |-> 0]], tail)
    BY DEF Broadcast, Own, Left
  <2>3. L-NDim(Own(u, inner)) = p
    BY <1>1
  <2>4. Broadcast(u, s, inner, TRUE) = FixedDims(new, tail) /\ Broadcast(u, s, inner, FALSE) = Around(z, tail)
    BY <2>1, <2>2, <2>3
  <2> HIDE DEF new, z, tail
  <2>5. QED
    BY <2>4
<1> HIDE DEF tail, max
<1>3. /\ D \in Nat /\ L \in Nat /\ n \in Nat /\ p \in Nat /\ D = n + inner /\ L = p + n
      /\ \A i \in 1..L : s[i] \in Nat
  <2>1. D \in Nat /\ L \in Nat /\ \A i \in 1..L : s[i] \in Nat
    BY ArrayType DEF Shapes
  <2>2. inner <= D /\ D - inner <= L
    OBVIOUS
  <2> HIDE DEF D, L
  <2>3. D-inner \in Nat /\ L-(D-inner) \in Nat /\ D = (D-inner)+inner /\ L = (L-(D-inner)) + (D-inner)
    BY <2>1, <2>2, Differences
  <2>4. QED
    BY <2>1, <2>3 DEF n, p
<1> HIDE DEF D, L, n, p
<1>4. /\ new \in Seq(Nat) /\ Len(new) = p
      /\ \A i \in 1..p : new[i] = s[i]
  <2>1. \A i \in 1..p : s[i] \in Nat
    BY <1>3
  <2>2. /\ SubSeq(s, 1, p) \in Seq(Nat) /\ Len(SubSeq(s, 1, p)) = IF 1 <= p THEN p-1+1 ELSE 0
        /\ \A i \in 1..(p-1+1) : SubSeq(s, 1, p)[i] = s[1+i-1]
    BY <1>3, <2>1, SubSeqProperties
  <2>3. QED
    BY <1>3, <2>2
<1>5. z \in NDArrays /\ NDim(z) = p /\ \A i \in 1..p : z.shape[i] = s[i] /\ z.steps[i] = 0
  <2>1. DOMAIN new = 1..p
    BY <1>4
  <2> HIDE DEF new
  <2>2. [i \in DOMAIN new |-> 0] \in Seq(Int) /\ Len([i \in DOMAIN new |-> 0]) = p
        /\ \A i \in 1..p : [j \in DOMAIN new |-> 0][i] = 0
    BY <1>3, <2>1
  <2>3. QED
    BY <1>4, <2>2 DEF NDArrays, NDim
<1>6. /\ y \in NDArrays /\ NDim(y) = p + D
      /\ \A i \in 1..p : y.shape[i] = s[i] /\ (~max => y.steps[i] = 0)
      /\ \A j \in 1..D : y.shape[p+j] = tail.shape[j] /\ (~max => y.steps[p+j] = tail.steps[j])
  <2>1. CASE max
    <3>1. y = FixedDims(new, tail) /\ new \in Shapes
      BY <1>2, <1>4, <2>1 DEF Shapes
    <3> HIDE DEF new, z
    <3>2. /\ FixedDims(new, tail) \in NDArrays /\ NDim(FixedDims(new, tail)) = Len(new) + NDim(tail)
          /\ \A i \in 1..Len(new) : FixedDims(new, tail).shape[i] = new[i]
          /\ \A j \in 1..NDim(tail) : FixedDims(new, tail).shape[Len(new)+j] = tail.shape[j]
      BY <1>1, <3>1, FixedDimsType
    <3>3. QED
      BY <1>1, <1>4, <2>1, <3>1, <3>2
  <2>2. CASE ~max
    <3>1. y = Around(z, tail)
      BY <1>2, <2>2
    <3> HIDE DEF z
    <3>2. /\ Around(z, tail) \in NDArrays /\ NDim(Around(z, tail)) = NDim(z) + NDim(tail)
          /\ \A i \in 1..NDim(z) : /\ Around(z, tail).shape[i] = z.shape[i]
                                   /\ Around(z, tail).steps[i] = z.steps[i]
          /\ \A j \in 1..NDim(tail) : /\ Around(z, tail).shape[NDim(z)+j] = tail.shape[j]
                                      /\ Around(z, tail).steps[NDim(z)+j] = tail.steps[j]
      BY <1>1, <1>5, AroundType
    <3>3. QED
      BY <1>1, <1>5, <3>1, <3>2
  <2>3. QED
    BY <2>1, <2>2
<1> HIDE DEF new, z
<1>7. ASSUME NEW i \in 1..L PROVE y.shape[i] = s[i]
  <2>1. CASE i <= p
    <3>1. i \in 1..p
      BY <1>3, <2>1
    <3>2. QED
      BY <1>6, <3>1
  <2>2. CASE ~(i <= p)
    <3> DEFINE j == i-p
    <3>1. j \in 1..D /\ p+j = i /\ j <= n /\ L-n+j = i
      BY <1>3, <2>2
    <3> HIDE DEF j
    <3>2. y.shape[p+j] = s[L-n+j]
      BY <1>1, <1>6, <3>1
    <3>3. QED
      BY <3>1, <3>2
  <2>3. QED
    BY <2>1, <2>2
<1>8. ASSUME NEW j \in 1..inner PROVE y.shape[L+j] = u.shape[n+j]
  <2> DEFINE k == n+j
  <2>1. k \in 1..D /\ p+k = L+j /\ ~(k <= n)
    BY <1>3
  <2> HIDE DEF k
  <2>2. y.shape[p+k] = u.shape[k]
    BY <1>1, <1>6, <2>1
  <2>3. QED
    BY <2>1, <2>2 DEF k
<1>9. ~max => /\ \A i \in 1..p : y.steps[i] = 0
              /\ \A j \in 1..D : y.steps[p+j] = IF j <= n /\ u.shape[j] <= 1 THEN 0 ELSE u.steps[j]
  BY <1>1, <1>6
<1>10. p + D = L + inner
  BY <1>3
<1>11. QED
  BY <1>6, <1>7, <1>8, <1>9, <1>10 DEF D, L, n, p, max, Reshaped, Stepping

\* An array with the outer dimensions of a shape has this shape.
LEMMA OuterIs ==
  ASSUME call.inner \in Nat, NEW y \in NDArrays, NEW s \in Shapes, NDim(y) = Len(s) + call.inner,
         \A i \in 1..Len(s) : y.shape[i] = s[i]
  PROVE  OuterShape(y) = s
<1>1. Len(s) \in Nat
  BY DEF Shapes
<1>2. Len(OuterShape(y)) = Len(s)
  <2>1. NDim(y) >= call.inner /\ NDim(y) - call.inner = Len(s)
    BY <1>1
  <2>2. QED
    BY <2>1, OuterType
<1>3. \A i \in 1..Len(s) : OuterShape(y)[i] = s[i]
  BY <1>2, OuterType
<1>4. QED
  BY <1>2, <1>3, OuterType, SeqEqual DEF Shapes

\* Each element of an array that was stretched is an element of the array.
LEMMA ElementReached ==
  ASSUME NEW u \in NDArrays, NEW s \in Shapes, call.inner \in Nat,
         call.inner <= NDim(u), Fits(OuterShape(u), s),
         NEW idx \in [1..(Len(s)+call.inner) -> Nat],
         \A i \in 1..Len(s) : idx[i] < s[i],
         \A k \in 1..call.inner : \/ idx[Len(s)+k] < u.shape[NDim(u)-call.inner+k]
                                  \/ idx[Len(s)+k] = 0
  PROVE  /\ \A j \in 1..NDim(u) : \/ Source(u, idx)[j] < u.shape[j]
                                  \/ j > NDim(u)-call.inner /\ Source(u, idx)[j] = 0
         /\ Offset(Broadcast(u, s, call.inner, FALSE), idx) = Offset(u, Source(u, idx))
<1> DEFINE y == Broadcast(u, s, call.inner, FALSE)
           D == NDim(u)
           n == D - call.inner
           L == Len(s)
           p == L - n
           src == Source(u, idx)
<1>1. /\ D \in Nat /\ n \in Nat /\ L \in Nat /\ p \in Nat /\ n <= L /\ D = n + call.inner /\ L = p + n
  <2>1. D \in Nat /\ L \in Nat /\ call.inner <= D
    BY ArrayType DEF Shapes
  <2>2. Len(OuterShape(u)) = n /\ Len(OuterShape(u)) <= L
    BY <2>1, OuterType DEF Fits
  <2>3. D - call.inner <= L
    BY <2>2
  <2> HIDE DEF D, L
  <2>4. D-call.inner \in Nat /\ L-(D-call.inner) \in Nat /\ D = (D-call.inner)+call.inner
        /\ L = (L-(D-call.inner)) + (D-call.inner)
    BY <2>1, <2>3, Differences
  <2>5. QED
    BY <2>1, <2>3, <2>4
<1>2. /\ y \in NDArrays /\ NDim(y) = L + call.inner
      /\ \A i \in 1..L : y.shape[i] = s[i]
      /\ \A j \in 1..call.inner : y.shape[L+j] = u.shape[n+j]
      /\ \A i \in 1..p : y.steps[i] = 0
      /\ \A j \in 1..D : y.steps[p+j] = IF j <= n /\ u.shape[j] <= 1 THEN 0 ELSE u.steps[j]
  <2>1. NDim(u) - call.inner <= Len(s)
    BY <1>1
  <2>2. Reshaped(y, u, s, call.inner) /\ Stepping(y, u, s, call.inner)
    BY <2>1, BroadcastType
  <2> HIDE DEF y
  <2>3. QED
    BY <2>2 DEF Reshaped, Stepping
<1> HIDE DEF y, D, n, p
<1>3. NDim(y) = p + D
  BY <1>1, <1>2
<1>4. /\ idx \in [1..NDim(y) -> Nat] /\ Len(idx) = p + D
      /\ \A i \in 1..NDim(y) : idx[i] \in Nat
  <2>1. NDim(y) = L + call.inner /\ NDim(y) \in Nat
    BY <1>1, <1>2
  <2>2. idx \in [1..NDim(y) -> Nat]
    BY <2>1
  <2>3. QED
    BY <1>3, <2>1, <2>2
<1>5. \A i \in 1..D : u.shape[i] \in Nat /\ u.steps[i] \in Int
  BY ArrayType DEF D
<1>6. DOMAIN src = 1..D /\ \A j \in 1..D : src[j] = IF u.shape[j] = 1 THEN 0 ELSE idx[p+j]
  <2>1. DOMAIN u.shape = 1..D
    BY ArrayType DEF D
  <2>2. \A j \in 1..D : Len(idx)-NDim(u)+j = p+j
    BY <1>1, <1>4 DEF D
  <2>3. QED
    BY <2>1, <2>2 DEF Source
<1> HIDE DEF src
\* In the dimensions that are not repeated the extent is that of the argument.
<1>7. ASSUME NEW j \in 1..D, u.shape[j] # 1
      PROVE  p+j \in 1..NDim(y) /\ (idx[p+j] < u.shape[j] \/ (j > n /\ idx[p+j] = 0)) /\ (j <= n => idx[p+j] < u.shape[j])
  <2>1. p+j \in 1..NDim(y)
    BY <1>1, <1>3
  <2>2. CASE j <= n
    <3> DEFINE d == n+1-j
    <3>1. d \in 1..Len(OuterShape(u)) /\ j \in 1..Len(OuterShape(u)) /\ Len(OuterShape(u))+1-d = j
          /\ L+1-d = p+j /\ p+j \in 1..L
      <4>1. Len(OuterShape(u)) = n
        BY OuterType, <1>1 DEF n, D
      <4>2. j \in Nat \ {0} /\ j <= n /\ L \in Nat /\ p \in Nat /\ n \in Nat /\ L = p + n
        BY <1>1, <2>2
      <4> HIDE DEF L
      <4>3. n+1-j \in 1..n /\ j \in 1..n /\ n+1-(n+1-j) = j /\ L+1-(n+1-j) = p+j /\ p+j \in 1..L
        BY ONLY <4>2
      <4>4. QED
        BY <4>1, <4>3
    <3> HIDE DEF d
    <3>2. At(OuterShape(u), d) = u.shape[j]
      <4>1. OuterShape(u)[j] = u.shape[j]
        BY <3>1, OuterType
      <4>2. QED
        BY <3>1, <4>1 DEF At
    <3>3. At(s, d) = s[p+j]
      BY <3>1 DEF At
    <3>4. s[p+j] \in {0, u.shape[j]}
      BY <1>7, <3>1, <3>2, <3>3 DEF Fits
    <3>5. idx[p+j] \in Nat /\ idx[p+j] < s[p+j]
      BY <1>4, <2>1, <3>1
    <3>6. QED
      BY <2>1, <3>4, <3>5
  <2>3. CASE ~(j <= n)
    <3> DEFINE k == j-n
    <3>1. k \in 1..call.inner /\ L+k = p+j /\ n+k = j /\ j > n
      BY <1>1, <2>3
    <3> HIDE DEF k
    <3>2. idx[L+k] < u.shape[n+k] \/ idx[L+k] = 0
      BY <3>1 DEF n, D
    <3>3. QED
      BY <2>1, <2>3, <3>1, <3>2
  <2>4. QED
    BY <2>2, <2>3
<1>8. ASSUME NEW j \in 1..D PROVE src[j] \in Nat /\ (src[j] < u.shape[j] \/ (j > n /\ src[j] = 0))
  <2>1. CASE u.shape[j] = 1
    BY <1>6, <2>1
  <2>2. CASE u.shape[j] # 1
    <3>1. p+j \in 1..NDim(y) /\ (idx[p+j] < u.shape[j] \/ (j > n /\ idx[p+j] = 0))
      BY <1>7, <2>2
    <3>2. idx[p+j] \in Nat
      BY <1>4, <3>1
    <3>3. QED
      BY <1>6, <2>2, <3>1, <3>2
  <2>3. QED
    BY <2>1, <2>2
<1>9. src \in [1..D -> Nat]
  <2>1. src = [j \in 1..D |-> src[j]]
    BY <1>6 DEF src, Source
  <2>2. QED
    BY <1>8, <2>1
<1> DEFINE a == Terms(y, idx)
           b == Terms(u, src)
<1>10. /\ Offset(y, idx) = Total(a) /\ a \in Seq(Int) /\ Len(a) = NDim(y)
       /\ \A i \in 1..NDim(y) : a[i] = idx[i] * y.steps[i]
  BY <1>2, <1>4, TermsType
<1>11. /\ Offset(u, src) = Total(b) /\ b \in Seq(Int) /\ Len(b) = D
       /\ \A i \in 1..D : b[i] = src[i] * u.steps[i]
  BY <1>9, TermsType DEF D
<1> HIDE DEF a, b
<1>12. ASSUME NEW i \in 1..p PROVE a[i] = 0
  <2>1. i \in 1..NDim(y)
    BY <1>1, <1>3
  <2>2. a[i] = idx[i] * 0 /\ idx[i] \in Nat
    BY <1>2, <1>4, <1>10, <2>1
  <2>3. QED
    BY <2>2
<1>13. ASSUME NEW j \in 1..D PROVE a[p+j] = b[j]
  <2>1. p+j \in 1..NDim(y)
    BY <1>1, <1>3
  <2>2. /\ a[p+j] = idx[p+j] * (IF j <= n /\ u.shape[j] <= 1 THEN 0 ELSE u.steps[j])
        /\ idx[p+j] \in Nat /\ b[j] = src[j] * u.steps[j] /\ u.steps[j] \in Int
    <3>1. y.steps[p+j] = IF j <= n /\ u.shape[j] <= 1 THEN 0 ELSE u.steps[j]
      BY <1>2
    <3>2. a[p+j] = idx[p+j] * y.steps[p+j] /\ idx[p+j] \in Nat
      BY <1>4, <1>10, <2>1
    <3>3. b[j] = src[j] * u.steps[j] /\ u.steps[j] \in Int
      BY <1>5, <1>11
    <3>4. QED
      BY <3>1, <3>2, <3>3
  <2>3. CASE u.shape[j] = 1
    <3>1. src[j] = 0
      BY <1>6, <2>3
    <3>2. b[j] = 0
      BY <2>2, <3>1
    <3>3. CASE j <= n
      BY <2>2, <2>3, <3>2, <3>3
    <3>4. CASE ~(j <= n)
      <4> DEFINE k == j-n
      <4>1. k \in 1..call.inner /\ L+k = p+j /\ n+k = j
        BY <1>1, <3>4
      <4> HIDE DEF k
      <4>2. idx[L+k] < u.shape[n+k] \/ idx[L+k] = 0
        BY <4>1 DEF n, D
      <4>3. idx[p+j] < 1
        BY <2>2, <2>3, <4>1, <4>2
      <4>4. idx[p+j] = 0
        BY <2>2, <4>3
      <4>5. a[p+j] = 0 * u.steps[j]
        BY <2>2, <3>4, <4>4
      <4>6. QED
        BY <2>2, <3>2, <4>5
    <3>5. QED
      BY <3>3, <3>4
  <2>4. CASE u.shape[j] # 1
    <3>1. ASSUME j <= n PROVE u.shape[j] > 1
      <4>1. idx[p+j] < u.shape[j] /\ u.shape[j] \in Nat
        BY <1>5, <1>7, <2>4, <3>1
      <4>2. idx[p+j] \in Nat
        BY <2>2
      <4>3. QED
        BY ONLY <2>4, <4>1, <4>2
    <3>2. a[p+j] = idx[p+j] * u.steps[j]
      <4>1. ~(j <= n /\ u.shape[j] <= 1)
        BY <1>5, <3>1
      <4>2. QED
        BY <2>2, <4>1
    <3>3. src[j] = idx[p+j]
      BY <1>6, <2>4
    <3>4. QED
      BY <2>2, <3>2, <3>3
  <2>5. QED
    BY <2>3, <2>4
<1>14. Total(a) = Total(b)
  <2>1. Len(a) = p + Len(b) /\ \A j \in 1..Len(b) : a[p+j] = b[j]
    BY <1>3, <1>10, <1>11, <1>13
  <2>2. QED
    BY <1>1, <1>10, <1>11, <1>12, <2>1, TotalPadded
<1>15. QED
  BY <1>8, <1>10, <1>11, <1>14 DEF y, src, n, D

\* ... and names one of its elements, if it is an index of the array.
LEMMA ElementKept ==
  ASSUME NEW u \in NDArrays, NEW s \in Shapes, call.inner \in Nat,
         call.inner <= NDim(u), Fits(OuterShape(u), s),
         NEW idx \in Indices(Broadcast(u, s, call.inner, FALSE).shape)
  PROVE  /\ \A j \in DOMAIN Source(u, idx) : Source(u, idx)[j] < u.shape[j]
         /\ Offset(Broadcast(u, s, call.inner, FALSE), idx) = Offset(u, Source(u, idx))
<1> DEFINE y == Broadcast(u, s, call.inner, FALSE)
           D == NDim(u)
           m == call.inner
           n == D - m
           L == Len(s)
           src == Source(u, idx)
<1>1. D \in Nat /\ m \in Nat /\ n \in Nat /\ L \in Nat /\ n <= L /\ D = n + m
  <2>1. D \in Nat /\ L \in Nat /\ m \in Nat /\ m <= D
    BY ArrayType DEF Shapes
  <2>2. Len(OuterShape(u)) = n /\ Len(OuterShape(u)) <= L
    BY <2>1, OuterType DEF Fits
  <2>3. QED
    BY <2>1, <2>2
<1>2. /\ y \in NDArrays /\ NDim(y) = L + m
      /\ \A i \in 1..L : y.shape[i] = s[i]
      /\ \A j \in 1..m : y.shape[L+j] = u.shape[n+j]
  <2>1. NDim(u) - call.inner <= Len(s)
    BY <1>1
  <2>2. Reshaped(y, u, s, call.inner)
    BY <2>1, BroadcastType
  <2> HIDE DEF y
  <2>3. QED
    BY <2>2 DEF Reshaped
<1>3. idx \in [1..NDim(y) -> Nat] /\ \A i \in 1..NDim(y) : idx[i] \in Nat /\ idx[i] < y.shape[i]
  <2>1. y.shape \in Shapes /\ Len(y.shape) = NDim(y) /\ idx \in Indices(y.shape)
    BY <1>2, ArrayType DEF NDim
  <2> HIDE DEF y
  <2>2. QED
    BY <2>1, IndexType
<1> HIDE DEF y, n
<1>4. /\ idx \in [1..(L+m) -> Nat]
      /\ \A i \in 1..L : idx[i] < s[i]
      /\ \A k \in 1..m : idx[L+k] < u.shape[n+k]
  <2>1. idx \in [1..(L+m) -> Nat]
    BY <1>2, <1>3
  <2>2. \A i \in 1..L : i \in 1..NDim(y)
    BY <1>1, <1>2
  <2>3. \A k \in 1..m : L+k \in 1..NDim(y)
    BY <1>1, <1>2
  <2>4. QED
    BY <1>2, <1>3, <2>1, <2>2, <2>3
<1>5. /\ \A j \in 1..D : src[j] < u.shape[j] \/ (j > n /\ src[j] = 0)
      /\ Offset(y, idx) = Offset(u, src)
  BY <1>4, ElementReached DEF n, y
<1>6. ASSUME NEW j \in 1..D, j > n PROVE u.shape[j] > 0
  <2> DEFINE k == j-n
  <2>1. k \in 1..m /\ n+k = j /\ L+k \in 1..(L+m)
    BY <1>1, <1>6
  <2> HIDE DEF k
  <2>2. idx[L+k] \in Nat /\ idx[L+k] < u.shape[j]
    BY <1>4, <2>1
  <2>3. u.shape[j] \in Nat
    BY ArrayType
  <2>4. QED
    BY ONLY <2>2, <2>3
<1>7. DOMAIN src = 1..D
  BY ArrayType DEF Source
<1> HIDE DEF src, D
<1>8. \A j \in DOMAIN src : src[j] < u.shape[j]
  BY <1>5, <1>6, <1>7
<1>9. QED
  BY <1>5, <1>8 DEF src, y

\* An array that is not stretched keeps its elements, too.
LEMMA ElementSame ==
  ASSUME NEW u \in NDArrays, NEW idx \in Indices(u.shape)
  PROVE  Source(u, idx) = idx /\ \A j \in DOMAIN Source(u, idx) : Source(u, idx)[j] < u.shape[j]
<1>1. /\ NDim(u) \in Nat /\ DOMAIN u.shape = 1..NDim(u) /\ u.shape \in Shapes /\ Len(u.shape) = NDim(u)
  BY ArrayType DEF NDim
<1>2. /\ idx \in [1..NDim(u) -> Nat] /\ Len(idx) = NDim(u)
      /\ \A i \in 1..NDim(u) : idx[i] \in Nat /\ idx[i] < u.shape[i]
  BY <1>1, IndexType
<1>3. \A i \in 1..NDim(u) : (IF u.shape[i] = 1 THEN 0 ELSE idx[Len(idx)-NDim(u)+i]) = idx[i]
  <2> SUFFICES ASSUME NEW i \in 1..NDim(u)
               PROVE  (IF u.shape[i] = 1 THEN 0 ELSE idx[Len(idx)-NDim(u)+i]) = idx[i]
    OBVIOUS
  <2>1. Len(idx)-NDim(u)+i = i
    BY <1>1, <1>2
  <2>2. idx[i] \in Nat /\ idx[i] < u.shape[i]
    BY <1>2
  <2>3. CASE u.shape[i] = 1
    BY <2>2, <2>3
  <2>4. CASE u.shape[i] # 1
    BY <2>1, <2>4
  <2>5. QED
    BY <2>3, <2>4
<1>4. Source(u, idx) = [i \in 1..NDim(u) |-> IF u.shape[i] = 1 THEN 0 ELSE idx[Len(idx)-NDim(u)+i]]
  BY <1>1 DEF Source
<1>5. Source(u, idx) = idx
  BY <1>2, <1>3, <1>4
<1>6. QED
  BY <1>2, <1>5

-----------------------------------------------------------------------------
(* Arrays whose elements are at different places.                          *)

Distinct(y) == \A i, j \in Indices(y.shape) : Offset(y, i) = Offset(y, j) => i = j

\* All elements are between the first and the last one.
Packed(y) == Distinct(y) /\ \A i \in Indices(y.shape) : Offset(y, i) \in 0..(Span(y)-1)

LEMMA ScaleBound ==
  ASSUME NEW S \in Nat, NEW n \in Nat, NEW a \in Nat, a < n, NEW o \in 0..(S-1)
  PROVE  o + a * S \in 0..(n * S - 1)
<1>1. (n-1-a) \in Nat
  OBVIOUS
<1>2. (n-1-a) * S \in Nat /\ a * S \in Nat /\ n * S \in Int
  BY <1>1
<1>3. n * S = (n-1-a) * S + a * S + S
  OBVIOUS
<1>4. QED
  BY <1>2, <1>3

\* The size of an array with one more dimension.
LEMMA FixedDimSpan ==
  ASSUME NEW x \in NDArrays, NEW n \in Nat
  PROVE  Span(FixedDim(n, x)) = n * Span(x)
<1> DEFINE y == FixedDim(n, x)
           D == NDim(x)
           S == Span(x)
<1>1. /\ y \in NDArrays /\ NDim(y) = 1 + D /\ y.shape[1] = n /\ y.steps[1] = S
      /\ \A j \in 1..D : y.shape[1+j] = x.shape[j] /\ y.steps[1+j] = x.steps[j]
  BY FixedDimType
<1>2. S \in Nat /\ D \in Nat /\ DOMAIN x.shape = 1..D
      /\ \A j \in 1..D : x.shape[j] \in Nat /\ x.steps[j] \in Int
  BY SpanType, ArrayType
<1> HIDE DEF y, D, S
<1>3. DOMAIN y.shape = 1..(1+D)
  BY <1>1, ArrayType
<1>4. CASE n = 0
  <2>1. 1 \in DOMAIN y.shape
    BY <1>2, <1>3
  <2>2. Span(y) = 0
    BY <1>1, <1>4, <2>1 DEF Span
  <2>3. QED
    BY <1>2, <1>4, <2>2 DEF S, y
<1>5. CASE \E j \in DOMAIN x.shape : x.shape[j] = 0
  <2>1. PICK j \in 1..D : x.shape[j] = 0
    BY <1>2, <1>5
  <2>2. 1+j \in DOMAIN y.shape /\ y.shape[1+j] = 0
    BY <1>1, <1>2, <1>3, <2>1
  <2>3. Span(y) = 0
    BY <2>2 DEF Span
  <2>4. S = 0
    BY <1>5 DEF Span, S
  <2>5. QED
    BY <2>3, <2>4 DEF S, y
<1>6. CASE n # 0 /\ ~(\E j \in DOMAIN x.shape : x.shape[j] = 0)
  <2> DEFINE a == [i \in DOMAIN y.shape |-> (y.shape[i]-1) * Abs(y.steps[i])]
             b == [i \in DOMAIN x.shape |-> (x.shape[i]-1) * Abs(x.steps[i])]
  <2>1. ~(\E i \in DOMAIN y.shape : y.shape[i] = 0)
    <3> SUFFICES ASSUME NEW i \in 1..(1+D), y.shape[i] = 0 PROVE FALSE
      BY <1>3
    <3>1. CASE i = 1
      BY <1>1, <1>6, <3>1
    <3>2. CASE i # 1
      <4> DEFINE j == i-1
      <4>1. j \in 1..D /\ 1+j = i
        BY <1>2, <3>2
      <4> HIDE DEF j
      <4>2. x.shape[j] = 0
        BY <1>1, <4>1
      <4>3. QED
        BY <1>2, <1>6, <4>1, <4>2
    <3>3. QED
      BY <3>1, <3>2
  <2>2. Span(y) = 1 + Total(a) /\ S = 1 + Total(b)
    BY <1>6, <2>1 DEF Span, S
  <2>3. \A i \in 1..(1+D) : y.shape[i] \in Nat /\ y.steps[i] \in Int
    BY <1>1, ArrayType
  <2>4. a \in Seq(Int) /\ Len(a) = 1+D /\ \A i \in 1..(1+D) : a[i] = (y.shape[i]-1) * Abs(y.steps[i])
    <3>1. \A i \in 1..(1+D) : (y.shape[i]-1) * Abs(y.steps[i]) \in Int
      <4> SUFFICES ASSUME NEW i \in 1..(1+D) PROVE (y.shape[i]-1) * Abs(y.steps[i]) \in Int
        OBVIOUS
      <4>1. y.shape[i]-1 \in Int /\ Abs(y.steps[i]) \in Int
        BY <2>3 DEF Abs
      <4>2. QED
        BY <4>1
    <3>2. a \in [1..(1+D) -> Int] /\ 1+D \in Nat
      BY <1>2, <1>3, <3>1
    <3>3. QED
      BY <1>3, <3>2
  <2>5. b \in Seq(Int) /\ Len(b) = D /\ \A i \in 1..D : b[i] = (x.shape[i]-1) * Abs(x.steps[i])
    <3>1. \A i \in 1..D : (x.shape[i]-1) * Abs(x.steps[i]) \in Int
      <4> SUFFICES ASSUME NEW i \in 1..D PROVE (x.shape[i]-1) * Abs(x.steps[i]) \in Int
        OBVIOUS
      <4>1. x.shape[i]-1 \in Int /\ Abs(x.steps[i]) \in Int
        BY <1>2 DEF Abs
      <4>2. QED
        BY <4>1
    <3>2. b \in [1..D -> Int] /\ D \in Nat
      BY <1>2, <3>1
    <3>3. QED
      BY <1>2, <3>2
  <2> HIDE DEF a, b
  <2>6. \A j \in 1..D : a[1+j] = b[j]
    <3> SUFFICES ASSUME NEW j \in 1..D PROVE a[1+j] = b[j]
      OBVIOUS
    <3>1. 1+j \in 1..(1+D)
      BY <1>2
    <3>2. a[1+j] = (y.shape[1+j]-1) * Abs(y.steps[1+j])
      BY <2>4, <3>1
    <3>3. QED
      BY <1>1, <2>5, <3>2
  <2>7. Total(a) = a[1] + Total(b) /\ Total(b) \in Int
    <3>1. Len(a) = 1 + Len(b) /\ \A j \in 1..Len(b) : a[1+j] = b[j]
      BY <2>4, <2>5, <2>6
    <3>2. QED
      BY <2>4, <2>5, <3>1, TotalCons
  <2>8. a[1] = (n-1) * S
    <3>1. 1 \in 1..(1+D) /\ Abs(S) = S
      BY <1>2 DEF Abs
    <3>2. QED
      BY <1>1, <2>4, <3>1
  <2>9. (n-1) * S = n * S - S /\ n * S \in Int
    BY <1>2
  <2>10. QED
    BY <1>2, <2>2, <2>7, <2>8, <2>9 DEF S, y
<1>7. QED
  BY <1>4, <1>5, <1>6

\* A dimension around an array keeps its elements apart.
LEMMA FixedDimPacked ==
  ASSUME NEW x \in NDArrays, NEW n \in Nat, Packed(x)
  PROVE  Packed(FixedDim(n, x))
<1> DEFINE y == FixedDim(n, x)
           D == NDim(x)
           S == Span(x)
           rest(idx) == [j \in 1..D |-> idx[1+j]]
<1>1. /\ y \in NDArrays /\ NDim(y) = 1 + D /\ y.shape[1] = n /\ y.steps[1] = S
      /\ \A j \in 1..D : y.shape[1+j] = x.shape[j] /\ y.steps[1+j] = x.steps[j]
  BY FixedDimType
<1>2. S \in Nat /\ D \in Nat /\ x.shape \in Shapes /\ Len(x.shape) = D
  BY SpanType, ArrayType DEF NDim
<1>3. Span(y) = n * S
  BY FixedDimSpan
<1> HIDE DEF y, D, S
<1>4. y.shape \in Shapes /\ Len(y.shape) = 1 + D
  BY <1>1, ArrayType DEF NDim
<1>5. ASSUME NEW idx \in Indices(y.shape)
      PROVE  /\ idx \in [1..(1+D) -> Nat] /\ idx[1] \in Nat /\ idx[1] < n
             /\ rest(idx) \in Indices(x.shape)
             /\ Offset(y, idx) = Offset(x, rest(idx)) + idx[1] * S
  <2>1. idx \in [1..(1+D) -> Nat] /\ \A i \in 1..(1+D) : idx[i] \in Nat /\ idx[i] < y.shape[i]
    BY <1>4, IndexType
  <2>2. 1 \in 1..(1+D) /\ \A j \in 1..D : 1+j \in 1..(1+D)
    BY <1>2
  <2>3. idx[1] \in Nat /\ idx[1] < n
    BY <1>1, <2>1, <2>2
  <2> DEFINE r == rest(idx)
  <2>4. r \in [1..D -> Nat] /\ \A j \in 1..D : r[j] = idx[1+j] /\ r[j] < x.shape[j]
    <3>1. \A j \in 1..D : idx[1+j] \in Nat /\ idx[1+j] < x.shape[j]
      BY <1>1, <2>1, <2>2
    <3>2. QED
      BY <3>1
  <2> HIDE DEF r
  <2>5. r \in Indices(x.shape)
    BY <1>2, <2>4, IndexIs
  <2> DEFINE a == Terms(y, idx)
             b == Terms(x, r)
  <2>6. /\ Offset(y, idx) = Total(a) /\ a \in Seq(Int) /\ Len(a) = 1+D
        /\ \A i \in 1..(1+D) : a[i] = idx[i] * y.steps[i]
    <3>1. idx \in [1..NDim(y) -> Nat]
      BY <1>1, <2>1
    <3>2. /\ Offset(y, idx) = Total(a) /\ a \in Seq(Int) /\ Len(a) = NDim(y)
          /\ \A i \in 1..NDim(y) : a[i] = idx[i] * y.steps[i]
      BY <1>1, <3>1, TermsType
    <3> HIDE DEF a
    <3>3. QED
      BY <1>1, <3>2
  <2>7. /\ Offset(x, r) = Total(b) /\ b \in Seq(Int) /\ Len(b) = D
        /\ \A i \in 1..D : b[i] = r[i] * x.steps[i]
    BY <2>4, TermsType DEF D
  <2> HIDE DEF a, b
  <2>8. \A j \in 1..D : a[1+j] = b[j]
    <3> SUFFICES ASSUME NEW j \in 1..D PROVE a[1+j] = b[j]
      OBVIOUS
    <3>1. a[1+j] = idx[1+j] * y.steps[1+j]
      BY <2>2, <2>6
    <3>2. b[j] = r[j] * x.steps[j] /\ r[j] = idx[1+j]
      BY <2>4, <2>7
    <3>3. y.steps[1+j] = x.steps[j]
      BY <1>1
    <3>4. QED
      BY ONLY <3>1, <3>2, <3>3
  <2>9. Total(a) = a[1] + Total(b) /\ Total(b) \in Int /\ a[1] \in Int
    <3>1. Len(a) = 1 + Len(b) /\ \A j \in 1..Len(b) : a[1+j] = b[j]
      BY <2>6, <2>7, <2>8
    <3>2. QED
      BY <2>6, <2>7, <3>1, TotalCons
  <2>10. a[1] = idx[1] * S
    BY <1>1, <2>2, <2>6
  <2>11. Offset(y, idx) = Offset(x, r) + idx[1] * S
    BY <2>6, <2>7, <2>9, <2>10
  <2>12. QED
    BY <2>1, <2>3, <2>5, <2>11 DEF r
<1>6. ASSUME NEW idx \in Indices(y.shape) PROVE Offset(y, idx) \in 0..(Span(y)-1)
  <2> DEFINE o == Offset(x, rest(idx))
             k == idx[1]
  <2>1. k \in Nat /\ k < n /\ rest(idx) \in Indices(x.shape) /\ Offset(y, idx) = o + k * S
    BY <1>5
  <2> HIDE DEF rest
  <2>2. o \in 0..(S-1)
    BY <2>1 DEF Packed, S
  <2> HIDE DEF o, k
  <2>3. o + k * S \in 0..(n * S - 1)
    BY <1>2, <2>1, <2>2, ScaleBound
  <2>4. QED
    BY <1>3, <2>1, <2>3
<1>7. ASSUME NEW i \in Indices(y.shape), NEW j \in Indices(y.shape), Offset(y, i) = Offset(y, j)
      PROVE  i = j
  <2> DEFINE o == Offset(x, rest(i))
             p == Offset(x, rest(j))
             k == i[1]
             l == j[1]
  <2>1. k \in Nat /\ rest(i) \in Indices(x.shape) /\ Offset(y, i) = o + k * S /\ i \in [1..(1+D) -> Nat]
    BY <1>5
  <2>2. l \in Nat /\ rest(j) \in Indices(x.shape) /\ Offset(y, j) = p + l * S /\ j \in [1..(1+D) -> Nat]
    BY <1>5
  <2>3. o \in 0..(S-1) /\ p \in 0..(S-1) /\ (o = p => rest(i) = rest(j))
    <3> HIDE DEF rest
    <3>1. QED
      BY <2>1, <2>2 DEF Packed, Distinct, S
  <2>4. o + k * S = p + l * S
    BY <1>7, <2>1, <2>2
  <2> HIDE DEF o, p, k, l
  <2>5. k = l /\ o = p
    BY <1>2, <2>1, <2>2, <2>3, <2>4, ScaleUnique
  <2>6. ASSUME NEW m \in 1..(1+D) PROVE i[m] = j[m]
    <3>1. CASE m = 1
      BY <2>5, <3>1 DEF k, l
    <3>2. CASE m # 1
      <4> DEFINE q == m-1
      <4>1. q \in 1..D /\ 1+q = m
        BY <1>2, <3>2
      <4> HIDE DEF q
      <4>2. rest(i)[q] = i[1+q] /\ rest(j)[q] = j[1+q]
        BY <4>1
      <4>3. rest(i) = rest(j)
        BY <2>3, <2>5
      <4> HIDE DEF rest
      <4>4. QED
        BY <4>1, <4>2, <4>3
    <3>3. QED
      BY <3>1, <3>2
  <2> HIDE DEF rest
  <2>7. i \in [1..(1+D) -> Nat] /\ j \in [1..(1+D) -> Nat]
    BY <2>1, <2>2
  <2>8. i = [m \in 1..(1+D) |-> i[m]] /\ j = [m \in 1..(1+D) |-> j[m]]
    BY <2>7
  <2>9. QED
    BY <2>6, <2>8
<1>8. QED
  BY <1>6, <1>7 DEF Packed, Distinct, y

LEMMA FixedDimsPacked ==
  ASSUME NEW s \in Shapes, NEW x \in NDArrays, Packed(x)
  PROVE  Packed(FixedDims(s, x))
<1> DEFINE L == Len(s)
<1>1. L \in Nat
  BY DEF Shapes
<1>2. PICK g \in [0..L -> NDArrays] : Nested(s, x, g)
  BY FixedDimsRec
<1> DEFINE T == {k \in 0..L : Packed(g[k])}
<1>3. 0 \in T
  BY <1>1, <1>2 DEF Nested
<1>4. ASSUME NEW n \in 0..(L-1), n \in T PROVE n+1 \in T
  <2>1. n+1 \in 1..L /\ n+1 \in 0..L /\ (n+1)-1 = n /\ n \in 0..L
    BY <1>1
  <2>2. g[n] \in NDArrays /\ Packed(g[n]) /\ At(s, n+1) \in Nat
    BY <1>4, <2>1, AtType
  <2>3. g[n+1] = FixedDim(At(s, n+1), g[n])
    <3>1. g[n+1] = FixedDim(At(s, n+1), g[(n+1)-1])
      BY <1>2, <2>1 DEF Nested
    <3>2. QED
      BY <2>1, <3>1
  <2>4. Packed(g[n+1])
    BY <2>2, <2>3, FixedDimPacked
  <2>5. QED
    BY <2>1, <2>4
<1>5. L \in T
  <2> HIDE DEF T
  <2>1. \A n \in 0..L : n \in T
    BY <1>1, <1>3, <1>4, UpTo
  <2>2. QED
    BY <1>1, <2>1
<1>6. QED
  BY <1>2, <1>5 DEF Nested

\* A C-contiguous array.
LEMMA CArrayType ==
  ASSUME NEW s \in Shapes
  PROVE  /\ CArray(s) \in NDArrays /\ NDim(CArray(s)) = Len(s) /\ CArray(s).shape = s
         /\ Packed(CArray(s))
<1>1. Scalar \in NDArrays /\ NDim(Scalar) = 0 /\ Scalar.shape \in Shapes /\ Len(Scalar.shape) = 0
  BY EmptySeq DEF Scalar, NDArrays, NDim, Shapes
<1>2. Packed(Scalar)
  <2> DEFINE e == Scalar
  <2>1. DOMAIN e.shape = 1..0 /\ 1..0 = {}
    BY <1>1, ArrayType
  <2>2. ASSUME NEW i \in Indices(e.shape), NEW j \in Indices(e.shape) PROVE i = j
    <3>1. i \in [1..0 -> Nat] /\ j \in [1..0 -> Nat]
      BY <1>1, IndexType
    <3>2. QED
      BY <3>1
  <2>3. ASSUME NEW i \in Indices(e.shape) PROVE Offset(e, i) = 0
    <3>1. i \in [1..NDim(e) -> Nat]
      BY <1>1, IndexType
    <3> DEFINE t == Terms(e, i)
    <3>2. Offset(e, i) = Total(t) /\ t \in Seq(Int) /\ Len(t) = 0
      BY <1>1, <3>1, TermsType
    <3> HIDE DEF t
    <3>3. PICK g \in [0..Len(t) -> Int] : Totals(t, g)
      BY <3>2, TotalRec
    <3>4. QED
      BY <3>2, <3>3 DEF Totals
  <2>4. Span(e) = 1
    <3> DEFINE t == [i \in DOMAIN e.shape |-> (e.shape[i]-1) * Abs(e.steps[i])]
    <3>1. Span(e) = 1 + Total(t)
      BY <2>1 DEF Span
    <3>2. t \in Seq(Int) /\ Len(t) = 0
      BY <2>1
    <3> HIDE DEF t
    <3>3. PICK g \in [0..Len(t) -> Int] : Totals(t, g)
      BY <3>2, TotalRec
    <3>4. QED
      BY <3>1, <3>2, <3>3 DEF Totals
  <2> HIDE DEF e
  <2>5. Packed(e)
    BY <2>2, <2>3, <2>4 DEF Packed, Distinct
  <2>6. QED
    BY <2>5 DEF e
<1>3. Packed(CArray(s))
  BY <1>1, <1>2, FixedDimsPacked DEF CArray
<1>4. /\ CArray(s) \in NDArrays /\ NDim(CArray(s)) = Len(s)
      /\ \A i \in 1..Len(s) : CArray(s).shape[i] = s[i]
  <2>1. /\ CArray(s) \in NDArrays /\ NDim(CArray(s)) = Len(s) + NDim(Scalar)
        /\ \A i \in 1..Len(s) : CArray(s).shape[i] = s[i]
    BY <1>1, FixedDimsType DEF CArray
  <2>2. Len(s) \in Nat
    BY DEF Shapes
  <2>3. QED
    BY <1>1, <2>1, <2>2
<1>5. CArray(s).shape = s
  <2>1. CArray(s).shape \in Shapes /\ Len(CArray(s).shape) = Len(s)
    BY <1>4, ArrayType DEF NDim
  <2>2. QED
    BY <1>4, <2>1, SeqEqual DEF Shapes
<1>6. QED
  BY <1>3, <1>4, <1>5

\* The number of elements of the first dimensions.
LEMMA ProductPrefix ==
  ASSUME NEW s \in Shapes, NEW g \in [0..Len(s) -> Nat], Products(s, g), NEW k \in 0..Len(s)
  PROVE  Product(SubSeq(s, 1, k)) = g[k]
<1> DEFINE t == SubSeq(s, 1, k)
<1>1. Len(s) \in Nat /\ \A i \in 1..Len(s) : s[i] \in Nat
  BY DEF Shapes
<1>2. t \in Seq(Nat) /\ Len(t) = k /\ \A i \in 1..k : t[i] = s[i]
  <2>1. k \in Nat /\ \A i \in 1..k : s[i] \in Nat
    BY <1>1
  <2>2. /\ SubSeq(s, 1, k) \in Seq(Nat) /\ Len(SubSeq(s, 1, k)) = IF 1 <= k THEN k-1+1 ELSE 0
        /\ \A i \in 1..(k-1+1) : SubSeq(s, 1, k)[i] = s[1+i-1]
    BY <2>1, SubSeqProperties
  <2>3. QED
    BY <2>1, <2>2
<1> HIDE DEF t
<1>3. PICK h \in [0..Len(t) -> Nat] : Products(t, h)
  BY <1>2, ProductRec
<1> DEFINE T == {j \in 0..k : h[j] = g[j]}
<1>4. 0 \in T
  BY <1>1, <1>2, <1>3 DEF Products
<1>5. ASSUME NEW n \in 0..(k-1), n \in T PROVE n+1 \in T
  <2>1. n+1 \in 1..k /\ n+1 \in 1..Len(s) /\ n+1 \in 1..Len(t) /\ (n+1)-1 = n /\ h[n] = g[n]
    BY <1>1, <1>2, <1>5
  <2>2. h[n+1] = h[(n+1)-1] * t[n+1]
    BY <1>3, <2>1 DEF Products
  <2>3. g[n+1] = g[(n+1)-1] * s[n+1]
    BY <2>1 DEF Products
  <2>4. h[n+1] = g[n+1]
    BY <1>2, <2>1, <2>2, <2>3
  <2>5. QED
    BY <2>1, <2>4
<1>6. k \in T
  <2> HIDE DEF T
  <2>1. k \in Nat /\ k \in 0..k
    BY <1>1
  <2>2. \A n \in 0..k : n \in T
    BY <1>4, <1>5, <2>1, UpTo
  <2>3. QED
    BY <2>1, <2>2
<1>7. QED
  BY <1>2, <1>3, <1>6 DEF t, Products

\* An array in Fortran order.
LEMMA FortranType ==
  ASSUME NEW x \in NDArrays
  PROVE  /\ ToFortran(x) \in NDArrays /\ ToFortran(x).shape = x.shape
         /\ Distinct(ToFortran(x))
<1> DEFINE s == x.shape
           D == NDim(x)
           y == ToFortran(x)
<1>1. D \in Nat /\ s \in Shapes /\ Len(s) = D /\ DOMAIN s = 1..D /\ \A i \in 1..D : s[i] \in Nat
  BY ArrayType DEF NDim
<1>2. PICK g \in [0..Len(s) -> Nat] : Products(s, g)
  BY ProductRec DEF Shapes, NDArrays
<1>3. ASSUME NEW i \in 1..D PROVE Product(SubSeq(s, 1, i-1)) = g[i-1] /\ g[i-1] \in Nat
  <2> HIDE DEF s, D
  <2>1. i-1 \in 0..Len(s)
    BY <1>1
  <2>2. QED
    BY <1>1, <1>2, <2>1, ProductPrefix
<1> DEFINE p == [i \in 1..D |-> Product(SubSeq(s, 1, i-1))]
<1>4. p \in [1..D -> Int] /\ \A i \in 1..D : p[i] = g[i-1]
  <2> HIDE DEF s, D
  <2>1. QED
    BY <1>3
<1>5. y = [shape |-> s, steps |-> p]
  <2>1. x = [shape |-> s, steps |-> x.steps]
    BY ArrayType
  <2>2. y = [x EXCEPT !.steps = p]
    BY <1>1 DEF ToFortran
  <2> HIDE DEF p, y, s
  <2>3. QED
    BY <2>1, <2>2
<1> HIDE DEF p, s, D, y
<1>6. p \in Seq(Int) /\ Len(p) = D
  BY <1>1, <1>4
<1>7. y \in NDArrays /\ NDim(y) = D /\ y.shape = s /\ y.steps = p
  BY <1>1, <1>5, <1>6 DEF NDArrays, NDim, Shapes
<1>8. ASSUME NEW k \in 1..D PROVE g[k] = g[k-1] * s[k] /\ g[k-1] \in Nat /\ g[k] \in Nat
  BY <1>1, <1>2 DEF Products
<1>9. ASSUME NEW idx \in Indices(s)
      PROVE  \E t \in [0..D -> Int] :
               /\ t[D] = Offset(y, idx) /\ t[0] = 0
               /\ \A k \in 1..D : t[k] = t[k-1] + idx[k] * g[k-1]
               /\ \A k \in 0..D : t[k] \in 0..(g[k]-1)
  <2>1. idx \in [1..D -> Nat] /\ \A i \in 1..D : idx[i] \in Nat /\ idx[i] < s[i]
    BY <1>1, IndexType
  <2> DEFINE a == Terms(y, idx)
  <2>2. /\ Offset(y, idx) = Total(a) /\ a \in Seq(Int) /\ Len(a) = D
        /\ \A i \in 1..D : a[i] = idx[i] * p[i]
    BY <1>7, <2>1, TermsType
  <2> HIDE DEF a
  <2>3. PICK t \in [0..Len(a) -> Int] : Totals(a, t)
    BY <2>2, TotalRec
  <2>4. t[D] = Offset(y, idx) /\ t[0] = 0
    BY <2>2, <2>3 DEF Totals
  <2>5. ASSUME NEW k \in 1..D PROVE t[k] = t[k-1] + idx[k] * g[k-1]
    <3>1. t[k] = t[k-1] + a[k]
      BY <2>2, <2>3 DEF Totals
    <3>2. QED
      BY <1>4, <2>2, <3>1
  <2> DEFINE T == {k \in 0..D : t[k] \in 0..(g[k]-1)}
  <2>6. 0 \in T
    BY <1>1, <1>2, <2>4 DEF Products
  <2>7. ASSUME NEW n \in 0..(D-1), n \in T PROVE n+1 \in T
    <3>1. n+1 \in 1..D /\ n+1 \in 0..D /\ (n+1)-1 = n /\ t[n] \in 0..(g[n]-1)
      BY <1>1, <2>7
    <3>2. t[n+1] = t[(n+1)-1] + idx[n+1] * g[(n+1)-1]
      BY <2>5, <3>1
    <3>3. /\ g[n+1] = g[(n+1)-1] * s[n+1] /\ g[(n+1)-1] \in Nat
          /\ idx[n+1] \in Nat /\ idx[n+1] < s[n+1] /\ s[n+1] \in Nat
      BY <1>1, <1>8, <2>1, <3>1
    <3> DEFINE o == t[n]
               S == g[n]
               i == idx[n+1]
               m == s[n+1]
    <3>4. S \in Nat /\ o \in 0..(S-1) /\ i \in Nat /\ m \in Nat /\ i < m
      BY <3>1, <3>3
    <3>5. t[n+1] = o + i * S /\ g[n+1] = S * m
      BY <3>1, <3>2, <3>3
    <3> HIDE DEF o, S, i, m
    <3>6. o + i * S \in 0..(m * S - 1)
      BY <3>4, ScaleBound
    <3>7. S * m = m * S
      BY <3>4
    <3>8. t[n+1] \in 0..(g[n+1]-1)
      BY <3>5, <3>6, <3>7
    <3>9. QED
      BY <3>1, <3>8
  <2> HIDE DEF T
  <2>8. \A k \in 0..D : k \in T
    BY <1>1, <2>6, <2>7, UpTo
  <2>9. QED
    BY <2>2, <2>4, <2>5, <2>8 DEF T
<1>10. ASSUME NEW i \in Indices(s), NEW j \in Indices(s), Offset(y, i) = Offset(y, j)
       PROVE  i = j
  <2>1. i \in [1..D -> Nat] /\ j \in [1..D -> Nat]
    BY <1>1, IndexType
  <2>2. PICK t \in [0..D -> Int] :
          /\ t[D] = Offset(y, i) /\ t[0] = 0
          /\ \A k \in 1..D : t[k] = t[k-1] + i[k] * g[k-1]
          /\ \A k \in 0..D : t[k] \in 0..(g[k]-1)
    BY <1>9
  <2>3. PICK u \in [0..D -> Int] :
          /\ u[D] = Offset(y, j) /\ u[0] = 0
          /\ \A k \in 1..D : u[k] = u[k-1] + j[k] * g[k-1]
          /\ \A k \in 0..D : u[k] \in 0..(g[k]-1)
    BY <1>9
  <2> DEFINE T == {k \in 0..D : t[k] = u[k] => \A m \in 1..k : i[m] = j[m]}
  <2>4. 0 \in T
    <3>1. 1..0 = {} /\ 0 \in 0..D
      BY <1>1
    <3>2. QED
      BY <3>1
  <2>5. ASSUME NEW n \in 0..(D-1), n \in T PROVE n+1 \in T
    <3>1. n+1 \in 1..D /\ n+1 \in 0..D /\ n \in 0..D /\ (n+1)-1 = n
      BY <1>1
    <3>2. t[n+1] = t[(n+1)-1] + i[n+1] * g[(n+1)-1] /\ u[n+1] = u[(n+1)-1] + j[n+1] * g[(n+1)-1]
      BY <2>2, <2>3, <3>1
    <3> DEFINE o == t[n]
               q == u[n]
               S == g[n]
               a == i[n+1]
               b == j[n+1]
    <3>3. t[n+1] = o + a * S /\ u[n+1] = q + b * S
      BY <3>1, <3>2
    <3>4. S \in Nat
      <4>1. n \in 0..Len(s)
        BY <1>1, <3>1
      <4>2. QED
        BY <4>1
    <3>5. o \in 0..(S-1) /\ q \in 0..(S-1) /\ a \in Nat /\ b \in Nat
      BY <2>1, <2>2, <2>3, <3>1
    <3>6. ASSUME t[n+1] = u[n+1] PROVE o = q /\ a = b
      <4>1. o + a * S = q + b * S
        BY <3>3, <3>6
      <4> HIDE DEF o, q, a, b, S
      <4>2. QED
        BY <3>4, <3>5, <4>1, ScaleUnique
    <3>7. ASSUME t[n+1] = u[n+1], NEW m \in 1..(n+1) PROVE i[m] = j[m]
      <4>1. t[n] = u[n] /\ i[n+1] = j[n+1]
        BY <3>6, <3>7
      <4>2. \A l \in 1..n : i[l] = j[l]
        BY <2>5, <4>1
      <4>3. m = n+1 \/ m \in 1..n
        BY <3>1
      <4>4. QED
        BY <4>1, <4>2, <4>3
    <3>8. QED
      BY <3>1, <3>7
  <2>6. D \in T
    <3> HIDE DEF T
    <3>1. \A n \in 0..D : n \in T
      BY <1>1, <2>4, <2>5, UpTo
    <3>2. QED
      BY <1>1, <3>1
  <2>7. \A m \in 1..D : i[m] = j[m]
    BY <1>10, <2>2, <2>3, <2>6
  <2>8. i = [m \in 1..D |-> i[m]] /\ j = [m \in 1..D |-> j[m]]
    BY <2>1
  <2>9. QED
    BY <2>7, <2>8
<1>11. Distinct(y)
  BY <1>7, <1>10 DEF Distinct
<1>12. QED
  BY <1>7, <1>11 DEF y, s

-----------------------------------------------------------------------------
(* The folds of a call. *)

\* The flags that are left after the first k arrays.
Flagged(s, g, n) ==
  /\ g[0] = AllFlags
  /\ \A k \in 1..Len(s) : g[k] = CheckF(CheckC(CheckStrided(g[k-1], n), s[k], n), s[k], n)
  /\ SelectFlags(s, n) = g[Len(s)]

LEMMA FlagsRec ==
  ASSUME NEW s \in Seq(NDArrays), NEW n
  PROVE  \E g \in [0..Len(s) -> SUBSET AllFlags] : Flagged(s, g, n)
<1> DEFINE N == Len(s)
           V == SUBSET AllFlags
           a == AllFlags
           E(k, x) == CheckF(CheckC(CheckStrided(x, n), s[k], n), s[k], n)
           H == [k \in 1..N |-> [x \in V |-> E(k, x)]]
           Body(f) == [t \in SUBSET DOMAIN s |-> IF t = {} THEN a ELSE E(Max(t), f[t \ {Max(t)}])]
<1>1. N \in Nat /\ DOMAIN s = 1..N /\ \A k \in 1..N : s[k] \in NDArrays
  OBVIOUS
<1>2. a \in V
  OBVIOUS
<1>3. ASSUME NEW k \in 1..N, NEW x \in V PROVE E(k, x) \in V
  BY DEF CheckF, CheckC, CheckStrided
<1>4. SelectFlags(s, n) = (CHOOSE f : f = Body(f))[DOMAIN s]
  BY DEF SelectFlags, FoldLeft, MapThenFoldSet
<1> HIDE DEF N, V, a, E
<1>5. H \in [1..N -> [V -> V]]
  BY <1>3
<1>6. PICK f \in [SUBSET (1..N) -> V] : FoldsTo(f, N, a, H)
  <2> HIDE DEF H
  <2>1. QED
    BY <1>1, <1>2, <1>5, FoldExists
<1>7. f = Body(f)
  <2>1. ASSUME NEW t \in SUBSET (1..N)
        PROVE  f[t] = IF t = {} THEN a ELSE E(Max(t), f[t \ {Max(t)}])
    <3>1. CASE t = {}
      BY <1>6, <3>1 DEF FoldsTo
    <3>2. CASE t # {}
      <4> DEFINE m == Max(t)
      <4>1. m \in t
        BY <1>1, <3>2, Largest
      <4>2. f[t] = H[m][f[t \ {m}]]
        BY <1>6, <3>2 DEF FoldsTo
      <4> HIDE DEF m
      <4>3. m \in 1..N /\ f[t \ {m}] \in V
        BY <4>1
      <4>4. QED
        BY <3>2, <4>2, <4>3 DEF m
    <3>3. QED
      BY <3>1, <3>2
  <2>2. QED
    BY <1>1, <2>1
<1> DEFINE v == CHOOSE f_1 : f_1 = Body(f_1)
<1>8. v = Body(v)
  <2> HIDE DEF Body
  <2>1. QED
    BY <1>7
<1>9. SelectFlags(s, n) = v[1..N]
  BY <1>1, <1>4
<1> HIDE DEF v
<1>10. \A t \in SUBSET (1..N) : v[t] = IF t = {} THEN a ELSE E(Max(t), v[t \ {Max(t)}])
  BY <1>1, <1>8
<1> HIDE DEF Body
<1>11. v[{}] = a
  BY <1>10
<1>12. GoesBy(v, N, V, H)
  <2> SUFFICES ASSUME NEW k \in 1..N, NEW x \in V, v[1..(k-1)] = x PROVE v[1..k] = H[k][x]
    BY DEF GoesBy
  <2>1. /\ 1..k \in SUBSET (1..N) /\ 1..k # {}
        /\ Max(1..k) = k
        /\ (1..k) \ {Max(1..k)} = 1..(k-1)
    BY <1>1, Segment
  <2>2. v[1..k] = E(k, v[1..(k-1)])
    BY <1>10, <2>1
  <2>3. QED
    BY <2>2
<1>13. PICK g \in [0..N -> V] : EndsAs(g, v, N, a, H)
  <2> HIDE DEF H
  <2>1. QED
    BY <1>1, <1>2, <1>5, <1>11, <1>12, FoldFollows
<1>14. \A k \in 1..N : g[k] = E(k, g[k-1])
  <2> SUFFICES ASSUME NEW k \in 1..N PROVE g[k] = E(k, g[k-1])
    OBVIOUS
  <2>1. g[k-1] \in V
    BY <1>1
  <2>2. g[k] = H[k][g[k-1]]
    BY <1>13 DEF EndsAs, Follows
  <2>3. QED
    BY <2>1, <2>2
<1>15. g[0] = a
  BY <1>13 DEF EndsAs, Follows
<1>16. Flagged(s, g, n)
  BY <1>9, <1>13, <1>14, <1>15 DEF EndsAs, Flagged, a, E, N
<1>17. QED
  BY <1>16 DEF N, V

\* The shapes that the fast type check has after each argument.
Gathers(s, g) ==
  /\ g[0] = call.args[1].shape
  /\ \A k \in 1..Len(s) : g[k] = IF g[k-1] = NoShape THEN g[k-1] ELSE ResolveBroadcast(g[k-1], s[k].shape)
  /\ FastShape = g[Len(s)]

LEMMA GatherRec ==
  ASSUME NEW s \in Seq(NDArrays), s = Tail(call.args), call.args[1] \in NDArrays
  PROVE  \E g \in [0..Len(s) -> Shapes \union {NoShape}] : Gathers(s, g)
<1> DEFINE N == Len(s)
           V == Shapes \union {NoShape}
           a == call.args[1].shape
           E(k, x) == IF x = NoShape THEN x ELSE ResolveBroadcast(x, s[k].shape)
           H == [k \in 1..N |-> [x \in V |-> E(k, x)]]
           Body(f) == [t \in SUBSET DOMAIN s |-> IF t = {} THEN a ELSE E(Max(t), f[t \ {Max(t)}])]
<1>1. N \in Nat /\ DOMAIN s = 1..N /\ \A k \in 1..N : s[k] \in NDArrays
  OBVIOUS
<1>2. a \in V
  BY ArrayType
<1>3. ASSUME NEW k \in 1..N, NEW x \in V PROVE E(k, x) \in V
  BY <1>1, ArrayType, Resolved
<1>4. FastShape = (CHOOSE f : f = Body(f))[DOMAIN s]
  BY DEF FastShape, FoldLeft, MapThenFoldSet
<1> HIDE DEF N, V, a, E
<1>5. H \in [1..N -> [V -> V]]
  BY <1>3
<1>6. PICK f \in [SUBSET (1..N) -> V] : FoldsTo(f, N, a, H)
  <2> HIDE DEF H
  <2>1. QED
    BY <1>1, <1>2, <1>5, FoldExists
<1>7. f = Body(f)
  <2>1. ASSUME NEW t \in SUBSET (1..N)
        PROVE  f[t] = IF t = {} THEN a ELSE E(Max(t), f[t \ {Max(t)}])
    <3>1. CASE t = {}
      BY <1>6, <3>1 DEF FoldsTo
    <3>2. CASE t # {}
      <4> DEFINE m == Max(t)
      <4>1. m \in t
        BY <1>1, <3>2, Largest
      <4>2. f[t] = H[m][f[t \ {m}]]
        BY <1>6, <3>2 DEF FoldsTo
      <4> HIDE DEF m
      <4>3. m \in 1..N /\ f[t \ {m}] \in V
        BY <4>1
      <4>4. QED
        BY <3>2, <4>2, <4>3 DEF m
    <3>3. QED
      BY <3>1, <3>2
  <2>2. QED
    BY <1>1, <2>1
<1> DEFINE v == CHOOSE f_1 : f_1 = Body(f_1)
<1>8. v = Body(v)
  <2> HIDE DEF Body
  <2>1. QED
    BY <1>7
<1>9. FastShape = v[1..N]
  BY <1>1, <1>4
<1> HIDE DEF v
<1>10. \A t \in SUBSET (1..N) : v[t] = IF t = {} THEN a ELSE E(Max(t), v[t \ {Max(t)}])
  BY <1>1, <1>8
<1> HIDE DEF Body
<1>11. v[{}] = a
  BY <1>10
<1>12. GoesBy(v, N, V, H)
  <2> SUFFICES ASSUME NEW k \in 1..N, NEW x \in V, v[1..(k-1)] = x PROVE v[1..k] = H[k][x]
    BY DEF GoesBy
  <2>1. /\ 1..k \in SUBSET (1..N) /\ 1..k # {}
        /\ Max(1..k) = k
        /\ (1..k) \ {Max(1..k)} = 1..(k-1)
    BY <1>1, Segment
  <2>2. v[1..k] = E(k, v[1..(k-1)])
    BY <1>10, <2>1
  <2>3. QED
    BY <2>2
<1>13. PICK g \in [0..N -> V] : EndsAs(g, v, N, a, H)
  <2> HIDE DEF H
  <2>1. QED
    BY <1>1, <1>2, <1>5, <1>11, <1>12, FoldFollows
<1>14. \A k \in 1..N : g[k] = E(k, g[k-1])
  <2> SUFFICES ASSUME NEW k \in 1..N PROVE g[k] = E(k, g[k-1])
    OBVIOUS
  <2>1. g[k-1] \in V
    BY <1>1
  <2>2. g[k] = H[k][g[k-1]]
    BY <1>13 DEF EndsAs, Follows
  <2>3. QED
    BY <2>1, <2>2
<1>15. g[0] = a
  BY <1>13 DEF EndsAs, Follows
<1>16. Gathers(s, g)
  BY <1>9, <1>13, <1>14, <1>15 DEF EndsAs, Gathers, a, E, N
<1>17. QED
  BY <1>16 DEF N, V

-----------------------------------------------------------------------------
(* The invariant.                                                          *)

\* An array with the outer shape s.
Shaped(y, s) == y \in NDArrays /\ NDim(y) = Len(s) + call.inner /\ OuterShape(y) = s

\* While the arguments are matched: those that were seen.
Seen(s, ts) ==
  /\ ts \in Seq(NDArrays) /\ Len(ts) <= NArgs
  /\ \A j \in 1..Len(ts) : ts[j] = call.args[j] /\ NDim(call.args[j]) >= call.inner
  /\ IF Len(ts) = 0 THEN s = NoShape ELSE ~call.fast /\ Joins(s, OuterShapes(Len(ts)))

\* Afterwards: the shape of all arguments, what the inputs have become, and the output.
Ready(s, ts, o) ==
  /\ \A j \in 1..NArgs : NDim(call.args[j]) >= call.inner
  /\ Joins(s, OuterShapes(NArgs))
  /\ o = Len(s)
  /\ ts \in Seq(NDArrays) /\ Len(ts) = Out
  /\ \A i \in 1..call.nin : ts[i] = Broadcast(call.args[i], s, call.inner, FALSE)
  /\ Shaped(ts[Out], s)
  /\ call.check => ts[Out] = call.args[Out]
  /\ HasOut /\ ~call.check /\ call.fast => ts[Out] = FastBroadcast(call.args[Out], s)
  /\ ~HasOut => Distinct(ts[Out])

OutCause ==
  \/ ~Compatible
  \/ call.args[Out] # CArray(Common \o Inner(call.args[1], call.inner).shape)
  \/ ~call.fast /\ \E n \in Range(OuterShape(call.args[Out])) : n <= 1

Values ==
  /\ call \in Calls
  /\ pc \in {"match", "broadcast", "select", "done", "refused"}
  /\ why \in {"none", "match", "broadcast", "out", "order", "kernel"}
  /\ (why = "none") = (pc # "refused")
  /\ flags \in SUBSET AllFlags
  /\ kernel \in Kernels \union {"none"}

IInv ==
  /\ Values
  /\ pc = "match" => Seen(acc, types)
  /\ pc \in {"broadcast", "select", "done"} => Ready(acc, types, outer)
  /\ why = "broadcast" => ~Compatible
  /\ why = "out" => OutCause

\* The call is constant, and what is said of its arguments.
LEMMA SameCall ==
  ASSUME call' = call
  PROVE  /\ Compatible' <=> Compatible
         /\ OutCause' <=> OutCause
         /\ NArgs' = NArgs /\ Out' = Out
<1>1. Compatible' <=> Compatible
  BY DEF Compatible, Dims, Extents, OuterShape
<1>2. Common' = Common
  BY DEF Common, Dims, Extents, OuterShape
<1>3. NArgs' = NArgs /\ Out' = Out
  BY DEF NArgs, Out
<1>4. OutCause' <=> OutCause
  BY <1>1, <1>2, <1>3 DEF OutCause, OuterShape
<1>5. QED
  BY <1>1, <1>3, <1>4

LEMMA SeenNext == ASSUME call' = call, Seen(acc', types') PROVE Seen(acc, types)'
BY DEF Seen, NArgs, OuterShapes, OuterShape

LEMMA ReadyNext == ASSUME call' = call, Ready(acc', types', outer') PROVE Ready(acc, types, outer)'
BY DEF Ready, Shaped, HasOut, Out, NArgs, OuterShapes, OuterShape

\* A call is refused.
LEMMA RefuseStep ==
  ASSUME IInv, pc # "refused",
         NEW e \in {"match", "broadcast", "out", "order", "kernel"}, Refuse(e),
         e = "broadcast" => ~Compatible, e = "out" => OutCause
  PROVE  IInv'
<1>1. call' = call /\ pc' = "refused" /\ why' = e /\ flags' = flags /\ kernel' = kernel
  BY DEF Refuse
<1>2. Values'
  BY <1>1 DEF Values, IInv
<1>3. (why' = "broadcast" => ~Compatible') /\ (why' = "out" => OutCause')
  BY <1>1, SameCall
<1>4. QED
  BY <1>1, <1>2, <1>3 DEF IInv

\* A call goes on.
LEMMA ValuesNext ==
  ASSUME Values, pc # "refused", call' = call, why' = why,
         pc' \in {"match", "broadcast", "select", "done"},
         flags' \in SUBSET AllFlags, kernel' \in Kernels \union {"none"}
  PROVE  Values' /\ why' = "none"
<1>1. why = "none"
  BY DEF Values
<1>2. QED
  BY <1>1 DEF Values

LEMMA InitInv == ASSUME Init PROVE IInv
<1>1. Values
  BY DEF Init, Begin, Values
<1>2. Seen(acc, types)
  <2>1. types = << >> /\ acc = NoShape /\ call \in Calls
    BY DEF Init, Begin
  <2>2. types \in Seq(NDArrays) /\ Len(types) = 0
    BY <2>1
  <2>3. NArgs \in Nat
    BY <2>1, ValidCall
  <2>4. 1..0 = {}
    OBVIOUS
  <2>5. QED
    BY <2>1, <2>2, <2>3, <2>4 DEF Seen
<1>3. pc = "match" /\ why = "none"
  BY DEF Init, Begin
<1>4. QED
  BY <1>1, <1>2, <1>3 DEF IInv

-----------------------------------------------------------------------------
(* The steps of a call.                                                    *)

\* More shapes conflict if some of them do.
LEMMA ConflictMore == ASSUME NEW W, NEW V, W \subseteq V, Conflict(W) PROVE Conflict(V)
BY DEF Conflict

\* One more argument, or the first.
LEMMA JoinArgument ==
  ASSUME call \in Calls, NEW k \in 1..NArgs, NEW s,
         IF k = 1 THEN s = NoShape ELSE Joins(s, OuterShapes(k-1))
  PROVE  LET w == OuterShape(call.args[k])
             r == IF s = NoShape THEN w ELSE ResolveBroadcast(s, w)
         IN  IF r = NoShape THEN Conflict(OuterShapes(k)) ELSE Joins(r, OuterShapes(k))
<1> DEFINE w == OuterShape(call.args[k])
<1>1. NArgs \in Nat /\ k \in 0..NArgs /\ k-1 \in 0..NArgs
  BY ValidCall
<1>2. w \in Shapes /\ OuterShapes(k-1) \in SUBSET Shapes
  <2>1. call.args[k] \in NDArrays /\ call.inner \in Nat
    BY ValidCall, ElementOfSeq DEF NArgs
  <2>2. QED
    BY <1>1, <2>1, OuterType, CallShapes
<1>3. OuterShapes(k) = OuterShapes(k-1) \union {w}
  <2>1. 1..k = 1..(k-1) \union {k}
    BY <1>1
  <2>2. QED
    BY <2>1 DEF OuterShapes
<1> HIDE DEF w
<1>4. CASE k = 1
  <2>1. OuterShapes(k) = {w}
    <3>1. 1..(k-1) = {}
      BY <1>4
    <3>2. OuterShapes(k-1) = {}
      BY <3>1 DEF OuterShapes
    <3>3. QED
      BY <1>3, <3>2
  <2>2. Joins(w, OuterShapes(k)) /\ w # NoShape
    BY <1>2, <2>1, JoinFirst, ShapeIsNone
  <2>3. QED
    BY <1>4, <2>2 DEF w
<1>5. CASE k # 1
  <2>1. s \in Shapes /\ s # NoShape
    BY <1>5, ShapeIsNone DEF Joins
  <2>2. IF ResolveBroadcast(s, w) = NoShape THEN Conflict(OuterShapes(k))
        ELSE Joins(ResolveBroadcast(s, w), OuterShapes(k))
    BY <1>2, <1>3, <1>5, JoinStep
  <2>3. QED
    BY <2>1, <2>2 DEF w
<1>6. QED
  BY <1>4, <1>5

LEMMA MatchStep == ASSUME IInv, MatchArg PROVE IInv'
<1> DEFINE k == Len(types)+1
<1>1. call \in Calls /\ pc = "match" /\ ~call.fast /\ Len(types) < NArgs /\ Seen(acc, types)
  BY DEF IInv, Values, MatchArg, NArgs
<1>2. k \in 1..NArgs /\ Len(types) \in Nat /\ k-1 = Len(types) /\ NArgs \in Nat
  <2>1. Len(types) \in Nat
    BY <1>1 DEF Seen
  <2>2. NArgs \in Nat
    BY <1>1, ValidCall
  <2>3. QED
    BY <1>1, <2>1, <2>2
<1>3. CASE ~Matches(k) /\ Refuse("match")
  BY <1>1, <1>3, RefuseStep
<1>4. IF k = 1 THEN acc = NoShape ELSE Joins(acc, OuterShapes(k-1))
  BY <1>1, <1>2 DEF Seen
<1>5. IF Gather(k) = NoShape THEN Conflict(OuterShapes(k)) ELSE Joins(Gather(k), OuterShapes(k))
  <2> HIDE DEF k
  <2>1. QED
    BY <1>1, <1>2, <1>4, JoinArgument DEF Gather
<1>6. CASE Gather(k) = NoShape /\ Refuse("broadcast")
  <2>1. Conflict(OuterShapes(k))
    BY <1>5, <1>6
  <2>2. OuterShapes(k) \subseteq OuterShapes(NArgs)
    BY <1>2 DEF OuterShapes
  <2>3. ~Compatible
    BY <1>1, <2>1, <2>2, ConflictMore, ConflictMeans
  <2>4. QED
    BY <1>1, <1>6, <2>3, RefuseStep
<1>7. CASE /\ Matches(k) /\ Gather(k) # NoShape
           /\ acc' = Gather(k) /\ types' = Append(types, call.args[k])
           /\ UNCHANGED <<call, pc, outer, flags, kernel, why>>
  <2>1. Joins(acc', OuterShapes(k))
    BY <1>5, <1>7
  <2>2. /\ types' \in Seq(NDArrays) /\ Len(types') = k
        /\ \A j \in 1..k : types'[j] = call.args[j]
    <3>1. types \in Seq(NDArrays) /\ call.args[k] \in NDArrays
      <4>1. call.args \in Seq(NDArrays)
        BY <1>1, ValidCall
      <4>2. QED
        BY <1>1, <1>2, <4>1, ElementOfSeq DEF Seen, NArgs
    <3>2. /\ Append(types, call.args[k]) \in Seq(NDArrays)
          /\ Len(Append(types, call.args[k])) = Len(types)+1
          /\ \A i \in 1..Len(types) : Append(types, call.args[k])[i] = types[i]
          /\ Append(types, call.args[k])[Len(types)+1] = call.args[k]
      BY <3>1, AppendProperties
    <3>3. \A j \in 1..Len(types) : types[j] = call.args[j]
      BY <1>1 DEF Seen
    <3> HIDE DEF k
    <3>4. \A j \in 1..k : types'[j] = call.args[j]
      BY <1>2, <1>7, <3>2, <3>3 DEF k
    <3>5. QED
      BY <1>7, <3>2, <3>4 DEF k
  <2>3. NDim(call.args[k]) >= call.inner
    BY <1>7 DEF Matches
  <2>4. \A j \in 1..k : NDim(call.args[j]) >= call.inner
    <3>1. \A j \in 1..Len(types) : NDim(call.args[j]) >= call.inner
      BY <1>1 DEF Seen
    <3>2. QED
      BY <1>2, <2>3, <3>1
  <2> HIDE DEF k
  <2>5. Seen(acc', types')
    BY <1>1, <1>2, <2>1, <2>2, <2>4 DEF Seen
  <2>6. call' = call /\ pc' = "match" /\ why' = why /\ flags' = flags /\ kernel' = kernel
    BY <1>1, <1>7
  <2>7. Values'
    <3>1. Values /\ pc # "refused"
      BY <1>1 DEF IInv
    <3>2. flags \in SUBSET AllFlags /\ kernel \in Kernels \union {"none"}
      BY <3>1 DEF Values
    <3>3. QED
      BY <2>6, <3>1, <3>2, ValuesNext
  <2>8. Seen(acc, types)'
    BY <2>5, <2>6, SeenNext
  <2>9. (why' = "broadcast" => ~Compatible') /\ (why' = "out" => OutCause')
    BY <2>6, SameCall DEF IInv
  <2>10. QED
    BY <2>6, <2>7, <2>8, <2>9 DEF IInv
<1>8. QED
  BY <1>3, <1>6, <1>7 DEF MatchArg

-----------------------------------------------------------------------------
(* The output.                                                             *)

\* Arrays with the same dimensions are the same.
LEMMA SameArray ==
  ASSUME NEW x \in NDArrays, NEW y \in NDArrays, NDim(x) = NDim(y),
         \A j \in 1..NDim(x) : x.shape[j] = y.shape[j] /\ x.steps[j] = y.steps[j]
  PROVE  x = y
<1> DEFINE D == NDim(x)
<1>1. /\ x.shape \in Shapes /\ y.shape \in Shapes /\ x.steps \in Seq(Int) /\ y.steps \in Seq(Int)
      /\ Len(x.shape) = D /\ Len(y.shape) = D /\ Len(x.steps) = D /\ Len(y.steps) = D
      /\ x = [shape |-> x.shape, steps |-> x.steps] /\ y = [shape |-> y.shape, steps |-> y.steps]
  BY ArrayType DEF NDim
<1> HIDE DEF D
<1>2. x.shape = y.shape
  BY <1>1, SeqEqual DEF Shapes, D
<1>3. x.steps = y.steps
  BY <1>1, SeqEqual DEF D
<1>4. QED
  BY <1>1, <1>2, <1>3

\* Outer dimensions that have the extents already, and more than one element.
LEMMA LeftSame ==
  ASSUME NEW u \in NDArrays, NEW s \in Shapes, NEW inner \in Nat,
         inner <= NDim(u), NDim(u) - inner <= Len(s),
         \A j \in 1..(NDim(u)-inner) : s[Len(s)-(NDim(u)-inner)+j] = u.shape[j] /\ u.shape[j] > 1
  PROVE  Left(u, s, inner) = u
<1> DEFINE y == Left(u, s, inner)
           n == NDim(u)-inner
<1>1. /\ y \in NDArrays /\ NDim(y) = NDim(u)
      /\ \A j \in 1..NDim(u) :
           /\ y.shape[j] = IF j <= n THEN s[Len(s)-n+j] ELSE u.shape[j]
           /\ y.steps[j] = IF j <= n /\ u.shape[j] <= 1 THEN 0 ELSE u.steps[j]
  BY TailType
<1>2. NDim(u) \in Nat /\ n \in Nat /\ \A j \in 1..NDim(u) : u.shape[j] \in Nat
  BY ArrayType
<1>3. \A j \in 1..n : s[Len(s)-n+j] = u.shape[j] /\ u.shape[j] > 1
  OBVIOUS
<1> HIDE DEF y, n
<1>4. ASSUME NEW j \in 1..NDim(y) PROVE y.shape[j] = u.shape[j] /\ y.steps[j] = u.steps[j]
  <2>1. CASE j <= n
    <3>1. j \in 1..n /\ j \in 1..NDim(u)
      BY <1>1, <1>2, <2>1
    <3>2. QED
      BY <1>1, <1>2, <1>3, <2>1, <3>1
  <2>2. CASE ~(j <= n)
    BY <1>1, <2>2
  <2>3. QED
    BY <2>1, <2>2
<1>5. QED
  BY <1>1, <1>4, SameArray DEF y

\* The dimensions that the output does not have.
LEMMA NewDims ==
  ASSUME NEW u \in NDArrays, NEW s \in Shapes, NEW inner \in Nat,
         inner <= NDim(u), NDim(u) - inner <= Len(s)
  PROVE  LET p == Len(s) - (NDim(u)-inner)
         IN  /\ Broadcast(u, s, inner, TRUE) = FixedDims(SubSeq(s, 1, p), Left(u, s, inner))
             /\ SubSeq(s, 1, p) \in Shapes /\ Len(SubSeq(s, 1, p)) = p
<1> DEFINE D == NDim(u)
           n == D - inner
           p == Len(s) - n
<1>1. NDim(Own(u, inner)) = n
  BY TailType
<1>2. Broadcast(u, s, inner, TRUE) = FixedDims(SubSeq(s, 1, p), Left(u, s, inner))
  BY <1>1 DEF Broadcast, Own, Left
<1>3. D \in Nat /\ n \in Nat /\ Len(s) \in Nat /\ p \in 0..Len(s)
  BY ArrayType DEF Shapes
<1> HIDE DEF p, n, D
<1>4. SubSeq(s, 1, p) \in Shapes /\ Len(SubSeq(s, 1, p)) = p
  <2>1. s \in Seq(Nat) /\ \A i \in 1..p : s[i] \in Nat
    BY <1>3, ElementOfSeq DEF Shapes
  <2>2. /\ SubSeq(s, 1, p) \in Seq(Nat)
        /\ Len(SubSeq(s, 1, p)) = IF 1 <= p THEN p-1+1 ELSE 0
    BY <1>3, <2>1, SubSeqProperties
  <2>3. QED
    BY <1>3, <2>2 DEF Shapes
<1>5. QED
  BY <1>2, <1>4 DEF p, n, D

\* An output without outer dimensions gets new ones.
LEMMA NewOutput ==
  ASSUME NEW u \in NDArrays, NEW s \in Shapes, Packed(u)
  PROVE  Packed(Broadcast(u, s, NDim(u), TRUE))
<1> DEFINE D == NDim(u)
<1>1. D \in Nat /\ D <= NDim(u) /\ NDim(u) - D = 0 /\ NDim(u) - D <= Len(s)
  BY ArrayType DEF Shapes
<1>2. 1..0 = {}
  OBVIOUS
<1>3. Left(u, s, D) = u
  <2> HIDE DEF D
  <2>1. \A j \in 1..(NDim(u)-D) : s[Len(s)-(NDim(u)-D)+j] = u.shape[j] /\ u.shape[j] > 1
    BY <1>1, <1>2
  <2>2. QED
    BY <1>1, <2>1, LeftSame
<1>4. /\ Broadcast(u, s, D, TRUE) = FixedDims(SubSeq(s, 1, Len(s) - (NDim(u)-D)), Left(u, s, D))
      /\ SubSeq(s, 1, Len(s) - (NDim(u)-D)) \in Shapes
  <2> HIDE DEF D
  <2>1. QED
    BY <1>1, NewDims
<1> DEFINE new == SubSeq(s, 1, Len(s) - (NDim(u)-D))
<1> HIDE DEF D, new
<1>5. Packed(FixedDims(new, u))
  BY <1>4, FixedDimsPacked DEF new
<1>6. QED
  BY <1>3, <1>4, <1>5 DEF new, D

\* One that has all dimensions already stays as it is, unless one has no extent of its own.
LEMMA SameOutput ==
  ASSUME NEW u \in NDArrays, NEW s \in Shapes, NEW inner \in Nat, NDim(u) = Len(s) + inner,
         \A j \in 1..Len(s) : u.shape[j] = s[j] /\ s[j] > 1
  PROVE  Broadcast(u, s, inner, TRUE) = u
<1>1. Len(s) \in Nat
  BY DEF Shapes
<1>2. inner <= NDim(u) /\ NDim(u) - inner = Len(s) /\ NDim(u) - inner <= Len(s)
  BY <1>1
<1>3. \A j \in 1..(NDim(u)-inner) : s[Len(s)-(NDim(u)-inner)+j] = u.shape[j] /\ u.shape[j] > 1
  BY <1>1, <1>2
<1>4. Left(u, s, inner) = u
  BY <1>2, <1>3, LeftSame
<1> DEFINE p == Len(s) - (NDim(u)-inner)
           new == SubSeq(s, 1, p)
<1>5. Broadcast(u, s, inner, TRUE) = FixedDims(new, u) /\ new \in Shapes /\ Len(new) = p
  BY <1>2, <1>4, NewDims
<1>6. p = 0
  BY <1>1, <1>2
<1> HIDE DEF new, p
<1>7. FixedDims(new, u) = u
  <2>1. PICK g \in [0..Len(new) -> NDArrays] : Nested(new, u, g)
    BY <1>5, FixedDimsRec
  <2>2. QED
    BY <1>5, <1>6, <2>1 DEF Nested
<1>8. QED
  BY <1>5, <1>7

\* What all arguments and the output become.
LEMMA ShapedAfter ==
  ASSUME NEW u \in NDArrays, NEW s \in Shapes, call.inner \in Nat,
         call.inner <= NDim(u), NDim(u) - call.inner <= Len(s),
         NEW y, y \in {Broadcast(u, s, call.inner, TRUE), Broadcast(u, s, call.inner, FALSE)}
  PROVE  Shaped(y, s)
<1>1. Reshaped(y, u, s, call.inner)
  BY BroadcastType
<1>2. /\ y \in NDArrays /\ NDim(y) = Len(s) + call.inner
      /\ \A i \in 1..Len(s) : y.shape[i] = s[i]
  BY <1>1 DEF Reshaped
<1>3. QED
  BY <1>2, OuterIs DEF Shaped

LEMMA ArgumentFits ==
  ASSUME call \in Calls, NEW s, Joins(s, OuterShapes(NArgs)),
         NEW j \in 1..NArgs, NDim(call.args[j]) >= call.inner
  PROVE  /\ call.args[j] \in NDArrays /\ call.inner \in Nat /\ s \in Shapes
         /\ call.inner <= NDim(call.args[j])
         /\ NDim(call.args[j]) - call.inner <= Len(s)
         /\ Fits(OuterShape(call.args[j]), s)
<1>1. call.args[j] \in NDArrays /\ call.inner \in Nat
  BY ValidCall, ElementOfSeq DEF NArgs
<1>2. Fits(OuterShape(call.args[j]), s) /\ s \in Shapes
  BY DEF Joins, OuterShapes
<1>3. Len(OuterShape(call.args[j])) = NDim(call.args[j]) - call.inner
  BY <1>1, OuterType
<1>4. NDim(call.args[j]) \in Nat
  BY <1>1, ArrayType
<1>5. QED
  BY <1>1, <1>2, <1>3, <1>4 DEF Fits

LEMMA AppendOne ==
  ASSUME NEW S, NEW q \in Seq(S), NEW x \in S, NEW n \in Nat, Len(q) = n
  PROVE  /\ Append(q, x) \in Seq(S) /\ Len(Append(q, x)) = n+1 /\ Append(q, x)[n+1] = x
         /\ \A i \in 1..n : Append(q, x)[i] = q[i]
BY AppendProperties

LEMMA MakeTypes ==
  ASSUME call \in Calls, NEW s, Joins(s, OuterShapes(NArgs)),
         \A j \in 1..NArgs : NDim(call.args[j]) >= call.inner,
         NEW ts, NEW o, Shaped(o, s),
         NEW e, \A i \in 1..call.nin : e[i] = call.args[i],
         ts = Append([i \in 1..call.nin |-> Broadcast(e[i], s, call.inner, FALSE)], o),
         call.check => o = call.args[Out],
         HasOut /\ ~call.check /\ call.fast => o = FastBroadcast(call.args[Out], s),
         ~HasOut => Distinct(o)
  PROVE  Ready(s, ts, Len(s))
<1> DEFINE ins == [i \in 1..call.nin |-> Broadcast(e[i], s, call.inner, FALSE)]
<1>1. call.nin \in Nat /\ 1..call.nin \subseteq 1..NArgs /\ Out = call.nin + 1
  BY ValidCall DEF Out
<1>2. ASSUME NEW i \in 1..call.nin
      PROVE  Broadcast(e[i], s, call.inner, FALSE) = Broadcast(call.args[i], s, call.inner, FALSE)
             /\ Broadcast(call.args[i], s, call.inner, FALSE) \in NDArrays
  <2> DEFINE y == Broadcast(call.args[i], s, call.inner, FALSE)
  <2>1. i \in 1..NArgs
    BY <1>1
  <2>2. /\ call.args[i] \in NDArrays /\ call.inner \in Nat /\ s \in Shapes
        /\ call.inner <= NDim(call.args[i])
        /\ NDim(call.args[i]) - call.inner <= Len(s)
    BY <2>1, ArgumentFits
  <2>3. y \in {Broadcast(call.args[i], s, call.inner, TRUE), Broadcast(call.args[i], s, call.inner, FALSE)}
    OBVIOUS
  <2> HIDE DEF y
  <2>4. Shaped(y, s)
    BY <2>2, <2>3, ShapedAfter
  <2>5. y \in NDArrays
    BY <2>4 DEF Shaped
  <2>6. QED
    BY <2>5 DEF y
<1>3. ins \in Seq(NDArrays) /\ Len(ins) = call.nin
      /\ \A i \in 1..call.nin : ins[i] = Broadcast(call.args[i], s, call.inner, FALSE)
  <2> DEFINE F(i) == Broadcast(call.args[i], s, call.inner, FALSE)
  <2>1. ins = [i \in 1..call.nin |-> F(i)] /\ \A i \in 1..call.nin : F(i) \in NDArrays
    BY <1>2
  <2> HIDE DEF F, ins
  <2>2. [i \in 1..call.nin |-> F(i)] \in [1..call.nin -> NDArrays]
    BY <2>1
  <2>3. ins \in [1..call.nin -> NDArrays] /\ \A i \in 1..call.nin : ins[i] = F(i)
    BY <2>1, <2>2
  <2>4. ins \in Seq(NDArrays) /\ Len(ins) = call.nin
    BY <1>1, <2>3
  <2>5. QED
    BY <2>3, <2>4 DEF F
<1>4. ts = Append(ins, o) /\ o \in NDArrays
  BY DEF Shaped
<1> HIDE DEF ins
<1>5. /\ ts \in Seq(NDArrays) /\ Len(ts) = Out /\ ts[Out] = o
      /\ \A i \in 1..call.nin : ts[i] = ins[i]
  <2>1. /\ Append(ins, o) \in Seq(NDArrays) /\ Len(Append(ins, o)) = call.nin+1
        /\ Append(ins, o)[call.nin+1] = o
        /\ \A i \in 1..call.nin : Append(ins, o)[i] = ins[i]
    BY <1>1, <1>3, <1>4, AppendOne
  <2>2. QED
    BY <1>1, <1>4, <2>1
<1>6. \A i \in 1..call.nin : ts[i] = Broadcast(call.args[i], s, call.inner, FALSE)
  BY <1>3, <1>5
<1>7. QED
  BY <1>5, <1>6 DEF Ready

\* The output before it is broadcast: the one given, or one without outer dimensions.
LEMMA OutTypeFits ==
  ASSUME call \in Calls, NEW s, Joins(s, OuterShapes(NArgs)),
         \A j \in 1..NArgs : NDim(call.args[j]) >= call.inner
  PROVE  /\ OutType \in NDArrays /\ call.inner \in Nat /\ s \in Shapes
         /\ call.inner <= NDim(OutType) /\ NDim(OutType) - call.inner <= Len(s)
         /\ HasOut => OutType = call.args[Out]
         /\ ~HasOut => NDim(OutType) = call.inner /\ Packed(OutType)
<1>1. 1 \in 1..NArgs /\ (HasOut => Out \in 1..NArgs)
  BY ValidCall DEF Out
<1>2. CASE HasOut
  BY <1>1, <1>2, ArgumentFits DEF OutType
<1>3. CASE ~HasOut
  <2> DEFINE v == Inner(call.args[1], call.inner)
  <2>1. /\ call.args[1] \in NDArrays /\ call.inner \in Nat /\ s \in Shapes
        /\ call.inner <= NDim(call.args[1])
    BY <1>1, ArgumentFits
  <2>2. v \in NDArrays /\ NDim(v) = call.inner
    BY <2>1, InnerType
  <2>3. OutType = CArray(v.shape)
    BY <1>3 DEF OutType
  <2> HIDE DEF v
  <2>4. v.shape \in Shapes /\ Len(v.shape) = call.inner
    BY <2>2, ArrayType DEF NDim
  <2>5. CArray(v.shape) \in NDArrays /\ NDim(CArray(v.shape)) = call.inner /\ Packed(CArray(v.shape))
    BY <2>4, CArrayType
  <2>6. Len(s) \in Nat
    BY <2>1 DEF Shapes
  <2>7. QED
    BY <1>3, <2>1, <2>3, <2>5, <2>6
<1>4. QED
  BY <1>2, <1>3

\* An output that is C-contiguous with the common shape, and extents of more than 1.
LEMMA OutStays ==
  ASSUME call \in Calls, NEW s, Joins(s, OuterShapes(NArgs)), HasOut, Compatible,
         \A j \in 1..NArgs : NDim(call.args[j]) >= call.inner,
         call.args[Out] = CArray(Common \o Inner(call.args[1], call.inner).shape)
  PROVE  /\ s = Common
         /\ OuterShape(call.args[Out]) = s
         /\ (\A n \in Range(OuterShape(call.args[Out])) : n > 1) =>
              Broadcast(call.args[Out], s, call.inner, TRUE) = call.args[Out]
<1> DEFINE v == Inner(call.args[1], call.inner)
           u == call.args[Out]
<1>1. s = Common /\ s \in Shapes
  BY JoinMeans DEF Joins
<1>2. v \in NDArrays /\ NDim(v) = call.inner /\ call.inner \in Nat
  <2>1. 1 \in 1..NArgs
    BY ValidCall
  <2>2. call.args[1] \in NDArrays /\ call.inner \in Nat /\ call.inner <= NDim(call.args[1])
    BY <2>1, ArgumentFits
  <2>3. QED
    BY <2>2, InnerType
<1>3. u = CArray(s \o v.shape)
  BY <1>1
<1> HIDE DEF v
<1>4. v.shape \in Shapes /\ Len(v.shape) = call.inner
  BY <1>2, ArrayType DEF NDim
<1>5. /\ s \o v.shape \in Shapes /\ Len(s \o v.shape) = Len(s) + call.inner
      /\ \A i \in 1..Len(s) : (s \o v.shape)[i] = s[i]
  BY <1>1, <1>4, ConcatProperties DEF Shapes
<1>6. u \in NDArrays /\ NDim(u) = Len(s) + call.inner /\ u.shape = s \o v.shape
  BY <1>3, <1>5, CArrayType
<1> HIDE DEF u
<1>7. \A i \in 1..Len(s) : u.shape[i] = s[i]
  BY <1>5, <1>6
<1>8. OuterShape(u) = s
  BY <1>1, <1>2, <1>6, <1>7, OuterIs
<1>9. ASSUME \A n \in Range(s) : n > 1 PROVE Broadcast(u, s, call.inner, TRUE) = u
  <2>1. \A j \in 1..Len(s) : s[j] > 1
    BY <1>1, <1>9, LenProperties DEF Range, Shapes
  <2>2. \A j \in 1..Len(s) : u.shape[j] = s[j] /\ s[j] > 1
    BY <1>7, <2>1
  <2>3. QED
    BY <1>1, <1>2, <1>6, <2>2, SameOutput
<1>10. QED
  BY <1>1, <1>8, <1>9 DEF u

LEMMA BroadcastStep == ASSUME IInv, BroadcastAll PROVE IInv'
<1> DEFINE s == acc
           out == Broadcast(OutType, acc, call.inner, TRUE)
<1>1. call \in Calls /\ pc = "match" /\ ~call.fast /\ Len(types) = NArgs /\ Seen(acc, types)
  BY DEF IInv, Values, BroadcastAll, NArgs
<1>2. NArgs \in Nat \ {0} /\ NArgs \in {call.nin, call.nin+1} /\ call.nin \in Nat /\ (call.check => HasOut)
  BY <1>1, ValidCall
<1>3. /\ Joins(s, OuterShapes(NArgs))
      /\ \A j \in 1..NArgs : NDim(call.args[j]) >= call.inner
      /\ \A j \in 1..NArgs : types[j] = call.args[j]
  BY <1>1, <1>2 DEF Seen
<1>4. /\ OutType \in NDArrays /\ call.inner \in Nat /\ s \in Shapes
      /\ call.inner <= NDim(OutType) /\ NDim(OutType) - call.inner <= Len(s)
      /\ HasOut => OutType = call.args[Out]
      /\ ~HasOut => NDim(OutType) = call.inner /\ Packed(OutType)
  BY <1>1, <1>3, OutTypeFits
<1>5. CASE call.check /\ out # OutType /\ Refuse("out")
  <2>1. HasOut /\ OutType = call.args[Out]
    BY <1>2, <1>4, <1>5
  <2>2. OutCause
    <3> SUFFICES ASSUME Compatible,
                        call.args[Out] = CArray(Common \o Inner(call.args[1], call.inner).shape),
                        ~\E n \in Range(OuterShape(call.args[Out])) : n <= 1
                 PROVE  FALSE
      BY <1>1 DEF OutCause
    <3> DEFINE w == OuterShape(call.args[Out])
    <3>1. /\ w = s
          /\ (\A n \in Range(w) : n > 1) =>
               Broadcast(call.args[Out], s, call.inner, TRUE) = call.args[Out]
      BY <1>1, <1>3, <2>1, OutStays
    <3>2. \A n \in Range(w) : n > 1
      <4>1. w \in Seq(Nat)
        BY <1>4, <3>1 DEF Shapes
      <4>2. \A n \in Range(w) : n \in Nat
        <5> HIDE DEF w
        <5>1. QED
          BY <4>1, ElementOfSeq DEF Range
      <4>3. QED
        BY <4>2
    <3>3. QED
      BY <1>5, <2>1, <3>1, <3>2
  <2>3. QED
    BY <1>1, <1>5, <2>2, RefuseStep
<1>6. CASE /\ ~(call.check /\ out # OutType)
           /\ types' = Append([i \in 1..call.nin |-> Broadcast(types[i], acc, call.inner, FALSE)], out)
           /\ outer' = Len(acc)
           /\ pc' = "broadcast"
           /\ UNCHANGED <<call, acc, flags, kernel, why>>
  <2>1. Shaped(out, s)
    BY <1>4, ShapedAfter
  <2>2. call.check => out = call.args[Out]
    BY <1>2, <1>4, <1>6
  <2>3. ~HasOut => Distinct(out)
    <3>1. CASE ~HasOut
      <4>1. NDim(OutType) = call.inner /\ Packed(OutType)
        BY <1>4, <3>1
      <4>2. Packed(Broadcast(OutType, s, NDim(OutType), TRUE))
        BY <1>4, <4>1, NewOutput
      <4>3. QED
        BY <4>1, <4>2 DEF Packed
    <3>2. QED
      BY <3>1
  <2>4. \A i \in 1..call.nin : types[i] = call.args[i]
    BY <1>2, <1>3
  <2>5. types' = Append([i \in 1..call.nin |-> Broadcast(types[i], s, call.inner, FALSE)], out)
    BY <1>6
  <2> HIDE DEF out
  <2>6. Ready(s, types', Len(s))
    BY <1>1, <1>3, <2>1, <2>2, <2>3, <2>4, <2>5, MakeTypes
  <2>7. call' = call /\ acc' = acc /\ outer' = Len(acc) /\ why' = why /\ flags' = flags /\ kernel' = kernel
        /\ pc' = "broadcast"
    BY <1>6
  <2>8. Ready(acc, types, outer)'
    BY <2>6, <2>7, ReadyNext
  <2>9. Values' /\ why' = "none"
    <3>1. Values /\ pc # "refused"
      BY <1>1 DEF IInv
    <3>2. flags \in SUBSET AllFlags /\ kernel \in Kernels \union {"none"}
      BY <3>1 DEF Values
    <3>3. QED
      BY <2>7, <3>1, <3>2, ValuesNext
  <2>10. QED
    BY <2>7, <2>8, <2>9 DEF IInv
<1>7. QED
  BY <1>5, <1>6 DEF BroadcastAll

-----------------------------------------------------------------------------
(* The fast type checks, and the kernel.                                   *)

LEMMA FlagsType ==
  ASSUME NEW s \in Seq(NDArrays), NEW n PROVE SelectFlags(s, n) \in SUBSET AllFlags
<1>1. PICK g \in [0..Len(s) -> SUBSET AllFlags] : Flagged(s, g, n)
  BY FlagsRec
<1>2. Len(s) \in 0..Len(s)
  OBVIOUS
<1>3. QED
  BY <1>1, <1>2 DEF Flagged

\* The kernel's arguments go to the selection of a kernel.
LEMMA SelectNext ==
  ASSUME Values, pc # "refused", call' = call, why' = why, pc' = "select",
         Ready(acc', types', outer'), flags' = SelectFlags(types', outer'), kernel' = kernel
  PROVE  IInv'
<1>1. types' \in Seq(NDArrays)
  BY DEF Ready
<1>2. flags' \in SUBSET AllFlags
  BY <1>1, FlagsType
<1>3. kernel \in Kernels \union {"none"}
  BY DEF Values
<1>4. Values' /\ why' = "none"
  BY <1>2, <1>3, ValuesNext
<1>5. Ready(acc, types, outer)'
  BY ReadyNext
<1>6. QED
  BY <1>4, <1>5 DEF IInv

LEMMA FinishStep == ASSUME IInv, Finish PROVE IInv'
<1> DEFINE toF == ~HasOut /\ call.need[Out] = "F"
           ts == IF toF THEN [types EXCEPT ![Out] = ToFortran(@)] ELSE types
<1>1. call \in Calls /\ pc = "broadcast" /\ Ready(acc, types, outer) /\ Values
  BY DEF IInv, Values, Finish
<1>2. CASE Refuse("order")
  BY <1>1, <1>2, RefuseStep
<1>3. CASE /\ types' = ts
           /\ flags' = SelectFlags(ts, outer)
           /\ pc' = "select"
           /\ UNCHANGED <<call, acc, outer, kernel, why>>
  <2>1. Ready(acc, ts, outer)
    <3>1. CASE ~toF
      BY <1>1, <3>1
    <3>2. CASE toF
      <4> DEFINE x == types[Out]
                 y == ToFortran(x)
      <4>1. types \in Seq(NDArrays) /\ Len(types) = Out /\ Shaped(x, acc)
        BY <1>1 DEF Ready
      <4>2. Out \in 1..Len(types) /\ DOMAIN types = 1..Len(types) /\ Out \in Nat
            /\ \A i \in 1..call.nin : i \in 1..Len(types) /\ i # Out
        <5>1. call.nin \in Nat /\ Out = call.nin+1
          BY <1>1, ValidCall DEF Out
        <5>2. QED
          BY <4>1, <5>1
      <4>3. y \in NDArrays /\ y.shape = x.shape /\ Distinct(y)
        BY <4>1, FortranType DEF Shaped
      <4>4. Shaped(y, acc)
        BY <4>1, <4>3 DEF Shaped, NDim, OuterShape
      <4> HIDE DEF y
      <4>5. ts = [types EXCEPT ![Out] = y]
        BY <3>2 DEF y
      <4> HIDE DEF ts
      <4>6. ts \in Seq(NDArrays) /\ Len(ts) = Out
        BY <4>1, <4>2, <4>3, <4>5
      <4>7. ts[Out] = y /\ \A i \in 1..call.nin : ts[i] = types[i]
        BY <4>2, <4>5
      <4>8. ~HasOut /\ ~call.check
        BY <1>1, <3>2, ValidCall
      <4>9. QED
        BY <1>1, <4>3, <4>4, <4>6, <4>7, <4>8 DEF Ready
    <3>3. QED
      BY <3>1, <3>2
  <2> HIDE DEF ts, toF
  <2>2. Ready(acc', types', outer') /\ flags' = SelectFlags(types', outer')
    <3>1. acc' = acc /\ types' = ts /\ outer' = outer /\ call' = call
      BY <1>3
    <3>2. QED
      BY <1>3, <2>1, <3>1
  <2>3. QED
    BY <1>1, <1>3, <2>2, SelectNext
<1>4. QED
  BY <1>2, <1>3 DEF Finish

\* The shape that the fast type checks gather is the one that a full one gathers.
LEMMA FastJoin ==
  ASSUME call \in Calls, call.fast
  PROVE  IF FastShape = NoShape THEN Conflict(OuterShapes(NArgs)) ELSE Joins(FastShape, OuterShapes(NArgs))
<1> DEFINE s == Tail(call.args)
           P(k, x) == IF x = NoShape THEN Conflict(OuterShapes(k)) ELSE Joins(x, OuterShapes(k))
<1>1. NArgs \in Nat \ {0} /\ call.args \in Seq(NDArrays) /\ Len(call.args) = NArgs /\ call.inner = 0
  BY ValidCall DEF NArgs
<1>2. \A j \in 1..NArgs : call.args[j] \in NDArrays /\ OuterShape(call.args[j]) = call.args[j].shape
  <2> SUFFICES ASSUME NEW j \in 1..NArgs
               PROVE  call.args[j] \in NDArrays /\ OuterShape(call.args[j]) = call.args[j].shape
    OBVIOUS
  <2> DEFINE x == call.args[j]
  <2>1. x \in NDArrays
    BY <1>1, ElementOfSeq
  <2> HIDE DEF x
  <2>2. x.shape \in Shapes /\ NDim(x) = Len(x.shape) + call.inner
    <3>1. x.shape \in Shapes /\ NDim(x) \in Nat
      BY <2>1, ArrayType
    <3>2. QED
      BY <1>1, <3>1 DEF NDim
  <2>3. OuterShape(x) = x.shape
    BY <1>1, <2>1, <2>2, OuterIs
  <2>4. QED
    BY <2>1, <2>3 DEF x
<1>3. /\ s \in Seq(NDArrays) /\ Len(s) = NArgs-1
      /\ \A k \in 1..(NArgs-1) : s[k] = call.args[k+1]
  BY <1>1
<1> HIDE DEF s
<1>4. 1 \in 1..NArgs
  BY <1>1
<1>5. PICK g \in [0..Len(s) -> Shapes \union {NoShape}] : Gathers(s, g)
  BY <1>2, <1>3, <1>4, GatherRec DEF s
<1> DEFINE T == {k \in 0..(NArgs-1) : P(k+1, g[k])}
<1>6. 0 \in T
  <2>1. g[0] = OuterShape(call.args[1])
    BY <1>2, <1>4, <1>5 DEF Gathers
  <2>2. OuterShapes(1) = {g[0]}
    <3>1. 1..1 = {1}
      OBVIOUS
    <3>2. QED
      BY <2>1, <3>1 DEF OuterShapes
  <2>3. g[0] \in Shapes
    <3>1. call.inner \in Nat /\ call.args[1] \in NDArrays
      BY <1>1, <1>2, <1>4
    <3>2. QED
      BY <2>1, <3>1, OuterType
  <2>4. P(1, g[0])
    BY <2>2, <2>3, JoinFirst, ShapeIsNone
  <2>5. 0 \in 0..(NArgs-1) /\ 0+1 = 1
    BY <1>1
  <2> HIDE DEF P
  <2>6. QED
    BY <2>4, <2>5
<1>7. ASSUME NEW n \in 0..(NArgs-1-1), n \in T PROVE n+1 \in T
  <2> DEFINE k == n+1
             m == k+1
  <2>1. k \in 1..(NArgs-1) /\ k \in 0..(NArgs-1) /\ k-1 = n /\ m \in 1..NArgs /\ m-1 = k /\ m # 1
        /\ k \in 1..NArgs
    BY <1>1
  <2>2. P(k, g[n])
    OBVIOUS
  <2> HIDE DEF k
  <2>3. g[k] = IF g[n] = NoShape THEN g[n] ELSE ResolveBroadcast(g[n], OuterShape(call.args[m]))
    BY <1>2, <1>3, <1>5, <2>1 DEF Gathers
  <2>4. CASE g[n] = NoShape
    <3>1. Conflict(OuterShapes(k))
      BY <2>2, <2>4
    <3>2. OuterShapes(k) \subseteq OuterShapes(m)
      <4>1. 1..k \subseteq 1..m
        BY <2>1
      <4>2. QED
        BY <4>1 DEF OuterShapes
    <3>3. Conflict(OuterShapes(m)) /\ g[k] = NoShape
      BY <2>3, <2>4, <3>1, <3>2, ConflictMore
    <3>4. QED
      BY <2>1, <3>3 DEF k
  <2>5. CASE g[n] # NoShape
    <3>1. Joins(g[n], OuterShapes(m-1))
      BY <2>1, <2>2, <2>5
    <3> HIDE DEF m
    <3>2. LET w == OuterShape(call.args[m])
              r == IF g[n] = NoShape THEN w ELSE ResolveBroadcast(g[n], w)
          IN  IF r = NoShape THEN Conflict(OuterShapes(m)) ELSE Joins(r, OuterShapes(m))
      BY <2>1, <3>1, JoinArgument
    <3>3. P(m, g[k])
      BY <2>3, <2>5, <3>2
    <3> HIDE DEF P
    <3>4. QED
      BY <2>1, <3>3 DEF k, m
  <2>6. QED
    BY <2>4, <2>5
<1> HIDE DEF P, T
<1>8. \A n \in 0..(NArgs-1) : n \in T
  <2> DEFINE N == NArgs-1
  <2>1. N \in Nat
    BY <1>1
  <2>2. \A n \in 0..(N-1) : n \in T => n+1 \in T
    BY <1>7
  <2> HIDE DEF N
  <2>3. \A n \in 0..N : n \in T
    BY <1>6, <2>1, <2>2, UpTo
  <2>4. QED
    BY <2>3 DEF N
<1>9. FastShape = g[NArgs-1]
  BY <1>3, <1>5 DEF Gathers
<1>10. NArgs-1 \in 0..(NArgs-1) /\ NArgs-1+1 = NArgs
  BY <1>1
<1>11. P(NArgs-1+1, g[NArgs-1])
  BY <1>8, <1>10 DEF T
<1>12. QED
  BY <1>9, <1>10, <1>11 DEF P

\* What the fast type checks do to the output.
LEMMA FastOutType ==
  ASSUME call \in Calls, call.fast, FastShape # NoShape
  PROVE  /\ Joins(FastShape, OuterShapes(NArgs))
         /\ \A j \in 1..NArgs : NDim(call.args[j]) >= call.inner
         /\ Shaped(FastOut, FastShape)
         /\ HasOut /\ ~call.check => FastOut = FastBroadcast(call.args[Out], FastShape)
         /\ ~(HasOut /\ ~call.check) => FastOut = CArray(FastShape) /\ Distinct(FastOut)
<1> DEFINE s == FastShape
<1>1. Joins(s, OuterShapes(NArgs)) /\ s \in Shapes /\ call.inner = 0
  BY FastJoin, ValidCall DEF Joins
<1> HIDE DEF s
<1>2. \A j \in 1..NArgs : NDim(call.args[j]) >= call.inner
  <2> SUFFICES ASSUME NEW j \in 1..NArgs PROVE NDim(call.args[j]) >= call.inner
    OBVIOUS
  <2>1. call.args[j] \in NDArrays
    BY ValidCall, ElementOfSeq DEF NArgs
  <2>2. NDim(call.args[j]) \in Nat
    BY <2>1, ArrayType
  <2>3. QED
    BY <1>1, <2>2
<1>3. CASE HasOut /\ ~call.check
  <2> DEFINE u == call.args[Out]
             y == Broadcast(u, s, call.inner, FALSE)
  <2>1. Out \in 1..NArgs
    BY <1>3, ValidCall DEF Out
  <2>2. /\ u \in NDArrays /\ call.inner \in Nat /\ s \in Shapes
        /\ call.inner <= NDim(u) /\ NDim(u) - call.inner <= Len(s)
    BY <1>1, <1>2, <2>1, ArgumentFits
  <2>3. FastOut = FastBroadcast(u, s) /\ FastBroadcast(u, s) = y
    BY <1>1, <1>3 DEF FastOut, FastBroadcast, s
  <2>4. y \in {Broadcast(u, s, call.inner, TRUE), Broadcast(u, s, call.inner, FALSE)}
    OBVIOUS
  <2> HIDE DEF u, y
  <2>5. Shaped(y, s)
    <3>1. y \in {Broadcast(u, s, call.inner, TRUE), Broadcast(u, s, call.inner, FALSE)}
      BY <2>4
    <3>2. QED
      BY <2>2, <3>1, ShapedAfter
  <2>6. QED
    BY <1>1, <1>2, <1>3, <2>3, <2>5 DEF s, u
<1>4. CASE ~(HasOut /\ ~call.check)
  <2> DEFINE y == CArray(s)
  <2>1. y \in NDArrays /\ NDim(y) = Len(s) /\ y.shape = s /\ Packed(y)
    BY <1>1, CArrayType
  <2>2. FastOut = y
    BY <1>4 DEF FastOut, s
  <2> HIDE DEF y
  <2>3. NDim(y) = Len(s) + call.inner /\ \A i \in 1..Len(s) : y.shape[i] = s[i]
    <3>1. Len(s) \in Nat
      BY <1>1 DEF Shapes
    <3>2. QED
      BY <1>1, <2>1, <3>1
  <2>4. OuterShape(y) = s
    BY <1>1, <2>1, <2>3, OuterIs
  <2>5. Shaped(y, s) /\ Distinct(y)
    BY <2>1, <2>3, <2>4 DEF Shaped, Packed
  <2>6. QED
    BY <1>1, <1>2, <1>4, <2>2, <2>5 DEF s, y
<1>5. QED
  BY <1>3, <1>4

LEMMA FastStep == ASSUME IInv, FastTypecheck PROVE IInv'
<1> DEFINE s == FastShape
           o == FastOut
<1>1. call \in Calls /\ call.fast /\ pc = "match" /\ Values
  BY DEF IInv, Values, FastTypecheck
<1>2. call.inner = 0 /\ NArgs \in Nat \ {0} /\ (call.check => HasOut)
  BY <1>1, ValidCall
<1>3. CASE s = NoShape /\ Refuse("broadcast")
  <2>1. ~Compatible
    BY <1>1, <1>3, FastJoin, ConflictMeans
  <2>2. QED
    BY <1>1, <1>3, <2>1, RefuseStep
<1>4. CASE s # NoShape /\ call.check /\ o # call.args[Out] /\ Refuse("out")
  <2>1. OutCause
    <3> SUFFICES ASSUME Compatible,
                        call.args[Out] = CArray(Common \o Inner(call.args[1], call.inner).shape)
                 PROVE  FALSE
      BY DEF OutCause
    <3>1. o = CArray(s) /\ Joins(s, OuterShapes(NArgs)) /\ s \in Shapes
      BY <1>1, <1>4, FastOutType DEF Joins
    <3>2. s = Common
      BY <1>1, <3>1, JoinMeans
    <3> DEFINE v == Inner(call.args[1], call.inner)
    <3>3. v \in NDArrays /\ NDim(v) = 0
      <4>1. call.args[1] \in NDArrays
        <5>1. 1 \in 1..NArgs
          BY <1>2
        <5>2. QED
          BY <1>1, <5>1, ValidCall, ElementOfSeq DEF NArgs
      <4>2. call.inner \in Nat /\ call.inner <= NDim(call.args[1])
        BY <1>2, <4>1, ArrayType
      <4>3. QED
        BY <1>2, <4>1, <4>2, InnerType
    <3> HIDE DEF s, o, v
    <3>4. v.shape = << >>
      <4>1. v.shape \in Seq(Nat) /\ Len(v.shape) = 0
        BY <3>3, ArrayType DEF NDim, Shapes
      <4>2. QED
        BY <4>1, EmptySeq
    <3>5. s \o v.shape = s
      BY <3>1, <3>4, ConcatEmptySeq DEF Shapes
    <3>6. call.args[Out] = CArray(s)
      BY <3>2, <3>5 DEF v
    <3>7. QED
      BY <1>4, <3>1, <3>6
  <2>2. QED
    BY <1>1, <1>4, <2>1, RefuseStep
<1>5. CASE /\ s # NoShape /\ ~(call.check /\ o # call.args[Out])
           /\ acc' = s
           /\ types' = Append([i \in 1..call.nin |-> FastBroadcast(call.args[i], s)], o)
           /\ outer' = Len(s)
           /\ flags' = SelectFlags(types', Len(s))
           /\ pc' = "select"
           /\ UNCHANGED <<call, kernel, why>>
  <2>1. /\ Joins(s, OuterShapes(NArgs))
        /\ \A j \in 1..NArgs : NDim(call.args[j]) >= call.inner
        /\ Shaped(o, s)
        /\ HasOut /\ ~call.check => o = FastBroadcast(call.args[Out], s)
        /\ ~(HasOut /\ ~call.check) => Distinct(o)
    BY <1>1, <1>5, FastOutType
  <2>2. call.check => o = call.args[Out]
    BY <1>5
  <2>3. types' = Append([i \in 1..call.nin |-> Broadcast(call.args[i], s, call.inner, FALSE)], o)
    BY <1>2, <1>5 DEF FastBroadcast
  <2> HIDE DEF s, o
  <2>4. Ready(s, types', Len(s))
    <3> DEFINE e == call.args
    <3>1. \A i \in 1..call.nin : e[i] = call.args[i]
      OBVIOUS
    <3>2. types' = Append([i \in 1..call.nin |-> Broadcast(e[i], s, call.inner, FALSE)], o)
      BY <2>3
    <3>3. HasOut /\ ~call.check /\ call.fast => o = FastBroadcast(call.args[Out], s)
      BY <2>1
    <3>4. ~HasOut => Distinct(o)
      BY <2>1
    <3> HIDE DEF e
    <3>5. QED
      BY <1>1, <2>1, <2>2, <3>1, <3>2, <3>3, <3>4, MakeTypes
  <2>5. Ready(acc', types', outer') /\ flags' = SelectFlags(types', outer')
    BY <1>5, <2>4
  <2>6. QED
    BY <1>1, <1>5, <2>5, SelectNext
<1>6. QED
  BY <1>3, <1>4, <1>5 DEF FastTypecheck

LEMMA KernelStep == ASSUME IInv, SelectKernel PROVE IInv'
<1>1. call \in Calls /\ pc = "select" /\ Ready(acc, types, outer) /\ Values
  BY DEF IInv, Values, SelectKernel
<1>2. CASE Refuse("kernel")
  BY <1>1, <1>2, RefuseStep
<1>3. ASSUME NEW i \in DOMAIN Order, Usable(i), kernel' = Order[i], pc' = "done",
             UNCHANGED <<call, acc, types, outer, flags, why>>
      PROVE  IInv'
  <2>1. kernel' \in Kernels
    BY <1>1, <1>3, CallsAssumption DEF Usable
  <2>2. flags \in SUBSET AllFlags
    BY <1>1 DEF Values
  <2>3. Values' /\ why' = "none"
    BY <1>1, <1>3, <2>1, <2>2, ValuesNext
  <2>4. Ready(acc, types, outer)'
    BY <1>1, <1>3, ReadyNext
  <2>5. QED
    BY <1>3, <2>3, <2>4 DEF IInv
<1>4. QED
  BY <1>2, <1>3 DEF SelectKernel

LEMMA Stutter == ASSUME IInv, UNCHANGED vars PROVE IInv'
<1>1. /\ call' = call /\ pc' = pc /\ acc' = acc /\ types' = types /\ outer' = outer
      /\ flags' = flags /\ kernel' = kernel /\ why' = why
  BY DEF vars
<1>2. Values'
  BY <1>1 DEF Values, IInv
<1>3. pc = "match" => Seen(acc, types)'
  BY <1>1, SeenNext DEF IInv
<1>4. pc \in {"broadcast", "select", "done"} => Ready(acc, types, outer)'
  BY <1>1, ReadyNext DEF IInv
<1>5. (why' = "broadcast" => ~Compatible') /\ (why' = "out" => OutCause')
  BY <1>1, SameCall DEF IInv
<1>6. QED
  BY <1>1, <1>2, <1>3, <1>4, <1>5 DEF IInv

\* Every step of a call keeps the invariant.
LEMMA Invariance == Spec => []IInv
<1>1. Init => IInv
  BY InitInv
<1>2. IInv /\ [Next]_vars => IInv'
  BY MatchStep, BroadcastStep, FinishStep, FastStep, KernelStep, Stutter DEF Next
<1>3. QED
  BY <1>1, <1>2, PTL DEF Spec

-----------------------------------------------------------------------------
(* The properties.                                                         *)

LEMMA ReadyShaped ==
  ASSUME call \in Calls, NEW s, NEW ts, NEW o, Ready(s, ts, o)
  PROVE  /\ DOMAIN ts = 1..Out /\ Out = call.nin+1 /\ call.nin \in Nat
         /\ \A i \in 1..Out : Shaped(ts[i], s)
<1>1. call.nin \in Nat /\ Out = call.nin+1 /\ 1..call.nin \subseteq 1..NArgs
  BY ValidCall DEF Out
<1>2. ts \in Seq(NDArrays) /\ Len(ts) = Out /\ Shaped(ts[Out], s) /\ Joins(s, OuterShapes(NArgs))
  BY DEF Ready
<1>3. ASSUME NEW i \in 1..call.nin PROVE Shaped(ts[i], s)
  <2> DEFINE u == call.args[i]
             y == Broadcast(u, s, call.inner, FALSE)
  <2>1. ts[i] = y /\ NDim(u) >= call.inner /\ i \in 1..NArgs
    BY <1>1 DEF Ready
  <2>2. /\ u \in NDArrays /\ call.inner \in Nat /\ s \in Shapes
        /\ call.inner <= NDim(u) /\ NDim(u) - call.inner <= Len(s)
    BY <1>2, <2>1, ArgumentFits
  <2>3. y \in {Broadcast(u, s, call.inner, TRUE), Broadcast(u, s, call.inner, FALSE)}
    OBVIOUS
  <2> HIDE DEF u, y
  <2>4. Shaped(y, s)
    BY <2>2, <2>3, ShapedAfter
  <2>5. QED
    BY <2>1, <2>4
<1>4. \A i \in 1..Out : i = Out \/ i \in 1..call.nin
  BY <1>1
<1>5. QED
  BY <1>1, <1>2, <1>3, <1>4

\* For all calls: the variables have values of their types, and every array that a
\* kernel gets has the common shape around its inner dimensions, and a step for each
\* of its dimensions (ndt_broadcast_all() and the fast type checks).
THEOREM TypeCorrect == Spec => []TypeOK
<1>1. IInv => TypeOK
  <2> SUFFICES ASSUME IInv PROVE TypeOK
    OBVIOUS
  <2>1. Values
    BY DEF IInv
  <2>2. ASSUME Applied
        PROVE  /\ Len(types) = call.nin + 1
               /\ \A x \in Range(types) :
                    /\ DOMAIN x.steps = DOMAIN x.shape
                    /\ NDim(x) = outer + call.inner
                    /\ OuterShape(x) = acc
    <3>1. call \in Calls /\ Ready(acc, types, outer)
      BY <2>1, <2>2 DEF Applied, IInv, Values
    <3>2. Len(types) = Out /\ outer = Len(acc)
      BY <3>1 DEF Ready
    <3>3. /\ DOMAIN types = 1..Out /\ Out = call.nin+1
          /\ \A i \in 1..Out : Shaped(types[i], acc)
      BY <3>1, ReadyShaped
    <3>4. ASSUME NEW x \in Range(types)
          PROVE  DOMAIN x.steps = DOMAIN x.shape /\ NDim(x) = outer + call.inner /\ OuterShape(x) = acc
      <4>1. Shaped(x, acc)
        BY <3>3 DEF Range
      <4>2. QED
        BY <3>2, <4>1, ArrayType DEF Shaped
    <3>5. QED
      BY <3>2, <3>3, <3>4
  <2>3. QED
    BY <2>1, <2>2 DEF TypeOK, Values
<1>2. QED
  BY <1>1, Invariance, PTL

\* For all calls: the arguments that broadcast are those that NumPy's rule accepts, in
\* whatever order _resolve_broadcast() sees them, and their shape is the one of that
\* rule; the outputs refused are those that are not what would have been inferred, or
\* whose extents of 0 or 1 broadcast() gives the step 0.
THEOREM ShapesAsNumPy == Spec => []RefusedForCause
<1>1. IInv => RefusedForCause
  <2> SUFFICES ASSUME IInv PROVE RefusedForCause
    OBVIOUS
  <2>1. Compatible => why # "broadcast"
    BY DEF IInv
  <2>2. Applied => IF Compatible THEN acc = Common ELSE 0 \in Range(acc)
    <3> SUFFICES ASSUME Applied PROVE IF Compatible THEN acc = Common ELSE 0 \in Range(acc)
      OBVIOUS
    <3>1. call \in Calls /\ Joins(acc, OuterShapes(NArgs))
      BY DEF Applied, IInv, Values, Ready
    <3>2. QED
      BY <3>1, JoinMeans
  <2>3. OutRefusedForCause
    BY DEF IInv, OutCause, OutRefusedForCause
  <2>4. QED
    BY <2>1, <2>2, <2>3 DEF RefusedForCause, NumpyShape
<1>2. QED
  BY <1>1, Invariance, PTL

\* The functions that fold have a fast type check: a call that waives the check of its
\* output is a fold.
FoldsFast == \A c \in Calls : Len(c.args) > c.nin /\ ~c.check => c.fast

\* An argument as the kernel gets it: stretched, or an output that is what it was.
LEMMA ArgumentIs ==
  ASSUME FoldsFast, call \in Calls, Ready(acc, types, outer), NEW i \in 1..NArgs
  PROVE  /\ call.args[i] \in NDArrays /\ call.inner \in Nat /\ acc \in Shapes
         /\ call.inner <= NDim(call.args[i]) /\ Fits(OuterShape(call.args[i]), acc)
         /\ types[i] = Broadcast(call.args[i], acc, call.inner, FALSE) \/ types[i] = call.args[i]
<1> DEFINE u == call.args[i]
           y == types[i]
<1>1. i \in 1..call.nin \/ (i = Out /\ HasOut)
  BY ValidCall DEF Out
<1>2. Joins(acc, OuterShapes(NArgs)) /\ NDim(u) >= call.inner
  BY DEF Ready
<1>3. /\ u \in NDArrays /\ call.inner \in Nat /\ acc \in Shapes
      /\ call.inner <= NDim(u) /\ Fits(OuterShape(u), acc)
  BY <1>2, ArgumentFits
<1>4. y = Broadcast(u, acc, call.inner, FALSE) \/ y = u
  <2>1. CASE i \in 1..call.nin
    BY <2>1 DEF Ready
  <2>2. CASE i = Out /\ HasOut /\ call.check
    BY <2>2 DEF Ready
  <2>3. CASE i = Out /\ HasOut /\ ~call.check
    <3>1. call.fast /\ call.inner = 0
      BY <2>3, ValidCall DEF FoldsFast, HasOut
    <3>2. y = FastBroadcast(u, acc)
      BY <2>3, <3>1 DEF Ready
    <3>3. QED
      BY <3>1, <3>2 DEF FastBroadcast
  <2>4. QED
    BY <1>1, <2>1, <2>2, <2>3
<1>5. QED
  BY <1>3, <1>4

\* For all calls, if only functions with a fast type check fold: the element at an
\* index of an array that a kernel gets is the element of the argument that the same
\* index names, and no index names one that the argument does not have
\* (broadcast() and fast_broadcast()).
THEOREM ArgumentsKept == ASSUME FoldsFast PROVE Spec => []ElementsKept
<1>1. IInv => ElementsKept
  <2> SUFFICES ASSUME IInv, Applied, NEW i \in DOMAIN call.args,
                      NEW idx \in Indices(types[i].shape)
               PROVE  /\ \A j \in DOMAIN Source(call.args[i], idx) :
                           Source(call.args[i], idx)[j] < call.args[i].shape[j]
                      /\ Offset(types[i], idx) = Offset(call.args[i], Source(call.args[i], idx))
    BY DEF ElementsKept
  <2> DEFINE u == call.args[i]
             y == types[i]
  <2>1. call \in Calls /\ Ready(acc, types, outer)
    BY DEF Applied, IInv, Values
  <2>2. i \in 1..NArgs
    BY <2>1, ValidCall
  <2>3. /\ u \in NDArrays /\ call.inner \in Nat /\ acc \in Shapes
        /\ call.inner <= NDim(u) /\ Fits(OuterShape(u), acc)
        /\ y = Broadcast(u, acc, call.inner, FALSE) \/ y = u
    BY <2>1, <2>2, ArgumentIs
  <2>4. idx \in Indices(y.shape)
    OBVIOUS
  <2> HIDE DEF u, y
  <2>5. /\ \A j \in DOMAIN Source(u, idx) : Source(u, idx)[j] < u.shape[j]
        /\ Offset(y, idx) = Offset(u, Source(u, idx))
    <3>1. CASE y = Broadcast(u, acc, call.inner, FALSE)
      <4>1. idx \in Indices(Broadcast(u, acc, call.inner, FALSE).shape)
        BY <2>4, <3>1
      <4>2. QED
        BY <2>3, <3>1, <4>1, ElementKept
    <3>2. CASE y = u
      <4>1. idx \in Indices(u.shape)
        BY <2>4, <3>2
      <4>2. QED
        BY <2>3, <3>2, <4>1, ElementSame
    <3>3. QED
      BY <2>3, <3>1, <3>2
  <2>6. QED
    BY <2>5 DEF u, y
<1>2. QED
  BY <1>1, Invariance, PTL

\* For all calls: no two indices of an output are the same place, if the output was
\* inferred, or given, checked and without repeated elements itself: ndt_broadcast_all()
\* and the fast type checks accept no output that they had to stretch.
THEOREM OutputsApart == Spec => []OutputsDisjoint
<1>1. IInv => OutputsDisjoint
  <2> SUFFICES ASSUME IInv, Applied, HasOut => call.check /\ Distinct(call.args[Out])
               PROVE  Distinct(types[Out])
    BY DEF OutputsDisjoint, Distinct
  <2>1. Ready(acc, types, outer)
    BY DEF Applied, IInv
  <2>2. CASE HasOut
    BY <2>1, <2>2 DEF Ready
  <2>3. CASE ~HasOut
    BY <2>1, <2>3 DEF Ready
  <2>4. QED
    BY <2>2, <2>3
<1>2. QED
  BY <1>1, Invariance, PTL
=============================================================================
