---------------------------- MODULE Split_proofs ----------------------------
(***************************************************************************)
(* xnd_split() for every shape and every number of parts: the rows that    *)
(* the recursion of split.c puts down tile the array.                      *)
(***************************************************************************)
EXTENDS Split, Recursion_proofs

-----------------------------------------------------------------------------
(* The parts that are dealt out.                                           *)

\* q = m \div n and r = m % n are what the proofs use of a division.
LEMMA DivMod ==
  ASSUME NEW m \in Nat, NEW n \in Nat \ {0}
  PROVE  /\ m \div n \in Nat
         /\ m % n \in 0..(n-1)
         /\ m = n * (m \div n) + (m % n)
OBVIOUS

\* q * i over the naturals, as the solver needs it: closed and distributive.
LEMMA Times ==
  ASSUME NEW i \in Nat, NEW q \in Nat
  PROVE  /\ i * q \in Nat
         /\ i * (q+1) = i*q + i
         /\ (i+1) * q = i*q + q
         /\ (i+1) * (q+1) = i*q + q + i + 1
OBVIOUS

\* A part ends where the next one starts: there is no gap and no overlap
\* between the slices of two neighbours (last_column()).
THEOREM PartsAreAdjacent ==
  ASSUME NEW q \in Nat, NEW r \in Nat, NEW i \in Nat
  PROVE  stop(i, r, q) = start(i+1, r, q)
<1>1. /\ (i+1) * (q+1) = i*q + q + i + 1
      /\ (i+1) * q = i*q + q
      /\ i * q \in Nat
  BY Times
<1>2. CASE i + 1 < r
  BY <1>2 DEF start, stop
<1>3. CASE i + 1 = r
  BY <1>1, <1>3 DEF start, stop
<1>4. CASE i + 1 > r
  BY <1>4 DEF start, stop
<1>5. QED
  BY <1>2, <1>3, <1>4

\* A part holds step(i) items: what column() hands down to the recursion is
\* what last_column() would have dealt out.
THEOREM PartSize ==
  ASSUME NEW q \in Nat, NEW r \in Nat, NEW i \in Nat
  PROVE  stop(i, r, q) - start(i, r, q) = step(i, r, q)
<1>1. /\ i * (q+1) = i*q + i
      /\ (i+1) * (q+1) = i*q + q + i + 1
      /\ (i+1) * q = i*q + q
      /\ i * q \in Nat
  BY Times
<1>2. CASE i < r
  BY <1>1, <1>2 DEF start, stop, step
<1>3. CASE ~(i < r)
  BY <1>1, <1>3 DEF start, stop, step
<1>4. QED
  BY <1>2, <1>3

\* The n parts of m items start at 0, end at m, follow each other without a
\* gap, are not empty when n <= m, and differ by at most one item.
THEOREM PartsTile ==
  ASSUME NEW m \in Nat, NEW n \in Nat \ {0}
  PROVE  LET q == m \div n
             r == m % n
         IN  /\ start(0, r, q) = 0
             /\ stop(n-1, r, q) = m
             /\ \A i \in 0..(n-1) :
                  /\ stop(i, r, q) = start(i+1, r, q)
                  /\ n <= m => start(i, r, q) < stop(i, r, q)
                  /\ stop(i, r, q) - start(i, r, q) \in {q, q+1}
<1> DEFINE q == m \div n
           r == m % n
<1>1. /\ q \in Nat
      /\ r \in 0..(n-1)
      /\ m = n * q + r
  BY DivMod
<1> HIDE DEF q, r
<1>2. start(0, r, q) = 0
  BY <1>1, 0 * (q+1) = 0, 0 * q = 0 DEF start
<1>3. stop(n-1, r, q) = m
  <2>1. (n-1) + 1 = n
    OBVIOUS
  <2>2. ~(n-1 < r)
    BY <1>1
  <2>3. stop(n-1, r, q) = r + n*q
    BY <2>1, <2>2 DEF stop
  <2>4. n * q \in Nat
    BY <1>1, Times
  <2>5. QED
    BY <1>1, <2>3, <2>4
<1>4. ASSUME NEW i \in 0..(n-1)
      PROVE  /\ stop(i, r, q) = start(i+1, r, q)
             /\ n <= m => start(i, r, q) < stop(i, r, q)
             /\ stop(i, r, q) - start(i, r, q) \in {q, q+1}
  <2>1. i \in Nat /\ r \in Nat
    BY <1>1
  <2>2. stop(i, r, q) = start(i+1, r, q)
    BY <1>1, <2>1, PartsAreAdjacent
  <2>3. stop(i, r, q) - start(i, r, q) = step(i, r, q)
    BY <1>1, <2>1, PartSize
  <2>4. start(i, r, q) \in Int /\ stop(i, r, q) \in Int
    <3>1. /\ i * (q+1) = i*q + i
          /\ (i+1) * (q+1) = i*q + q + i + 1
          /\ (i+1) * q = i*q + q
          /\ i * q \in Nat
      BY <1>1, <2>1, Times
    <3>2. QED
      BY <1>1, <2>1, <3>1 DEF start, stop
  <2>5. n <= m => q >= 1
    <3>1. SUFFICES ASSUME n <= m, q = 0
                   PROVE  FALSE
      BY <1>1
    <3>2. m = r
      BY <1>1, <3>1, n * 0 = 0
    <3>3. QED
      BY <1>1, <3>1, <3>2
  <2>6. step(i, r, q) \in {q, q+1}
    BY DEF step
  <2>7. QED
    BY <1>1, <2>2, <2>3, <2>4, <2>5, <2>6
<1>5. QED
  BY <1>2, <1>3, <1>4 DEF q, r

-----------------------------------------------------------------------------
(* The recursive functions of SplitSchedule satisfy their definitions.     *)

\* Extents of dimensions (and numbers of parts), and index ranges <<start, stop>>.
Extents == Nat \ {0}
Ranges == Int \X Int

\* The number of elements of the last k dimensions, for each k.
LEMMA VolumeRec ==
  ASSUME NEW s \in Seq(Extents)
  PROVE  /\ Volume(s) \in [0..Len(s) -> Extents]
         /\ Volume(s)[0] = 1
         /\ \A k \in 1..Len(s) : Volume(s)[k] = s[Len(s)-k+1] * Volume(s)[k-1]
<1> DEFINE N == Len(s)
           H == [k \in 1..N |-> [x \in Extents |-> s[N-k+1] * x]]
           Body(g) == [k \in 0..N |-> IF k = 0 THEN 1 ELSE s[N-k+1] * g[k-1]]
<1>1. N \in Nat /\ \A k \in 1..N : s[N-k+1] \in Extents
  OBVIOUS
<1>2. H \in [1..N -> [Extents -> Extents]]
  <2>1. ASSUME NEW k \in 1..N, NEW x \in Extents PROVE s[N-k+1] * x \in Extents
    BY <1>1 DEF Extents
  <2>2. QED
    BY <2>1
<1>3. 1 \in Extents
  BY DEF Extents
<1> HIDE DEF N
<1>4. PICK g \in [0..N -> Extents] : g[0] = 1 /\ \A k \in 1..N : g[k] = H[k][g[k-1]]
  <2> HIDE DEF H
  <2>1. \E g \in [0..N -> Extents] : Follows(g, N, 1, H)
    BY <1>1, <1>2, <1>3, RecursionExists
  <2>2. QED
    BY <2>1 DEF Follows
<1>5. \A k \in 1..N : g[k] = s[N-k+1] * g[k-1]
  <2> SUFFICES ASSUME NEW k \in 1..N PROVE g[k] = s[N-k+1] * g[k-1]
    OBVIOUS
  <2>1. g[k-1] \in Extents
    BY <1>1
  <2>2. QED
    BY <1>4, <2>1
<1>6. g = Body(g)
  <2>1. \A k \in 0..N : g[k] = Body(g)[k]
    BY <1>1, <1>4, <1>5
  <2>2. QED
    BY <2>1
<1>7. Volume(s) = Body(Volume(s))
  <2>1. Volume(s) = CHOOSE f : f = Body(f)
    BY DEF Volume, N
  <2> HIDE DEF Body
  <2>2. QED
    BY <1>6, <2>1
<1> DEFINE v == Volume(s)
<1> HIDE DEF v
<1>8. v = Body(v)
  BY <1>7 DEF v
<1>9. v[0] = 1 /\ \A k \in 1..N : v[k] = s[N-k+1] * v[k-1]
  BY <1>1, <1>8
<1>10. v \in [0..N -> Extents]
  <2>1. \A k \in 0..N : v[k] = g[k]
    <3> DEFINE T == {k \in 0..N : v[k] = g[k]}
    <3>1. 0 \in T
      BY <1>1, <1>4, <1>9
    <3>2. ASSUME NEW n \in 0..(N-1), n \in T PROVE n+1 \in T
      <4>1. n+1 \in 1..N /\ (n+1)-1 = n /\ v[n] = g[n]
        BY <1>1, <3>2
      <4>2. v[n+1] = s[N-(n+1)+1] * v[n] /\ g[n+1] = s[N-(n+1)+1] * g[n]
        BY <1>5, <1>9, <4>1
      <4>3. QED
        BY <1>1, <4>1, <4>2
    <3> HIDE DEF T
    <3>3. \A n \in 0..N : n \in T
      BY <1>1, <3>1, <3>2, UpTo
    <3>4. QED
      BY <3>3 DEF T
  <2>2. QED
    BY <1>8, <2>1
<1>11. QED
  BY <1>9, <1>10 DEF v, N

\* The first position of a row, range by range from its end.
LEMMA FirstRec ==
  ASSUME NEW K \in Nat, NEW k \in 0..K, NEW vol \in [0..K -> Extents],
         NEW r \in Seq(Ranges), Len(r) <= k
  PROVE  \E f \in [0..Len(r) -> Int] :
           /\ f[0] = 0
           /\ \A j \in 1..Len(r) : f[j] = r[Len(r)-j+1][1] * vol[k-Len(r)+j-1] + f[j-1]
           /\ RowFirst(vol, k, r) = f[Len(r)]
<1> DEFINE N == Len(r)
           E(j, x) == r[N-j+1][1] * vol[k-N+j-1] + x
           H == [j \in 1..N |-> [x \in Int |-> E(j, x)]]
           Body(g) == [j \in 0..N |-> IF j = 0 THEN 0 ELSE E(j, g[j-1])]
<1>1. N \in Nat /\ 0 \in Int
  BY LenProperties
<1>2. ASSUME NEW j \in 1..N, NEW x \in Int PROVE E(j, x) \in Int
  <2>1. r[N-j+1] \in Int \X Int
    BY DEF Ranges
  <2>2. r[N-j+1][1] \in Int /\ r[N-j+1][2] \in Int
    BY <2>1
  <2>3. vol[k-N+j-1] \in Nat
    <3>1. k-N+j-1 \in 0..K
      BY <1>1
    <3>2. QED
      BY <3>1 DEF Extents
  <2>4. QED
    BY <2>2, <2>3
<1>3. H \in [1..N -> [Int -> Int]]
  BY <1>2
<1>4. PICK g \in [0..N -> Int] : g[0] = 0 /\ \A j \in 1..N : g[j] = E(j, g[j-1])
  <2>1. \E g \in [0..N -> Int] : Follows(g, N, 0, H)
    <3> HIDE DEF H, N, E
    <3>1. QED
      BY <1>1, <1>3, RecursionExists
  <2>2. PICK g \in [0..N -> Int] : Follows(g, N, 0, H)
    BY <2>1
  <2>3. ASSUME NEW j \in 1..N PROVE g[j] = E(j, g[j-1])
    <3> HIDE DEF E, N, H
    <3>1. g[j-1] \in Int
      BY <1>1
    <3>2. g[j] = H[j][g[j-1]]
      BY <2>2 DEF Follows
    <3>3. QED
      BY <3>1, <3>2 DEF H
  <2>4. QED
    BY <2>2, <2>3 DEF Follows
<1> HIDE DEF E, N
<1>5. g = Body(g)
  <2>1. \A j \in 0..N : g[j] = Body(g)[j]
    BY <1>1, <1>4
  <2>2. QED
    BY <2>1
<1> DEFINE v == CHOOSE f : f = Body(f)
<1>6. v = Body(v)
  <2> HIDE DEF Body
  <2>1. QED
    BY <1>5
<1>7. RowFirst(vol, k, r) = v[N]
  BY DEF RowFirst, N, E
<1> HIDE DEF v
<1>8. v[0] = 0 /\ \A j \in 1..N : v[j] = E(j, v[j-1])
  BY <1>1, <1>6
<1>9. \A j \in 0..N : v[j] = g[j]
  <2> DEFINE T == {j \in 0..N : v[j] = g[j]}
  <2>1. 0 \in T
    BY <1>1, <1>4, <1>8
  <2>2. ASSUME NEW n \in 0..(N-1), n \in T PROVE n+1 \in T
    <3>1. n+1 \in 1..N /\ (n+1)-1 = n /\ v[n] = g[n]
      BY <1>1, <2>2
    <3>2. v[n+1] = E(n+1, v[n]) /\ g[n+1] = E(n+1, g[n])
      BY <1>4, <1>8, <3>1
    <3>3. QED
      BY <1>1, <3>1, <3>2
  <2> HIDE DEF T
  <2>3. \A n \in 0..N : n \in T
    BY <1>1, <2>1, <2>2, UpTo
  <2>4. QED
    BY <2>3 DEF T
<1>10. g[N] = v[N]
  BY <1>1, <1>9
<1>11. QED
  BY <1>4, <1>7, <1>10 DEF E, N

\* The number of positions of a row, range by range from its end.
LEMMA SizeRec ==
  ASSUME NEW K \in Nat, NEW k \in 0..K, NEW vol \in [0..K -> Extents],
         NEW r \in Seq(Ranges), Len(r) <= k
  PROVE  \E f \in [0..Len(r) -> Int] :
           /\ f[0] = vol[k-Len(r)]
           /\ \A j \in 1..Len(r) : f[j] = (r[Len(r)-j+1][2] - r[Len(r)-j+1][1]) * f[j-1]
           /\ RowSize(vol, k, r) = f[Len(r)]
<1> DEFINE N == Len(r)
           E(j, x) == (r[N-j+1][2] - r[N-j+1][1]) * x
           H == [j \in 1..N |-> [x \in Int |-> E(j, x)]]
           Body(g) == [j \in 0..N |-> IF j = 0 THEN vol[k-Len(r)] ELSE E(j, g[j-1])]
<1>1. N \in Nat /\ vol[k-Len(r)] \in Int
  BY LenProperties DEF Extents
<1>2. ASSUME NEW j \in 1..N, NEW x \in Int PROVE E(j, x) \in Int
  <2>1. r[N-j+1] \in Int \X Int
    BY DEF Ranges
  <2>2. r[N-j+1][1] \in Int /\ r[N-j+1][2] \in Int
    BY <2>1
  <2>3. QED
    BY <2>2
<1>3. H \in [1..N -> [Int -> Int]]
  BY <1>2
<1>4. PICK g \in [0..N -> Int] : g[0] = vol[k-Len(r)] /\ \A j \in 1..N : g[j] = E(j, g[j-1])
  <2>1. \E g \in [0..N -> Int] : Follows(g, N, vol[k-Len(r)], H)
    <3> HIDE DEF H, N, E
    <3>1. QED
      BY <1>1, <1>3, RecursionExists
  <2>2. PICK g \in [0..N -> Int] : Follows(g, N, vol[k-Len(r)], H)
    BY <2>1
  <2>3. ASSUME NEW j \in 1..N PROVE g[j] = E(j, g[j-1])
    <3> HIDE DEF E, N, H
    <3>1. g[j-1] \in Int
      BY <1>1
    <3>2. g[j] = H[j][g[j-1]]
      BY <2>2 DEF Follows
    <3>3. QED
      BY <3>1, <3>2 DEF H
  <2>4. QED
    BY <2>2, <2>3 DEF Follows
<1> HIDE DEF E, N
<1>5. g = Body(g)
  <2>1. \A j \in 0..N : g[j] = Body(g)[j]
    BY <1>1, <1>4
  <2>2. QED
    BY <2>1
<1> DEFINE v == CHOOSE f : f = Body(f)
<1>6. v = Body(v)
  <2> HIDE DEF Body
  <2>1. QED
    BY <1>5
<1>7. RowSize(vol, k, r) = v[N]
  BY DEF RowSize, N, E
<1> HIDE DEF v
<1>8. v[0] = vol[k-Len(r)] /\ \A j \in 1..N : v[j] = E(j, v[j-1])
  BY <1>1, <1>6
<1>9. \A j \in 0..N : v[j] = g[j]
  <2> DEFINE T == {j \in 0..N : v[j] = g[j]}
  <2>1. 0 \in T
    BY <1>1, <1>4, <1>8
  <2>2. ASSUME NEW n \in 0..(N-1), n \in T PROVE n+1 \in T
    <3>1. n+1 \in 1..N /\ (n+1)-1 = n /\ v[n] = g[n]
      BY <1>1, <2>2
    <3>2. v[n+1] = E(n+1, v[n]) /\ g[n+1] = E(n+1, g[n])
      BY <1>4, <1>8, <3>1
    <3>3. QED
      BY <1>1, <3>1, <3>2
  <2> HIDE DEF T
  <2>3. \A n \in 0..N : n \in T
    BY <1>1, <2>1, <2>2, UpTo
  <2>4. QED
    BY <2>3 DEF T
<1>10. g[N] = v[N]
  BY <1>1, <1>9
<1>11. QED
  BY <1>4, <1>7, <1>10 DEF E, N

\* A range in front of a row.
LEMMA RangeInFront ==
  ASSUME NEW S, NEW c \in S, NEW r \in Seq(S)
  PROVE  /\ <<c>> \o r \in Seq(S)
         /\ Len(<<c>> \o r) = Len(r) + 1
         /\ (<<c>> \o r)[1] = c
         /\ \A i \in 1..Len(r) : (<<c>> \o r)[i+1] = r[i]
<1> DEFINE h == <<c>>
<1>1. h \in Seq(S) /\ Len(h) = 1 /\ h[1] = c
  OBVIOUS
<1>2. Len(r) \in Nat
  BY LenProperties
<1> HIDE DEF h
<1>3. /\ h \o r \in Seq(S)
      /\ Len(h \o r) = Len(h) + Len(r)
      /\ \A i \in 1..(Len(h) + Len(r)) : (h \o r)[i] = IF i <= Len(h) THEN h[i] ELSE r[i - Len(h)]
  BY <1>1, ConcatProperties
<1>4. Len(h \o r) = Len(r) + 1 /\ (h \o r)[1] = c
  BY <1>1, <1>2, <1>3
<1>5. ASSUME NEW i \in 1..Len(r) PROVE (h \o r)[i+1] = r[i]
  <2>1. i+1 \in 1..(Len(h) + Len(r)) /\ ~(i+1 <= Len(h)) /\ i+1 - Len(h) = i
    BY <1>1, <1>2
  <2>2. QED
    BY <1>3, <2>1
<1>6. QED
  BY <1>3, <1>4, <1>5 DEF h

\* The row of a whole array starts at 0, that with one more range in front
\* further on by the elements before this range.
LEMMA FirstCons ==
  ASSUME NEW K \in Nat, NEW k \in 1..K, NEW vol \in [0..K -> Extents],
         NEW c \in Ranges, NEW r \in Seq(Ranges), Len(r) <= k-1
  PROVE  /\ RowFirst(vol, k-1, r) \in Int
         /\ RowFirst(vol, k, <<c>> \o r) = c[1] * vol[k-1] + RowFirst(vol, k-1, r)
<1> DEFINE e == <<c>> \o r
           L == Len(r)
<1>1. L \in Nat /\ e \in Seq(Ranges) /\ Len(e) = L + 1 /\ e[1] = c
  BY RangeInFront, LenProperties
<1>2. \A i \in 1..L : e[i+1] = r[i]
  BY RangeInFront
<1> HIDE DEF e
<1>3. PICK f \in [0..Len(e) -> Int] :
        /\ f[0] = 0
        /\ \A j \in 1..Len(e) : f[j] = e[Len(e)-j+1][1] * vol[k-Len(e)+j-1] + f[j-1]
        /\ RowFirst(vol, k, e) = f[Len(e)]
  <2>1. Len(e) <= k /\ k \in 0..K
    BY <1>1
  <2>2. QED
    BY <1>1, <2>1, FirstRec
<1>4. PICK g \in [0..Len(r) -> Int] :
        /\ g[0] = 0
        /\ \A j \in 1..Len(r) : g[j] = r[Len(r)-j+1][1] * vol[(k-1)-Len(r)+j-1] + g[j-1]
        /\ RowFirst(vol, k-1, r) = g[Len(r)]
  <2>1. k-1 \in 0..K
    OBVIOUS
  <2>2. QED
    BY <2>1, FirstRec
<1> HIDE DEF L
<1>5. \A j \in 0..L : f[j] = g[j]
  <2> DEFINE T == {j \in 0..L : f[j] = g[j]}
  <2>1. 0 \in T
    BY <1>1, <1>3, <1>4
  <2>2. ASSUME NEW n \in 0..(L-1), n \in T PROVE n+1 \in T
    <3>1. f[n] = g[n] /\ n+1 \in 0..L
      BY <1>1, <2>2
    <3>2. f[n+1] = e[(L+1)-(n+1)+1][1] * vol[k-(L+1)+(n+1)-1] + f[(n+1)-1]
      BY <1>1, <1>3
    <3>3. g[n+1] = r[L-(n+1)+1][1] * vol[(k-1)-L+(n+1)-1] + g[(n+1)-1]
      <4>1. n+1 \in 1..L
        BY <1>1
      <4>2. QED
        BY <1>4, <4>1 DEF L
    <3>4. e[(L+1)-(n+1)+1] = r[L-(n+1)+1]
      <4>1. L-(n+1)+1 \in 1..L /\ (L-(n+1)+1) + 1 = (L+1)-(n+1)+1
        BY <1>1
      <4>2. QED
        BY <1>2, <4>1
    <3>5. k-(L+1)+(n+1)-1 = (k-1)-L+(n+1)-1 /\ (n+1)-1 = n
      BY <1>1
    <3>6. f[n+1] = g[n+1]
      BY <3>1, <3>2, <3>3, <3>4, <3>5
    <3>7. QED
      BY <3>1, <3>6
  <2> HIDE DEF T
  <2>3. \A n \in 0..L : n \in T
    BY <1>1, <2>1, <2>2, UpTo
  <2>4. QED
    BY <2>3 DEF T
<1>6. f[L+1] = c[1] * vol[k-1] + f[L]
  <2>1. f[L+1] = e[(L+1)-(L+1)+1][1] * vol[k-(L+1)+(L+1)-1] + f[(L+1)-1]
    BY <1>1, <1>3
  <2>2. (L+1)-(L+1)+1 = 1 /\ k-(L+1)+(L+1)-1 = k-1 /\ (L+1)-1 = L
    BY <1>1
  <2>3. QED
    BY <1>1, <2>1, <2>2
<1>7. g[L] \in Int /\ f[L] = g[L]
  BY <1>1, <1>4, <1>5 DEF L
<1>8. RowFirst(vol, k, e) = f[L+1] /\ RowFirst(vol, k-1, r) = g[L]
  BY <1>1, <1>3, <1>4 DEF L
<1>9. QED
  BY <1>6, <1>7, <1>8 DEF e

\* A row with one more range in front has the elements of the row for each index
\* in the range.
LEMMA SizeCons ==
  ASSUME NEW K \in Nat, NEW k \in 1..K, NEW vol \in [0..K -> Extents],
         NEW c \in Ranges, NEW r \in Seq(Ranges), Len(r) <= k-1
  PROVE  /\ RowSize(vol, k-1, r) \in Int
         /\ RowSize(vol, k, <<c>> \o r) = (c[2] - c[1]) * RowSize(vol, k-1, r)
<1> DEFINE e == <<c>> \o r
           L == Len(r)
<1>1. L \in Nat /\ e \in Seq(Ranges) /\ Len(e) = L + 1 /\ e[1] = c
  BY RangeInFront, LenProperties
<1>2. \A i \in 1..L : e[i+1] = r[i]
  BY RangeInFront
<1> HIDE DEF e
<1>3. PICK f \in [0..Len(e) -> Int] :
        /\ f[0] = vol[k-Len(e)]
        /\ \A j \in 1..Len(e) : f[j] = (e[Len(e)-j+1][2] - e[Len(e)-j+1][1]) * f[j-1]
        /\ RowSize(vol, k, e) = f[Len(e)]
  <2>1. Len(e) <= k /\ k \in 0..K
    BY <1>1
  <2>2. QED
    BY <1>1, <2>1, SizeRec
<1>4. PICK g \in [0..Len(r) -> Int] :
        /\ g[0] = vol[(k-1)-Len(r)]
        /\ \A j \in 1..Len(r) : g[j] = (r[Len(r)-j+1][2] - r[Len(r)-j+1][1]) * g[j-1]
        /\ RowSize(vol, k-1, r) = g[Len(r)]
  <2>1. k-1 \in 0..K
    OBVIOUS
  <2>2. QED
    BY <2>1, SizeRec
<1> HIDE DEF L
<1>5. \A j \in 0..L : f[j] = g[j]
  <2> DEFINE T == {j \in 0..L : f[j] = g[j]}
  <2>1. 0 \in T
    <3>1. k-(L+1) = (k-1)-L
      BY <1>1
    <3>2. QED
      BY <1>1, <1>3, <1>4, <3>1 DEF L
  <2>2. ASSUME NEW n \in 0..(L-1), n \in T PROVE n+1 \in T
    <3>1. f[n] = g[n] /\ n+1 \in 0..L
      BY <1>1, <2>2
    <3>2. f[n+1] = (e[(L+1)-(n+1)+1][2] - e[(L+1)-(n+1)+1][1]) * f[(n+1)-1]
      BY <1>1, <1>3
    <3>3. g[n+1] = (r[L-(n+1)+1][2] - r[L-(n+1)+1][1]) * g[(n+1)-1]
      BY <1>1, <1>4 DEF L
    <3>4. e[(L+1)-(n+1)+1] = r[L-(n+1)+1]
      <4>1. L-(n+1)+1 \in 1..L /\ (L-(n+1)+1) + 1 = (L+1)-(n+1)+1
        BY <1>1
      <4>2. QED
        BY <1>2, <4>1
    <3>5. (n+1)-1 = n
      BY <1>1
    <3>6. f[n+1] = g[n+1]
      BY <3>1, <3>2, <3>3, <3>4, <3>5
    <3>7. QED
      BY <3>1, <3>6
  <2> HIDE DEF T
  <2>3. \A n \in 0..L : n \in T
    BY <1>1, <2>1, <2>2, UpTo
  <2>4. QED
    BY <2>3 DEF T
<1>6. f[L+1] = (c[2] - c[1]) * f[L]
  <2>1. f[L+1] = (e[(L+1)-(L+1)+1][2] - e[(L+1)-(L+1)+1][1]) * f[(L+1)-1]
    <3>1. L+1 \in 1..Len(e)
      BY <1>1
    <3>2. f[L+1] = (e[Len(e)-(L+1)+1][2] - e[Len(e)-(L+1)+1][1]) * f[(L+1)-1]
      BY <1>3, <3>1
    <3>3. QED
      BY <1>1, <3>2
  <2>2. (L+1)-(L+1)+1 = 1 /\ (L+1)-1 = L
    BY <1>1
  <2>3. QED
    BY <1>1, <2>1, <2>2
<1>7. g[L] \in Int /\ f[L] = g[L]
  BY <1>1, <1>4, <1>5 DEF L
<1>8. RowSize(vol, k, e) = f[L+1] /\ RowSize(vol, k-1, r) = g[L]
  BY <1>1, <1>3, <1>4 DEF L
<1>9. QED
  BY <1>6, <1>7, <1>8 DEF e

\* A row without ranges is the whole array.
LEMMA IntervalOfWhole ==
  ASSUME NEW K \in Nat, NEW k \in 0..K, NEW vol \in [0..K -> Extents]
  PROVE  RowFirst(vol, k, << >>) = 0 /\ RowSize(vol, k, << >>) = vol[k]
<1> DEFINE e == << >>
<1>1. e \in Seq(Ranges) /\ Len(e) = 0 /\ Len(e) <= k /\ k - Len(e) = k
  BY EmptySeq
<1> HIDE DEF e
<1>2. PICK f \in [0..Len(e) -> Int] : f[0] = 0 /\ RowFirst(vol, k, e) = f[Len(e)]
  BY <1>1, FirstRec
<1>3. PICK g \in [0..Len(e) -> Int] : g[0] = vol[k-Len(e)] /\ RowSize(vol, k, e) = g[Len(e)]
  BY <1>1, SizeRec
<1>4. QED
  BY <1>1, <1>2, <1>3 DEF e

-----------------------------------------------------------------------------
(* The recursion of schedule() and column().                               *)

\* The rows and the blocks of rows of the schedule.
Rows == Seq(Ranges)
Blocks == Seq(Rows)

\* The number of parts handed down lies in the range of the schedule.
LEMMA StepInRange ==
  ASSUME NEW m \in Extents, NEW n \in Extents, n > m, NEW i \in 1..m
  PROVE  /\ step(i-1, n % m, n \div m) \in 1..n
         /\ n \div m \in Extents
         /\ n % m \in 0..(m-1)
         /\ n = m * (n \div m) + (n % m)
<1> DEFINE q == n \div m
           r == n % m
<1>1. q \in Nat /\ r \in 0..(m-1) /\ n = m * q + r
  BY DivMod DEF Extents
<1> HIDE DEF q, r
<1>2. q # 0
  <2> SUFFICES ASSUME q = 0 PROVE FALSE
    OBVIOUS
  <2>1. m * q = 0
    BY DEF Extents
  <2>2. QED
    BY <1>1, <2>1 DEF Extents
<1>3. m * q >= q /\ m * q \in Nat
  <2>1. m - 1 \in Nat /\ (m - 1) * q \in Nat
    BY <1>1 DEF Extents
  <2>2. m * q = (m-1) * q + q
    BY <1>1 DEF Extents
  <2>3. QED
    BY <1>1, <2>1, <2>2
<1>4. q + 1 <= n \/ r = 0
  BY <1>1, <1>3 DEF Extents
<1>5. step(i-1, r, q) \in 1..n
  BY <1>1, <1>2, <1>3, <1>4 DEF step, Extents
<1>6. QED
  BY <1>1, <1>2, <1>5 DEF q, r, Extents

\* What each part gets and what remains.
LEMMA QuotientType ==
  ASSUME NEW m \in Extents, NEW n \in Extents
  PROVE  m \div n \in Nat /\ m % n \in Nat
BY DivMod DEF Extents

\* last_column() fills rows with one range each.
LEMMA LastColumnType ==
  ASSUME NEW m \in Extents, NEW n \in Extents
  PROVE  LastColumn(m, n) \in Blocks /\ Len(LastColumn(m, n)) = n
<1> DEFINE q == m \div n
           r == m % n
<1>1. q \in Nat /\ r \in Nat
  BY DivMod DEF Extents
<1> HIDE DEF q, r
<1>2. ASSUME NEW i \in 1..n PROVE << <<start(i-1, r, q), stop(i-1, r, q)>> >> \in Rows
  <2>1. i-1 \in Nat /\ i \in Nat
    BY DEF Extents
  <2>2. start(i-1, r, q) \in Int /\ stop(i-1, r, q) \in Int
    BY <1>1, <2>1 DEF start, stop
  <2>3. <<start(i-1, r, q), stop(i-1, r, q)>> \in Ranges
    BY <2>2 DEF Ranges
  <2>4. QED
    BY <2>3 DEF Rows
<1> DEFINE R(i) == << <<start(i-1, r, q), stop(i-1, r, q)>> >>
<1>3. LastColumn(m, n) = [i \in 1..n |-> R(i)]
  BY DEF LastColumn, q, r
<1>4. \A i \in 1..n : R(i) \in Rows
  BY <1>2
<1> HIDE DEF R
<1>5. QED
  BY <1>3, <1>4 DEF Blocks, Extents

\* prepend() makes each row of a block longer by one range.
LEMMA PrependType ==
  ASSUME NEW i \in Int, NEW B \in Blocks
  PROVE  /\ Prepend(i, B) \in Blocks
         /\ Len(Prepend(i, B)) = Len(B)
         /\ \A k \in 1..Len(B) : Prepend(i, B)[k] = << <<i, i+1>> >> \o B[k]
<1>1. Len(B) \in Nat
  BY DEF Blocks
<1>2. ASSUME NEW k \in 1..Len(B) PROVE << <<i, i+1>> >> \o B[k] \in Rows
  <2>1. <<i, i+1>> \in Ranges /\ B[k] \in Seq(Ranges)
    BY DEF Ranges, Blocks, Rows
  <2>2. QED
    BY <2>1, RangeInFront DEF Rows
<1>3. QED
  BY <1>1, <1>2 DEF Prepend, Blocks

\* column() makes a block of the blocks below.
LEMMA ColumnType ==
  ASSUME NEW p \in Extents, NEW below \in [1..p -> Blocks], NEW m \in Extents, NEW n \in 1..p, n > m
  PROVE  /\ [i \in 1..m |-> Prepend(i-1, below[step(i-1, n % m, n \div m)])] \in [1..m -> Blocks]
         /\ Column(m, n, below) \in Blocks
<1> DEFINE seqs == [i \in 1..m |-> Prepend(i-1, below[step(i-1, n % m, n \div m)])]
<1>1. ASSUME NEW i \in 1..m PROVE Prepend(i-1, below[step(i-1, n % m, n \div m)]) \in Blocks
  <2>1. n \in Extents
    BY DEF Extents
  <2>2. step(i-1, n % m, n \div m) \in 1..n
    BY <2>1, StepInRange
  <2>3. step(i-1, n % m, n \div m) \in 1..p
    BY <2>1, <2>2 DEF Extents
  <2>4. below[step(i-1, n % m, n \div m)] \in Blocks /\ i-1 \in Int
    BY <2>3
  <2>5. QED
    BY <2>4, PrependType
<1>2. seqs \in [1..m -> Blocks]
  BY <1>1
<1>3. FlattenSeq(seqs) \in Blocks
  <2> HIDE DEF seqs
  <2>1. seqs \in [1..m -> Seq(Rows)] /\ m \in Nat \ {0}
    BY <1>2 DEF Blocks, Extents
  <2>2. PICK g \in [0..m -> Seq(Rows)] : Flattened(g, m, seqs)
    BY <2>1, FlattenRec
  <2>3. QED
    BY <2>1, <2>2 DEF Blocks, Flattened
<1>4. QED
  BY <1>2, <1>3 DEF Column

\* The blocks for the last k dimensions, from those for one dimension less.
LEMMA ScheduleRec ==
  ASSUME NEW s \in Seq(Extents), NEW p \in Extents
  PROVE  \E g \in [0..Len(s) -> [1..p -> Blocks]] :
           /\ \A n \in 1..p : g[0][n] = << << >> >>
           /\ \A k \in 1..Len(s) : \A n \in 1..p :
                g[k][n] = IF n <= s[Len(s)-k+1] THEN LastColumn(s[Len(s)-k+1], n)
                          ELSE Column(s[Len(s)-k+1], n, g[k-1])
           /\ Schedule(s, p) = g[Len(s)][p]
<1> DEFINE N == Len(s)
           V == [1..p -> Blocks]
           unit == << << >> >>
           E(k, x) == [n \in 1..p |-> IF n <= s[N-k+1] THEN LastColumn(s[N-k+1], n)
                                      ELSE Column(s[N-k+1], n, x)]
           a == [n \in 1..p |-> unit]
           H == [k \in 1..N |-> [x \in V |-> E(k, x)]]
           Body(f) == [k \in 0..N |-> [n \in 1..p |->
                         IF k = 0 THEN unit
                         ELSE IF n <= s[N-k+1] THEN LastColumn(s[N-k+1], n)
                              ELSE Column(s[N-k+1], n, f[k-1])]]
<1>1. N \in Nat /\ \A k \in 1..N : s[N-k+1] \in Extents
  BY LenProperties
<1>2. unit \in Blocks
  <2>1. << >> \in Rows
    BY EmptySeq DEF Rows
  <2>2. QED
    BY <2>1 DEF Blocks
<1> HIDE DEF unit, N
<1>3. a \in V
  BY <1>2
<1>4. ASSUME NEW k \in 1..N, NEW x \in V PROVE E(k, x) \in V
  <2> DEFINE m == s[N-k+1]
  <2>1. m \in Extents
    BY <1>1
  <2> HIDE DEF m
  <2>2. ASSUME NEW n \in 1..p
        PROVE  (IF n <= m THEN LastColumn(m, n) ELSE Column(m, n, x)) \in Blocks
    <3>1. n \in Extents
      BY DEF Extents
    <3>2. LastColumn(m, n) \in Blocks
      BY <2>1, <3>1, LastColumnType
    <3>3. n > m => Column(m, n, x) \in Blocks
      BY <2>1, ColumnType
    <3>4. QED
      BY <2>1, <3>1, <3>2, <3>3 DEF Extents
  <2>3. QED
    BY <2>2 DEF m
<1> HIDE DEF a, V, E
<1>5. H \in [1..N -> [V -> V]]
  BY <1>4
<1>6. PICK g \in [0..N -> V] : Follows(g, N, a, H)
  <2> HIDE DEF H
  <2>1. QED
    BY <1>1, <1>3, <1>5, RecursionExists
<1>7. g[0] = a /\ \A k \in 1..N : g[k] = E(k, g[k-1])
  <2>1. g[0] = a
    BY <1>6 DEF Follows
  <2>2. ASSUME NEW k \in 1..N PROVE g[k] = E(k, g[k-1])
    <3> HIDE DEF H
    <3>1. g[k-1] \in V
      BY <1>1
    <3>2. g[k] = H[k][g[k-1]]
      BY <1>6 DEF Follows
    <3>3. QED
      BY <3>1, <3>2 DEF H
  <2>3. QED
    BY <2>1, <2>2
<1>8. \A f : Body(f) = [k \in 0..N |-> IF k = 0 THEN a ELSE E(k, f[k-1])]
  BY DEF a, E
<1>9. g = Body(g)
  <2> HIDE DEF Body
  <2>1. g = [k \in 0..N |-> IF k = 0 THEN a ELSE E(k, g[k-1])]
    BY <1>1, <1>7
  <2>2. QED
    BY <1>8, <2>1
<1> DEFINE v == CHOOSE f : f = Body(f)
<1>10. v = Body(v)
  <2> HIDE DEF Body
  <2>1. QED
    BY <1>9
<1>11. Schedule(s, p) = v[N][p]
  BY DEF Schedule, N, unit
<1> HIDE DEF v, Body
<1>12. v[0] = a /\ \A k \in 1..N : v[k] = E(k, v[k-1])
  <2>1. v = [k \in 0..N |-> IF k = 0 THEN a ELSE E(k, v[k-1])]
    BY <1>8, <1>10
  <2>2. QED
    BY <1>1, <2>1
<1>13. \A k \in 0..N : v[k] = g[k]
  <2> DEFINE T == {k \in 0..N : v[k] = g[k]}
  <2>1. 0 \in T
    BY <1>1, <1>7, <1>12
  <2>2. ASSUME NEW n \in 0..(N-1), n \in T PROVE n+1 \in T
    <3>1. n+1 \in 1..N /\ (n+1)-1 = n /\ v[n] = g[n]
      BY <1>1, <2>2
    <3>2. v[n+1] = E(n+1, v[n]) /\ g[n+1] = E(n+1, g[n])
      BY <1>7, <1>12, <3>1
    <3>3. QED
      BY <1>1, <3>1, <3>2
  <2> HIDE DEF T
  <2>3. \A n \in 0..N : n \in T
    BY <1>1, <2>1, <2>2, UpTo
  <2>4. QED
    BY <2>3 DEF T
<1>14. v[N] = g[N]
  BY <1>1, <1>13
<1>15. \A n \in 1..p : g[0][n] = unit
  BY <1>7 DEF a
<1>16. ASSUME NEW k \in 1..N, NEW n \in 1..p
       PROVE  g[k][n] = IF n <= s[N-k+1] THEN LastColumn(s[N-k+1], n)
                        ELSE Column(s[N-k+1], n, g[k-1])
  BY <1>7 DEF E
<1>17. QED
  BY <1>11, <1>14, <1>15, <1>16 DEF N, V, unit

-----------------------------------------------------------------------------
(* Intervals that follow each other.                                       *)

\* Intervals from a to b, none of them empty, each starting where the one before ends.
Consecutive(t, a, b) ==
  /\ t \in Seq(Int \X Int) /\ Len(t) >= 1
  /\ t[1][1] = a /\ t[Len(t)][2] = b
  /\ \A i \in 1..Len(t) : t[i][1] < t[i][2]
  /\ \A i \in 1..(Len(t)-1) : t[i][2] = t[i+1][1]

\* What the proofs use of a sequence of intervals.
LEMMA IntervalType ==
  ASSUME NEW t, NEW a, NEW b, Consecutive(t, a, b)
  PROVE  /\ Len(t) \in Nat \ {0}
         /\ \A i \in 1..Len(t) : t[i] \in Int \X Int /\ t[i][1] \in Int /\ t[i][2] \in Int
         /\ a \in Int /\ b \in Int
<1>1. Len(t) \in Nat \ {0}
  BY DEF Consecutive
<1>2. ASSUME NEW i \in 1..Len(t) PROVE t[i] \in Int \X Int /\ t[i][1] \in Int /\ t[i][2] \in Int
  <2>1. t[i] \in Int \X Int
    BY DEF Consecutive
  <2>2. QED
    BY <2>1
<1>3. 1 \in 1..Len(t) /\ Len(t) \in 1..Len(t)
  BY <1>1
<1>4. a \in Int /\ b \in Int
  BY <1>2, <1>3 DEF Consecutive
<1>5. QED
  BY <1>1, <1>2, <1>4

\* Intervals that start where others end.
LEMMA ConsecutiveConcat ==
  ASSUME NEW t, NEW u, NEW a, NEW b, NEW c, Consecutive(t, a, b), Consecutive(u, b, c)
  PROVE  Consecutive(t \o u, a, c)
<1> DEFINE w == t \o u
           L == Len(t)
           M == Len(u)
<1>1. L \in Nat \ {0} /\ M \in Nat \ {0}
  BY IntervalType
<1>2. t \in Seq(Int \X Int) /\ u \in Seq(Int \X Int)
  BY DEF Consecutive
<1>3. /\ w \in Seq(Int \X Int) /\ Len(w) = L + M
      /\ \A i \in 1..(L+M) : w[i] = IF i <= L THEN t[i] ELSE u[i-L]
  <2> DEFINE S == Int \X Int
  <2>1. t \in Seq(S) /\ u \in Seq(S)
    BY <1>2
  <2> HIDE DEF S
  <2>2. /\ t \o u \in Seq(S) /\ Len(t \o u) = L + M
        /\ \A i \in 1..(L+M) : (t \o u)[i] = IF i <= L THEN t[i] ELSE u[i-L]
    BY ONLY <2>1, ConcatProperties
  <2>3. QED
    BY <2>2 DEF S
<1> HIDE DEF w
<1>4. \A i \in 1..L : w[i] = t[i]
  <2> SUFFICES ASSUME NEW i \in 1..L PROVE w[i] = t[i]
    OBVIOUS
  <2> HIDE DEF L, M
  <2>1. i \in 1..(L+M) /\ i <= L
    BY ONLY <1>1, i \in 1..L
  <2>2. QED
    BY ONLY <1>3, <2>1
<1>5. \A i \in 1..M : w[L+i] = u[i]
  <2> SUFFICES ASSUME NEW i \in 1..M PROVE w[L+i] = u[i]
    OBVIOUS
  <2>1. L+i \in 1..(L+M) /\ ~(L+i <= L) /\ (L+i)-L = i
    BY <1>1
  <2>2. QED
    BY <1>3, <2>1
<1>6. /\ t[1][1] = a /\ t[L][2] = b
      /\ \A i \in 1..L : t[i][1] < t[i][2]
      /\ \A i \in 1..(L-1) : t[i][2] = t[i+1][1]
  BY DEF Consecutive
<1>7. /\ u[1][1] = b /\ u[M][2] = c
      /\ \A i \in 1..M : u[i][1] < u[i][2]
      /\ \A i \in 1..(M-1) : u[i][2] = u[i+1][1]
  BY DEF Consecutive
<1> HIDE DEF L, M
<1>8. w[1][1] = a /\ w[L+M][2] = c
  BY <1>1, <1>4, <1>5, <1>6, <1>7
<1>9. ASSUME NEW i \in 1..(L+M) PROVE w[i][1] < w[i][2]
  <2>1. CASE i <= L
    BY <1>4, <1>6, <2>1
  <2>2. CASE i > L
    <3>1. i-L \in 1..M /\ L+(i-L) = i
      BY <1>1, <2>2
    <3>2. QED
      BY <1>5, <1>7, <3>1
  <2>3. QED
    BY <1>1, <2>1, <2>2
<1>10. ASSUME NEW i \in 1..(L+M-1) PROVE w[i][2] = w[i+1][1]
  <2>1. CASE i < L
    <3>1. i \in 1..L /\ i+1 \in 1..L /\ i \in 1..(L-1)
      BY <1>1, <2>1
    <3>2. QED
      BY <1>4, <1>6, <3>1
  <2>2. CASE i = L
    <3>1. i \in 1..L /\ 1 \in 1..M
      BY <1>1, <2>2
    <3>2. w[i] = t[L] /\ w[i+1] = u[1]
      BY <1>4, <1>5, <2>2, <3>1
    <3>3. QED
      BY <1>6, <1>7, <3>2
  <2>3. CASE i > L
    <3>1. i-L \in 1..(M-1) /\ i-L \in 1..M /\ (i-L)+1 \in 1..M /\ L+(i-L) = i /\ L+((i-L)+1) = i+1
      BY <1>1, <2>3
    <3>2. w[i] = u[i-L] /\ w[i+1] = u[(i-L)+1]
      BY <1>5, <3>1
    <3>3. QED
      BY <1>7, <3>1, <3>2
  <2>4. QED
    BY <1>1, <2>1, <2>2, <2>3
<1>11. /\ w \in Seq(Int \X Int) /\ Len(w) >= 1
       /\ w[1][1] = a /\ w[Len(w)][2] = c
       /\ \A i \in 1..Len(w) : w[i][1] < w[i][2]
       /\ \A i \in 1..(Len(w)-1) : w[i][2] = w[i+1][1]
  <2>1. Len(w) = L+M /\ Len(w) >= 1 /\ w \in Seq(Int \X Int)
    BY <1>1, <1>3
  <2>2. w[1][1] = a /\ w[Len(w)][2] = c
    BY <1>8, <2>1
  <2>3. \A i \in 1..Len(w) : w[i][1] < w[i][2]
    BY <1>9, <2>1
  <2>4. ASSUME NEW i \in 1..(Len(w)-1) PROVE w[i][2] = w[i+1][1]
    <3>1. i \in 1..(L+M-1)
      BY <1>1, <2>1
    <3>2. QED
      BY <1>10, <3>1
  <2>5. QED
    BY <2>1, <2>2, <2>3, <2>4
<1>12. Consecutive(w, a, c)
  BY <1>11 DEF Consecutive
<1>13. QED
  BY <1>12 DEF w

\* An interval ends before each later one starts.
LEMMA ConsecutiveOrder ==
  ASSUME NEW t, NEW a, NEW b, Consecutive(t, a, b), NEW i \in 1..Len(t), NEW j \in 1..Len(t), i < j
  PROVE  t[i][2] <= t[j][1]
<1> DEFINE L == Len(t)
           T == {n \in 0..L : n > i => t[i][2] <= t[n][1]}
<1>1. L \in Nat /\ \A n \in 1..L : t[n][1] \in Int /\ t[n][2] \in Int
  BY IntervalType
<1>2. /\ \A n \in 1..L : t[n][1] < t[n][2]
      /\ \A n \in 1..(L-1) : t[n][2] = t[n+1][1]
  BY DEF Consecutive
<1> HIDE DEF L
<1>3. 0 \in T
  BY <1>1
<1>4. ASSUME NEW n \in 0..(L-1), n \in T PROVE n+1 \in T
  <2> SUFFICES ASSUME n+1 > i PROVE t[i][2] <= t[n+1][1]
    BY <1>1
  <2>1. CASE n = i
    BY <1>1, <1>2, <2>1 DEF L
  <2>2. CASE n # i
    <3>1. n > i /\ n \in 1..L /\ n \in 1..(L-1) /\ n+1 \in 1..L
      BY <1>1, <2>2 DEF L
    <3>2. t[i][2] <= t[n][1] /\ t[n][1] < t[n][2] /\ t[n][2] = t[n+1][1]
      BY <1>2, <1>4, <3>1
    <3>3. QED
      BY <1>1, <3>1, <3>2 DEF L
  <2>3. QED
    BY <2>1, <2>2
<1> HIDE DEF T
<1>5. \A n \in 0..L : n \in T
  BY <1>1, <1>3, <1>4, UpTo
<1>6. j \in T
  BY <1>1, <1>5 DEF L
<1>7. QED
  BY <1>6 DEF T

\* Each number from a to b is in exactly one of the intervals.
LEMMA ConsecutiveOnce ==
  ASSUME NEW t, NEW a, NEW b, Consecutive(t, a, b), NEW x \in Int, a <= x, x < b
  PROVE  \E i \in 1..Len(t) : \A j \in 1..Len(t) : (t[j][1] <= x /\ x < t[j][2]) <=> j = i
<1> DEFINE L == Len(t)
           T == {n \in 0..L : n = 0 \/ t[n][2] <= x \/ \E i \in 1..n : t[i][1] <= x /\ x < t[i][2]}
<1>1. L \in Nat \ {0} /\ \A n \in 1..L : t[n][1] \in Int /\ t[n][2] \in Int
  BY IntervalType
<1>2. /\ \A n \in 1..(L-1) : t[n][2] = t[n+1][1]
      /\ t[1][1] = a /\ t[L][2] = b
  BY DEF Consecutive
<1>3. \A i, j \in 1..L : i < j => t[i][2] <= t[j][1]
  BY ConsecutiveOrder
<1> HIDE DEF L
<1>4. 0 \in T
  BY <1>1
<1>5. ASSUME NEW n \in 0..(L-1), n \in T PROVE n+1 \in T
  <2>1. n+1 \in 1..L /\ n+1 \in 0..L
    BY <1>1
  <2>2. CASE \E i \in 1..n : t[i][1] <= x /\ x < t[i][2]
    <3>1. \E i \in 1..(n+1) : t[i][1] <= x /\ x < t[i][2]
      BY <2>2
    <3>2. QED
      BY <2>1, <3>1
  <2>3. CASE n = 0 \/ t[n][2] <= x
    <3>1. t[n+1][1] <= x
      <4>1. CASE n = 0
        BY <1>2, <4>1
      <4>2. CASE n # 0
        <5>1. n \in 1..(L-1)
          BY <1>1, <4>2
        <5>2. QED
          BY <1>2, <2>3, <4>2, <5>1
      <4>3. QED
        BY <4>1, <4>2
    <3>2. t[n+1][2] <= x \/ x < t[n+1][2]
      BY <1>1, <2>1
    <3>3. x < t[n+1][2] => \E i \in 1..(n+1) : t[i][1] <= x /\ x < t[i][2]
      BY <2>1, <3>1
    <3>4. QED
      BY <2>1, <3>2, <3>3
  <2>4. QED
    BY <1>5, <2>2, <2>3
<1> HIDE DEF T
<1>6. \A n \in 0..L : n \in T
  BY <1>1, <1>4, <1>5, UpTo
<1>7. L \in T
  BY <1>1, <1>6
<1>8. PICK i \in 1..L : t[i][1] <= x /\ x < t[i][2]
  BY <1>1, <1>2, <1>7 DEF T
<1>9. ASSUME NEW j \in 1..L, t[j][1] <= x, x < t[j][2] PROVE j = i
  <2>1. ~(i < j) /\ ~(j < i)
    <3>1. i < j => t[i][2] <= t[j][1]
      BY <1>3
    <3>2. j < i => t[j][2] <= t[i][1]
      BY <1>3
    <3>3. t[i][1] \in Int /\ t[i][2] \in Int /\ t[j][1] \in Int /\ t[j][2] \in Int
      BY <1>1
    <3>4. QED
      BY <1>8, <1>9, <3>1, <3>2, <3>3
  <2>2. QED
    BY <2>1
<1>10. QED
  BY <1>8, <1>9 DEF L

-----------------------------------------------------------------------------
(* The rows of a block as consecutive intervals.                           *)

\* The rows of a block for the last k dimensions as intervals; a row is no longer
\* than these dimensions.
TilesOf(vol, k, B) == [i \in 1..Len(B) |-> Interval(vol, k, B[i])]
Short(B, k) == \A i \in 1..Len(B) : Len(B[i]) <= k

\* Rows c elements further on, for c indices of v elements.
LEMMA Shift ==
  ASSUME NEW c \in Int, NEW v \in Int
  PROVE  c * v \in Int /\ (c+1) * v = c * v + v /\ (c + 1 - c) * v = v
OBVIOUS

\* The positions of a row with a single index in front.
LEMMA IntervalPrepend ==
  ASSUME NEW K \in Nat, NEW k \in 1..K, NEW vol \in [0..K -> Extents],
         NEW c \in Int, NEW r \in Seq(Ranges), Len(r) <= k-1
  PROVE  LET old == Interval(vol, k-1, r)
             new == Interval(vol, k, << <<c, c+1>> >> \o r)
         IN  /\ old[1] \in Int /\ old[2] \in Int
             /\ new[1] = c * vol[k-1] + old[1]
             /\ new[2] = c * vol[k-1] + old[2]
<1> DEFINE F == RowFirst(vol, k-1, r)
           Z == RowSize(vol, k-1, r)
           e == <<c, c+1>>
           d == <<e>> \o r
<1>1. e \in Ranges /\ e[1] = c /\ e[2] = c+1
  BY DEF Ranges
<1> HIDE DEF e
<1>2. F \in Int /\ RowFirst(vol, k, d) = e[1] * vol[k-1] + F
  BY <1>1, FirstCons
<1>3. Z \in Int /\ RowSize(vol, k, d) = (e[2] - e[1]) * Z
  BY <1>1, SizeCons
<1> HIDE DEF F, Z, d
<1>4. (e[2] - e[1]) * Z = Z
  BY <1>1, <1>3, Shift
<1>5. vol[k-1] \in Int
  <2>1. k-1 \in 0..K
    OBVIOUS
  <2>2. QED
    BY <2>1 DEF Extents
<1>6. c * vol[k-1] \in Int
  BY <1>5, Shift
<1>7. Interval(vol, k-1, r) = <<F, F+Z>>
  BY DEF Interval, F, Z
<1>8. Interval(vol, k, d) = <<c * vol[k-1] + F, c * vol[k-1] + F + Z>>
  BY <1>1, <1>2, <1>3, <1>4 DEF Interval
<1>9. QED
  BY <1>2, <1>3, <1>6, <1>7, <1>8 DEF d, e

LEMMA IntervalPair ==
  ASSUME NEW vol, NEW k, NEW row
  PROVE  Interval(vol, k, row) = <<Interval(vol, k, row)[1], Interval(vol, k, row)[2]>>
BY DEF Interval

\* The rows of a block for index c follow those for the indices before it.
LEMMA PrependTiles ==
  ASSUME NEW K \in Nat, NEW k \in 1..K, NEW vol \in [0..K -> Extents],
         NEW c \in Int, NEW B \in Blocks, Short(B, k-1),
         Consecutive(TilesOf(vol, k-1, B), 0, vol[k-1])
  PROVE  /\ Short(Prepend(c, B), k)
         /\ Consecutive(TilesOf(vol, k, Prepend(c, B)), c * vol[k-1], (c+1) * vol[k-1])
<1> DEFINE P == Prepend(c, B)
           t == TilesOf(vol, k-1, B)
           u == TilesOf(vol, k, P)
           L == Len(B)
           V == vol[k-1]
<1>1. P \in Blocks /\ Len(P) = L /\ \A i \in 1..L : P[i] = << <<c, c+1>> >> \o B[i]
  BY PrependType
<1>2. L \in Nat /\ \A i \in 1..L : B[i] \in Seq(Ranges) /\ Len(B[i]) <= k-1 /\ Len(B[i]) \in Nat
  BY DEF Blocks, Rows, Short
<1>3. V \in Int /\ c * V \in Int /\ (c+1) * V = c * V + V
  <2>1. k-1 \in 0..K
    OBVIOUS
  <2>2. V \in Int
    BY <2>1 DEF Extents
  <2>3. QED
    BY <2>2, Shift
<1> HIDE DEF P, L
<1>4. ASSUME NEW i \in 1..L
      PROVE  /\ u[i] \in Int \X Int
             /\ t[i][1] \in Int /\ t[i][2] \in Int
             /\ u[i][1] = c * V + t[i][1] /\ u[i][2] = c * V + t[i][2]
  <2> DEFINE old == Interval(vol, k-1, B[i])
             new == Interval(vol, k, << <<c, c+1>> >> \o B[i])
  <2>1. B[i] \in Seq(Ranges) /\ Len(B[i]) <= k-1
    BY <1>2
  <2>2. /\ old[1] \in Int /\ old[2] \in Int
        /\ new[1] = c * V + old[1] /\ new[2] = c * V + old[2]
    BY <2>1, IntervalPrepend
  <2>3. t[i] = old /\ u[i] = new
    BY <1>1 DEF TilesOf, L
  <2>4. new \in Int \X Int
    <3>1. new = <<new[1], new[2]>>
      BY IntervalPair
    <3> HIDE DEF new, old
    <3>2. new[1] \in Int /\ new[2] \in Int
      <4> DEFINE d == c * V
      <4>1. d \in Int /\ old[1] \in Int /\ old[2] \in Int /\ new[1] = d + old[1] /\ new[2] = d + old[2]
        BY <1>3, <2>2
      <4> HIDE DEF d
      <4>2. QED
        BY ONLY <4>1
    <3>3. QED
      BY <3>1, <3>2
  <2> HIDE DEF old, new, t, u
  <2>5. QED
    BY <2>2, <2>3, <2>4
<1>5. ASSUME NEW i \in 1..L PROVE Len(P[i]) <= k
  <2>1. B[i] \in Seq(Ranges) /\ Len(B[i]) <= k-1 /\ <<c, c+1>> \in Ranges
    BY <1>2 DEF Ranges
  <2>2. Len(<< <<c, c+1>> >> \o B[i]) = Len(B[i]) + 1
    BY <2>1, RangeInFront
  <2>3. QED
    BY <1>1, <1>2, <2>2
<1>6. Len(t) = L /\ Len(u) = L
  BY <1>1, <1>2 DEF TilesOf, L
<1>7. u \in Seq(Int \X Int)
  <2>1. u = [i \in 1..L |-> u[i]]
    BY <1>1 DEF TilesOf
  <2> HIDE DEF u
  <2>2. QED
    BY <1>2, <1>4, <2>1
<1>8. /\ Len(t) >= 1 /\ t[1][1] = 0 /\ t[Len(t)][2] = V
      /\ \A i \in 1..Len(t) : t[i][1] < t[i][2]
      /\ \A i \in 1..(Len(t)-1) : t[i][2] = t[i+1][1]
  BY DEF Consecutive
<1> HIDE DEF t, u, V
<1>9. L >= 1 /\ 1 \in 1..L /\ L \in 1..L
  BY <1>2, <1>6, <1>8
<1>10. u[1][1] = c * V /\ u[L][2] = (c+1) * V
  BY <1>3, <1>4, <1>6, <1>8, <1>9
<1>11. ASSUME NEW i \in 1..L PROVE u[i][1] < u[i][2]
  <2>1. t[i][1] < t[i][2]
    BY <1>6, <1>8
  <2>2. QED
    BY <1>3, <1>4, <2>1
<1>12. ASSUME NEW i \in 1..(L-1) PROVE u[i][2] = u[i+1][1]
  <2>1. i \in 1..L /\ i+1 \in 1..L /\ t[i][2] = t[i+1][1]
    BY <1>2, <1>6, <1>8
  <2>2. QED
    BY <1>4, <2>1
<1>13. Consecutive(u, c * V, (c+1) * V)
  BY <1>6, <1>7, <1>9, <1>10, <1>11, <1>12 DEF Consecutive
<1>14. Short(P, k)
  BY <1>1, <1>5 DEF Short
<1>15. QED
  BY <1>13, <1>14 DEF P, u, V

\* Multiples of a positive number keep their order.
LEMMA Scale ==
  ASSUME NEW v \in Extents, NEW x \in Int, NEW y \in Int
  PROVE  /\ x * v \in Int /\ y * v \in Int
         /\ x * v + (y - x) * v = y * v
         /\ x < y => x * v < y * v
         /\ 0 * v = 0
<1>1. v \in Int /\ v >= 1
  BY DEF Extents
<1>2. x * v \in Int /\ y * v \in Int /\ (y - x) * v \in Int /\ 0 * v = 0
  BY <1>1
<1>3. x * v + (y - x) * v = y * v
  BY <1>1
<1>4. ASSUME x < y PROVE (y - x) * v >= 1
  <2>1. y - x >= 1 /\ y - x \in Nat /\ v \in Nat
    BY <1>1, <1>4
  <2>2. \A d \in Nat : d >= 1 => d * v >= 1
    <3> SUFFICES ASSUME NEW d \in Nat, d >= 1 PROVE d * v >= 1
      OBVIOUS
    <3>1. d * v = (d-1) * v + v /\ (d-1) * v \in Nat
      BY <2>1
    <3>2. QED
      BY <1>1, <3>1
  <2>3. QED
    BY <2>1, <2>2
<1>5. QED
  BY <1>2, <1>3, <1>4

\* The positions of a row that consists of one range.
LEMMA IntervalOfRange ==
  ASSUME NEW K \in Nat, NEW k \in 1..K, NEW vol \in [0..K -> Extents], NEW x \in Int, NEW y \in Int
  PROVE  LET new == Interval(vol, k, << <<x, y>> >>)
         IN  new = <<x * vol[k-1], y * vol[k-1]>>
<1> DEFINE e == <<x, y>>
           r == << >>
           d == <<e>> \o r
           V == vol[k-1]
<1>1. e \in Ranges /\ e[1] = x /\ e[2] = y
  BY DEF Ranges
<1>2. r \in Seq(Ranges) /\ Len(r) <= k-1
  BY EmptySeq
<1>3. d = <<e>>
  OBVIOUS
<1>4. k-1 \in 0..K
  OBVIOUS
<1>5. RowFirst(vol, k-1, r) = 0 /\ RowSize(vol, k-1, r) = V
  BY <1>4, IntervalOfWhole
<1>6. V \in Extents
  BY <1>4
<1> HIDE DEF e, r, V
<1>7. RowFirst(vol, k, d) = e[1] * V + 0
  BY <1>1, <1>2, <1>5, FirstCons DEF V
<1>8. RowSize(vol, k, d) = (e[2] - e[1]) * V
  BY <1>1, <1>2, <1>5, SizeCons
<1>9. x * V \in Int /\ x * V + (y - x) * V = y * V
  BY <1>6, Scale
<1> HIDE DEF d
<1>10. Interval(vol, k, d) = <<x * V, y * V>>
  BY <1>1, <1>7, <1>8, <1>9 DEF Interval
<1>11. QED
  BY <1>3, <1>10 DEF d, e, V

\* last_column() deals out all indices of a dimension.
LEMMA LastColumnTiles ==
  ASSUME NEW K \in Nat, NEW k \in 1..K, NEW vol \in [0..K -> Extents],
         NEW m \in Extents, NEW n \in Extents, n <= m
  PROVE  /\ Short(LastColumn(m, n), k)
         /\ Consecutive(TilesOf(vol, k, LastColumn(m, n)), 0, m * vol[k-1])
<1> DEFINE q == m \div n
           r == m % n
           S(i) == start(i-1, r, q)
           E(i) == stop(i-1, r, q)
           B == LastColumn(m, n)
           u == TilesOf(vol, k, B)
           V == vol[k-1]
<1>1. /\ S(1) = 0 /\ E(n) = m
      /\ \A i \in 1..n : S(i) < E(i)
      /\ \A i \in 1..(n-1) : E(i) = S(i+1)
  <2>1. /\ start(0, r, q) = 0
        /\ stop(n-1, r, q) = m
        /\ \A i \in 0..(n-1) : stop(i, r, q) = start(i+1, r, q) /\ start(i, r, q) < stop(i, r, q)
    BY PartsTile DEF Extents
  <2> HIDE DEF q, r
  <2>2. ASSUME NEW i \in 1..n PROVE S(i) < E(i)
    <3>1. i-1 \in 0..(n-1)
      BY DEF Extents
    <3>2. QED
      BY <2>1, <3>1
  <2>3. ASSUME NEW i \in 1..(n-1) PROVE E(i) = S(i+1)
    <3>1. i-1 \in 0..(n-1) /\ (i-1)+1 = (i+1)-1
      BY DEF Extents
    <3>2. QED
      BY <2>1, <3>1
  <2>4. QED
    BY <2>1, <2>2, <2>3
<1>2. ASSUME NEW i \in 1..n PROVE S(i) \in Int /\ E(i) \in Int
  <2>1. q \in Nat /\ r \in Nat
    BY QuotientType
  <2>2. i-1 \in Nat
    BY DEF Extents
  <2> HIDE DEF q, r
  <2>3. QED
    BY <2>1, <2>2 DEF start, stop
<1>3. Len(B) = n /\ \A i \in 1..n : B[i] = << <<S(i), E(i)>> >>
  <2> DEFINE R(i) == << <<S(i), E(i)>> >>
  <2>1. B = [i \in 1..n |-> R(i)]
    BY DEF LastColumn
  <2> HIDE DEF R, B, S, E
  <2>2. Len(B) = n /\ \A i \in 1..n : B[i] = R(i)
    BY <2>1 DEF Extents
  <2>3. QED
    BY <2>2 DEF R
<1>4. V \in Extents
  <2>1. k-1 \in 0..K
    OBVIOUS
  <2>2. QED
    BY <2>1
<1> HIDE DEF S, E, B, V
<1>5. u = [i \in 1..n |-> <<S(i) * V, E(i) * V>>]
  <2>1. ASSUME NEW i \in 1..n PROVE Interval(vol, k, B[i]) = <<S(i) * V, E(i) * V>>
    BY <1>2, <1>3, IntervalOfRange DEF V
  <2>2. QED
    BY <1>3, <2>1 DEF TilesOf
<1> HIDE DEF u
<1>6. ASSUME NEW i \in 1..n
      PROVE  S(i) * V \in Int /\ E(i) * V \in Int /\ S(i) * V < E(i) * V
  BY <1>1, <1>2, <1>4, Scale
<1>7. n \in Nat /\ n >= 1 /\ 1 \in 1..n /\ n \in 1..n
  BY DEF Extents
<1>8. u \in Seq(Int \X Int) /\ Len(u) = n
  BY <1>5, <1>6, <1>7
<1>9. \A i \in 1..n : u[i][1] = S(i) * V /\ u[i][2] = E(i) * V
  BY <1>5
<1>10. u[1][1] = 0 /\ u[n][2] = m * V
  <2>1. 0 * V = 0
    BY <1>4, Scale
  <2>2. QED
    BY <1>1, <1>7, <1>9, <2>1
<1>11. \A i \in 1..n : u[i][1] < u[i][2]
  BY <1>6, <1>9
<1>12. ASSUME NEW i \in 1..(n-1) PROVE u[i][2] = u[i+1][1]
  <2>1. i \in 1..n /\ i+1 \in 1..n
    BY <1>7
  <2>2. QED
    BY <1>1, <1>9, <2>1
<1>13. Consecutive(u, 0, m * V)
  BY <1>7, <1>8, <1>10, <1>11, <1>12 DEF Consecutive
<1>14. ASSUME NEW i \in 1..Len(B) PROVE Len(B[i]) <= k
  <2>1. B[i] = << <<S(i), E(i)>> >>
    BY <1>3
  <2>2. Len(B[i]) = 1
    BY <2>1
  <2>3. QED
    BY <2>2
<1>15. QED
  BY <1>13, <1>14 DEF u, V, B, Short

\* The intervals of two blocks, one after the other.
LEMMA ConcatTiles ==
  ASSUME NEW vol, NEW k, NEW B \in Blocks, NEW C \in Blocks, NEW a, NEW b, NEW c,
         Consecutive(TilesOf(vol, k, B), a, b), Consecutive(TilesOf(vol, k, C), b, c)
  PROVE  Consecutive(TilesOf(vol, k, B \o C), a, c)
<1> DEFINE t == TilesOf(vol, k, B)
           u == TilesOf(vol, k, C)
           w == TilesOf(vol, k, B \o C)
           L == Len(B)
           M == Len(C)
<1>1. /\ L \in Nat /\ M \in Nat
      /\ Len(B \o C) = L + M
      /\ \A i \in 1..(L+M) : (B \o C)[i] = IF i <= L THEN B[i] ELSE C[i-L]
  BY LenProperties, ConcatProperties DEF Blocks
<1>2. t \in Seq(Int \X Int) /\ u \in Seq(Int \X Int)
  BY DEF Consecutive
<1>3. Len(t) = L /\ Len(u) = M
  BY <1>1 DEF TilesOf
<1>4. /\ t \o u \in Seq(Int \X Int) /\ Len(t \o u) = L + M
      /\ \A i \in 1..(L+M) : (t \o u)[i] = IF i <= L THEN t[i] ELSE u[i-L]
  <2> HIDE DEF t, u, L, M
  <2>1. QED
    BY <1>2, <1>3, ConcatProperties
<1>5. ASSUME NEW i \in 1..(L+M) PROVE w[i] = (t \o u)[i]
  <2>1. w[i] = Interval(vol, k, (B \o C)[i])
    BY <1>1 DEF TilesOf
  <2>2. i <= L => t[i] = Interval(vol, k, B[i])
    BY <1>1 DEF TilesOf
  <2>3. ~(i <= L) => u[i-L] = Interval(vol, k, C[i-L])
    BY <1>1 DEF TilesOf
  <2> HIDE DEF t, u, w, L, M
  <2>4. QED
    BY <1>1, <1>4, <2>1, <2>2, <2>3
<1>6. w = t \o u
  <2>1. w = [i \in 1..(L+M) |-> w[i]]
    BY <1>1 DEF TilesOf
  <2>2. t \o u = [i \in 1..(L+M) |-> (t \o u)[i]]
    <3> HIDE DEF t, u, L, M
    <3>1. QED
      BY <1>4, LenProperties
  <2> HIDE DEF t, u, w, L, M
  <2>3. QED
    BY <1>5, <2>1, <2>2
<1> HIDE DEF t, u, w
<1>7. Consecutive(t, a, b) /\ Consecutive(u, b, c)
  BY DEF t, u
<1>8. Consecutive(t \o u, a, c)
  BY <1>7, ConsecutiveConcat
<1>9. QED
  BY <1>6, <1>8 DEF w

-----------------------------------------------------------------------------
(* The number of rows.                                                     *)

\* As many as asked for, or as there are.
Fewer(a, b) == IF a <= b THEN a ELSE b

\* The rows of the first i blocks of a column with n parts, where v elements are
\* left for each block: all v, or as many as they were asked for.
Before(i, m, n, v) ==
  IF n \div m >= v THEN i * v ELSE start(i, n % m, n \div m)

\* The blocks of a column add up to n rows, or to one row for each element.
LEMMA ColumnRows ==
  ASSUME NEW m \in Extents, NEW n \in Extents, n > m, NEW v \in Extents
  PROVE  /\ Before(0, m, n, v) = 0
         /\ \A i \in 1..m :
              /\ Before(i-1, m, n, v) \in Int
              /\ Before(i, m, n, v) = Before(i-1, m, n, v) + Fewer(step(i-1, n % m, n \div m), v)
         /\ Before(m, m, n, v) = Fewer(n, m * v)
<1> DEFINE q == n \div m
           r == n % m
<1>1. q \in Nat /\ r \in 0..(m-1) /\ n = m * q + r
  BY DivMod DEF Extents
<1> HIDE DEF q, r
<1>2. \A i \in Nat : Before(i, m, n, v) = IF q >= v THEN i * v ELSE start(i, r, q)
  BY DEF Before, q, r
<1>3. v \in Nat /\ v >= 1 /\ m \in Nat /\ m >= 1 /\ n \in Nat
  BY DEF Extents
<1>4. Before(0, m, n, v) = 0
  <2>1. 0 * v = 0 /\ 0 * (q+1) = 0 /\ 0 * q = 0
    BY <1>1, <1>3
  <2>2. start(0, r, q) = 0
    BY <1>1, <2>1 DEF start
  <2>3. QED
    BY <1>2, <2>1, <2>2
<1>5. ASSUME NEW i \in 1..m
      PROVE  /\ Before(i-1, m, n, v) \in Int
             /\ Before(i, m, n, v) = Before(i-1, m, n, v) + Fewer(step(i-1, r, q), v)
  <2> DEFINE j == i-1
  <2>1. j \in Nat /\ i = j+1 /\ i \in Nat
    OBVIOUS
  <2> HIDE DEF j
  <2>2. step(j, r, q) \in {q, q+1}
    BY DEF step
  <2>3. CASE q >= v
    <3>1. Fewer(step(j, r, q), v) = v
      BY <1>1, <1>3, <2>2, <2>3 DEF Fewer
    <3>2. Before(i, m, n, v) = (j+1) * v /\ Before(j, m, n, v) = j * v
      BY <1>2, <2>1, <2>3
    <3>3. j * v \in Int /\ (j+1) * v = j * v + v
      BY <1>3, <2>1, Shift
    <3>4. QED
      BY <2>1, <3>1, <3>2, <3>3 DEF j
  <2>4. CASE ~(q >= v)
    <3>1. Fewer(step(j, r, q), v) = step(j, r, q)
      BY <1>1, <1>3, <2>2, <2>4 DEF Fewer
    <3>2. Before(i, m, n, v) = start(j+1, r, q) /\ Before(j, m, n, v) = start(j, r, q)
      BY <1>2, <2>1, <2>4
    <3>3. stop(j, r, q) = start(j+1, r, q) /\ stop(j, r, q) - start(j, r, q) = step(j, r, q)
      BY <1>1, <2>1, PartsAreAdjacent, PartSize
    <3>4. start(j, r, q) \in Int /\ start(j+1, r, q) \in Int
      <4>1. \A x \in Nat : x * (q+1) \in Int /\ x * q \in Int
        BY <1>1
      <4>2. j+1 \in Nat
        BY <2>1
      <4>3. \A x \in Nat : start(x, r, q) \in Int
        BY <1>1, <4>1 DEF start
      <4>4. QED
        BY <2>1, <4>2, <4>3
    <3>5. start(j+1, r, q) = start(j, r, q) + step(j, r, q)
      BY <1>1, <2>2, <3>3, <3>4
    <3>6. QED
      BY <3>1, <3>2, <3>4, <3>5 DEF j
  <2>5. QED
    BY <2>3, <2>4
<1>6. Before(m, m, n, v) = Fewer(n, m * v)
  <2>1. m * v \in Nat /\ m * q \in Nat
    BY <1>1, <1>3
  <2>2. CASE q >= v
    <3>1. m * q = m * v + m * (q - v) /\ m * (q - v) \in Nat
      <4>1. q - v \in Nat
        BY <1>1, <1>3, <2>2
      <4>2. QED
        BY <1>1, <1>3, <4>1
    <3>2. m * v <= n
      BY <1>1, <2>1, <3>1
    <3>3. QED
      BY <1>2, <1>3, <2>1, <2>2, <3>2 DEF Fewer
  <2>3. CASE ~(q >= v)
    <3>1. m * v = m * q + m + m * (v - q - 1) /\ m * (v - q - 1) \in Nat
      <4>1. v - q - 1 \in Nat
        BY <1>1, <1>3, <2>3
      <4>2. QED
        BY <1>1, <1>3, <4>1
    <3>2. n <= m * v
      BY <1>1, <1>3, <2>1, <3>1
    <3>3. start(m, r, q) = r + m * q
      BY <1>1, <1>3 DEF start
    <3>4. QED
      BY <1>1, <1>2, <1>3, <2>1, <2>3, <3>2, <3>3 DEF Fewer
  <2>4. QED
    BY <2>2, <2>3
<1>7. QED
  BY <1>4, <1>5, <1>6 DEF q, r

\* What is said of the block for n parts of the last k dimensions: it has as many
\* rows as it can, and they tile these dimensions in order.
BlockOK(vol, k, n, B) ==
  /\ B \in Blocks
  /\ Short(B, k)
  /\ Len(B) = Fewer(n, vol[k])
  /\ Consecutive(TilesOf(vol, k, B), 0, vol[k])

\* The first i blocks of a column.
PrefixOK(vol, k, m, n, B, i) ==
  /\ B \in Blocks
  /\ Short(B, k)
  /\ Len(B) = Before(i, m, n, vol[k-1])
  /\ i # 0 => Consecutive(TilesOf(vol, k, B), 0, i * vol[k-1])

\* One more block.
LEMMA PrefixNext ==
  ASSUME NEW K \in Nat, NEW k \in 1..K, NEW vol \in [0..K -> Extents],
         NEW m \in Extents, NEW n \in Extents, n > m, NEW i \in 1..m,
         NEW B, PrefixOK(vol, k, m, n, B, i-1), i = 1 => B = << >>,
         NEW C, BlockOK(vol, k-1, step(i-1, n % m, n \div m), C)
  PROVE  PrefixOK(vol, k, m, n, B \o Prepend(i-1, C), i)
<1> DEFINE P == Prepend(i-1, C)
           V == vol[k-1]
<1>1. V \in Extents
  <2>1. k-1 \in 0..K
    OBVIOUS
  <2>2. QED
    BY <2>1
<1>2. i-1 \in Int /\ (i-1)+1 = i /\ C \in Blocks
  BY DEF BlockOK
<1>3. P \in Blocks /\ Len(P) = Len(C) /\ B \in Blocks
  BY <1>2, PrependType DEF PrefixOK
<1>4. Short(P, k) /\ Consecutive(TilesOf(vol, k, P), (i-1) * V, ((i-1)+1) * V)
  BY <1>2, PrependTiles DEF BlockOK
<1> HIDE DEF P, V
<1>5. /\ B \o P \in Blocks /\ Len(B) \in Nat /\ Len(P) \in Nat
      /\ Len(B \o P) = Len(B) + Len(P)
      /\ \A j \in 1..(Len(B) + Len(P)) : (B \o P)[j] = IF j <= Len(B) THEN B[j] ELSE P[j - Len(B)]
  <2>1. B \in Seq(Rows) /\ P \in Seq(Rows)
    BY <1>3 DEF Blocks
  <2>2. Len(B) \in Nat /\ Len(P) \in Nat
    BY <2>1, LenProperties
  <2>3. /\ B \o P \in Seq(Rows)
        /\ Len(B \o P) = Len(B) + Len(P)
        /\ \A j \in 1..(Len(B) + Len(P)) : (B \o P)[j] = IF j <= Len(B) THEN B[j] ELSE P[j - Len(B)]
    BY <2>1, ConcatProperties
  <2>4. QED
    BY <2>2, <2>3 DEF Blocks
<1>6. Short(B \o P, k)
  <2>1. ASSUME NEW j \in 1..Len(B \o P) PROVE Len((B \o P)[j]) <= k
    <3>1. CASE j <= Len(B)
      <4>1. j \in 1..Len(B) /\ (B \o P)[j] = B[j]
        BY <1>5, <3>1
      <4>2. QED
        BY <4>1 DEF PrefixOK, Short
    <3>2. CASE ~(j <= Len(B))
      <4>1. j - Len(B) \in 1..Len(P) /\ (B \o P)[j] = P[j - Len(B)]
        BY <1>5, <3>2
      <4>2. QED
        BY <1>4, <4>1 DEF Short
    <3>3. QED
      BY <3>1, <3>2
  <2>2. QED
    BY <2>1 DEF Short
<1>7. Len(B \o P) = Before(i, m, n, V)
  <2>1. Len(B) = Before(i-1, m, n, V) /\ Len(P) = Fewer(step(i-1, n % m, n \div m), V)
    BY <1>3 DEF PrefixOK, BlockOK, V
  <2>2. Before(i, m, n, V) = Before(i-1, m, n, V) + Fewer(step(i-1, n % m, n \div m), V)
    BY <1>1, ColumnRows
  <2>3. QED
    BY <1>5, <2>1, <2>2
<1>8. Consecutive(TilesOf(vol, k, B \o P), 0, i * V)
  <2>1. CASE i = 1
    <3>1. B \o P = P
      BY <1>3, <2>1, ConcatEmptySeq DEF Blocks
    <3>2. (i-1) * V = 0
      BY <1>1, <2>1 DEF Extents
    <3>3. QED
      BY <1>2, <1>4, <3>1, <3>2
  <2>2. CASE i # 1
    <3>1. Consecutive(TilesOf(vol, k, B), 0, (i-1) * V)
      BY <2>2 DEF PrefixOK, V
    <3>2. Consecutive(TilesOf(vol, k, P), (i-1) * V, i * V)
      BY <1>2, <1>4
    <3>3. QED
      BY <1>3, <3>1, <3>2, ConcatTiles
  <2>3. QED
    BY <2>1, <2>2
<1>9. PrefixOK(vol, k, m, n, B \o P, i)
  BY <1>5, <1>6, <1>7, <1>8 DEF PrefixOK, V
<1>10. QED
  BY <1>9 DEF P

\* column() puts together as many rows as it can, in order.
LEMMA ColumnOK ==
  ASSUME NEW K \in Nat, NEW k \in 1..K, NEW vol \in [0..K -> Extents],
         NEW p \in Extents, NEW below \in [1..p -> Blocks],
         \A j \in 1..p : BlockOK(vol, k-1, j, below[j]),
         NEW m \in Extents, NEW n \in 1..p, n > m, vol[k] = m * vol[k-1]
  PROVE  BlockOK(vol, k, n, Column(m, n, below))
<1> DEFINE St(i) == step(i-1, n % m, n \div m)
           P(i) == Prepend(i-1, below[St(i)])
           seqs == [i \in 1..m |-> P(i)]
<1>1. n \in Extents /\ m \in Nat \ {0} /\ p \in Nat
  BY DEF Extents
<1>2. \A i \in 1..m : St(i) \in 1..p
  <2> SUFFICES ASSUME NEW i \in 1..m PROVE St(i) \in 1..p
    OBVIOUS
  <2>1. St(i) \in 1..n
    BY <1>1, StepInRange
  <2> HIDE DEF St
  <2>2. QED
    BY <1>1, <2>1
<1>3. seqs \in [1..m -> Seq(Rows)]
  <2>1. p \in Extents /\ below \in [1..p -> Blocks] /\ m \in Extents /\ n \in 1..p /\ n > m
    OBVIOUS
  <2>2. [i \in 1..m |-> Prepend(i-1, below[step(i-1, n % m, n \div m)])] \in [1..m -> Blocks]
    BY ONLY <2>1, ColumnType
  <2>3. seqs \in [1..m -> Blocks]
    BY ONLY <2>2
  <2> HIDE DEF seqs
  <2>4. QED
    BY ONLY <2>3 DEF Blocks
<1>4. Column(m, n, below) = FlattenSeq(seqs)
  BY DEF Column
<1> HIDE DEF St, P
<1>5. PICK g \in [0..m -> Seq(Rows)] : Flattened(g, m, seqs)
  <2> HIDE DEF seqs
  <2>1. QED
    BY <1>1, <1>3, FlattenRec
<1>6. /\ g[0] = << >>
      /\ \A i \in 1..m : g[i] = g[i-1] \o P(i)
      /\ FlattenSeq(seqs) = g[m]
  BY <1>5 DEF Flattened
<1> HIDE DEF seqs
<1> DEFINE T == {i \in 0..m : PrefixOK(vol, k, m, n, g[i], i)}
<1>7. vol[k-1] \in Extents
  <2>1. k-1 \in 0..K
    OBVIOUS
  <2>2. QED
    BY <2>1
<1>8. 0 \in T
  <2> DEFINE e == << >>
  <2>1. e \in Blocks /\ Len(e) = 0
    BY EmptySeq DEF Blocks
  <2> HIDE DEF e
  <2>2. Before(0, m, n, vol[k-1]) = 0
    BY <1>1, <1>7, ColumnRows
  <2>3. Short(e, k)
    BY <2>1 DEF Short
  <2>4. PrefixOK(vol, k, m, n, e, 0)
    BY <2>1, <2>2, <2>3 DEF PrefixOK
  <2>5. QED
    BY <1>1, <1>6, <2>4 DEF e
<1>9. ASSUME NEW i \in 0..(m-1), i \in T PROVE i+1 \in T
  <2> DEFINE j == i+1
  <2>1. j \in 1..m /\ j-1 = i /\ i \in 0..m
    BY <1>1
  <2> HIDE DEF j
  <2>2. PrefixOK(vol, k, m, n, g[j-1], j-1)
    BY <1>9, <2>1
  <2>3. j = 1 => g[j-1] = << >>
    BY <1>6
  <2>4. BlockOK(vol, k-1, step(j-1, n % m, n \div m), below[St(j)])
    BY <1>2, <2>1 DEF St
  <2>5. PrefixOK(vol, k, m, n, g[j-1] \o Prepend(j-1, below[St(j)]), j)
    BY <1>1, <2>1, <2>2, <2>3, <2>4, PrefixNext
  <2>6. g[j] = g[j-1] \o Prepend(j-1, below[St(j)])
    BY <1>6, <2>1 DEF P
  <2>7. PrefixOK(vol, k, m, n, g[j], j)
    BY <2>5, <2>6
  <2>8. j \in T
    BY <2>1, <2>7
  <2>9. QED
    BY <2>8 DEF j
<1> HIDE DEF T
<1>10. \A i \in 0..m : i \in T
  BY <1>1, <1>8, <1>9, UpTo
<1>11. PrefixOK(vol, k, m, n, g[m], m)
  BY <1>1, <1>10 DEF T
<1>12. Before(m, m, n, vol[k-1]) = Fewer(n, vol[k])
  <2>1. Before(m, m, n, vol[k-1]) = Fewer(n, m * vol[k-1])
    BY <1>1, <1>7, ColumnRows
  <2>2. QED
    BY <2>1
<1>13. BlockOK(vol, k, n, g[m])
  BY <1>1, <1>11, <1>12 DEF PrefixOK, BlockOK
<1>14. QED
  BY <1>4, <1>6, <1>13

\* last_column() as well.
LEMMA LastColumnOK ==
  ASSUME NEW K \in Nat, NEW k \in 1..K, NEW vol \in [0..K -> Extents],
         NEW m \in Extents, NEW n \in Extents, n <= m, vol[k] = m * vol[k-1]
  PROVE  BlockOK(vol, k, n, LastColumn(m, n))
<1>1. LastColumn(m, n) \in Blocks /\ Len(LastColumn(m, n)) = n
  BY LastColumnType
<1>2. Short(LastColumn(m, n), k) /\ Consecutive(TilesOf(vol, k, LastColumn(m, n)), 0, m * vol[k-1])
  BY LastColumnTiles
<1>3. n <= vol[k]
  <2>1. k-1 \in 0..K
    OBVIOUS
  <2>2. vol[k-1] \in Extents
    BY <2>1
  <2>3. m * vol[k-1] = m + m * (vol[k-1] - 1) /\ m * (vol[k-1] - 1) \in Nat
    BY <2>2 DEF Extents
  <2>4. QED
    BY <2>3 DEF Extents
<1>4. QED
  BY <1>1, <1>2, <1>3 DEF BlockOK, Fewer

\* Without dimensions there is one row.
LEMMA UnitOK ==
  ASSUME NEW K \in Nat, NEW vol \in [0..K -> Extents], NEW n \in Extents, vol[0] = 1
  PROVE  BlockOK(vol, 0, n, << << >> >>)
<1> DEFINE e == << >>
           B == <<e>>
           u == TilesOf(vol, 0, B)
<1>1. e \in Rows /\ Len(e) = 0
  BY EmptySeq DEF Rows
<1>2. RowFirst(vol, 0, e) = 0 /\ RowSize(vol, 0, e) = 1
  <2>1. 0 \in 0..K
    OBVIOUS
  <2>2. QED
    BY <2>1, IntervalOfWhole
<1> HIDE DEF e
<1>3. B \in Blocks /\ Len(B) = 1 /\ B[1] = e
  BY <1>1 DEF Blocks
<1> HIDE DEF B
<1>4. Interval(vol, 0, e) = <<0, 1>>
  BY <1>2 DEF Interval
<1>5. u = [i \in 1..1 |-> <<0, 1>>]
  BY <1>3, <1>4 DEF TilesOf
<1> HIDE DEF u
<1>6. u \in Seq(Int \X Int) /\ Len(u) = 1 /\ u[1][1] = 0 /\ u[1][2] = 1
  BY <1>5
<1>7. Consecutive(u, 0, 1)
  BY <1>6 DEF Consecutive
<1>8. Short(B, 0)
  BY <1>1, <1>3 DEF Short
<1>9. Len(B) = Fewer(n, 1)
  BY <1>3 DEF Fewer, Extents
<1>10. BlockOK(vol, 0, n, B)
  BY <1>3, <1>7, <1>8, <1>9 DEF BlockOK, u
<1>11. QED
  BY <1>10 DEF B, e

\* The schedule of xnd_split(), for every shape and every number of parts.
LEMMA ScheduleOK ==
  ASSUME NEW s \in Seq(Extents), NEW p \in Extents
  PROVE  BlockOK(Volume(s), Len(s), p, Schedule(s, p))
<1> DEFINE K == Len(s)
           vol == Volume(s)
<1>1. K \in Nat /\ \A k \in 1..K : s[K-k+1] \in Extents
  BY LenProperties
<1>2. /\ vol \in [0..K -> Extents] /\ vol[0] = 1
      /\ \A k \in 1..K : vol[k] = s[K-k+1] * vol[k-1]
  BY VolumeRec
<1>3. PICK g \in [0..K -> [1..p -> Blocks]] :
        /\ \A n \in 1..p : g[0][n] = << << >> >>
        /\ \A k \in 1..K : \A n \in 1..p :
             g[k][n] = IF n <= s[K-k+1] THEN LastColumn(s[K-k+1], n) ELSE Column(s[K-k+1], n, g[k-1])
        /\ Schedule(s, p) = g[K][p]
  BY ScheduleRec
<1> HIDE DEF K, vol
<1> DEFINE T == {k \in 0..K : \A n \in 1..p : BlockOK(vol, k, n, g[k][n])}
<1>4. \A n \in 1..p : n \in Extents
  BY DEF Extents
<1>5. 0 \in T
  <2>1. ASSUME NEW n \in 1..p PROVE BlockOK(vol, 0, n, g[0][n])
    <3>1. BlockOK(vol, 0, n, << << >> >>)
      BY <1>1, <1>2, <1>4, UnitOK
    <3>2. g[0][n] = << << >> >>
      BY <1>3
    <3>3. QED
      BY <3>1, <3>2
  <2>2. QED
    BY <1>1, <2>1
<1>6. ASSUME NEW i \in 0..(K-1), i \in T PROVE i+1 \in T
  <2> DEFINE k == i+1
             m == s[K-k+1]
  <2>1. k \in 1..K /\ k-1 = i /\ i \in 0..K
    BY <1>1
  <2> HIDE DEF k
  <2>2. m \in Extents /\ vol[k] = m * vol[k-1]
    BY <1>1, <1>2, <2>1
  <2>3. g[k-1] \in [1..p -> Blocks] /\ \A j \in 1..p : BlockOK(vol, k-1, j, g[k-1][j])
    BY <1>6, <2>1
  <2>4. \A n \in 1..p : g[k][n] = IF n <= m THEN LastColumn(m, n) ELSE Column(m, n, g[k-1])
    BY <1>3, <2>1
  <2> HIDE DEF m
  <2>5. ASSUME NEW n \in 1..p PROVE BlockOK(vol, k, n, g[k][n])
    <3>1. CASE n <= m
      <4>1. BlockOK(vol, k, n, LastColumn(m, n))
        BY <1>1, <1>2, <1>4, <2>1, <2>2, <3>1, LastColumnOK
      <4>2. QED
        BY <2>4, <3>1, <4>1
    <3>2. CASE ~(n <= m)
      <4>1. n > m
        BY <2>2, <3>2 DEF Extents
      <4>2. BlockOK(vol, k, n, Column(m, n, g[k-1]))
        BY <1>1, <1>2, <2>1, <2>2, <2>3, <4>1, ColumnOK
      <4>3. QED
        BY <2>4, <3>2, <4>2
    <3>3. QED
      BY <3>1, <3>2
  <2>6. QED
    BY <2>1, <2>5 DEF k
<1> HIDE DEF T
<1>7. \A i \in 0..K : i \in T
  BY <1>1, <1>5, <1>6, UpTo
<1>8. BlockOK(vol, K, p, g[K][p])
  BY <1>1, <1>7 DEF T, Extents
<1>9. QED
  BY <1>3, <1>8 DEF K, vol

-----------------------------------------------------------------------------
(* The rows of a block as sets of elements.                                *)

\* The element with index f, without its first `off` dimensions, is one of the
\* row's; is in one of the rows of a block; in none.
InRow(f, off, row) == \A d \in 1..Len(row) : row[d][1] <= f[off+d] /\ f[off+d] < row[d][2]
InOne(f, off, B) == \E i \in 1..Len(B) : \A j \in 1..Len(B) : InRow(f, off, B[j]) <=> j = i
InNone(f, off, B) == \A j \in 1..Len(B) : ~InRow(f, off, B[j])

\* Two blocks, one after the other.
LEMMA ConcatCells ==
  ASSUME NEW f, NEW off, NEW B \in Blocks, NEW C \in Blocks
  PROVE  /\ InOne(f, off, B) /\ InNone(f, off, C) => InOne(f, off, B \o C)
         /\ InNone(f, off, B) /\ InOne(f, off, C) => InOne(f, off, B \o C)
         /\ InNone(f, off, B) /\ InNone(f, off, C) => InNone(f, off, B \o C)
<1> DEFINE L == Len(B)
           M == Len(C)
           W == B \o C
<1>1. B \in Seq(Rows) /\ C \in Seq(Rows)
  BY DEF Blocks
<1>2. L \in Nat /\ M \in Nat
  BY <1>1, LenProperties
<1>3. Len(W) = L + M /\ \A i \in 1..(L+M) : W[i] = IF i <= L THEN B[i] ELSE C[i-L]
  BY <1>1, ConcatProperties
<1> HIDE DEF L, M, W
<1>4. \A i \in 1..L : W[i] = B[i]
  BY <1>2, <1>3
<1>5. ASSUME NEW i \in 1..(L+M), ~(i <= L) PROVE i-L \in 1..M /\ W[i] = C[i-L]
  BY <1>2, <1>3, <1>5
<1>6. ASSUME InOne(f, off, B), InNone(f, off, C) PROVE InOne(f, off, W)
  <2>1. PICK i \in 1..L : \A j \in 1..L : InRow(f, off, B[j]) <=> j = i
    BY <1>6 DEF InOne, L
  <2>2. ASSUME NEW j \in 1..(L+M) PROVE InRow(f, off, W[j]) <=> j = i
    <3>1. CASE j <= L
      <4>1. j \in 1..L
        BY <1>2, <3>1
      <4>2. QED
        BY <1>4, <2>1, <4>1
    <3>2. CASE ~(j <= L)
      <4>1. j-L \in 1..M /\ W[j] = C[j-L]
        BY <1>5, <3>2
      <4>2. ~InRow(f, off, W[j])
        BY <1>6, <4>1 DEF InNone, M
      <4>3. QED
        BY <1>2, <3>2, <4>2
    <3>3. QED
      BY <3>1, <3>2
  <2>3. i \in 1..(L+M)
    BY <1>2
  <2>4. QED
    BY <1>3, <2>2, <2>3 DEF InOne
<1>7. ASSUME InNone(f, off, B), InOne(f, off, C) PROVE InOne(f, off, W)
  <2>1. PICK i \in 1..M : \A j \in 1..M : InRow(f, off, C[j]) <=> j = i
    BY <1>7 DEF InOne, M
  <2>2. ASSUME NEW j \in 1..(L+M) PROVE InRow(f, off, W[j]) <=> j = L+i
    <3>1. CASE j <= L
      <4>1. j \in 1..L
        BY <1>2, <3>1
      <4>2. ~InRow(f, off, W[j])
        BY <1>4, <1>7, <4>1 DEF InNone, L
      <4>3. QED
        BY <1>2, <3>1, <4>2
    <3>2. CASE ~(j <= L)
      <4>1. j-L \in 1..M /\ W[j] = C[j-L]
        BY <1>5, <3>2
      <4>2. InRow(f, off, W[j]) <=> j-L = i
        BY <2>1, <4>1
      <4>3. j-L = i <=> j = L+i
        BY <1>2
      <4>4. QED
        BY <4>2, <4>3
    <3>3. QED
      BY <3>1, <3>2
  <2>3. L+i \in 1..(L+M)
    BY <1>2
  <2>4. QED
    BY <1>3, <2>2, <2>3 DEF InOne
<1>8. ASSUME InNone(f, off, B), InNone(f, off, C) PROVE InNone(f, off, W)
  <2>1. ASSUME NEW j \in 1..(L+M) PROVE ~InRow(f, off, W[j])
    <3>1. CASE j <= L
      <4>1. j \in 1..L
        BY <1>2, <3>1
      <4>2. QED
        BY <1>4, <1>8, <4>1 DEF InNone, L
    <3>2. CASE ~(j <= L)
      <4>1. j-L \in 1..M /\ W[j] = C[j-L]
        BY <1>5, <3>2
      <4>2. QED
        BY <1>8, <4>1 DEF InNone, M
    <3>3. QED
      BY <3>1, <3>2
  <2>2. QED
    BY <1>3, <2>1 DEF InNone
<1>9. QED
  BY <1>6, <1>7, <1>8 DEF W

\* The rows for index c hold the elements with this index.
LEMMA PrependCells ==
  ASSUME NEW D \in Nat, NEW f \in [1..D -> Int], NEW off \in 0..(D-1),
         NEW B \in Blocks, NEW c \in Int
  PROVE  /\ f[off+1] = c /\ InOne(f, off+1, B) => InOne(f, off, Prepend(c, B))
         /\ f[off+1] # c => InNone(f, off, Prepend(c, B))
<1> DEFINE P == Prepend(c, B)
           L == Len(B)
           e == <<c, c+1>>
<1>1. Len(P) = L /\ \A i \in 1..L : P[i] = <<e>> \o B[i]
  BY PrependType
<1>2. e \in Ranges /\ e[1] = c /\ e[2] = c+1
  BY DEF Ranges
<1>3. f[off+1] \in Int /\ off \in Int
  <2>1. off+1 \in 1..D
    OBVIOUS
  <2>2. QED
    BY <2>1
<1> HIDE DEF P, L, e
<1>4. ASSUME NEW i \in 1..L
      PROVE  InRow(f, off, P[i]) <=> f[off+1] = c /\ InRow(f, off+1, B[i])
  <2> DEFINE r == B[i]
             w == <<e>> \o r
  <2>1. r \in Seq(Ranges)
    BY DEF Blocks, Rows, L
  <2>2. Len(r) \in Nat
    BY <2>1, LenProperties
  <2>3. /\ Len(w) = Len(r) + 1
        /\ w[1] = e
        /\ \A d \in 1..Len(r) : w[d+1] = r[d]
    BY <1>2, <2>1, RangeInFront
  <2> HIDE DEF r, w
  <2>4. InRow(f, off, w) => f[off+1] = c /\ InRow(f, off+1, r)
    <3>1. SUFFICES ASSUME InRow(f, off, w) PROVE f[off+1] = c /\ InRow(f, off+1, r)
      OBVIOUS
    <3>2. 1 \in 1..Len(w)
      BY <2>2, <2>3
    <3>3. w[1][1] <= f[off+1] /\ f[off+1] < w[1][2]
      BY <3>1, <3>2 DEF InRow
    <3>4. f[off+1] = c
      BY <1>2, <1>3, <2>3, <3>3
    <3>5. ASSUME NEW d \in 1..Len(r) PROVE r[d][1] <= f[(off+1)+d] /\ f[(off+1)+d] < r[d][2]
      <4>1. d+1 \in 1..Len(w) /\ off+(d+1) = (off+1)+d
        BY <1>3, <2>2, <2>3
      <4>2. w[d+1][1] <= f[off+(d+1)] /\ f[off+(d+1)] < w[d+1][2]
        BY <3>1, <4>1 DEF InRow
      <4>3. QED
        BY <2>3, <4>1, <4>2
    <3>6. QED
      BY <3>4, <3>5 DEF InRow
  <2>5. f[off+1] = c /\ InRow(f, off+1, r) => InRow(f, off, w)
    <3>1. SUFFICES ASSUME f[off+1] = c, InRow(f, off+1, r), NEW d \in 1..Len(w)
                   PROVE  w[d][1] <= f[off+d] /\ f[off+d] < w[d][2]
      BY DEF InRow
    <3>2. CASE d = 1
      BY <1>2, <1>3, <2>3, <3>1, <3>2
    <3>3. CASE d # 1
      <4>1. d-1 \in 1..Len(r) /\ (d-1)+1 = d /\ (off+1)+(d-1) = off+d
        BY <1>3, <2>2, <2>3, <3>3
      <4>2. r[d-1][1] <= f[(off+1)+(d-1)] /\ f[(off+1)+(d-1)] < r[d-1][2]
        BY <3>1, <4>1 DEF InRow
      <4>3. w[d] = r[d-1]
        BY <2>3, <4>1
      <4>4. QED
        BY <4>1, <4>2, <4>3
    <3>4. QED
      BY <3>2, <3>3
  <2>6. P[i] = w
    BY <1>1 DEF w, r
  <2>7. QED
    BY <2>4, <2>5, <2>6 DEF r
<1>5. ASSUME f[off+1] = c, InOne(f, off+1, B) PROVE InOne(f, off, P)
  <2>1. PICK i \in 1..L : \A j \in 1..L : InRow(f, off+1, B[j]) <=> j = i
    BY <1>5 DEF InOne, L
  <2>2. \A j \in 1..L : InRow(f, off, P[j]) <=> j = i
    BY <1>4, <1>5, <2>1
  <2>3. QED
    BY <1>1, <2>2 DEF InOne
<1>6. ASSUME f[off+1] # c PROVE InNone(f, off, P)
  BY <1>1, <1>4, <1>6 DEF InNone
<1>7. QED
  BY <1>5, <1>6 DEF P

\* Each index of the dimension is in one of the ranges of last_column().
LEMMA LastColumnCells ==
  ASSUME NEW D \in Nat, NEW f \in [1..D -> Int], NEW off \in 0..(D-1),
         NEW m \in Extents, NEW n \in Extents, n <= m, f[off+1] \in 0..(m-1)
  PROVE  InOne(f, off, LastColumn(m, n))
<1> DEFINE vol == [k \in 0..1 |-> 1]
           B == LastColumn(m, n)
           t == TilesOf(vol, 1, B)
           q == m \div n
           r == m % n
           c(i) == <<start(i-1, r, q), stop(i-1, r, q)>>
           x == f[off+1]
<1>1. vol \in [0..1 -> Extents] /\ vol[0] = 1
  BY DEF Extents
<1>2. Len(B) = n /\ \A i \in 1..n : B[i] = <<c(i)>>
  <2> DEFINE R(i) == <<c(i)>>
  <2>1. B = [i \in 1..n |-> R(i)]
    BY DEF LastColumn
  <2> HIDE DEF R, B, c
  <2>2. Len(B) = n /\ \A i \in 1..n : B[i] = R(i)
    BY <2>1 DEF Extents
  <2>3. QED
    BY <2>2 DEF R
<1>3. ASSUME NEW i \in 1..n PROVE c(i)[1] \in Int /\ c(i)[2] \in Int /\ c(i) = <<c(i)[1], c(i)[2]>>
  <2>1. q \in Nat /\ r \in Nat
    BY QuotientType
  <2>2. i-1 \in Nat
    BY DEF Extents
  <2> HIDE DEF q, r
  <2>3. QED
    BY <2>1, <2>2 DEF start, stop
<1>4. Consecutive(t, 0, m * 1)
  <2> HIDE DEF vol
  <2>1. 1 \in 1..1 /\ 1 \in Nat /\ 1-1 = 0
    OBVIOUS
  <2>2. Consecutive(t, 0, m * vol[1-1])
    BY <1>1, <2>1, LastColumnTiles
  <2>3. QED
    BY <1>1, <2>1, <2>2
<1> HIDE DEF vol, B, c, q, r
<1>5. ASSUME NEW i \in 1..n PROVE t[i][1] = c(i)[1] /\ t[i][2] = c(i)[2]
  <2> DEFINE a == c(i)[1]
             b == c(i)[2]
  <2>1. a \in Int /\ b \in Int /\ B[i] = << <<a, b>> >>
    BY <1>2, <1>3
  <2>2. 1 \in 1..1 /\ 1 \in Nat /\ 1-1 = 0
    OBVIOUS
  <2> HIDE DEF a, b
  <2>3. Interval(vol, 1, << <<a, b>> >>) = <<a * vol[1-1], b * vol[1-1]>>
    BY <1>1, <2>1, <2>2, IntervalOfRange
  <2>4. a * vol[1-1] = a /\ b * vol[1-1] = b
    BY <1>1, <2>1, <2>2
  <2>5. t[i] = Interval(vol, 1, B[i])
    BY <1>2 DEF TilesOf
  <2> HIDE DEF t
  <2>6. t[i] = <<a, b>>
    BY <2>1, <2>3, <2>4, <2>5
  <2>7. QED
    BY <2>6 DEF a, b
<1>6. Len(t) = n
  BY <1>2 DEF TilesOf, Extents
<1> HIDE DEF t, x
<1>7. x \in Int /\ 0 <= x /\ x < m * 1
  BY DEF x, Extents
<1>8. PICK i \in 1..n : \A j \in 1..n : (t[j][1] <= x /\ x < t[j][2]) <=> j = i
  <2> DEFINE b == m * 1
  <2>1. Consecutive(t, 0, b) /\ 0 <= x /\ x < b
    BY <1>4, <1>7
  <2> HIDE DEF b
  <2>2. \E i \in 1..Len(t) : \A j \in 1..Len(t) : (t[j][1] <= x /\ x < t[j][2]) <=> j = i
    BY <1>7, <2>1, ConsecutiveOnce
  <2>3. QED
    BY <1>6, <2>2
<1>9. ASSUME NEW j \in 1..n PROVE InRow(f, off, B[j]) <=> j = i
  <2>1. B[j] = <<c(j)>>
    BY <1>2
  <2>2. InRow(f, off, <<c(j)>>) <=> c(j)[1] <= f[off+1] /\ f[off+1] < c(j)[2]
    BY DEF InRow
  <2>3. QED
    BY <1>5, <1>8, <2>1, <2>2 DEF x
<1>10. QED
  BY <1>2, <1>9 DEF InOne, B

\* The rows of column() for index c hold the elements with this index, whichever
\* the numbers of parts handed down: each element is in one row.
LEMMA ColumnCells ==
  ASSUME NEW D \in Nat, NEW f \in [1..D -> Int], NEW off \in 0..(D-1),
         NEW p \in Extents, NEW below \in [1..p -> Blocks],
         \A j \in 1..p : InOne(f, off+1, below[j]),
         NEW m \in Extents, NEW n \in 1..p, n > m, f[off+1] \in 0..(m-1)
  PROVE  InOne(f, off, Column(m, n, below))
<1> DEFINE St(i) == step(i-1, n % m, n \div m)
           P(i) == Prepend(i-1, below[St(i)])
           seqs == [i \in 1..m |-> P(i)]
           x == f[off+1]
           e == << >>
<1>1. n \in Extents /\ m \in Nat \ {0} /\ p \in Nat
  BY DEF Extents
<1>2. \A i \in 1..m : St(i) \in 1..p
  <2> SUFFICES ASSUME NEW i \in 1..m PROVE St(i) \in 1..p
    OBVIOUS
  <2>1. St(i) \in 1..n
    BY <1>1, StepInRange
  <2> HIDE DEF St
  <2>2. QED
    BY <1>1, <2>1
<1>3. seqs \in [1..m -> Seq(Rows)]
  <2>1. p \in Extents /\ below \in [1..p -> Blocks] /\ m \in Extents /\ n \in 1..p /\ n > m
    OBVIOUS
  <2>2. [i \in 1..m |-> Prepend(i-1, below[step(i-1, n % m, n \div m)])] \in [1..m -> Blocks]
    BY ONLY <2>1, ColumnType
  <2>3. seqs \in [1..m -> Blocks]
    BY ONLY <2>2
  <2> HIDE DEF seqs
  <2>4. QED
    BY ONLY <2>3 DEF Blocks
<1>4. Column(m, n, below) = FlattenSeq(seqs)
  BY DEF Column
<1>5. x \in Int /\ 0 <= x /\ x < m
  BY <1>1
<1>6. \A i \in 1..m : P(i) \in Blocks
  <2> HIDE DEF P
  <2>1. QED
    BY <1>3 DEF Blocks
<1>7. ASSUME NEW i \in 1..m
      PROVE  /\ x = i-1 => InOne(f, off, P(i))
             /\ x # i-1 => InNone(f, off, P(i))
  <2> DEFINE B == below[St(i)]
             c == i-1
  <2>1. B \in Blocks /\ InOne(f, off+1, B)
    BY <1>2
  <2>2. c \in Int
    BY <1>1
  <2> HIDE DEF B, c
  <2>3. /\ f[off+1] = c /\ InOne(f, off+1, B) => InOne(f, off, Prepend(c, B))
        /\ f[off+1] # c => InNone(f, off, Prepend(c, B))
    BY <2>1, <2>2, PrependCells
  <2>4. QED
    BY <2>1, <2>3 DEF B, c
<1> HIDE DEF St, P
<1>8. PICK g \in [0..m -> Seq(Rows)] : Flattened(g, m, seqs)
  <2> HIDE DEF seqs
  <2>1. QED
    BY <1>1, <1>3, FlattenRec
<1>9. /\ g[0] = e
      /\ \A i \in 1..m : g[i] = g[i-1] \o P(i)
      /\ FlattenSeq(seqs) = g[m]
  BY <1>8 DEF Flattened
<1>10. Len(e) = 0
  OBVIOUS
<1> HIDE DEF seqs, x, e
<1> DEFINE T == {i \in 0..m : /\ x < i => InOne(f, off, g[i])
                              /\ x >= i => InNone(f, off, g[i])}
<1>11. 0 \in T
  <2>1. InNone(f, off, e)
    BY <1>10 DEF InNone
  <2>2. QED
    BY <1>1, <1>5, <1>9, <2>1
<1>12. ASSUME NEW i \in 0..(m-1), i \in T PROVE i+1 \in T
  <2> DEFINE j == i+1
             A == g[i]
             B == P(j)
  <2>1. j \in 1..m /\ j-1 = i /\ i \in 0..m /\ i \in Int
    BY <1>1
  <2> HIDE DEF j
  <2>2. g[j] = A \o B
    BY <1>9, <2>1
  <2>3. A \in Blocks /\ B \in Blocks
    BY <1>6, <2>1 DEF Blocks
  <2>4. (x < i => InOne(f, off, A)) /\ (x >= i => InNone(f, off, A))
    BY <1>12
  <2>5. (x = i => InOne(f, off, B)) /\ (x # i => InNone(f, off, B))
    BY <1>7, <2>1
  <2> HIDE DEF A, B
  <2>6. /\ InOne(f, off, A) /\ InNone(f, off, B) => InOne(f, off, A \o B)
        /\ InNone(f, off, A) /\ InOne(f, off, B) => InOne(f, off, A \o B)
        /\ InNone(f, off, A) /\ InNone(f, off, B) => InNone(f, off, A \o B)
    BY <2>3, ConcatCells
  <2>7. x < j => InOne(f, off, A \o B)
    <3>1. x < j => x < i \/ x = i
      BY <1>5, <2>1
    <3>2. x < i => x # i
      BY <1>5, <2>1
    <3>3. x = i => x >= i
      BY <1>5, <2>1
    <3>4. QED
      BY <2>4, <2>5, <2>6, <3>1, <3>2, <3>3
  <2>8. x >= j => InNone(f, off, A \o B)
    <3>1. x >= j => x >= i /\ x # i
      BY <1>5, <2>1
    <3>2. QED
      BY <2>4, <2>5, <2>6, <3>1
  <2>9. j \in 0..m
    BY <1>1, <2>1
  <2>10. j \in T
    BY <2>2, <2>7, <2>8, <2>9
  <2>11. QED
    BY <2>10 DEF j
<1> HIDE DEF T
<1>13. \A i \in 0..m : i \in T
  BY <1>1, <1>11, <1>12, UpTo
<1>14. m \in 0..m
  BY <1>1
<1>15. InOne(f, off, g[m])
  BY <1>5, <1>13, <1>14 DEF T
<1>16. QED
  BY <1>4, <1>9, <1>15

\* Each element is in exactly one row of the schedule.
LEMMA ScheduleCells ==
  ASSUME NEW s \in Seq(Extents), NEW p \in Extents, NEW f \in [1..Len(s) -> Int],
         \A d \in 1..Len(s) : f[d] \in 0..(s[d]-1)
  PROVE  InOne(f, 0, Schedule(s, p))
<1> DEFINE K == Len(s)
<1>1. K \in Nat /\ \A k \in 1..K : s[K-k+1] \in Extents
  BY LenProperties
<1>2. PICK g \in [0..K -> [1..p -> Blocks]] :
        /\ \A n \in 1..p : g[0][n] = << << >> >>
        /\ \A k \in 1..K : \A n \in 1..p :
             g[k][n] = IF n <= s[K-k+1] THEN LastColumn(s[K-k+1], n) ELSE Column(s[K-k+1], n, g[k-1])
        /\ Schedule(s, p) = g[K][p]
  BY ScheduleRec
<1>3. f \in [1..K -> Int] /\ \A d \in 1..K : f[d] \in 0..(s[d]-1)
  OBVIOUS
<1> HIDE DEF K
<1> DEFINE T == {k \in 0..K : \A n \in 1..p : InOne(f, K-k, g[k][n])}
<1>4. \A n \in 1..p : n \in Extents
  BY DEF Extents
<1>5. 0 \in T
  <2>1. ASSUME NEW n \in 1..p PROVE InOne(f, K-0, g[0][n])
    <3> DEFINE e == << >>
               B == <<e>>
    <3>1. Len(e) = 0
      OBVIOUS
    <3> HIDE DEF e
    <3>2. Len(B) = 1 /\ B[1] = e
      OBVIOUS
    <3> HIDE DEF B
    <3>3. InRow(f, K-0, e)
      BY <3>1 DEF InRow
    <3>4. InOne(f, K-0, B)
      BY <3>2, <3>3 DEF InOne
    <3>5. g[0][n] = B
      BY <1>2 DEF B, e
    <3>6. QED
      BY <3>4, <3>5
  <2>2. QED
    BY <1>1, <2>1
<1>6. ASSUME NEW i \in 0..(K-1), i \in T PROVE i+1 \in T
  <2> DEFINE k == i+1
             off == K-k
             m == s[off+1]
             below == g[i]
  <2>1. k \in 1..K /\ k-1 = i /\ i \in 0..K /\ k \in 0..K
    BY <1>1
  <2>2. off \in 0..(K-1) /\ off+1 = K-i /\ off+1 = K-k+1 /\ off+1 \in 1..K
    BY <1>1
  <2>3. \A n \in 1..p : InOne(f, K-i, below[n])
    BY <1>6
  <2>4. below \in [1..p -> Blocks]
    BY <2>1
  <2> HIDE DEF k
  <2>5. m \in Extents
    BY <1>1, <2>1, <2>2
  <2>6. f[off+1] \in 0..(m-1)
    BY <1>3, <2>2
  <2>7. \A n \in 1..p : g[k][n] = IF n <= m THEN LastColumn(m, n) ELSE Column(m, n, below)
    BY <1>2, <2>1, <2>2
  <2>8. \A n \in 1..p : InOne(f, off+1, below[n])
    BY <2>2, <2>3
  <2> HIDE DEF m, below, off
  <2>9. ASSUME NEW n \in 1..p PROVE InOne(f, off, g[k][n])
    <3>1. CASE n <= m
      <4>1. InOne(f, off, LastColumn(m, n))
        BY <1>1, <1>3, <1>4, <2>2, <2>5, <2>6, <3>1, LastColumnCells
      <4>2. QED
        BY <2>7, <3>1, <4>1
    <3>2. CASE ~(n <= m)
      <4>1. n > m
        BY <2>5, <3>2 DEF Extents
      <4>2. InOne(f, off, Column(m, n, below))
        BY <1>1, <1>3, <2>2, <2>4, <2>5, <2>6, <2>8, <4>1, ColumnCells
      <4>3. QED
        BY <2>7, <3>2, <4>2
    <3>3. QED
      BY <3>1, <3>2
  <2>10. k \in T
    BY <2>1, <2>9 DEF off
  <2>11. QED
    BY <2>10 DEF k
<1> HIDE DEF T
<1>7. \A i \in 0..K : i \in T
  BY <1>1, <1>5, <1>6, UpTo
<1>8. InOne(f, K-K, g[K][p])
  BY <1>1, <1>7 DEF T, Extents
<1>9. K-K = 0
  BY <1>1
<1>10. QED
  BY <1>2, <1>8, <1>9

-----------------------------------------------------------------------------
(* What gm_apply_thread() relies on.                                       *)

\* The slices of an array of any shape, one per thread, are what
\* ThreadedApply's TileAssumption asks of Tile: intervals of rows, none of
\* them empty, that do not overlap, follow the order of the threads and
\* cover every row.
THEOREM ScheduleSuitsThreads ==
  ASSUME NEW s \in Seq(Extents), NEW n \in Extents
  PROVE  LET tiles == Tiles(s, Schedule(s, n))
         IN  /\ Len(tiles) = Fewer(n, Size(s))
             /\ \A v \in 1..Len(tiles) : /\ 0 <= tiles[v][1] /\ tiles[v][1] < tiles[v][2]
                                         /\ tiles[v][2] <= Size(s)
             /\ \A v, w \in 1..Len(tiles) : v < w => tiles[v][2] <= tiles[w][1]
             /\ \A r \in 0..(Size(s)-1) : \E w \in 1..Len(tiles) :
                  tiles[w][1] <= r /\ r < tiles[w][2]
<1> DEFINE tiles == Tiles(s, Schedule(s, n))
           vol == Size(s)
           L == Len(tiles)
<1>1. BlockOK(Volume(s), Len(s), n, Schedule(s, n))
  BY ScheduleOK
<1>2. tiles = TilesOf(Volume(s), Len(s), Schedule(s, n))
  BY DEF Tiles, TilesOf
<1>3. Len(Schedule(s, n)) \in Nat
  BY <1>1 DEF BlockOK, Blocks
<1>4. L = Len(Schedule(s, n))
  BY <1>3 DEF Tiles
<1>5. L = Fewer(n, vol)
  BY <1>1, <1>4 DEF BlockOK, Size
<1>6. Consecutive(tiles, 0, vol)
  BY <1>1, <1>2 DEF BlockOK, Size
<1> HIDE DEF tiles, vol
<1>7. L \in Nat \ {0} /\ vol \in Int /\ \A v \in 1..L : tiles[v][1] \in Int /\ tiles[v][2] \in Int
  BY <1>6, IntervalType
<1>8. \A v, w \in 1..L : v < w => tiles[v][2] <= tiles[w][1]
  BY <1>6, ConsecutiveOrder
<1>9. /\ tiles[1][1] = 0 /\ tiles[L][2] = vol
      /\ \A v \in 1..L : tiles[v][1] < tiles[v][2]
  BY <1>6 DEF Consecutive
<1> HIDE DEF L
<1>10. ASSUME NEW v \in 1..L
       PROVE  0 <= tiles[v][1] /\ tiles[v][1] < tiles[v][2] /\ tiles[v][2] <= vol
  <2>1. 1 \in 1..L /\ L \in 1..L
    BY <1>7
  <2>2. v = 1 \/ tiles[1][2] <= tiles[v][1]
    BY <1>7, <1>8, <2>1
  <2>3. v = L \/ tiles[v][2] <= tiles[L][1]
    BY <1>7, <1>8, <2>1
  <2>4. QED
    BY <1>7, <1>9, <2>1, <2>2, <2>3
<1>11. ASSUME NEW x \in Int, 0 <= x, x < vol
       PROVE  \E w \in 1..Len(tiles) : tiles[w][1] <= x /\ x < tiles[w][2]
  <2>1. \E i \in 1..Len(tiles) : \A j \in 1..Len(tiles) :
          (tiles[j][1] <= x /\ x < tiles[j][2]) <=> j = i
    BY <1>6, <1>11, ConsecutiveOnce
  <2>2. QED
    BY <2>1
<1>12. \A r \in 0..(vol-1) : \E w \in 1..L : tiles[w][1] <= r /\ r < tiles[w][2]
  BY <1>7, <1>11 DEF L
<1>13. QED
  BY <1>5, <1>8, <1>10, <1>12 DEF tiles, vol, L

-----------------------------------------------------------------------------
(* The call.                                                               *)

\* A call that splits has a valid shape and returns a schedule for it.
Returned ==
  /\ \A d \in DOMAIN shape : shape[d] > 0
  /\ \E p \in 1..MaxParts : result = Schedule(shape, p)
  /\ nparts = Len(result)

IInv ==
  /\ shape \in Shapes
  /\ emptyInner \in BOOLEAN
  /\ nparts \in 0..MaxParts
  /\ status \in {"called", "split", "error"}
  /\ status # "split" => result = << >>
  /\ status = "split" => Returned

\* The outer dimensions are a sequence.
LEMMA ShapeType ==
  ASSUME shape \in Shapes
  PROVE  /\ Len(shape) \in Nat /\ DOMAIN shape = 1..Len(shape)
         /\ (\A d \in DOMAIN shape : shape[d] > 0) => shape \in Seq(Extents)
<1>1. PICK d \in 0..MaxDims : shape \in [1..d -> 0..MaxShape]
  BY DEF Shapes
<1>2. d \in Nat
  BY BoundsAssumption
<1>3. DOMAIN shape = 1..d /\ Len(shape) = d
  BY <1>1, <1>2
<1>4. ASSUME \A j \in DOMAIN shape : shape[j] > 0 PROVE shape \in Seq(Extents)
  <2>1. shape \in [1..d -> Extents]
    BY <1>1, <1>3, <1>4, BoundsAssumption DEF Extents
  <2>2. QED
    BY <1>2, <2>1
<1>5. QED
  BY <1>2, <1>3, <1>4

\* The number of slices that a valid call makes.
LEMMA SlicesMade ==
  ASSUME shape \in Shapes, \A d \in DOMAIN shape : shape[d] > 0, NEW p \in 1..MaxParts
  PROVE  /\ Len(Schedule(shape, p)) = Fewer(p, Size(shape))
         /\ Size(shape) \in Extents
<1>1. shape \in Seq(Extents) /\ p \in Extents
  BY ShapeType, BoundsAssumption DEF Extents
<1>2. BlockOK(Volume(shape), Len(shape), p, Schedule(shape, p))
  BY <1>1, ScheduleOK
<1>3. Volume(shape) \in [0..Len(shape) -> Extents]
  BY <1>1, VolumeRec
<1>4. Len(shape) \in 0..Len(shape)
  BY ShapeType
<1>5. QED
  BY <1>2, <1>3, <1>4 DEF BlockOK, Size

\* What a call that is not refused was asked for.
LEMMA ValidCall ==
  ASSUME IInv, ~InvalidCall
  PROVE  /\ shape \in Shapes /\ \A d \in DOMAIN shape : shape[d] > 0
         /\ nparts \in 1..MaxParts
<1>1. PICK d \in 0..MaxDims : shape \in [1..d -> 0..MaxShape]
  BY DEF IInv, Shapes
<1>2. \A e \in DOMAIN shape : shape[e] \in Int
  BY <1>1, BoundsAssumption
<1>3. \A e \in DOMAIN shape : ~(shape[e] <= 0)
  BY DEF InvalidCall
<1>4. nparts \in 1..MaxParts
  BY BoundsAssumption DEF IInv, InvalidCall
<1>5. QED
  BY <1>2, <1>3, <1>4 DEF IInv

\* The smaller of two numbers.
LEMMA MinOfTwo ==
  ASSUME NEW a \in Int, NEW b \in Int
  PROVE  Min({a, b}) = Fewer(a, b)
<1>1. /\ Fewer(a, b) \in {a, b}
      /\ \A y \in {a, b} : Fewer(a, b) <= y
      /\ \A x \in {a, b} : (\A y \in {a, b} : x <= y) => x = Fewer(a, b)
  BY DEF Fewer
<1>2. QED
  BY <1>1 DEF Min

\* The invariant holds in every state of a call.
THEOREM Invariance == SplitSpec => []IInv
<1>1. SplitInit => IInv
  BY DEF SplitInit, IInv
<1>2. ASSUME IInv, [SplitNext]_splitVars PROVE IInv'
  <2>1. CASE Refuse
    BY <1>2, <2>1 DEF IInv, Refuse, arguments
  <2>2. CASE OutOfMemory
    BY <1>2, <2>2 DEF IInv, OutOfMemory, arguments
  <2>3. CASE SplitShape
    <3>1. /\ shape' = shape /\ emptyInner' = emptyInner
          /\ result' = Schedule(shape, nparts) /\ nparts' = Len(result') /\ status' = "split"
      BY <2>3 DEF SplitShape, arguments
    <3>2. shape \in Shapes /\ emptyInner \in BOOLEAN
      BY <1>2 DEF IInv
    <3>3. \A d \in DOMAIN shape : shape[d] > 0
      BY <1>2, <2>3, ValidCall DEF SplitShape
    <3>4. nparts \in 1..MaxParts
      BY <1>2, <2>3, ValidCall DEF SplitShape
    <3>5. nparts' = Fewer(nparts, Size(shape)) /\ Size(shape) \in Extents
      BY <3>1, <3>2, <3>3, <3>4, SlicesMade
    <3>6. nparts' \in 0..MaxParts
      BY <3>4, <3>5, BoundsAssumption DEF Fewer, Extents
    <3>7. Returned'
      BY <3>1, <3>3, <3>4 DEF Returned
    <3>8. QED
      BY <3>1, <3>2, <3>6, <3>7 DEF IInv
  <2>4. CASE UNCHANGED splitVars
    BY <1>2, <2>4 DEF IInv, Returned, splitVars, arguments
  <2>5. QED
    BY <1>2, <2>1, <2>2, <2>3, <2>4 DEF SplitNext
<1>3. QED
  BY <1>1, <1>2, PTL DEF SplitSpec

\* In a call that has split, the result is the schedule of a valid shape.
LEMMA ResultOK ==
  ASSUME IInv, status = "split"
  PROVE  /\ shape \in Seq(Extents)
         /\ \E p \in Extents : result = Schedule(shape, p) /\ BlockOK(Volume(shape), Len(shape), p, result)
<1>1. shape \in Seq(Extents)
  BY ShapeType DEF IInv, Returned
<1>2. PICK p \in 1..MaxParts : result = Schedule(shape, p)
  BY DEF IInv, Returned
<1>3. p \in Extents
  BY BoundsAssumption DEF Extents
<1>4. BlockOK(Volume(shape), Len(shape), p, result)
  BY <1>1, <1>2, <1>3, ScheduleOK
<1>5. QED
  BY <1>1, <1>2, <1>3, <1>4

\* xnd_split() hands xnd_subscript() rows with at most one range for each outer
\* dimension, and reports at most as many slices as it was asked for.
THEOREM TypeCorrect == SplitSpec => []SplitTypeOK
<1>1. ASSUME IInv PROVE SplitTypeOK
  <2>1. \A i \in DOMAIN result : Len(result[i]) <= Len(shape)
    <3>1. CASE status = "split"
      <4>1. result \in Seq(Rows) /\ Short(result, Len(shape))
        BY <1>1, <3>1, ResultOK DEF BlockOK, Blocks
      <4>2. QED
        BY <4>1 DEF Short
    <3>2. CASE status # "split"
      <4>1. result = << >>
        BY <1>1, <3>2 DEF IInv
      <4>2. QED
        BY <4>1
    <3>3. QED
      BY <3>1, <3>2
  <2>2. QED
    BY <1>1, <2>1 DEF IInv, SplitTypeOK
<1>2. QED
  BY <1>1, Invariance, PTL

\* Every element of the outer dimensions is in exactly one slice, and the slices
\* are in row-major order, for every shape and every number of parts.
THEOREM SlicesTileTheArray == SplitSpec => []SlicesTile
<1>1. ASSUME IInv PROVE SlicesPartition
  <2> SUFFICES ASSUME status = "split", NEW f \in Cells
               PROVE  \E i \in DOMAIN result : \A k \in DOMAIN result : f \in CellsOf(result[k]) <=> k = i
    BY DEF SlicesPartition
  <2>1. PICK p \in Extents : result = Schedule(shape, p) /\ BlockOK(Volume(shape), Len(shape), p, result)
    BY <1>1, ResultOK
  <2>2. result \in Seq(Rows)
    BY <2>1 DEF BlockOK, Blocks
  <2>3. shape \in Seq(Extents) /\ DOMAIN shape = 1..Len(shape)
    BY <1>1, ResultOK, ShapeType DEF IInv
  <2>4. f \in [1..Len(shape) -> Int] /\ \A d \in 1..Len(shape) : f[d] \in 0..(shape[d]-1)
    <3>1. f \in [1..Len(shape) -> 0..(MaxShape-1)] /\ \A d \in 1..Len(shape) : f[d] < shape[d]
      BY <2>3 DEF Cells
    <3>2. \A d \in 1..Len(shape) : shape[d] \in Nat
      BY <2>3 DEF Extents
    <3>3. QED
      BY <3>1, <3>2, BoundsAssumption
  <2>5. InOne(f, 0, result)
    BY <2>1, <2>3, <2>4, ScheduleCells
  <2>6. ASSUME NEW k \in DOMAIN result PROVE f \in CellsOf(result[k]) <=> InRow(f, 0, result[k])
    <3>1. result[k] \in Seq(Ranges)
      BY <2>2 DEF Rows
    <3>2. DOMAIN result[k] = 1..Len(result[k])
      BY <3>1
    <3>3. \A d \in 1..Len(result[k]) : 0 + d = d
      OBVIOUS
    <3>4. QED
      BY <3>2, <3>3 DEF CellsOf, InRow
  <2>7. DOMAIN result = 1..Len(result)
    BY <2>2
  <2>8. QED
    BY <2>5, <2>6, <2>7 DEF InOne
<1>2. ASSUME IInv PROVE SlicesInOrder
  <2> SUFFICES ASSUME status = "split" PROVE SlicesInOrder
    BY DEF SlicesInOrder
  <2>1. PICK p \in Extents : BlockOK(Volume(shape), Len(shape), p, result)
    BY <1>2, ResultOK
  <2>2. Consecutive(TilesOf(Volume(shape), Len(shape), result), 0, Volume(shape)[Len(shape)])
    BY <2>1 DEF BlockOK
  <2> DEFINE t == Tiles(shape, result)
  <2>3. Consecutive(t, 0, Size(shape))
    BY <2>2 DEF Tiles, TilesOf, Size
  <2> HIDE DEF t
  <2>4. /\ t[1][1] = 0 /\ t[Len(t)][2] = Size(shape)
        /\ \A i \in 1..Len(t) : t[i][1] < t[i][2]
        /\ \A i \in 1..(Len(t)-1) : t[i][2] = t[i+1][1]
        /\ t \in Seq(Int \X Int)
    BY <2>3 DEF Consecutive
  <2>5. DOMAIN t = 1..Len(t)
    BY <2>4
  <2>6. QED
    BY <2>4, <2>5 DEF SlicesInOrder, t
<1>3. QED
  BY <1>1, <1>2, Invariance, PTL DEF SlicesTile

\* There are exactly as many slices as the caller asked for, or one per element
\* when there are fewer, for every shape: what makes gm_apply_thread() find
\* arrays of the same outer shape cut alike.
THEOREM AsManySlicesAsPossible == SplitSpec => AsManyAsPossible
<1>1. ASSUME IInv, [SplitNext]_splitVars
      PROVE  [status' = "split" => nparts' = Min({nparts, Size(shape)})]_splitVars
  <2>1. CASE Refuse
    BY <2>1 DEF Refuse
  <2>2. CASE OutOfMemory
    BY <2>2 DEF OutOfMemory
  <2>3. CASE SplitShape
    <3>1. \A d \in DOMAIN shape : shape[d] > 0
      BY <1>1, <2>3, ValidCall DEF SplitShape
    <3>2. nparts \in 1..MaxParts /\ shape \in Shapes
      BY <1>1, <2>3, ValidCall DEF SplitShape
    <3>3. nparts' = Fewer(nparts, Size(shape)) /\ Size(shape) \in Extents
      BY <2>3, <3>1, <3>2, SlicesMade DEF SplitShape
    <3>4. nparts \in Int /\ Size(shape) \in Int
      BY <3>2, <3>3 DEF Extents
    <3>5. Min({nparts, Size(shape)}) = Fewer(nparts, Size(shape))
      BY <3>4, MinOfTwo
    <3>6. QED
      BY <3>3, <3>5
  <2>4. QED
    BY <1>1, <2>1, <2>2, <2>3 DEF SplitNext
<1>2. QED
  BY <1>1, Invariance, PTL DEF SplitSpec, AsManyAsPossible
=============================================================================
