-------------------------- MODULE Recursion_proofs --------------------------
(***************************************************************************)
(* What the proofs about recursive functions and folds rest on: induction  *)
(* up to a bound, functions that follow a rule step by step, and the       *)
(* function on sets by which the folds of sequences are defined.           *)
(***************************************************************************)
EXTENDS Integers, SequencesExt, SequenceTheorems, WellFoundedInduction, TLAPS

\* A set of numbers up to N that has 0 and with each number the next has all.
LEMMA UpTo ==
  ASSUME NEW N \in Nat, NEW T, 0 \in T, \A n \in 0..(N-1) : n \in T => n+1 \in T
  PROVE  \A n \in 0..N : n \in T
<1> DEFINE S == {n \in 0..N : n \notin T}
<1> SUFFICES ASSUME S # {} PROVE FALSE
  OBVIOUS
<1>1. S \in SUBSET Nat
  OBVIOUS
<1>2. PICK n \in S : \A m \in S : ~(<<m, n>> \in OpToRel(<, Nat))
  BY <1>1, NatLessThanWellFounded, WFMin
<1>3. n \in 0..N /\ n \notin T /\ n # 0
  OBVIOUS
<1>4. n - 1 \in 0..(N-1) /\ (n-1) + 1 = n /\ n - 1 < n
  BY <1>3
<1>5. n - 1 \notin S
  <2>1. <<n-1, n>> \in OpToRel(<, Nat)
    BY <1>3, <1>4 DEF OpToRel
  <2>2. QED
    BY <1>2, <2>1
<1>6. QED
  BY <1>3, <1>4, <1>5

\* A function that starts with a and goes on with H.
Follows(g, N, a, H) == g[0] = a /\ \A k \in 1..N : g[k] = H[k][g[k-1]]

\* There is such a function.
LEMMA RecursionExists ==
  ASSUME NEW N \in Nat, NEW V, NEW a \in V, NEW H \in [1..N -> [V -> V]]
  PROVE  \E g \in [0..N -> V] : Follows(g, N, a, H)
<1> DEFINE Good(g, n) == g[0] = a /\ \A k \in 1..n : g[k] = H[k][g[k-1]]
           T == {n \in 0..N : \E g \in [0..n -> V] : Good(g, n)}
<1>1. 0 \in T
  <2>1. [k \in 0..0 |-> a] \in [0..0 -> V] /\ Good([k \in 0..0 |-> a], 0)
    OBVIOUS
  <2> HIDE DEF Good
  <2>2. \E g \in [0..0 -> V] : Good(g, 0)
    BY <2>1
  <2>3. QED
    BY <2>2
<1>2. ASSUME NEW n \in 0..(N-1), n \in T
      PROVE  n+1 \in T
  <2>1. PICK g \in [0..n -> V] : Good(g, n)
    BY <1>2
  <2> DEFINE e == [k \in 0..(n+1) |-> IF k <= n THEN g[k] ELSE H[n+1][g[n]]]
  <2>2. e \in [0..(n+1) -> V]
    <3>1. H[n+1] \in [V -> V] /\ g[n] \in V
      OBVIOUS
    <3>2. H[n+1][g[n]] \in V
      BY <3>1
    <3>3. QED
      BY <3>2
  <2>3. Good(e, n+1)
    <3>1. e[0] = a
      BY <2>1
    <3>2. ASSUME NEW k \in 1..(n+1) PROVE e[k] = H[k][e[k-1]]
      <4>1. CASE k = n+1
        <5>1. e[k-1] = g[n]
          BY <4>1
        <5>2. QED
          BY <4>1, <5>1
      <4>2. CASE k # n+1
        <5>1. k \in 1..n /\ k-1 \in 0..n
          BY <4>2
        <5>2. e[k] = g[k] /\ e[k-1] = g[k-1]
          BY <5>1
        <5>3. QED
          BY <2>1, <5>1, <5>2
      <4>3. QED
        BY <4>1, <4>2
    <3>3. QED
      BY <3>1, <3>2
  <2> HIDE DEF Good, e
  <2>4. \E f \in [0..(n+1) -> V] : Good(f, n+1)
    BY <2>2, <2>3
  <2>5. QED
    BY <2>4
<1> HIDE DEF T
<1>3. \A n \in 0..N : n \in T
  BY <1>1, <1>2, UpTo
<1>4. N \in T
  BY <1>3
<1>5. QED
  BY <1>4 DEF T, Follows

-----------------------------------------------------------------------------
(* Folds.                                                                  *)

\* A set of numbers has a largest one.
LEMMA Largest ==
  ASSUME NEW N \in Nat, NEW t \in SUBSET (1..N), t # {}
  PROVE  Max(t) \in t /\ \A y \in t : Max(t) >= y
<1> DEFINE T == {n \in 0..N : \A u \in SUBSET (1..n) : u # {} => \E x \in u : \A y \in u : x >= y}
<1>1. 0 \in T
  <2>1. 1..0 = {} /\ 0 \in 0..N
    OBVIOUS
  <2>2. QED
    BY <2>1
<1>2. ASSUME NEW n \in 0..(N-1), n \in T PROVE n+1 \in T
  <2>1. ASSUME NEW u \in SUBSET (1..(n+1)), u # {} PROVE \E x \in u : \A y \in u : x >= y
    <3>1. CASE n+1 \in u
      BY <3>1
    <3>2. CASE n+1 \notin u
      <4>1. u \in SUBSET (1..n)
        BY <3>2
      <4>2. QED
        BY <1>2, <2>1, <4>1
    <3>3. QED
      BY <3>1, <3>2
  <2>2. QED
    BY <2>1
<1> HIDE DEF T
<1>3. N \in T
  BY <1>1, <1>2, UpTo
<1>4. \E x \in t : \A y \in t : x >= y
  BY <1>3 DEF T
<1>5. QED
  BY <1>4 DEF Max

\* The numbers up to k, of which k is the largest.
LEMMA Segment ==
  ASSUME NEW N \in Nat, NEW k \in 1..N
  PROVE  /\ 1..k \in SUBSET (1..N) /\ 1..k # {}
         /\ Max(1..k) = k
         /\ (1..k) \ {Max(1..k)} = 1..(k-1)
<1>1. 1..k \in SUBSET (1..N) /\ 1..k # {} /\ k \in 1..k
  OBVIOUS
<1>2. Max(1..k) \in 1..k /\ Max(1..k) >= k
  BY <1>1, Largest
<1>3. Max(1..k) = k
  BY <1>2
<1>4. QED
  BY <1>1, <1>3

\* A function on sets of numbers that treats the largest one last.
FoldsTo(f, N, a, H) ==
  \A t \in SUBSET (1..N) : f[t] = IF t = {} THEN a ELSE H[Max(t)][f[t \ {Max(t)}]]

\* There is such a function.
LEMMA FoldExists ==
  ASSUME NEW N \in Nat, NEW V, NEW a \in V, NEW H \in [1..N -> [V -> V]]
  PROVE  \E f \in [SUBSET (1..N) -> V] : FoldsTo(f, N, a, H)
<1> DEFINE S == SUBSET (1..N)
           W == [S -> V]
           Top(k, t) == k \in t /\ \A y \in t : y <= k
           E(k, F) == [t \in S |-> IF Top(k, t) THEN H[k][F[t \ {k}]] ELSE F[t]]
           G == [k \in 1..N |-> [F \in W |-> E(k, F)]]
           F0 == [t \in S |-> a]
<1>1. \A t \in S : \A k : t \ {k} \in S
  OBVIOUS
<1>2. G \in [1..N -> [W -> W]]
  <2>1. ASSUME NEW k \in 1..N, NEW F \in W PROVE E(k, F) \in W
    <3>1. ASSUME NEW t \in S PROVE (IF Top(k, t) THEN H[k][F[t \ {k}]] ELSE F[t]) \in V
      <4>1. H[k] \in [V -> V] /\ F[t] \in V /\ F[t \ {k}] \in V
        BY <1>1
      <4>2. QED
        BY <4>1
    <3>2. QED
      BY <3>1
  <2> HIDE DEF E, W
  <2>2. QED
    BY <2>1
<1>3. F0 \in W
  OBVIOUS
<1>4. PICK g \in [0..N -> W] : Follows(g, N, F0, G)
  <2> HIDE DEF W, G, F0
  <2>1. QED
    BY <1>2, <1>3, RecursionExists
<1>5. g[0] = F0 /\ \A k \in 1..N : g[k] = E(k, g[k-1])
  <2>1. g[0] = F0
    BY <1>4 DEF Follows
  <2>2. ASSUME NEW k \in 1..N PROVE g[k] = E(k, g[k-1])
    <3> HIDE DEF W, E, F0
    <3>1. g[k-1] \in W
      OBVIOUS
    <3>2. g[k] = G[k][g[k-1]]
      BY <1>4 DEF Follows
    <3>3. QED
      BY <3>1, <3>2
  <2> HIDE DEF W, E, F0, G
  <2>3. QED
    BY <2>1, <2>2
<1>6. \A t \in S : g[0][t] = a
  BY <1>5
<1>7. \A k \in 1..N : \A t \in S :
        g[k][t] = IF Top(k, t) THEN H[k][g[k-1][t \ {k}]] ELSE g[k-1][t]
  BY <1>5
<1> HIDE DEF G, F0, E
<1>8. ASSUME NEW k \in 0..N, NEW t \in S, t \in SUBSET (1..k) PROVE g[N][t] = g[k][t]
  <2> DEFINE T == {j \in 0..N : j >= k => g[j][t] = g[k][t]}
  <2>1. 0 \in T
    OBVIOUS
  <2>2. ASSUME NEW j \in 0..(N-1), j \in T PROVE j+1 \in T
    <3>1. j+1 \in 1..N /\ (j+1)-1 = j
      OBVIOUS
    <3>2. CASE j >= k
      <4>1. ~Top(j+1, t)
        BY <1>8, <3>2
      <4>2. g[j+1][t] = g[j][t]
        BY <1>7, <3>1, <4>1
      <4>3. QED
        BY <2>2, <3>1, <3>2, <4>2
    <3>3. CASE ~(j >= k)
      <4>1. j+1 >= k => j+1 = k
        BY <3>3
      <4>2. QED
        BY <3>1, <4>1
    <3>4. QED
      BY <3>2, <3>3
  <2> HIDE DEF T
  <2>3. \A j \in 0..N : j \in T
    BY <2>1, <2>2, UpTo
  <2>4. N \in T
    BY <2>3
  <2>5. QED
    BY <2>4 DEF T
<1>9. ASSUME NEW t \in S
      PROVE  g[N][t] = IF t = {} THEN a ELSE H[Max(t)][g[N][t \ {Max(t)}]]
  <2>1. CASE t = {}
    <3>1. t \in SUBSET (1..0) /\ 0 \in 0..N
      BY <2>1
    <3>2. QED
      BY <1>6, <1>8, <2>1, <3>1
  <2>2. CASE t # {}
    <3> DEFINE m == Max(t)
    <3>1. m \in t /\ \A y \in t : m >= y
      BY <2>2, Largest
    <3> HIDE DEF m
    <3>2. m \in 1..N /\ m \in 0..N /\ m-1 \in 0..N
      BY <3>1
    <3>3. t \in SUBSET (1..m) /\ t \ {m} \in SUBSET (1..(m-1)) /\ Top(m, t)
      BY <3>1
    <3>4. g[m][t] = H[m][g[m-1][t \ {m}]]
      BY <1>7, <3>2, <3>3
    <3>5. g[N][t] = g[m][t] /\ g[N][t \ {m}] = g[m-1][t \ {m}]
      BY <1>1, <1>8, <3>2, <3>3
    <3>6. QED
      BY <2>2, <3>4, <3>5 DEF m
  <2>3. QED
    BY <2>1, <2>2
<1>10. g[N] \in W
  <2> HIDE DEF W
  <2>1. N \in 0..N
    OBVIOUS
  <2>2. QED
    BY <2>1
<1>11. FoldsTo(g[N], N, a, H)
  BY <1>9 DEF FoldsTo
<1>12. QED
  BY <1>10, <1>11

\* A function on sets that goes from the numbers up to k-1 to those up to k by H.
GoesBy(v, N, V, H) == \A k \in 1..N : \A x \in V : v[1..(k-1)] = x => v[1..k] = H[k][x]

\* It ends where the steps end.
EndsAs(g, v, N, a, H) == Follows(g, N, a, H) /\ v[1..N] = g[N]

LEMMA FoldFollows ==
  ASSUME NEW N \in Nat, NEW V, NEW a \in V, NEW H \in [1..N -> [V -> V]],
         NEW v, v[{}] = a, GoesBy(v, N, V, H)
  PROVE  \E g \in [0..N -> V] : EndsAs(g, v, N, a, H)
<1>1. PICK g \in [0..N -> V] : Follows(g, N, a, H)
  BY RecursionExists
<1> DEFINE T == {k \in 0..N : v[1..k] = g[k]}
<1>2. 0 \in T
  <2>1. 1..0 = {} /\ g[0] = a
    BY <1>1 DEF Follows
  <2>2. QED
    BY <2>1
<1>3. ASSUME NEW n \in 0..(N-1), n \in T PROVE n+1 \in T
  <2>1. n+1 \in 1..N /\ n+1 \in 0..N /\ (n+1)-1 = n /\ n \in 0..N
    OBVIOUS
  <2>2. v[1..((n+1)-1)] = g[n] /\ g[n] \in V
    BY <1>3, <2>1
  <2>3. v[1..(n+1)] = H[n+1][g[n]]
    BY <2>1, <2>2 DEF GoesBy
  <2>4. g[n+1] = H[n+1][g[n]]
    <3>1. g[n+1] = H[n+1][g[(n+1)-1]]
      BY <1>1, <2>1 DEF Follows
    <3>2. QED
      BY <2>1, <3>1
  <2>5. QED
    BY <2>1, <2>3, <2>4
<1> HIDE DEF T
<1>4. \A k \in 0..N : k \in T
  BY <1>2, <1>3, UpTo
<1>5. v[1..N] = g[N]
  BY <1>4 DEF T
<1>6. QED
  BY <1>1, <1>5 DEF EndsAs

\* g[i] are the first i of m blocks, one after the other.
Flattened(g, m, seqs) ==
  /\ g[0] = << >>
  /\ \A i \in 1..m : g[i] = g[i-1] \o seqs[i]
  /\ FlattenSeq(seqs) = g[m]

\* Blocks can be put together one after the other.
LEMMA FlattenRec ==
  ASSUME NEW X, NEW m \in Nat \ {0}, NEW seqs \in [1..m -> Seq(X)]
  PROVE  \E g \in [0..m -> Seq(X)] : Flattened(g, m, seqs)
<1> DEFINE V == Seq(X)
           H == [i \in 1..m |-> [x \in V |-> x \o seqs[i]]]
           Body(f) == [i \in 1..m |-> IF i = 1 THEN seqs[i] ELSE f[i-1] \o seqs[i]]
           e == << >>
<1>1. e \in V /\ \A x \in V : e \o x = x
  BY EmptySeq, ConcatEmptySeq
<1>2. Len(seqs) = m
  OBVIOUS
<1>3. H \in [1..m -> [V -> V]]
  <2>1. ASSUME NEW i \in 1..m, NEW x \in V PROVE x \o seqs[i] \in V
    <3>1. seqs[i] \in Seq(X)
      OBVIOUS
    <3>2. QED
      BY <3>1, ConcatProperties
  <2>2. QED
    BY <2>1
<1>4. PICK g \in [0..m -> V] : Follows(g, m, e, H)
  <2> HIDE DEF e, V, H
  <2>1. \E g \in [0..m -> V] : Follows(g, m, e, H)
    BY <1>1, <1>3, RecursionExists
  <2>2. QED
    BY <2>1
<1> HIDE DEF V
<1>5. g[0] = e /\ \A i \in 1..m : g[i] = g[i-1] \o seqs[i]
  <2> HIDE DEF e
  <2>1. g[0] = e
    BY <1>4 DEF Follows
  <2>2. ASSUME NEW i \in 1..m PROVE g[i] = g[i-1] \o seqs[i]
    <3> HIDE DEF H
    <3>1. g[i-1] \in V
      OBVIOUS
    <3>2. g[i] = H[i][g[i-1]]
      BY <1>4 DEF Follows
    <3>3. QED
      BY <3>1, <3>2 DEF H
  <2>3. QED
    BY <2>1, <2>2
<1> HIDE DEF H
<1>6. g[1] = seqs[1]
  <2> HIDE DEF e
  <2>1. 1 \in 1..m /\ 1-1 = 0
    OBVIOUS
  <2>2. g[1] = g[1-1] \o seqs[1] /\ seqs[1] \in V
    BY <1>5, <2>1 DEF V
  <2>3. QED
    BY <1>1, <1>5, <2>1, <2>2
<1> DEFINE w == [i \in 1..m |-> g[i]]
<1>7. w = Body(w)
  <2>1. \A i \in 1..m : w[i] = Body(w)[i]
    <3> SUFFICES ASSUME NEW i \in 1..m PROVE w[i] = Body(w)[i]
      OBVIOUS
    <3>1. CASE i = 1
      BY <1>6, <3>1
    <3>2. CASE i # 1
      <4>1. i-1 \in 1..m
        BY <3>2
      <4>2. QED
        BY <1>5, <3>2, <4>1
    <3>3. QED
      BY <3>1, <3>2
  <2>2. QED
    BY <2>1
<1> DEFINE v == CHOOSE f : f = Body(f)
<1>8. v = Body(v)
  <2> HIDE DEF Body
  <2>1. QED
    BY <1>7
<1>9. FlattenSeq(seqs) = v[m]
  BY <1>2 DEF FlattenSeq
<1> HIDE DEF v
<1>10. v[1] = seqs[1] /\ \A i \in 2..m : v[i] = v[i-1] \o seqs[i]
  <2>1. \A i \in 1..m : v[i] = Body(v)[i]
    BY <1>8
  <2>2. \A i \in 1..m : v[i] = IF i = 1 THEN seqs[i] ELSE v[i-1] \o seqs[i]
    BY <2>1
  <2>3. 1 \in 1..m
    OBVIOUS
  <2> HIDE DEF Body
  <2>4. v[1] = seqs[1]
    BY <2>2, <2>3
  <2>5. ASSUME NEW i \in 2..m PROVE v[i] = v[i-1] \o seqs[i]
    <3>1. i \in 1..m /\ i # 1
      OBVIOUS
    <3>2. QED
      BY <2>2, <3>1
  <2>6. QED
    BY <2>4, <2>5
<1>11. \A i \in 0..m : i # 0 => v[i] = g[i]
  <2> DEFINE T == {i \in 0..m : i # 0 => v[i] = g[i]}
  <2>1. 0 \in T
    OBVIOUS
  <2>2. ASSUME NEW n \in 0..(m-1), n \in T PROVE n+1 \in T
    <3>1. CASE n = 0
      BY <1>6, <1>10, <3>1
    <3>2. CASE n # 0
      <4>1. v[n] = g[n] /\ n+1 \in 2..m /\ n+1 \in 1..m /\ (n+1)-1 = n
        BY <2>2, <3>2
      <4>2. v[n+1] = v[n] \o seqs[n+1] /\ g[n+1] = g[n] \o seqs[n+1]
        BY <1>5, <1>10, <4>1
      <4>3. v[n+1] = g[n+1]
        BY <4>1, <4>2
      <4>4. QED
        BY <4>1, <4>3
    <3>3. QED
      BY <3>1, <3>2
  <2> HIDE DEF T
  <2>3. \A n \in 0..m : n \in T
    BY <2>1, <2>2, UpTo
  <2>4. QED
    BY <2>3 DEF T
<1>12. v[m] = g[m]
  BY <1>11
<1>13. QED
  BY <1>5, <1>9, <1>12 DEF V, Flattened

\* Sequences put together are a sequence.
LEMMA FlattenType == ASSUME NEW X, NEW s \in Seq(Seq(X)) PROVE FlattenSeq(s) \in Seq(X)
<1> DEFINE m == Len(s)
<1>1. m \in Nat /\ s \in [1..m -> Seq(X)] /\ DOMAIN s = 1..m
  OBVIOUS
<1> HIDE DEF m
<1>2. CASE m = 0
  <2>1. FlattenSeq(s) = s
    BY <1>2 DEF FlattenSeq, m
  <2>2. s = << >>
    BY <1>2 DEF m
  <2>3. QED
    BY <2>1, <2>2, EmptySeq
<1>3. CASE m # 0
  <2>1. m \in Nat \ {0}
    BY <1>1, <1>3
  <2>2. PICK g \in [0..m -> Seq(X)] : Flattened(g, m, s)
    BY <1>1, <2>1, FlattenRec
  <2>3. m \in 0..m
    BY <2>1
  <2>4. QED
    BY <2>2, <2>3 DEF Flattened
<1>4. QED
  BY <1>2, <1>3

-----------------------------------------------------------------------------
(* Division.                                                               *)

\* A number has one representation with a remainder.
LEMMA ScaleUnique ==
  ASSUME NEW S \in Nat, NEW a \in Nat, NEW b \in Nat, NEW o \in 0..(S-1), NEW p \in 0..(S-1),
         o + a * S = p + b * S
  PROVE  a = b /\ o = p
<1>1. \A x, y \in Nat : x < y => x * S + S <= y * S
  <2> SUFFICES ASSUME NEW x \in Nat, NEW y \in Nat, x < y PROVE x * S + S <= y * S
    OBVIOUS
  <2>1. y - (x+1) \in Nat
    OBVIOUS
  <2>2. (y - (x+1)) * S \in Nat
    BY <2>1
  <2>3. y * S = (y - (x+1)) * S + x * S + S
    OBVIOUS
  <2>4. x * S \in Int /\ y * S \in Int
    OBVIOUS
  <2>5. QED
    BY <2>2, <2>3, <2>4
<1>2. a * S \in Int /\ b * S \in Int
  OBVIOUS
<1>3. ~(a < b)
  <2> SUFFICES ASSUME a < b PROVE FALSE
    OBVIOUS
  <2>1. a * S + S <= b * S
    BY <1>1
  <2>2. QED
    BY <1>2, <2>1
<1>4. ~(b < a)
  <2> SUFFICES ASSUME b < a PROVE FALSE
    OBVIOUS
  <2>1. b * S + S <= a * S
    BY <1>1
  <2>2. QED
    BY <1>2, <2>1
<1>5. a = b
  BY <1>3, <1>4
<1>6. QED
  BY <1>2, <1>5

LEMMA Division ==
  ASSUME NEW a \in Nat, NEW b \in Nat \ {0}
  PROVE  /\ a \div b \in Nat /\ a % b \in 0..(b-1)
         /\ a = (a % b) + (a \div b) * b
<1>1. /\ a \div b \in Nat /\ a % b \in 0..(b-1)
      /\ a = b * (a \div b) + (a % b)
  OBVIOUS
<1> DEFINE q == a \div b
           r == a % b
<1>2. q \in Nat /\ r \in 0..(b-1) /\ a = b * q + r
  BY <1>1
<1> HIDE DEF q, r
<1>3. a = r + q * b
  BY <1>2
<1>4. QED
  BY <1>1, <1>3 DEF q, r

LEMMA DivisionIs ==
  ASSUME NEW b \in Nat \ {0}, NEW q \in Nat, NEW r \in 0..(b-1), NEW a, a = r + q * b
  PROVE  a \div b = q /\ a % b = r
<1>1. a \in Nat
  OBVIOUS
<1> DEFINE x == a \div b
           y == a % b
<1>2. x \in Nat /\ y \in 0..(b-1) /\ a = y + x * b
  BY <1>1, Division
<1> HIDE DEF x, y
<1>3. y + x * b = r + q * b
  BY <1>2
<1>4. x = q /\ y = r
  BY <1>2, <1>3, ScaleUnique
<1>5. QED
  BY <1>4 DEF x, y
=============================================================================
