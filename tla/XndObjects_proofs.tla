-------------------------- MODULE XndObjects_proofs --------------------------
(***************************************************************************)
(* No object of mod/xnd/_xnd.c is freed while something refers to it, none *)
(* is kept without a reference, and views and destructors use only what is *)
(* alive: for every number of objects and every set of failing calls that  *)
(* the theorems name.  First the bookkeeping of references: what           *)
(* Py_INCREF(), a new object and the end of an object do to the counts of  *)
(* a heap in which they are right.                                         *)
(***************************************************************************)
EXTENDS XndObjects, FiniteSetTheorems, SequenceTheorems, FunctionTheorems, TLAPS

USE SlotsAssumption DEF SlotsAssumption

\* The places where an operation forgets a reference to a type when it fails.
NoLeak == Failing \intersect {"pyxnd_view_move_type", "deserialize"} = {}

Heaps == [Objects -> [rc : Nat, owns : Seq(Objects)]]

Owns(h, p, o) == \E k \in DOMAIN h[p].owns : h[p].owns[k] = o
OwnersIn(h, o) == {p \in Objects : Owns(h, p, o)}

\* The references from outside the heap, of the program, of pending calls and
\* of the local variables of an operation, as a number for each object.
Counts == [Objects -> Nat]
Plus(R, o) == [R EXCEPT ![o] = @ + 1]
Give(R, refs) == [o \in Objects |-> R[o] + (IF o \in Range(refs) THEN 1 ELSE 0)]

\* What an object may own, where M are the blocks with memory to view.
Shaped(o, refs, M) ==
  /\ o[1] = "ndt" => Len(refs) <= 1 /\ \A k \in DOMAIN refs : refs[k][1] = "ndt"
  /\ o[1] = "tobj" => Len(refs) = 1 /\ refs[1][1] = "ndt"
  /\ o[1] = "xo" => Len(refs) = 2 /\ refs[1] \in M /\ refs[1][1] = "mb" /\ refs[2][1] = "tobj"
  /\ o[1] = "px" => Len(refs) = 1 /\ refs[1][1] = "xo"
  /\ o[1] = "mb" => \/ Len(refs) <= 1
                    \/ Len(refs) = 2 /\ refs[1][1] = "tobj" /\ refs[2][1] = "px"

Sound(h, M) ==
  /\ h \in Heaps
  /\ \A o \in Objects : IF h[o].rc = 0 THEN h[o].owns = << >> ELSE Shaped(o, h[o].owns, M)

\* Among any objects there is one that no other of them owns, and one that
\* owns no other of them.
Acyclic(h) ==
  \A S \in (SUBSET Objects) \ {{}} :
    /\ \E o \in S : \A p \in S : ~Owns(h, p, o)
    /\ \E p \in S : \A o \in S : ~Owns(h, p, o)

\* No count is too low; only that of a type may be too high.
Counted(h, R) ==
  \A o \in Objects :
    LET n == Cardinality(OwnersIn(h, o)) + R[o]
    IN  h[o].rc >= n /\ (o[1] # "ndt" \/ NoLeak => h[o].rc = n)

Good(h, M, R) == R \in Counts /\ Sound(h, M) /\ Acyclic(h) /\ Counted(h, R)

\* The live objects of h are live in g and own there what they owned.
Extends(h, g) == \A o \in Objects : h[o].rc > 0 => g[o].rc > 0 /\ g[o].owns = h[o].owns

-----------------------------------------------------------------------------
\* An object is a kind and a slot number.
LEMMA ObjectKind == \A o \in Objects : o[1] \in Kinds /\ o[2] \in 1..Slots[o[1]] /\ o = <<o[1], o[2]>>
BY DEF Objects

\* There are finitely many objects, so that owners can be counted.
LEMMA ObjectsFinite == IsFiniteSet(Objects)
<1> DEFINE K(k) == {k} \X (1..Slots[k])
<1>1. ASSUME NEW k \in Kinds PROVE IsFiniteSet(K(k))
  <2>1. Slots[k] \in Nat
    OBVIOUS
  <2>2. IsFiniteSet(1..Slots[k])
    BY <2>1, FS_Interval
  <2>3. IsFiniteSet({k})
    BY FS_Singleton
  <2>4. QED
    BY <2>2, <2>3, FS_Product
<1>2. Objects = ((K("ndt") \union K("tobj")) \union (K("mb") \union K("xo"))) \union K("px")
  BY DEF Objects, Kinds
<1>3. IsFiniteSet(K("ndt")) /\ IsFiniteSet(K("tobj")) /\ IsFiniteSet(K("mb"))
        /\ IsFiniteSet(K("xo")) /\ IsFiniteSet(K("px"))
  BY <1>1 DEF Kinds
<1> HIDE DEF K
<1>4. IsFiniteSet(K("ndt") \union K("tobj")) /\ IsFiniteSet(K("mb") \union K("xo"))
  BY <1>3, FS_Union
<1>5. QED
  BY <1>2, <1>3, <1>4, FS_Union

\* The number of owners is a natural number.
LEMMA OwnersFinite ==
  ASSUME NEW h, NEW o
  PROVE  IsFiniteSet(OwnersIn(h, o)) /\ Cardinality(OwnersIn(h, o)) \in Nat
BY ObjectsFinite, FS_Subset, FS_CardinalityType DEF OwnersIn

\* An owner is a reason for a count: what is owned is live.
LEMMA OwnedLive ==
  ASSUME NEW h, NEW M, NEW R, Good(h, M, R),
         NEW p \in Objects, NEW o \in Objects, Owns(h, p, o)
  PROVE  h[o].rc > R[o] /\ h[o].rc > 0
<1>1. p \in OwnersIn(h, o)
  BY DEF OwnersIn
<1>2. Cardinality(OwnersIn(h, o)) # 0
  BY <1>1, OwnersFinite, FS_EmptySet
<1> DEFINE n == Cardinality(OwnersIn(h, o))
<1>3. n \in Nat /\ n # 0
  BY <1>2, OwnersFinite
<1>4. R[o] \in Nat /\ h[o].rc \in Nat
  BY DEF Good, Counts, Sound, Heaps
<1>5. h[o].rc >= n + R[o]
  BY DEF Good, Counted
<1> HIDE DEF n
<1>6. QED
  BY ONLY <1>3, <1>4, <1>5

\* What has no count has no reference from anywhere.
LEMMA DeadUnowned ==
  ASSUME NEW h, NEW M, NEW R, Good(h, M, R), NEW x \in Objects, h[x].rc = R[x]
  PROVE  \A p \in Objects : ~Owns(h, p, x)
<1>1. ASSUME NEW p \in Objects, Owns(h, p, x) PROVE FALSE
  <2>1. h[x].rc > R[x]
    BY <1>1, OwnedLive
  <2>2. R[x] \in Nat
    BY DEF Good, Counts
  <2>3. QED
    BY <2>1, <2>2
<1>2. QED
  BY <1>1

\* A free slot owns nothing, and nothing outside refers to it.
LEMMA DeadOwnsNothing ==
  ASSUME NEW h, NEW M, NEW R, Good(h, M, R), NEW x \in Objects, h[x].rc = 0
  PROVE  R[x] = 0 /\ h[x].owns = << >> /\ \A o : ~Owns(h, x, o)
<1>1. R[x] = 0
  BY OwnersFinite DEF Good, Counted, Counts, Sound, Heaps
<1>2. h[x].owns = << >>
  BY DEF Good, Sound
<1>3. QED
  BY <1>1, <1>2 DEF Owns

\* One reference more to o, and as many as before to the others.
LEMMA PlusType ==
  ASSUME NEW R \in Counts, NEW o \in Objects
  PROVE  Plus(R, o) \in Counts /\ \A p \in Objects : Plus(R, o)[p] = R[p] + (IF p = o THEN 1 ELSE 0)
BY DEF Plus, Counts

\* One reference more to each object in refs.
LEMMA GiveType ==
  ASSUME NEW R \in Counts, NEW refs
  PROVE  /\ Give(R, refs) \in Counts
         /\ \A p \in Objects : Give(R, refs)[p] = R[p] + (IF p \in Range(refs) THEN 1 ELSE 0)
BY DEF Give, Counts

\* To own an object is to have it among one's references.
LEMMA OwnsRange ==
  ASSUME NEW h, NEW p, NEW o
  PROVE  Owns(h, p, o) <=> o \in Range(h[p].owns)
BY DEF Owns, Range

\* Py_INCREF() and ndt_incref(): one more reference to a live object.
LEMMA IncrefGood ==
  ASSUME NEW h, NEW M, NEW R, Good(h, M, R), NEW o \in Objects, h[o].rc > 0
  PROVE  Good(Incref(h, o), M, Plus(R, o)) /\ Extends(h, Incref(h, o))
<1> DEFINE g == Incref(h, o)
<1>1. h \in Heaps /\ R \in Counts
  BY DEF Good, Sound
<1>2. g \in Heaps
  <2>1. h[o] \in [rc : Nat, owns : Seq(Objects)]
    BY <1>1 DEF Heaps
  <2>2. [h[o] EXCEPT !.rc = h[o].rc + 1] \in [rc : Nat, owns : Seq(Objects)]
    BY <2>1
  <2>3. QED
    BY <1>1, <2>2 DEF Heaps, Incref
<1>3. \A p \in Objects : g[p].owns = h[p].owns /\ g[p].rc = h[p].rc + (IF p = o THEN 1 ELSE 0)
  BY <1>1 DEF Heaps, Incref
<1> HIDE DEF g
<1>4. \A p \in Objects : h[p].rc \in Nat
  BY <1>1 DEF Heaps
<1>5. Sound(g, M)
  <2>1. ASSUME NEW p \in Objects
        PROVE  IF g[p].rc = 0 THEN g[p].owns = << >> ELSE Shaped(p, g[p].owns, M)
    <3>1. g[p].rc = 0 <=> h[p].rc = 0
      BY <1>3, <1>4
    <3>2. IF h[p].rc = 0 THEN h[p].owns = << >> ELSE Shaped(p, h[p].owns, M)
      BY DEF Good, Sound
    <3>3. QED
      BY <3>1, <3>2, <1>3
  <2>2. QED
    BY <2>1, <1>2 DEF Sound
<1>6. \A p, q \in Objects : Owns(g, p, q) <=> Owns(h, p, q)
  BY <1>3 DEF Owns
<1>7. Acyclic(g)
  BY <1>6 DEF Good, Acyclic
<1>8. \A q \in Objects : OwnersIn(g, q) = OwnersIn(h, q)
  BY <1>6 DEF OwnersIn
<1>9. Counted(g, Plus(R, o))
  <2> SUFFICES ASSUME NEW q \in Objects
               PROVE  LET n == Cardinality(OwnersIn(g, q)) + Plus(R, o)[q]
                      IN  g[q].rc >= n /\ (q[1] # "ndt" \/ NoLeak => g[q].rc = n)
    BY DEF Counted
  <2>1. Cardinality(OwnersIn(h, q)) \in Nat /\ R[q] \in Nat
    BY <1>1, OwnersFinite DEF Counts
  <2>2. QED
    BY <2>1, <1>1, <1>3, <1>4, <1>8, PlusType DEF Good, Counted
<1>10. Extends(h, g)
  BY <1>3, <1>4 DEF Extends
<1>11. QED
  BY <1>1, <1>5, <1>7, <1>9, <1>10, PlusType DEF Good, g

\* A new object takes over the references in refs, and one refers to it.
LEMMA NewGood ==
  ASSUME NEW h, NEW M, NEW R \in Counts, NEW x \in Objects, NEW refs \in Seq(Objects),
         Good(h, M, Give(R, refs)), h[x].rc = 0, Shaped(x, refs, M)
  PROVE  Good(New(h, x, refs), M, Plus(R, x)) /\ Extends(h, New(h, x, refs))
<1> DEFINE g == New(h, x, refs)
<1>1. h \in Heaps
  BY DEF Good, Sound
<1>2. Give(R, refs)[x] = 0 /\ h[x].owns = << >>
  BY DeadOwnsNothing
<1>3. R[x] = 0 /\ x \notin Range(refs)
  BY <1>2, GiveType DEF Counts
<1>4. \A p \in Objects : ~Owns(h, p, x)
  BY <1>2, DeadUnowned
<1>5. g \in Heaps
  BY <1>1 DEF Heaps, New
<1>6. \A p \in Objects : g[p] = IF p = x THEN [rc |-> 1, owns |-> refs] ELSE h[p]
  BY <1>1 DEF Heaps, New
<1> HIDE DEF g
<1>7. \A p, q \in Objects : Owns(g, p, q) <=> IF p = x THEN q \in Range(refs) ELSE Owns(h, p, q)
  BY <1>6, OwnsRange
<1>8. Sound(g, M)
  <2>1. ASSUME NEW p \in Objects
        PROVE  IF g[p].rc = 0 THEN g[p].owns = << >> ELSE Shaped(p, g[p].owns, M)
    <3>1. IF h[p].rc = 0 THEN h[p].owns = << >> ELSE Shaped(p, h[p].owns, M)
      BY DEF Good, Sound
    <3>2. CASE p = x
      BY <3>2, <1>6
    <3>3. CASE p # x
      BY <3>1, <3>3, <1>6
    <3>4. QED
      BY <3>2, <3>3
  <2>2. QED
    BY <2>1, <1>5 DEF Sound
<1>9. Acyclic(g)
  <2> SUFFICES ASSUME NEW S \in (SUBSET Objects) \ {{}}
               PROVE  /\ \E o \in S : \A p \in S : ~Owns(g, p, o)
                      /\ \E p \in S : \A o \in S : ~Owns(g, p, o)
    BY DEF Acyclic
  <2>1. \A p \in Objects : ~Owns(g, p, x)
    BY <1>3, <1>4, <1>7
  <2>2. CASE x \notin S
    <3>1. \A p, o \in S : Owns(g, p, o) <=> Owns(h, p, o)
      BY <2>2, <1>7
    <3>2. QED
      BY <3>1 DEF Good, Acyclic
  <2>3. CASE x \in S /\ S \ {x} # {}
    <3>1. S \ {x} \in (SUBSET Objects) \ {{}}
      BY <2>3
    <3>2. PICK p \in S \ {x} : \A o \in S \ {x} : ~Owns(h, p, o)
      BY <3>1 DEF Good, Acyclic
    <3>3. \A o \in S : ~Owns(g, p, o)
      BY <3>2, <2>1, <1>7
    <3>4. QED
      BY <2>1, <2>3, <3>2, <3>3
  <2>4. CASE S = {x}
    BY <2>1, <2>4
  <2>5. QED
    BY <2>2, <2>3, <2>4
<1>10. Counted(g, Plus(R, x))
  <2> SUFFICES ASSUME NEW q \in Objects
               PROVE  LET n == Cardinality(OwnersIn(g, q)) + Plus(R, x)[q]
                      IN  g[q].rc >= n /\ (q[1] # "ndt" \/ NoLeak => g[q].rc = n)
    BY DEF Counted
  <2>1. Cardinality(OwnersIn(h, q)) \in Nat /\ R[q] \in Nat /\ h[q].rc \in Nat
    BY <1>1, OwnersFinite DEF Counts, Heaps
  <2>2. x \notin OwnersIn(h, q)
    BY <1>2 DEF OwnersIn, Owns
  <2>3. Cardinality(OwnersIn(g, q))
          = Cardinality(OwnersIn(h, q)) + (IF q \in Range(refs) THEN 1 ELSE 0)
    <3>1. CASE q \in Range(refs)
      <4>1. OwnersIn(g, q) = OwnersIn(h, q) \union {x}
        BY <1>7, <3>1 DEF OwnersIn
      <4>2. QED
        BY <4>1, <3>1, <2>2, OwnersFinite, FS_AddElement
    <3>2. CASE q \notin Range(refs)
      <4>1. OwnersIn(g, q) = OwnersIn(h, q)
        BY <1>7, <3>2, <2>2 DEF OwnersIn
      <4>2. QED
        BY <4>1, <3>2, <2>1
    <3>3. QED
      BY <3>1, <3>2
  <2>4. Plus(R, x)[q] = R[q] + (IF q = x THEN 1 ELSE 0)
    BY PlusType
  <2>5. Give(R, refs)[q] = R[q] + (IF q \in Range(refs) THEN 1 ELSE 0)
    BY GiveType
  <2>6. LET n == Cardinality(OwnersIn(h, q)) + Give(R, refs)[q]
        IN  h[q].rc >= n /\ (q[1] # "ndt" \/ NoLeak => h[q].rc = n)
    BY DEF Good, Counted
  <2>7. CASE q = x
    <3>1. OwnersIn(h, q) = {}
      BY <1>4, <2>7 DEF OwnersIn
    <3>2. Cardinality(OwnersIn(h, q)) = 0
      BY <3>1, FS_EmptySet
    <3>3. QED
      BY <3>2, <2>3, <2>4, <2>7, <1>3, <1>6
  <2>8. CASE q # x
    <3>1. g[q].rc = h[q].rc
      BY <1>6, <2>8
    <3>2. Cardinality(OwnersIn(g, q)) + Plus(R, x)[q] = Cardinality(OwnersIn(h, q)) + Give(R, refs)[q]
      <4>1. Plus(R, x)[q] = R[q]
        BY <2>1, <2>4, <2>8
      <4>2. QED
        BY <4>1, <2>1, <2>3, <2>5
    <3>3. QED
      BY <3>1, <3>2, <2>6
  <2>9. QED
    BY <2>7, <2>8
<1>11. Extends(h, g)
  BY <1>6 DEF Extends
<1>12. QED
  BY <1>8, <1>9, <1>10, <1>11, PlusType DEF Good, g

\* A reference goes, and others to the object remain.
LEMMA DropGood ==
  ASSUME NEW h, NEW M, NEW R \in Counts, NEW o \in Objects, Good(h, M, Plus(R, o)), h[o].rc # 1
  PROVE  Good(Unref(h, o), M, R)
<1> DEFINE g == Unref(h, o)
<1>1. h \in Heaps
  BY DEF Good, Sound
<1>2. \A p \in Objects : h[p].rc \in Nat
  BY <1>1 DEF Heaps
<1>3. h[o].rc >= 1
  BY <1>2, OwnersFinite, PlusType DEF Good, Counted, Counts
<1>4. g \in Heaps
  <2>1. h[o] \in [rc : Nat, owns : Seq(Objects)]
    BY <1>1 DEF Heaps
  <2>2. [h[o] EXCEPT !.rc = h[o].rc - 1] \in [rc : Nat, owns : Seq(Objects)]
    BY <2>1, <1>2, <1>3
  <2>3. QED
    BY <1>1, <2>2 DEF Heaps, Unref
<1>5. \A p \in Objects : g[p].owns = h[p].owns /\ g[p].rc = h[p].rc - (IF p = o THEN 1 ELSE 0)
  BY <1>1 DEF Heaps, Unref
<1> HIDE DEF g
<1>6. Sound(g, M)
  <2>1. ASSUME NEW p \in Objects
        PROVE  IF g[p].rc = 0 THEN g[p].owns = << >> ELSE Shaped(p, g[p].owns, M)
    <3>1. g[p].rc = 0 <=> h[p].rc = 0
      BY <1>2, <1>3, <1>5
    <3>2. IF h[p].rc = 0 THEN h[p].owns = << >> ELSE Shaped(p, h[p].owns, M)
      BY DEF Good, Sound
    <3>3. QED
      BY <3>1, <3>2, <1>5
  <2>2. QED
    BY <2>1, <1>4 DEF Sound
<1>7. \A p, q \in Objects : Owns(g, p, q) <=> Owns(h, p, q)
  BY <1>5 DEF Owns
<1>8. Acyclic(g)
  BY <1>7 DEF Good, Acyclic
<1>9. \A q \in Objects : OwnersIn(g, q) = OwnersIn(h, q)
  BY <1>7 DEF OwnersIn
<1>10. Counted(g, R)
  <2> SUFFICES ASSUME NEW q \in Objects
               PROVE  LET n == Cardinality(OwnersIn(g, q)) + R[q]
                      IN  g[q].rc >= n /\ (q[1] # "ndt" \/ NoLeak => g[q].rc = n)
    BY DEF Counted
  <2>1. Cardinality(OwnersIn(h, q)) \in Nat /\ R[q] \in Nat
    BY OwnersFinite DEF Counts
  <2>2. QED
    BY <2>1, <1>2, <1>5, <1>9, PlusType DEF Good, Counted
<1>11. QED
  BY <1>6, <1>8, <1>10 DEF Good, g

\* The last reference to an object goes: nothing owns it, and the references
\* that it owned are left over.
LEMMA FreeGood ==
  ASSUME NEW h, NEW M, NEW R \in Counts, NEW o \in Objects, Good(h, M, Plus(R, o)), h[o].rc = 1
  PROVE  /\ R[o] = 0
         /\ \A p \in Objects : ~Owns(h, p, o)
         /\ Good(Free(h, o), M \ {o}, Give(R, h[o].owns))
<1> DEFINE g == Free(h, o)
<1>1. h \in Heaps /\ R[o] \in Nat
  BY DEF Good, Sound, Counts
<1>2. Plus(R, o)[o] = R[o] + 1
  BY PlusType
<1>3. R[o] = 0
  BY <1>1, <1>2, OwnersFinite DEF Good, Counted
<1>4. \A p \in Objects : ~Owns(h, p, o)
  BY <1>2, <1>3, DeadUnowned
<1>5. g \in Heaps
  BY <1>1 DEF Heaps, Free, Unused
<1>6. \A p \in Objects : g[p] = IF p = o THEN Unused ELSE h[p]
  BY <1>1 DEF Heaps, Free
<1> HIDE DEF g
<1>7. \A p, q \in Objects : Owns(g, p, q) <=> p # o /\ Owns(h, p, q)
  BY <1>6 DEF Unused, Owns
<1>8. Sound(g, M \ {o})
  <2>1. ASSUME NEW p \in Objects
        PROVE  IF g[p].rc = 0 THEN g[p].owns = << >> ELSE Shaped(p, g[p].owns, M \ {o})
    <3>1. IF h[p].rc = 0 THEN h[p].owns = << >> ELSE Shaped(p, h[p].owns, M)
      BY DEF Good, Sound
    <3>2. CASE p = o
      BY <3>2, <1>6 DEF Unused
    <3>3. CASE p # o /\ h[p].rc = 0
      BY <3>1, <3>3, <1>6
    <3>4. CASE p # o /\ h[p].rc # 0
      <4>1. p[1] = "xo" => h[p].owns[1] # o
        BY <1>4, <3>1, <3>4 DEF Owns, Shaped
      <4>2. QED
        BY <3>1, <3>4, <4>1, <1>6 DEF Shaped
    <3>5. QED
      BY <3>2, <3>3, <3>4
  <2>2. QED
    BY <2>1, <1>5 DEF Sound
<1>9. Acyclic(g)
  BY <1>7 DEF Good, Acyclic
<1>10. Counted(g, Give(R, h[o].owns))
  <2> SUFFICES ASSUME NEW q \in Objects
               PROVE  LET n == Cardinality(OwnersIn(g, q)) + Give(R, h[o].owns)[q]
                      IN  g[q].rc >= n /\ (q[1] # "ndt" \/ NoLeak => g[q].rc = n)
    BY DEF Counted
  <2>1. Cardinality(OwnersIn(h, q)) \in Nat /\ R[q] \in Nat /\ h[q].rc \in Nat
    BY <1>1, OwnersFinite DEF Counts, Heaps
  <2>2. OwnersIn(g, q) = OwnersIn(h, q) \ {o}
    BY <1>7 DEF OwnersIn
  <2>3. o \in OwnersIn(h, q) <=> q \in Range(h[o].owns)
    BY OwnsRange DEF OwnersIn
  <2>4. Cardinality(OwnersIn(g, q))
          = Cardinality(OwnersIn(h, q)) - (IF q \in Range(h[o].owns) THEN 1 ELSE 0)
    <3>1. Cardinality(OwnersIn(h, q) \ {o})
            = IF o \in OwnersIn(h, q) THEN Cardinality(OwnersIn(h, q)) - 1
              ELSE Cardinality(OwnersIn(h, q))
      BY OwnersFinite, FS_RemoveElement
    <3>2. QED
      BY <3>1, <2>1, <2>2, <2>3
  <2>5. Give(R, h[o].owns)[q] = R[q] + (IF q \in Range(h[o].owns) THEN 1 ELSE 0)
    BY GiveType
  <2>6. Cardinality(OwnersIn(g, q)) + Give(R, h[o].owns)[q] = Cardinality(OwnersIn(h, q)) + R[q]
    BY <2>1, <2>4, <2>5
  <2>7. LET n == Cardinality(OwnersIn(h, q)) + Plus(R, o)[q]
        IN  h[q].rc >= n /\ (q[1] # "ndt" \/ NoLeak => h[q].rc = n)
    BY DEF Good, Counted
  <2>8. CASE q = o
    <3>1. OwnersIn(h, q) = {}
      BY <1>4, <2>8 DEF OwnersIn
    <3>2. Cardinality(OwnersIn(h, q)) = 0
      BY <3>1, FS_EmptySet
    <3>3. g[q].rc = 0
      BY <1>6, <2>8 DEF Unused
    <3>4. QED
      BY <3>2, <3>3, <2>6, <2>8, <1>3
  <2>9. CASE q # o
    <3>1. g[q].rc = h[q].rc /\ Plus(R, o)[q] = R[q]
      BY <1>6, <2>9, <2>1, PlusType
    <3>2. QED
      BY <3>1, <2>6, <2>7
  <2>10. QED
    BY <2>8, <2>9
<1>11. QED
  BY <1>3, <1>4, <1>8, <1>9, <1>10, GiveType DEF Good, g

\* References may only be given to blocks with memory, of which there are more.
LEMMA MoreBlocks ==
  ASSUME NEW h, NEW M, NEW R, Good(h, M, R), NEW N, M \subseteq N
  PROVE  Good(h, N, R)
<1>1. ASSUME NEW o \in Objects
      PROVE  IF h[o].rc = 0 THEN h[o].owns = << >> ELSE Shaped(o, h[o].owns, N)
  <2>1. IF h[o].rc = 0 THEN h[o].owns = << >> ELSE Shaped(o, h[o].owns, M)
    BY DEF Good, Sound
  <2>2. QED
    BY <2>1 DEF Shaped
<1>2. QED
  BY <1>1 DEF Good, Sound

\* A reference to a type is forgotten.
LEMMA LeakGood ==
  ASSUME NEW h, NEW M, NEW R \in Counts, NEW t \in Objects, Good(h, M, Plus(R, t)),
         t[1] = "ndt", ~NoLeak
  PROVE  Good(h, M, R)
<1>1. Counted(h, R)
  <2> SUFFICES ASSUME NEW q \in Objects
               PROVE  LET n == Cardinality(OwnersIn(h, q)) + R[q]
                      IN  h[q].rc >= n /\ (q[1] # "ndt" \/ NoLeak => h[q].rc = n)
    BY DEF Counted
  <2>1. Cardinality(OwnersIn(h, q)) \in Nat /\ R[q] \in Nat /\ h[q].rc \in Nat
    BY OwnersFinite DEF Good, Sound, Heaps, Counts
  <2>2. LET n == Cardinality(OwnersIn(h, q)) + Plus(R, t)[q]
        IN  h[q].rc >= n /\ (q[1] # "ndt" \/ NoLeak => h[q].rc = n)
    BY DEF Good, Counted
  <2>3. Plus(R, t)[q] = R[q] + (IF q = t THEN 1 ELSE 0)
    BY PlusType
  <2>4. QED
    BY <2>1, <2>2, <2>3
<1>2. QED
  BY <1>1 DEF Good

-----------------------------------------------------------------------------
(* Free slots.                                                             *)

\* A set of numbers has a least one.
LEMMA LeastNumber ==
  ASSUME NEW T \in SUBSET Nat, T # {}
  PROVE  \E n \in T : \A m \in T : n <= m
<1>1. PICK n \in T : \A m \in T : ~(<<m, n>> \in OpToRel(<, Nat))
  BY NatLessThanWellFounded, WFMin
<1>2. ASSUME NEW m \in T PROVE n <= m
  <2>1. ~(<<m, n>> \in OpToRel(<, Nat))
    BY <1>1
  <2>2. QED
    BY <2>1 DEF OpToRel
<1>3. QED
  BY <1>2

\* A free slot is found where there is one.
LEMMA FreshDead ==
  ASSUME NEW h, NEW kind, Dead(h, kind) # {}
  PROVE  LET x == Fresh(h, kind) IN x \in Objects /\ x[1] = kind /\ h[x].rc = 0 /\ x \in Dead(h, kind)
<1> DEFINE D == Dead(h, kind)
           T == {o[2] : o \in D}
<1>1. T \in SUBSET Nat /\ T # {}
  BY ObjectKind DEF Dead
<1>2. PICK n \in T : \A m \in T : n <= m
  BY <1>1, LeastNumber
<1>3. \E o \in D : \A p \in D : o[2] <= p[2]
  BY <1>2
<1>4. Fresh(h, kind) \in D
  BY <1>3 DEF Fresh
<1>5. QED
  BY <1>4 DEF Dead

\* The free slots of a kind can be counted.
LEMMA DeadFinite ==
  ASSUME NEW h, NEW kind
  PROVE  IsFiniteSet(Dead(h, kind)) /\ Cardinality(Dead(h, kind)) \in Nat
BY ObjectsFinite, FS_Subset, FS_CardinalityType DEF Dead

\* Where room is left there is a free slot.
LEMMA SomeDead ==
  ASSUME NEW h, NEW kind, Cardinality(Dead(h, kind)) >= 1
  PROVE  Dead(h, kind) # {}
BY FS_EmptySet

\* Where there is room for two, one free slot remains when any is taken.
LEMMA TwoDead ==
  ASSUME NEW h, NEW kind, NEW x, Cardinality(Dead(h, kind)) >= 2
  PROVE  Dead(h, kind) # {} /\ Dead(h, kind) \ {x} # {}
<1>1. Cardinality(Dead(h, kind) \ {x})
        = IF x \in Dead(h, kind) THEN Cardinality(Dead(h, kind)) - 1 ELSE Cardinality(Dead(h, kind))
  BY DeadFinite, FS_RemoveElement
<1>2. Cardinality(Dead(h, kind) \ {x}) >= 1
  BY <1>1, DeadFinite
<1>3. QED
  BY <1>2, FS_EmptySet

\* A new object takes its slot and no other.
LEMMA DeadNew ==
  ASSUME NEW h \in Heaps, NEW kind, NEW x \in Objects, NEW refs
  PROVE  Dead(New(h, x, refs), kind) = Dead(h, kind) \ {x}
BY DEF Dead, New, Heaps

\* A reference more takes no slot.
LEMMA DeadIncref ==
  ASSUME NEW h \in Heaps, NEW kind, NEW o \in Objects, h[o].rc > 0
  PROVE  Dead(Incref(h, o), kind) = Dead(h, kind)
<1>1. \A p \in Objects : Incref(h, o)[p].rc = h[p].rc + (IF p = o THEN 1 ELSE 0)
  BY DEF Incref, Heaps
<1>2. \A p \in Objects : h[p].rc \in Nat
  BY DEF Heaps
<1>3. QED
  BY <1>1, <1>2 DEF Dead

-----------------------------------------------------------------------------
(* The references of the program and of pending calls.                     *)

Outside(refs, calls) == [o \in Objects |-> (IF o \in refs THEN 1 ELSE 0) + CountIn(calls, o)]

\* The calls for an object can be counted.
LEMMA CountType ==
  ASSUME NEW S, NEW s \in Seq(S), NEW o
  PROVE  IsFiniteSet({k \in DOMAIN s : s[k] = o}) /\ CountIn(s, o) \in Nat
<1>1. DOMAIN s = 1..Len(s) /\ Len(s) \in Nat
  BY LenProperties
<1>2. IsFiniteSet(DOMAIN s)
  BY <1>1, FS_Interval
<1>3. QED
  BY <1>2, FS_Subset, FS_CardinalityType DEF CountIn

\* The calls in two sequences add up.
LEMMA CountConcat ==
  ASSUME NEW S, NEW s \in Seq(S), NEW t \in Seq(S), NEW o
  PROVE  CountIn(s \o t, o) = CountIn(s, o) + CountIn(t, o)
<1> DEFINE m == Len(s)
           n == Len(t)
           A == {k \in DOMAIN s : s[k] = o}
           B == {k \in DOMAIN t : t[k] = o}
           C == {k \in DOMAIN (s \o t) : (s \o t)[k] = o}
           D == {k \in C : k > m}
           f == [k \in B |-> k + m]
<1>1. m \in Nat /\ n \in Nat /\ DOMAIN s = 1..m /\ DOMAIN t = 1..n
  BY LenProperties
<1>2. s \o t \in Seq(S) /\ Len(s \o t) = m + n
        /\ \A k \in 1..(m + n) : (s \o t)[k] = IF k <= m THEN s[k] ELSE t[k - m]
  BY ConcatProperties
<1>3. DOMAIN (s \o t) = 1..(m + n)
  BY <1>2, LenProperties
<1>4. IsFiniteSet(A) /\ IsFiniteSet(B) /\ IsFiniteSet(C)
  BY <1>2, CountType
<1>5. C = A \union D /\ A \intersect D = {}
  BY <1>1, <1>2, <1>3
<1>6. f \in Bijection(B, D)
  <2>1. f \in [B -> D]
    BY <1>1, <1>2, <1>3
  <2>2. \A a, b \in B : f[a] = f[b] => a = b
    BY <1>1
  <2>3. ASSUME NEW d \in D PROVE \E b \in B : f[b] = d
    <3>1. d - m \in B /\ f[d - m] = d
      BY <1>1, <1>2, <1>3
    <3>2. QED
      BY <3>1
  <2>4. QED
    BY <2>1, <2>2, <2>3, Fun_IsBij
<1>7. IsFiniteSet(D) /\ Cardinality(D) = Cardinality(B)
  <2>1. ExistsBijection(B, D)
    BY <1>6 DEF ExistsBijection
  <2>2. QED
    BY <2>1, <1>4, FS_Bijection
<1> HIDE DEF A, B, C, D, f
<1>8. Cardinality(C) = Cardinality(A) + Cardinality(D) - Cardinality(A \intersect D)
  BY <1>4, <1>5, <1>7, FS_Union
<1>9. Cardinality(A \intersect D) = 0 /\ Cardinality(A) \in Nat /\ Cardinality(D) \in Nat
  BY <1>4, <1>5, <1>7, FS_EmptySet, FS_CardinalityType
<1>10. CountIn(s, o) = Cardinality(A) /\ CountIn(t, o) = Cardinality(B)
         /\ CountIn(s \o t, o) = Cardinality(C)
  BY DEF CountIn, A, B, C
<1>11. QED
  BY <1>7, <1>8, <1>9, <1>10

\* Where no call is pending there is none for any object.
LEMMA CountEmpty == \A o : CountIn(<< >>, o) = 0
BY FS_EmptySet DEF CountIn

\* Where no reference occurs twice it counts once.
LEMMA CountDistinct ==
  ASSUME NEW S, NEW s \in Seq(S), NEW o,
         \A i, j \in DOMAIN s : s[i] = s[j] => i = j
  PROVE  CountIn(s, o) = IF o \in Range(s) THEN 1 ELSE 0
<1> DEFINE A == {k \in DOMAIN s : s[k] = o}
<1>1. CASE o \in Range(s)
  <2>1. PICK i \in DOMAIN s : s[i] = o
    BY <1>1 DEF Range
  <2>2. A = {i}
    BY <2>1
  <2>3. QED
    BY <2>2, <1>1, FS_Singleton DEF CountIn
<1>2. CASE o \notin Range(s)
  <2>1. A = {}
    BY <1>2 DEF Range
  <2>2. QED
    BY <2>1, <1>2, FS_EmptySet DEF CountIn
<1>3. QED
  BY <1>1, <1>2

\* References from outside are equal if they are equal for each object.
LEMMA CountsEqual ==
  ASSUME NEW R \in Counts, NEW Q \in Counts, \A o \in Objects : R[o] = Q[o]
  PROVE  R = Q
BY DEF Counts

\* What refers to an object from outside: the program and pending calls.
LEMMA OutsideAt ==
  ASSUME NEW refs, NEW calls, NEW o \in Objects
  PROVE  Outside(refs, calls)[o] = (IF o \in refs THEN 1 ELSE 0) + CountIn(calls, o)
BY DEF Outside

\* The references of the program and of pending calls are numbers.
LEMMA OutsideType ==
  ASSUME NEW S, NEW refs, NEW calls \in Seq(S)
  PROVE  Outside(refs, calls) \in Counts
<1>1. \A o \in Objects : (IF o \in refs THEN 1 ELSE 0) + CountIn(calls, o) \in Nat
  <2> SUFFICES ASSUME NEW o \in Objects
               PROVE  (IF o \in refs THEN 1 ELSE 0) + CountIn(calls, o) \in Nat
    OBVIOUS
  <2>1. CountIn(calls, o) \in Nat
    BY CountType
  <2>2. QED
    BY <2>1
<1>2. QED
  BY <1>1 DEF Outside, Counts

\* Where no call is pending only the program refers to objects.
LEMMA OutsideNone ==
  ASSUME NEW refs, NEW o \in Objects
  PROVE  Outside(refs, << >>)[o] = IF o \in refs THEN 1 ELSE 0
<1>1. CountIn(<< >>, o) = 0
  BY CountEmpty
<1>2. QED
  BY <1>1, OutsideAt

\* The program holds an object more.
LEMMA OutsideHold ==
  ASSUME NEW refs, NEW x \in Objects, x \notin refs
  PROVE  Outside(refs \union {x}, << >>) = Plus(Outside(refs, << >>), x)
<1>1. << >> \in Seq(Objects)
  OBVIOUS
<1>2. Outside(refs \union {x}, << >>) \in Counts /\ Outside(refs, << >>) \in Counts
  BY <1>1, OutsideType
<1>3. Plus(Outside(refs, << >>), x) \in Counts
  BY <1>2, PlusType
<1>4. ASSUME NEW o \in Objects
      PROVE  Outside(refs \union {x}, << >>)[o] = Plus(Outside(refs, << >>), x)[o]
  <2>1. Outside(refs \union {x}, << >>)[o] = IF o \in refs \union {x} THEN 1 ELSE 0
    BY OutsideNone
  <2>2. Outside(refs, << >>)[o] = IF o \in refs THEN 1 ELSE 0
    BY OutsideNone
  <2>3. Plus(Outside(refs, << >>), x)[o] = Outside(refs, << >>)[o] + (IF o = x THEN 1 ELSE 0)
    BY <1>2, PlusType
  <2>4. QED
    BY <2>1, <2>2, <2>3
<1>5. QED
  BY <1>2, <1>3, <1>4, CountsEqual

\* A call is pending for an object.
LEMMA OutsideCons ==
  ASSUME NEW S, NEW refs, NEW calls \in Seq(S), NEW x \in S
  PROVE  Outside(refs, <<x>> \o calls)
           = IF x \in Objects THEN Plus(Outside(refs, calls), x) ELSE Outside(refs, calls)
<1>1. <<x>> \in Seq(S) /\ <<x>> \o calls \in Seq(S)
  BY ConcatProperties
<1>2. ASSUME NEW o PROVE CountIn(<<x>>, o) = IF o = x THEN 1 ELSE 0
  <2>1. CountIn(<<x>>, o) = IF o \in Range(<<x>>) THEN 1 ELSE 0
    <3>1. \A i, j \in DOMAIN <<x>> : <<x>>[i] = <<x>>[j] => i = j
      OBVIOUS
    <3>2. QED
      BY <1>1, <3>1, CountDistinct
  <2>2. Range(<<x>>) = {x}
    BY DEF Range
  <2>3. QED
    BY <2>1, <2>2
<1>3. ASSUME NEW o \in Objects
      PROVE  Outside(refs, <<x>> \o calls)[o] = Outside(refs, calls)[o] + (IF o = x THEN 1 ELSE 0)
  <2>1. CountIn(<<x>> \o calls, o) = CountIn(<<x>>, o) + CountIn(calls, o)
    BY <1>1, CountConcat
  <2>2. CountIn(calls, o) \in Nat
    BY CountType
  <2>3. Outside(refs, <<x>> \o calls)[o] = (IF o \in refs THEN 1 ELSE 0) + CountIn(<<x>> \o calls, o)
    BY OutsideAt
  <2>4. Outside(refs, calls)[o] = (IF o \in refs THEN 1 ELSE 0) + CountIn(calls, o)
    BY OutsideAt
  <2>5. QED
    BY <1>2, <2>1, <2>2, <2>3, <2>4
<1>4. Outside(refs, <<x>> \o calls) \in Counts /\ Outside(refs, calls) \in Counts
  BY <1>1, OutsideType
<1>5. CASE x \in Objects
  <2>1. Plus(Outside(refs, calls), x) \in Counts
    BY <1>4, <1>5, PlusType
  <2>2. \A o \in Objects : Plus(Outside(refs, calls), x)[o] = Outside(refs, <<x>> \o calls)[o]
    BY <1>3, <1>4, <1>5, PlusType
  <2>3. QED
    BY <1>4, <1>5, <2>1, <2>2, CountsEqual
<1>6. CASE x \notin Objects
  <2>1. \A o \in Objects : Outside(refs, calls)[o] = Outside(refs, <<x>> \o calls)[o]
    <3>1. ASSUME NEW o \in Objects PROVE Outside(refs, calls)[o] = Outside(refs, <<x>> \o calls)[o]
      <4>1. Outside(refs, calls)[o] \in Nat
        BY <1>4 DEF Counts
      <4>2. QED
        BY <4>1, <1>3, <1>6
    <3>2. QED
      BY <3>1
  <2>2. QED
    BY <1>4, <1>6, <2>1, CountsEqual
<1>7. QED
  BY <1>5, <1>6

\* A pending Py_DECREF() or ndt_decref() comes first.
LEMMA OutsideCall ==
  ASSUME NEW refs, NEW calls \in Seq(Objects), NEW x \in Objects
  PROVE  Outside(refs, <<x>> \o calls) = Plus(Outside(refs, calls), x)
BY OutsideCons

\* One decrement is pending.
LEMMA OutsideOne ==
  ASSUME NEW refs, NEW x \in Objects
  PROVE  Outside(refs, <<x>>) = Plus(Outside(refs, << >>), x)
<1>1. << >> \in Seq(Objects) /\ <<x>> \in Seq(Objects)
  OBVIOUS
<1>2. <<x>> \o << >> = <<x>>
  BY <1>1, ConcatEmptySeq
<1> DEFINE none == << >>
<1>3. none \in Seq(Objects)
  BY <1>1
<1> HIDE DEF none
<1>4. Outside(refs, <<x>> \o none) = Plus(Outside(refs, none), x)
  BY <1>3, OutsideCall
<1>5. QED
  BY <1>2, <1>4 DEF none

\* Two decrements are pending.
LEMMA OutsideTwo ==
  ASSUME NEW refs, NEW x \in Objects, NEW y \in Objects
  PROVE  Outside(refs, <<x, y>>) = Plus(Plus(Outside(refs, << >>), y), x)
<1>1. <<y>> \in Seq(Objects) /\ <<x>> \in Seq(Objects) /\ <<x, y>> \in Seq(Objects)
  OBVIOUS
<1>2. <<x>> \o <<y>> = <<x, y>>
  <2>1. Len(<<x>> \o <<y>>) = 2 /\ <<x>> \o <<y>> \in Seq(Objects)
          /\ (<<x>> \o <<y>>)[1] = x /\ (<<x>> \o <<y>>)[2] = y
    BY <1>1, ConcatProperties
  <2>2. \A i \in 1..2 : (<<x>> \o <<y>>)[i] = <<x, y>>[i]
    BY <2>1
  <2>3. QED
    BY <1>1, <2>1, <2>2, SeqEqual
<1> DEFINE one == <<y>>
<1>3. one \in Seq(Objects)
  BY <1>1
<1> HIDE DEF one
<1>4. Outside(refs, <<x>> \o one) = Plus(Outside(refs, one), x)
  BY <1>3, OutsideCall
<1>5. Outside(refs, <<x, y>>) = Plus(Outside(refs, <<y>>), x)
  BY <1>2, <1>4 DEF one
<1>6. Outside(refs, <<y>>) = Plus(Outside(refs, << >>), y)
  BY OutsideOne
<1>7. QED
  BY <1>5, <1>6

\* The references that an object owned are pending decrements.
LEMMA OutsideGive ==
  ASSUME NEW S, Objects \subseteq S, NEW refs, NEW calls \in Seq(S), NEW s \in Seq(Objects),
         \A i, j \in DOMAIN s : s[i] = s[j] => i = j
  PROVE  Outside(refs, s \o calls) = Give(Outside(refs, calls), s)
<1>1. s \in Seq(S) /\ s \o calls \in Seq(S)
  BY SeqMonotonic, ConcatProperties
<1>2. Outside(refs, s \o calls) \in Counts /\ Outside(refs, calls) \in Counts
  BY <1>1, OutsideType
<1>3. ASSUME NEW o \in Objects
      PROVE  Outside(refs, s \o calls)[o] = Give(Outside(refs, calls), s)[o]
  <2>1. CountIn(s \o calls, o) = CountIn(s, o) + CountIn(calls, o)
    BY <1>1, CountConcat
  <2>2. CountIn(s, o) = IF o \in Range(s) THEN 1 ELSE 0
    BY CountDistinct
  <2>3. CountIn(calls, o) \in Nat
    BY CountType
  <2>4. Outside(refs, s \o calls)[o] = (IF o \in refs THEN 1 ELSE 0) + CountIn(s \o calls, o)
    BY OutsideAt
  <2>5. Outside(refs, calls)[o] = (IF o \in refs THEN 1 ELSE 0) + CountIn(calls, o)
    BY OutsideAt
  <2>6. Give(Outside(refs, calls), s)[o] = Outside(refs, calls)[o] + (IF o \in Range(s) THEN 1 ELSE 0)
    BY <1>2, GiveType
  <2>7. QED
    BY <2>1, <2>2, <2>3, <2>4, <2>5, <2>6
<1>4. QED
  BY <1>2, <1>3, GiveType, CountsEqual

-----------------------------------------------------------------------------
(* What is alive, and what an operation may do to it.                      *)

HIDE SlotsAssumption DEF SlotsAssumption

Masters(b) == {m \in Blocks : b[m].master # "none"}

\* The block of the xnd object whose buffer block m has imported.
Exporter(h, m) == h[h[h[m].owns[2]].owns[1]].owns[1]

Masterful == [master : {"none", "owned", "borrowed"}, origin : Blocks,
              view : External \union {"none", "proxy"}]

BlocksOK(h, b) ==
  /\ b \in [Blocks -> Masterful]
  /\ \A m \in Masters(b) :
       LET g == b[m].origin
       IN  /\ h[m].rc > 0 /\ Len(h[m].owns) >= 1 /\ h[m].owns[1][1] = "tobj"
           /\ g \in Masters(b) /\ b[g].origin = g /\ b[g].view # "proxy"
           /\ m # g => Len(h[m].owns) = 2 /\ b[Exporter(h, m)].origin = g

Calls == Objects \union {<<"xnd_del", t>> : t \in Objects}

CallsInv ==
  "mblock_from_xnd" \notin Failing =>
    /\ fault = {}
    /\ \A k \in DOMAIN todo : todo[k] \notin Objects =>
         /\ k = 1 /\ Len(todo) >= 2
         /\ todo[2][1] = "tobj" /\ heap[todo[2]].owns = << todo[1][2] >>

IInv ==
  /\ held \subseteq Objects
  /\ todo \in Seq(Calls)
  /\ Good(heap, Masters(block), Outside(held, todo))
  /\ BlocksOK(heap, block)
  /\ CallsInv

-----------------------------------------------------------------------------
(* Sums of references.                                                     *)

\* No references are given.
LEMMA GiveNone == ASSUME NEW R \in Counts PROVE Give(R, << >>) = R
<1>1. Range(<< >>) = {}
  BY DEF Range
<1>2. \A o \in Objects : Give(R, << >>)[o] = R[o]
  BY <1>1, GiveType DEF Counts
<1>3. QED
  BY <1>2, GiveType, CountsEqual

\* One reference is given.
LEMMA GiveOne == ASSUME NEW R \in Counts, NEW x \in Objects PROVE Give(R, <<x>>) = Plus(R, x)
<1>1. Range(<<x>>) = {x}
  BY DEF Range
<1>2. ASSUME NEW o \in Objects PROVE Give(R, <<x>>)[o] = Plus(R, x)[o]
  <2>1. Give(R, <<x>>)[o] = R[o] + (IF o = x THEN 1 ELSE 0)
    BY <1>1, GiveType
  <2>2. QED
    BY <2>1, PlusType
<1>3. Give(R, <<x>>) \in Counts /\ Plus(R, x) \in Counts
  BY GiveType, PlusType
<1>4. QED
  BY <1>2, <1>3, CountsEqual

\* References to two objects are given.
LEMMA GiveTwo ==
  ASSUME NEW R \in Counts, NEW x \in Objects, NEW y \in Objects, x # y
  PROVE  Give(R, <<x, y>>) = Plus(Plus(R, x), y)
<1>1. Range(<<x, y>>) = {x, y}
  BY DEF Range
<1>2. Plus(R, x) \in Counts
  BY PlusType
<1>3. ASSUME NEW o \in Objects PROVE Give(R, <<x, y>>)[o] = Plus(Plus(R, x), y)[o]
  <2>1. Give(R, <<x, y>>)[o] = R[o] + (IF o = x \/ o = y THEN 1 ELSE 0)
    BY <1>1, GiveType
  <2>2. Plus(Plus(R, x), y)[o] = Plus(R, x)[o] + (IF o = y THEN 1 ELSE 0)
    BY <1>2, PlusType
  <2>3. Plus(R, x)[o] = R[o] + (IF o = x THEN 1 ELSE 0)
    BY PlusType
  <2>4. R[o] \in Nat
    BY DEF Counts
  <2>5. QED
    BY <2>1, <2>2, <2>3, <2>4
<1>4. Plus(Plus(R, x), y) \in Counts
  BY <1>2, PlusType
<1>5. QED
  BY <1>3, <1>4, GiveType, CountsEqual

\* References may be taken in any order.
LEMMA PlusCommutes ==
  ASSUME NEW R \in Counts, NEW x \in Objects, NEW y \in Objects
  PROVE  Plus(Plus(R, x), y) = Plus(Plus(R, y), x)
<1>1. CASE x = y
  BY <1>1
<1>2. CASE x # y
  BY <1>2 DEF Plus, Counts
<1>3. QED
  BY <1>1, <1>2

-----------------------------------------------------------------------------
(* What is alive.                                                          *)

\* What an object owns is alive.
LEMMA OwnedAt ==
  ASSUME NEW h, NEW M, NEW R, Good(h, M, R), NEW p \in Objects, NEW k \in 1..Len(h[p].owns)
  PROVE  LET o == h[p].owns[k] IN o \in Objects /\ h[o].rc > R[o] /\ h[o].rc > 0
<1>1. h[p].owns \in Seq(Objects)
  BY DEF Good, Sound, Heaps
<1>2. k \in DOMAIN h[p].owns /\ h[p].owns[k] \in Objects
  BY <1>1, ElementOfSeq, LenProperties
<1>3. Owns(h, p, h[p].owns[k])
  BY <1>2 DEF Owns
<1>4. QED
  BY <1>2, <1>3, OwnedLive

\* What a live object owns has the form for its kind.
LEMMA LiveShape ==
  ASSUME NEW h, NEW M, NEW R, Good(h, M, R), NEW p \in Objects, h[p].rc # 0
  PROVE  /\ Shaped(p, h[p].owns, M)
         /\ h[p].owns \in Seq(Objects)
         /\ DOMAIN h[p].owns = 1..Len(h[p].owns) /\ Len(h[p].owns) \in Nat
<1>1. h[p].owns \in Seq(Objects)
  BY DEF Good, Sound, Heaps
<1>2. QED
  BY <1>1, LenProperties DEF Good, Sound

\* A type object has a type.
LEMMA TypeObject ==
  ASSUME NEW h, NEW M, NEW R, Good(h, M, R), NEW o \in Objects, o[1] = "tobj", h[o].rc # 0
  PROVE  /\ Len(h[o].owns) = 1
         /\ h[o].owns[1] \in Objects /\ h[o].owns[1][1] = "ndt" /\ h[h[o].owns[1]].rc > 0
<1>1. Shaped(o, h[o].owns, M)
  BY LiveShape
<1>2. Len(h[o].owns) = 1 /\ h[o].owns[1][1] = "ndt"
  BY <1>1 DEF Shaped
<1>3. QED
  BY <1>2, OwnedAt

\* An xnd object has a block with memory and a type object.
LEMMA View ==
  ASSUME NEW h, NEW M, NEW R, Good(h, M, R), NEW x \in Objects, x[1] = "xo", h[x].rc # 0
  PROVE  /\ Len(h[x].owns) = 2
         /\ h[x].owns[1] \in Objects /\ h[x].owns[1][1] = "mb" /\ h[h[x].owns[1]].rc > 0
         /\ h[x].owns[1] \in M
         /\ h[x].owns[2] \in Objects /\ h[x].owns[2][1] = "tobj" /\ h[h[x].owns[2]].rc > 0
<1>1. Shaped(x, h[x].owns, M)
  BY LiveShape
<1>2. /\ Len(h[x].owns) = 2
      /\ h[x].owns[1] \in M /\ h[x].owns[1][1] = "mb" /\ h[x].owns[2][1] = "tobj"
  BY <1>1 DEF Shaped
<1>3. QED
  BY <1>2, OwnedAt

\* A block that imports a buffer pins a proxy, which pins an xnd object, which
\* has a block with memory.
LEMMA Chain ==
  ASSUME NEW h, NEW M, NEW R, Good(h, M, R),
         NEW m \in Objects, m[1] = "mb", h[m].rc # 0, Len(h[m].owns) = 2
  PROVE  LET p == h[m].owns[2]
             x == h[p].owns[1]
         IN  /\ p \in Objects /\ h[p].rc > 0 /\ x \in Objects /\ h[x].rc > 0 /\ x[1] = "xo"
             /\ Len(h[p].owns) = 1
             /\ Exporter(h, m) \in Objects /\ Exporter(h, m)[1] = "mb" /\ Exporter(h, m) \in M
             /\ Owns(h, m, p) /\ Owns(h, p, x) /\ Owns(h, x, Exporter(h, m))
<1> DEFINE p == h[m].owns[2]
           x == h[p].owns[1]
<1>1. Shaped(m, h[m].owns, M)
  BY LiveShape
<1>2. p[1] = "px"
  BY <1>1 DEF Shaped
<1>3. p \in Objects /\ h[p].rc > 0
  BY OwnedAt
<1> HIDE DEF p
<1>4. Shaped(p, h[p].owns, M)
  BY <1>3, LiveShape
<1>5. Len(h[p].owns) = 1 /\ x[1] = "xo"
  BY <1>2, <1>4 DEF Shaped
<1>6. x \in Objects /\ h[x].rc > 0
  BY <1>3, <1>5, OwnedAt
<1> HIDE DEF x
<1>7. Len(h[x].owns) = 2 /\ h[x].owns[1] \in Objects /\ h[x].owns[1][1] = "mb" /\ h[x].owns[1] \in M
  BY <1>5, <1>6, View
<1>8. Exporter(h, m) = h[x].owns[1]
  BY DEF Exporter, p, x
<1>9. Owns(h, m, p)
  <2>1. 2 \in DOMAIN h[m].owns
    BY LiveShape
  <2>2. QED
    BY <2>1 DEF Owns, p
<1>10. Owns(h, p, x)
  <2>1. 1 \in DOMAIN h[p].owns
    BY <1>3, <1>5, LiveShape
  <2>2. QED
    BY <2>1 DEF Owns, x
<1>11. Owns(h, x, h[x].owns[1])
  <2>1. 1 \in DOMAIN h[x].owns
    BY <1>6, <1>7, LiveShape
  <2>2. QED
    BY <2>1 DEF Owns
<1>12. QED
  BY <1>3, <1>5, <1>6, <1>7, <1>8, <1>9, <1>10, <1>11 DEF p, x

-----------------------------------------------------------------------------
(* Blocks.                                                                 *)

\* Only memory blocks have master buffers.
LEMMA MastersBlocks ==
  ASSUME NEW b, NEW m \in Masters(b)
  PROVE  m \in Objects /\ m[1] = "mb" /\ m \in Blocks /\ b[m].master # "none"
BY DEF Masters, Blocks

\* A heap that is added to twice has been added to.
LEMMA ExtendsTrans ==
  ASSUME NEW f, NEW g, NEW h, Extends(f, g), Extends(g, h)
  PROVE  Extends(f, h)
BY DEF Extends

\* The blocks stay as they are when objects are added to the heap.
LEMMA BlocksFrame ==
  ASSUME NEW h, NEW g, NEW b, NEW R, Good(h, Masters(b), R), BlocksOK(h, b), Extends(h, g)
  PROVE  BlocksOK(g, b)
<1>1. ASSUME NEW m \in Masters(b)
      PROVE  LET o == b[m].origin
             IN  /\ g[m].rc > 0 /\ Len(g[m].owns) >= 1 /\ g[m].owns[1][1] = "tobj"
                 /\ o \in Masters(b) /\ b[o].origin = o /\ b[o].view # "proxy"
                 /\ m # o => Len(g[m].owns) = 2 /\ b[Exporter(g, m)].origin = o
  <2> DEFINE o == b[m].origin
  <2>1. /\ h[m].rc > 0 /\ Len(h[m].owns) >= 1 /\ h[m].owns[1][1] = "tobj"
        /\ o \in Masters(b) /\ b[o].origin = o /\ b[o].view # "proxy"
        /\ m # o => Len(h[m].owns) = 2 /\ b[Exporter(h, m)].origin = o
    BY DEF BlocksOK
  <2>2. m \in Objects /\ m[1] = "mb"
    BY MastersBlocks
  <2>3. g[m].rc > 0 /\ g[m].owns = h[m].owns
    BY <2>1, <2>2 DEF Extends
  <2>4. ASSUME Len(h[m].owns) = 2 PROVE Exporter(g, m) = Exporter(h, m)
    <3> DEFINE p == h[m].owns[2]
               x == h[p].owns[1]
    <3>1. p \in Objects /\ h[p].rc > 0 /\ x \in Objects /\ h[x].rc > 0
      BY <2>1, <2>2, <2>4, Chain
    <3>2. g[p].owns = h[p].owns /\ g[x].owns = h[x].owns
      BY <3>1 DEF Extends
    <3>3. QED
      BY <2>3, <3>2 DEF Exporter
  <2>5. QED
    BY <2>1, <2>3, <2>4
<1>2. QED
  BY <1>1 DEF BlocksOK

\* A new block gets its master buffer: its own memory, or that of the block of
\* an xnd object whose buffer it has imported.
LEMMA NewMaster ==
  ASSUME NEW g, NEW b, NEW R, NEW m \in Blocks, m \notin Masters(b),
         Good(g, Masters(b), R), BlocksOK(g, b),
         g[m].rc > 0, Len(g[m].owns) >= 1, g[m].owns[1][1] = "tobj",
         NEW e \in Masterful, e.master # "none",
         \/ e.origin = m /\ e.view # "proxy"
         \/ /\ Len(g[m].owns) = 2
            /\ Exporter(g, m) \in Masters(b) /\ e.origin = b[Exporter(g, m)].origin
  PROVE  /\ Masters([b EXCEPT ![m] = e]) = Masters(b) \union {m}
         /\ BlocksOK(g, [b EXCEPT ![m] = e])
<1> DEFINE c == [b EXCEPT ![m] = e]
<1>1. b \in [Blocks -> Masterful]
  BY DEF BlocksOK
<1>2. c \in [Blocks -> Masterful] /\ \A n \in Blocks : c[n] = IF n = m THEN e ELSE b[n]
  BY <1>1
<1> HIDE DEF c
<1>3. Masters(c) = Masters(b) \union {m}
  BY <1>2 DEF Masters
<1>4. ASSUME NEW n \in Masters(b)
      PROVE  /\ b[n].origin \in Masters(b) /\ c[n] = b[n]
             /\ c[b[n].origin] = b[b[n].origin] /\ m # n /\ m # b[n].origin
  <2>1. b[n].origin \in Masters(b)
    BY DEF BlocksOK
  <2>2. QED
    BY <2>1, <1>2, MastersBlocks
<1>5. ASSUME NEW n \in Masters(c)
      PROVE  LET o == c[n].origin
             IN  /\ g[n].rc > 0 /\ Len(g[n].owns) >= 1 /\ g[n].owns[1][1] = "tobj"
                 /\ o \in Masters(c) /\ c[o].origin = o /\ c[o].view # "proxy"
                 /\ n # o => Len(g[n].owns) = 2 /\ c[Exporter(g, n)].origin = o
  <2>1. CASE n = m /\ e.origin = m /\ e.view # "proxy"
    BY <2>1, <1>2, <1>3
  <2>2. CASE n = m /\ ~(e.origin = m /\ e.view # "proxy")
    <3>1. /\ Len(g[m].owns) = 2 /\ Exporter(g, m) \in Masters(b)
          /\ e.origin = b[Exporter(g, m)].origin
      BY <2>2
    <3>2. /\ e.origin \in Masters(b) /\ b[e.origin].origin = e.origin
          /\ b[e.origin].view # "proxy"
      BY <3>1 DEF BlocksOK
    <3>3. c[Exporter(g, m)] = b[Exporter(g, m)] /\ c[e.origin] = b[e.origin] /\ c[m] = e
      BY <3>1, <1>2, <1>4
    <3>4. QED
      BY <2>2, <3>1, <3>2, <3>3, <1>3
  <2>3. CASE n # m
    <3>1. n \in Masters(b)
      BY <2>3, <1>3
    <3> DEFINE o == b[n].origin
    <3>2. /\ g[n].rc > 0 /\ Len(g[n].owns) >= 1 /\ g[n].owns[1][1] = "tobj"
          /\ o \in Masters(b) /\ b[o].origin = o /\ b[o].view # "proxy"
          /\ n # o => Len(g[n].owns) = 2 /\ b[Exporter(g, n)].origin = o
      BY <3>1 DEF BlocksOK
    <3>3. c[n] = b[n] /\ c[o] = b[o]
      BY <3>1, <1>4
    <3>4. n # o => c[Exporter(g, n)] = b[Exporter(g, n)]
      <4>1. ASSUME n # o PROVE Exporter(g, n) \in Masters(b)
        BY <4>1, <3>1, <3>2, Chain, MastersBlocks
      <4>2. QED
        BY <4>1, <1>4
    <3>5. QED
      BY <3>2, <3>3, <3>4, <1>3
  <2>4. QED
    BY <2>1, <2>2, <2>3
<1>6. QED
  BY <1>2, <1>3, <1>5 DEF BlocksOK, c

\* A new block without a master buffer.
LEMMA NewWithout ==
  ASSUME NEW g, NEW b, NEW R, NEW m \in Blocks, m \notin Masters(b),
         Good(g, Masters(b), R), BlocksOK(g, b), NEW e \in Masterful, e.master = "none"
  PROVE  Masters([b EXCEPT ![m] = e]) = Masters(b) /\ BlocksOK(g, [b EXCEPT ![m] = e])
<1> DEFINE c == [b EXCEPT ![m] = e]
<1>1. b \in [Blocks -> Masterful]
  BY DEF BlocksOK
<1>2. c \in [Blocks -> Masterful] /\ \A n \in Blocks : c[n] = IF n = m THEN e ELSE b[n]
  BY <1>1
<1> HIDE DEF c
<1>3. Masters(c) = Masters(b)
  BY <1>2 DEF Masters
<1>4. ASSUME NEW n \in Masters(b)
      PROVE  LET o == c[n].origin
             IN  /\ g[n].rc > 0 /\ Len(g[n].owns) >= 1 /\ g[n].owns[1][1] = "tobj"
                 /\ o \in Masters(b) /\ c[o].origin = o /\ c[o].view # "proxy"
                 /\ n # o => Len(g[n].owns) = 2 /\ c[Exporter(g, n)].origin = o
  <2> DEFINE o == b[n].origin
  <2>1. /\ g[n].rc > 0 /\ Len(g[n].owns) >= 1 /\ g[n].owns[1][1] = "tobj"
        /\ o \in Masters(b) /\ b[o].origin = o /\ b[o].view # "proxy"
        /\ n # o => Len(g[n].owns) = 2 /\ b[Exporter(g, n)].origin = o
    BY DEF BlocksOK
  <2>2. c[n] = b[n] /\ c[o] = b[o]
    BY <2>1, <1>2, MastersBlocks
  <2>3. ASSUME n # o PROVE c[Exporter(g, n)] = b[Exporter(g, n)]
    <3>1. Exporter(g, n) \in Masters(b)
      BY <2>1, <2>3, Chain, MastersBlocks
    <3>2. QED
      BY <3>1, <1>2, MastersBlocks
  <2>4. QED
    BY <2>1, <2>2, <2>3
<1>5. QED
  BY <1>2, <1>3, <1>4 DEF BlocksOK, c

-----------------------------------------------------------------------------
(* The end of an operation.                                                *)

\* An operation starts with no call pending, and what the program holds is alive.
LEMMA AtIdle ==
  ASSUME IInv, Idle
  PROVE  /\ todo = << >> /\ held \subseteq Objects
         /\ Outside(held, << >>) \in Counts
         /\ Good(heap, Masters(block), Outside(held, << >>))
         /\ BlocksOK(heap, block)
         /\ \A o \in Objects : heap[o].rc \in Nat
         /\ \A o \in held : heap[o].rc > 0
<1>1. /\ todo = << >> /\ held \subseteq Objects
      /\ Good(heap, Masters(block), Outside(held, << >>))
      /\ BlocksOK(heap, block)
  BY DEF IInv, Idle
<1>2. Outside(held, << >>) \in Counts /\ \A o \in Objects : heap[o].rc \in Nat
  BY <1>1 DEF Good, Sound, Heaps
<1>3. ASSUME NEW o \in held PROVE heap[o].rc > 0
  <2>1. o \in Objects /\ Outside(held, << >>)[o] = 1
    BY <1>1, OutsideNone
  <2>2. heap[o].rc # 0
    BY <1>1, <2>1, DeadOwnsNothing
  <2>3. QED
    BY <1>2, <2>1, <2>2
<1>4. QED
  BY <1>1, <1>2, <1>3

\* An operation that leaves no xnd_del() behind keeps the invariant.
LEMMA AfterOperation ==
  ASSUME IInv, held' \subseteq Objects, todo' \in Seq(Objects), fault' = fault,
         Good(heap', Masters(block'), Outside(held', todo')), BlocksOK(heap', block')
  PROVE  IInv'
<1>1. todo' \in Seq(Calls)
  <2>1. Objects \subseteq Calls
    BY DEF Calls
  <2>2. QED
    BY <2>1, SeqMonotonic
<1>2. \A k \in DOMAIN todo' : todo'[k] \in Objects
  BY LenProperties, ElementOfSeq
<1>3. CallsInv'
  BY <1>2 DEF IInv, CallsInv
<1>4. QED
  BY <1>1, <1>3 DEF IInv

\* An operation fails.
LEMMA AfterFail ==
  ASSUME IInv, Idle, NEW site, NEW h, NEW calls \in Seq(Objects), Fail(site, h, calls), fault' = fault,
         Good(h, Masters(block'), Outside(held, calls)), BlocksOK(h, block')
  PROVE  IInv'
<1>1. heap' = h /\ todo' = calls /\ held' = held
  BY DEF Fail
<1>2. QED
  BY <1>1, AtIdle, AfterOperation

\* A new object is returned to the program.
LEMMA AfterReturn ==
  ASSUME IInv, Idle, NEW x \in Objects, heap[x].rc = 0,
         held' = held \union {x}, todo' = << >>, fault' = fault,
         Good(heap', Masters(block'), Plus(Outside(held, << >>), x)), BlocksOK(heap', block')
  PROVE  IInv'
<1>1. x \notin held /\ held \subseteq Objects
  BY AtIdle
<1>2. Outside(held', todo') = Plus(Outside(held, << >>), x)
  BY <1>1, OutsideHold
<1>3. todo' \in Seq(Objects)
  OBVIOUS
<1>4. QED
  BY <1>1, <1>2, <1>3, AfterOperation

\* A new block becomes the memory of a new xnd object, or goes again.
LEMMA AfterFromMblock ==
  ASSUME IInv, Idle, NEW h, NEW m \in Objects, NEW o \in Objects, m[1] = "mb", o[1] = "tobj",
         h[o].rc > 0, Dead(h, "xo") = Dead(heap, "xo"), m \in Masters(block'),
         Good(h, Masters(block'), Plus(Outside(held, << >>), m)), BlocksOK(h, block'),
         FromMblock(h, m, o), fault' = fault
  PROVE  IInv'
<1> DEFINE R == Outside(held, << >>)
           M == Masters(block')
           x == Fresh(h, "xo")
           h1 == Incref(h, o)
<1>1. todo = << >> /\ R \in Counts
  BY AtIdle
<1> HIDE DEF R
<1>2. CASE /\ Room("xo", 1)
           /\ heap' = New(h1, x, <<m, o>>)
           /\ held' = held \union {x}
           /\ todo' = << >>
  <2>1. x \in Objects /\ x[1] = "xo" /\ h[x].rc = 0 /\ heap[x].rc = 0
    <3>1. Dead(h, "xo") # {}
      BY <1>2, SomeDead DEF Room
    <3>2. x \in Dead(h, "xo")
      BY <3>1, FreshDead
    <3>3. QED
      BY <3>2 DEF Dead
  <2> HIDE DEF x
  <2>2. Good(h1, M, Plus(Plus(R, m), o)) /\ Extends(h, h1)
    BY IncrefGood DEF R
  <2>3. Plus(Plus(R, m), o) = Give(R, <<m, o>>)
    BY <1>1, GiveTwo
  <2>4. h1[x].rc = 0
    BY <2>1 DEF h1, Incref, Good, Sound, Heaps
  <2>5. Shaped(x, <<m, o>>, M) /\ <<m, o>> \in Seq(Objects)
    BY <2>1 DEF Shaped
  <2> HIDE DEF h1, M
  <2>6. Good(heap', M, Plus(R, x)) /\ Extends(h1, heap')
    BY <1>1, <1>2, <2>1, <2>2, <2>3, <2>4, <2>5, NewGood
  <2>7. Extends(h, heap')
    BY <2>2, <2>6, ExtendsTrans
  <2>8. BlocksOK(heap', block')
    BY <2>7, BlocksFrame
  <2>9. QED
    BY <1>2, <2>1, <2>6, <2>8, AfterReturn DEF M, R
<1>3. CASE heap' = h /\ todo' = <<m>> /\ UNCHANGED held
  <2>1. Outside(held', todo') = Plus(R, m)
    BY <1>3, OutsideOne DEF R
  <2>2. <<m>> \in Seq(Objects)
    OBVIOUS
  <2>3. QED
    BY <1>3, <2>1, <2>2, AtIdle, AfterOperation DEF R
<1>4. QED
  BY <1>2, <1>3 DEF FromMblock

\* A new block has its master buffer when pyxnd_from_mblock() is called.
LEMMA AfterNewBlock ==
  ASSUME IInv, Idle, NEW h, NEW m \in Objects, NEW o \in Objects, m[1] = "mb", o[1] = "tobj",
         heap[m].rc = 0, h[o].rc > 0, h[m].rc > 0, Len(h[m].owns) >= 1, h[m].owns[1] = o,
         Dead(h, "xo") = Dead(heap, "xo"),
         Good(h, Masters(block), Plus(Outside(held, << >>), m)), BlocksOK(h, block),
         NEW e \in Masterful, e.master # "none", block' = [block EXCEPT ![m] = e],
         \/ e.origin = m /\ e.view # "proxy"
         \/ /\ Len(h[m].owns) = 2
            /\ Exporter(h, m) \in Masters(block) /\ e.origin = block[Exporter(h, m)].origin,
         fault' = fault,
         FromMblock(h, m, o) \/ \E site \in Sites : Fail(site, h, <<m>>)
  PROVE  IInv'
<1>1. m \in Blocks /\ m \notin Masters(block)
  <2>1. m \notin Masters(block)
    BY AtIdle DEF BlocksOK
  <2>2. QED
    BY <2>1 DEF Blocks
<1> DEFINE c == [block EXCEPT ![m] = e]
<1>2. Masters(c) = Masters(block) \union {m} /\ BlocksOK(h, c)
  BY <1>1, NewMaster
<1>3. Masters(block') = Masters(block) \union {m} /\ BlocksOK(h, block')
  BY <1>2
<1>4. Good(h, Masters(block'), Plus(Outside(held, << >>), m))
  BY <1>3, MoreBlocks
<1>5. CASE FromMblock(h, m, o)
  BY <1>3, <1>4, <1>5, AfterFromMblock
<1>6. ASSUME NEW site \in Sites, Fail(site, h, <<m>>) PROVE IInv'
  <2>1. Outside(held, <<m>>) = Plus(Outside(held, << >>), m) /\ <<m>> \in Seq(Objects)
    BY OutsideOne
  <2>2. QED
    BY <1>3, <1>4, <1>6, <2>1, AfterFail
<1>7. QED
  BY <1>5, <1>6

\* A new block goes without ever having had a master buffer.
LEMMA AfterFailedBlock ==
  ASSUME IInv, Idle, NEW h, NEW m \in Objects, m[1] = "mb", heap[m].rc = 0,
         Good(h, Masters(block), Plus(Outside(held, << >>), m)), BlocksOK(h, block),
         NEW e \in Masterful, e.master = "none", block' = [block EXCEPT ![m] = e],
         fault' = fault, NEW site, Fail(site, h, <<m>>)
  PROVE  IInv'
<1>1. m \in Blocks /\ m \notin Masters(block)
  <2>1. m \notin Masters(block)
    BY AtIdle DEF BlocksOK
  <2>2. QED
    BY <2>1 DEF Blocks
<1> DEFINE c == [block EXCEPT ![m] = e]
<1>2. Masters(c) = Masters(block) /\ BlocksOK(h, c)
  BY <1>1, NewWithout
<1>3. Masters(block') = Masters(block) /\ BlocksOK(h, block')
  BY <1>2
<1>4. Outside(held, <<m>>) = Plus(Outside(held, << >>), m) /\ <<m>> \in Seq(Objects)
  BY OutsideOne
<1>5. QED
  BY <1>3, <1>4, AfterFail

-----------------------------------------------------------------------------
(* New objects.                                                            *)

\* A new object owns what it was given, and the others stay as they were.
LEMMA NewCell ==
  ASSUME NEW h, NEW M, NEW R, Good(h, M, R), NEW x \in Objects, NEW refs, NEW p \in Objects
  PROVE  New(h, x, refs)[p] = IF p = x THEN [rc |-> 1, owns |-> refs] ELSE h[p]
BY DEF New, Good, Sound, Heaps

\* A new object takes one slot of its kind.
LEMMA DeadAfterNew ==
  ASSUME NEW h, NEW M, NEW R, Good(h, M, R), NEW x \in Objects, NEW refs, NEW kind
  PROVE  Dead(New(h, x, refs), kind) = IF x[1] = kind THEN Dead(h, kind) \ {x} ELSE Dead(h, kind)
<1>1. Dead(New(h, x, refs), kind) = Dead(h, kind) \ {x}
  BY DeadNew DEF Good, Sound
<1>2. QED
  BY <1>1 DEF Dead

\* A reference more leaves the free slots alone.
LEMMA DeadAfterIncref ==
  ASSUME NEW h, NEW M, NEW R, Good(h, M, R), NEW o \in Objects, h[o].rc > 0, NEW kind
  PROVE  Dead(Incref(h, o), kind) = Dead(h, kind)
BY DeadIncref DEF Good, Sound

\* A reference more changes one count.
LEMMA IncrefCell ==
  ASSUME NEW h, NEW M, NEW R, Good(h, M, R), NEW o \in Objects, NEW p \in Objects
  PROVE  Incref(h, o)[p].owns = h[p].owns
         /\ Incref(h, o)[p].rc = h[p].rc + (IF p = o THEN 1 ELSE 0) /\ h[p].rc \in Nat
BY DEF Incref, Good, Sound, Heaps

\* A fresh object is of the kind asked for and not in use.
LEMMA FreshObject ==
  ASSUME NEW h, NEW kind, Dead(h, kind) # {}
  PROVE  LET x == Fresh(h, kind) IN x \in Objects /\ x[1] = kind /\ h[x].rc = 0
BY FreshDead

\* A type that owns nothing yet.
LEMMA NewType ==
  ASSUME NEW h, NEW M, NEW R, Good(h, M, R), NEW t \in Objects, t[1] = "ndt", h[t].rc = 0
  PROVE  /\ Good(New(h, t, << >>), M, Plus(R, t)) /\ Extends(h, New(h, t, << >>))
         /\ New(h, t, << >>)[t].rc = 1
<1>1. R \in Counts /\ Give(R, << >>) = R
  BY GiveNone DEF Good
<1>2. Shaped(t, << >>, M) /\ << >> \in Seq(Objects)
  BY DEF Shaped
<1>3. New(h, t, << >>)[t] = [rc |-> 1, owns |-> << >>]
  BY NewCell
<1>4. Good(h, M, Give(R, << >>))
  BY <1>1
<1>5. Good(New(h, t, << >>), M, Plus(R, t)) /\ Extends(h, New(h, t, << >>))
  BY <1>1, <1>2, <1>4, NewGood
<1>6. QED
  BY <1>3, <1>5

\* An object that takes over the one reference given.
LEMMA NewOwner ==
  ASSUME NEW h, NEW M, NEW R \in Counts, NEW o \in Objects, NEW x \in Objects,
         Good(h, M, Plus(R, o)), h[x].rc = 0,
         \/ x[1] = "tobj" /\ o[1] = "ndt"
         \/ x[1] = "mb"
         \/ x[1] = "px" /\ o[1] = "xo"
         \/ x[1] = "ndt" /\ o[1] = "ndt"
  PROVE  /\ Good(New(h, x, <<o>>), M, Plus(R, x)) /\ Extends(h, New(h, x, <<o>>))
         /\ New(h, x, <<o>>)[x] = [rc |-> 1, owns |-> <<o>>]
<1>1. Good(h, M, Give(R, <<o>>))
  BY GiveOne
<1>2. Shaped(x, <<o>>, M) /\ <<o>> \in Seq(Objects)
  BY DEF Shaped
<1>3. New(h, x, <<o>>)[x] = [rc |-> 1, owns |-> <<o>>]
  BY NewCell
<1>4. Good(New(h, x, <<o>>), M, Plus(R, x)) /\ Extends(h, New(h, x, <<o>>))
  BY <1>1, <1>2, NewGood
<1>5. QED
  BY <1>3, <1>4

\* Ndt_FromType() for a new type: a type object takes it over.
LEMMA NewTypeObject ==
  ASSUME NEW h, NEW M, NEW R, Good(h, M, R), NEW t \in Objects, t[1] = "ndt", h[t].rc = 0,
         NEW o \in Objects, o[1] = "tobj", h[o].rc = 0
  PROVE  LET g == New(New(h, t, << >>), o, <<t>>)
         IN  /\ Good(g, M, Plus(R, o)) /\ Extends(h, g)
             /\ g[o] = [rc |-> 1, owns |-> <<t>>]
             /\ \A kind : kind \notin {"ndt", "tobj"} => Dead(g, kind) = Dead(h, kind)
             /\ \A p \in Objects : p # t /\ p # o => g[p] = h[p]
<1> DEFINE f == New(h, t, << >>)
<1>1. Good(f, M, Plus(R, t)) /\ Extends(h, f) /\ R \in Counts
  BY NewType DEF Good
<1>2. \A p \in Objects : f[p] = IF p = t THEN [rc |-> 1, owns |-> << >>] ELSE h[p]
  BY NewCell
<1>3. \A kind : kind # "ndt" => Dead(f, kind) = Dead(h, kind)
  BY DeadAfterNew
<1> HIDE DEF f
<1>4. f[o].rc = 0
  BY <1>2
<1>5. /\ Good(New(f, o, <<t>>), M, Plus(R, o)) /\ Extends(f, New(f, o, <<t>>))
      /\ New(f, o, <<t>>)[o] = [rc |-> 1, owns |-> <<t>>]
  BY <1>1, <1>4, NewOwner
<1>6. ASSUME NEW p \in Objects, p # o PROVE New(f, o, <<t>>)[p] = f[p]
  <2>1. New(f, o, <<t>>)[p] = IF p = o THEN [rc |-> 1, owns |-> <<t>>] ELSE f[p]
    BY <1>1, NewCell
  <2>2. QED
    BY <2>1, <1>6
<1>7. \A kind : kind # "tobj" => Dead(New(f, o, <<t>>), kind) = Dead(f, kind)
  BY <1>1, DeadAfterNew
<1>8. Extends(h, New(f, o, <<t>>))
  BY <1>1, <1>5, ExtendsTrans
<1>9. QED
  BY <1>2, <1>3, <1>5, <1>6, <1>7, <1>8 DEF f

\* A new block over a type object that the program holds.
LEMMA NewBlockOver ==
  ASSUME IInv, Idle, NEW o \in held, o[1] = "tobj", Room("mb", 1)
  PROVE  LET m == Fresh(heap, "mb")
             h == New(Incref(heap, o), m, <<o>>)
         IN  /\ o \in Objects /\ m \in Objects /\ m[1] = "mb" /\ heap[m].rc = 0
             /\ Good(h, Masters(block), Plus(Outside(held, << >>), m)) /\ BlocksOK(h, block)
             /\ h[m] = [rc |-> 1, owns |-> <<o>>] /\ h[o].rc > 0
             /\ Dead(h, "xo") = Dead(heap, "xo")
<1> DEFINE m == Fresh(heap, "mb")
           f == Incref(heap, o)
           h == New(f, m, <<o>>)
           R == Outside(held, << >>)
           M == Masters(block)
<1>1. R \in Counts /\ Good(heap, M, R) /\ BlocksOK(heap, block) /\ o \in Objects /\ heap[o].rc > 0
  BY AtIdle
<1>2. m \in Objects /\ m[1] = "mb" /\ heap[m].rc = 0
  BY SomeDead, FreshObject DEF Room
<1> HIDE DEF m, R, M
<1>3. Good(f, M, Plus(R, o)) /\ Extends(heap, f)
  BY <1>1, IncrefGood
<1>4. f[m].rc = 0 /\ f[o].rc > 0
  <2>1. f[m].rc = heap[m].rc + (IF m = o THEN 1 ELSE 0)
    BY <1>1, <1>2, IncrefCell
  <2>2. QED
    BY <2>1, <1>1, <1>2, <1>3 DEF Extends
<1>5. Dead(f, "xo") = Dead(heap, "xo")
  BY <1>1, DeadAfterIncref
<1> HIDE DEF f
<1>6. Good(h, M, Plus(R, m)) /\ Extends(f, h) /\ h[m] = [rc |-> 1, owns |-> <<o>>]
  BY <1>1, <1>2, <1>3, <1>4, NewOwner
<1>7. Dead(h, "xo") = Dead(f, "xo")
  BY <1>2, <1>3, DeadAfterNew
<1>8. h[o].rc > 0
  BY <1>1, <1>4, <1>6 DEF Extends
<1> HIDE DEF h
<1>9. Extends(heap, h)
  BY <1>3, <1>6, ExtendsTrans
<1>10. BlocksOK(h, block)
  BY <1>1, <1>9, BlocksFrame DEF M
<1>11. QED
  BY <1>1, <1>2, <1>5, <1>6, <1>7, <1>8, <1>10 DEF m, f, h, R, M

\* mblock_empty() and mblock_from_typed_value().
LEMMA NewXndStep == ASSUME IInv, NEW o \in Objects, NewXnd(o) PROVE IInv'
<1> DEFINE m == Fresh(heap, "mb")
           h == New(Incref(heap, o), m, <<o>>)
           e == Master("owned", m, "none")
<1>1. /\ Idle /\ o \in held /\ o[1] = "tobj" /\ Room("mb", 1) /\ fault' = fault
      /\ block' = [block EXCEPT ![m] = e]
      /\ FromMblock(h, m, o) \/ Fail("mblock_init", h, <<m>>)
  BY DEF NewXnd
<1>2. /\ m \in Objects /\ m[1] = "mb" /\ heap[m].rc = 0
      /\ Good(h, Masters(block), Plus(Outside(held, << >>), m)) /\ BlocksOK(h, block)
      /\ h[m] = [rc |-> 1, owns |-> <<o>>] /\ h[o].rc > 0
      /\ Dead(h, "xo") = Dead(heap, "xo")
  BY <1>1, NewBlockOver
<1> HIDE DEF m, h
<1>3. e \in Masterful /\ e.master # "none" /\ e.origin = m /\ e.view # "proxy"
  BY <1>2 DEF Masterful, Master, Blocks, External
<1>4. FromMblock(h, m, o) \/ \E site \in Sites : Fail(site, h, <<m>>)
  BY <1>1 DEF Sites
<1>5. h[m].rc > 0 /\ Len(h[m].owns) >= 1 /\ h[m].owns[1] = o
  BY <1>2
<1> HIDE DEF e
<1>6. QED
  BY <1>1, <1>2, <1>3, <1>4, <1>5, AfterNewBlock

\* mblock_from_buffer_and_type().
LEMMA FromBufferAndTypeStep == ASSUME IInv, NEW o \in Objects, FromBufferAndType(o) PROVE IInv'
<1> DEFINE m == Fresh(heap, "mb")
           h == New(Incref(heap, o), m, <<o>>)
           e == Master("borrowed", m, "writable")
           n == Master("none", m, "writable")
<1>1. /\ Idle /\ o \in held /\ o[1] = "tobj" /\ Room("mb", 1) /\ fault' = fault
      /\ \/ FromMblock(h, m, o) /\ block' = [block EXCEPT ![m] = e]
         \/ Fail("calloc", h, <<m>>) /\ block' = [block EXCEPT ![m] = n]
  BY DEF FromBufferAndType
<1>2. /\ m \in Objects /\ m[1] = "mb" /\ heap[m].rc = 0
      /\ Good(h, Masters(block), Plus(Outside(held, << >>), m)) /\ BlocksOK(h, block)
      /\ h[m] = [rc |-> 1, owns |-> <<o>>] /\ h[o].rc > 0
      /\ Dead(h, "xo") = Dead(heap, "xo")
  BY <1>1, NewBlockOver
<1> HIDE DEF m, h
<1>3. e \in Masterful /\ e.master # "none" /\ e.origin = m /\ e.view # "proxy"
  BY <1>2 DEF Masterful, Master, Blocks, External
<1>4. n \in Masterful /\ n.master = "none"
  BY <1>2 DEF Masterful, Master, Blocks, External
<1>5. h[m].rc > 0 /\ Len(h[m].owns) >= 1 /\ h[m].owns[1] = o
  BY <1>2
<1> HIDE DEF e, n
<1>6. CASE FromMblock(h, m, o) /\ block' = [block EXCEPT ![m] = e]
  BY <1>1, <1>2, <1>3, <1>5, <1>6, AfterNewBlock
<1>7. CASE Fail("calloc", h, <<m>>) /\ block' = [block EXCEPT ![m] = n]
  BY <1>1, <1>2, <1>4, <1>7, AfterFailedBlock
<1>8. QED
  BY <1>1, <1>6, <1>7

-----------------------------------------------------------------------------
\* A new type, its type object and a block over them.
LEMMA NewTypedBlock ==
  ASSUME IInv, Idle, Room("ndt", 1), Room("tobj", 1), Room("mb", 1)
  PROVE  LET t == Fresh(heap, "ndt")
             o == Fresh(heap, "tobj")
             m == Fresh(heap, "mb")
             f == New(heap, t, << >>)
             g == New(f, o, <<t>>)
             h == New(g, m, <<o>>)
             R == Outside(held, << >>)
             M == Masters(block)
         IN  /\ t \in Objects /\ t[1] = "ndt" /\ heap[t].rc = 0
             /\ o \in Objects /\ o[1] = "tobj"
             /\ m \in Objects /\ m[1] = "mb" /\ heap[m].rc = 0
             /\ Good(f, M, Plus(R, t)) /\ BlocksOK(f, block)
             /\ Good(g, M, Plus(R, o)) /\ BlocksOK(g, block)
             /\ Good(h, M, Plus(R, m)) /\ BlocksOK(h, block)
             /\ h[m] = [rc |-> 1, owns |-> <<o>>] /\ h[o].rc > 0
             /\ Dead(h, "xo") = Dead(heap, "xo")
<1> DEFINE t == Fresh(heap, "ndt")
           o == Fresh(heap, "tobj")
           m == Fresh(heap, "mb")
           f == New(heap, t, << >>)
           g == New(f, o, <<t>>)
           h == New(g, m, <<o>>)
           R == Outside(held, << >>)
           M == Masters(block)
<1>1. R \in Counts /\ Good(heap, M, R) /\ BlocksOK(heap, block)
  BY AtIdle
<1>2. /\ t \in Objects /\ t[1] = "ndt" /\ heap[t].rc = 0
      /\ o \in Objects /\ o[1] = "tobj" /\ heap[o].rc = 0
      /\ m \in Objects /\ m[1] = "mb" /\ heap[m].rc = 0
  BY SomeDead, FreshObject DEF Room
<1> HIDE DEF t, o, m, R, M
<1>3. Good(f, M, Plus(R, t)) /\ Extends(heap, f)
  BY <1>1, <1>2, NewType
<1>4. /\ Good(g, M, Plus(R, o)) /\ Extends(heap, g) /\ g[o] = [rc |-> 1, owns |-> <<t>>]
      /\ \A kind : kind \notin {"ndt", "tobj"} => Dead(g, kind) = Dead(heap, kind)
      /\ \A p \in Objects : p # t /\ p # o => g[p] = heap[p]
  BY <1>1, <1>2, NewTypeObject
<1> HIDE DEF g, f
<1>5. g[m].rc = 0
  BY <1>2, <1>4
<1>6. Good(h, M, Plus(R, m)) /\ Extends(g, h) /\ h[m] = [rc |-> 1, owns |-> <<o>>]
  BY <1>1, <1>2, <1>4, <1>5, NewOwner
<1>7. Dead(h, "xo") = Dead(g, "xo")
  BY <1>2, <1>4, DeadAfterNew
<1>8. h[o].rc > 0
  BY <1>2, <1>4, <1>6 DEF Extends
<1>9. Dead(g, "xo") = Dead(heap, "xo")
  BY <1>4
<1> HIDE DEF h
<1>10. Extends(heap, h)
  BY <1>4, <1>6, ExtendsTrans
<1>11. BlocksOK(f, block) /\ BlocksOK(g, block) /\ BlocksOK(h, block)
  BY <1>1, <1>3, <1>4, <1>10, BlocksFrame DEF M
<1>12. QED
  BY <1>1, <1>2, <1>3, <1>4, <1>6, <1>7, <1>8, <1>9, <1>11 DEF t, o, m, f, g, h, R, M

\* A new block for a new type.
LEMMA OwnNewBlock ==
  ASSUME IInv, Idle, Room("ndt", 1), Room("tobj", 1), Room("mb", 1), fault' = fault,
         LET t == Fresh(heap, "ndt")
             o == Fresh(heap, "tobj")
             m == Fresh(heap, "mb")
         IN  /\ FromMblock(New(New(New(heap, t, << >>), o, <<t>>), m, <<o>>), m, o)
             /\ block' = [block EXCEPT ![m] = Master("owned", m, "none")]
  PROVE  IInv'
<1> DEFINE t == Fresh(heap, "ndt")
           o == Fresh(heap, "tobj")
           m == Fresh(heap, "mb")
           h == New(New(New(heap, t, << >>), o, <<t>>), m, <<o>>)
           e == Master("owned", m, "none")
<1>1. /\ o \in Objects /\ o[1] = "tobj" /\ m \in Objects /\ m[1] = "mb" /\ heap[m].rc = 0
      /\ Good(h, Masters(block), Plus(Outside(held, << >>), m)) /\ BlocksOK(h, block)
      /\ h[m] = [rc |-> 1, owns |-> <<o>>] /\ h[o].rc > 0
      /\ Dead(h, "xo") = Dead(heap, "xo")
  BY NewTypedBlock
<1>2. FromMblock(h, m, o) /\ block' = [block EXCEPT ![m] = e]
  OBVIOUS
<1> HIDE DEF o, m, h
<1>3. e \in Masterful /\ e.master # "none" /\ e.origin = m /\ e.view # "proxy"
  BY <1>1 DEF Masterful, Master, Blocks, External
<1>4. h[m].rc > 0 /\ Len(h[m].owns) >= 1 /\ h[m].owns[1] = o
  BY <1>1
<1> HIDE DEF e
<1>5. QED
  BY <1>1, <1>2, <1>3, <1>4, AfterNewBlock

\* Xnd_EmptyFromType(), copy_contiguous() and deserialize().
LEMMA NewXndFromTypeStep == ASSUME IInv, NewXndFromType PROVE IInv'
<1> DEFINE t == Fresh(heap, "ndt")
           o == Fresh(heap, "tobj")
           m == Fresh(heap, "mb")
           f == New(heap, t, << >>)
           g == New(f, o, <<t>>)
           h == New(g, m, <<o>>)
           R == Outside(held, << >>)
           M == Masters(block)
<1>1. /\ Idle /\ Room("ndt", 1) /\ Room("tobj", 1) /\ Room("mb", 1) /\ fault' = fault
      /\ \/ FromMblock(h, m, o) /\ block' = [block EXCEPT ![m] = Master("owned", m, "none")]
         \/ Fail("Ndt_FromType", f, <<t>>) /\ UNCHANGED block
         \/ Fail("mblock_empty", g, <<o>>) /\ UNCHANGED block
         \/ Fail("deserialize", f, << >>) /\ UNCHANGED block
  BY DEF NewXndFromType
<1>2. /\ t \in Objects /\ t[1] = "ndt" /\ o \in Objects /\ R \in Counts
      /\ Good(f, M, Plus(R, t)) /\ BlocksOK(f, block)
      /\ Good(g, M, Plus(R, o)) /\ BlocksOK(g, block)
  BY <1>1, NewTypedBlock, AtIdle
<1>3. CASE FromMblock(h, m, o) /\ block' = [block EXCEPT ![m] = Master("owned", m, "none")]
  BY <1>1, <1>3, OwnNewBlock
<1> HIDE DEF t, o, m, f, g, h
<1>4. CASE Fail("Ndt_FromType", f, <<t>>) /\ UNCHANGED block
  <2>1. Good(f, Masters(block'), Outside(held, <<t>>)) /\ BlocksOK(f, block') /\ <<t>> \in Seq(Objects)
    BY <1>2, <1>4, OutsideOne
  <2>2. QED
    BY <1>1, <1>4, <2>1, AfterFail
<1>5. CASE Fail("mblock_empty", g, <<o>>) /\ UNCHANGED block
  <2>1. Good(g, Masters(block'), Outside(held, <<o>>)) /\ BlocksOK(g, block') /\ <<o>> \in Seq(Objects)
    BY <1>2, <1>5, OutsideOne
  <2>2. QED
    BY <1>1, <1>5, <2>1, AfterFail
<1>6. CASE Fail("deserialize", f, << >>) /\ UNCHANGED block
  <2>1. ~NoLeak
    BY <1>6 DEF Fail, NoLeak
  <2>2. Good(f, M, R)
    BY <1>2, <2>1, LeakGood
  <2>3. Good(f, Masters(block'), Outside(held, << >>)) /\ BlocksOK(f, block') /\ << >> \in Seq(Objects)
    BY <1>2, <1>6, <2>2
  <2>4. QED
    BY <1>1, <1>6, <2>3, AfterFail
<1>7. QED
  BY <1>1, <1>3, <1>4, <1>5, <1>6

\* An xnd_del() call is not a decrement.
LEMMA DelCall ==
  ASSUME NEW t \in Objects
  PROVE  <<"xnd_del", t>> \notin Objects /\ <<"xnd_del", t>> \in Calls /\ Objects \subseteq Calls
<1>1. "xnd_del" \notin Kinds
  BY DEF Kinds
<1>2. \A o \in Objects : o[1] \in Kinds
  BY ObjectKind
<1>3. QED
  BY <1>1, <1>2 DEF Calls

\* mblock_from_xnd() drops what it was given, the type before the memory.
LEMMA FromXndFails ==
  ASSUME IInv, Idle, NEW h, NEW o \in Objects, NEW t \in Objects,
         Fail("mblock_from_xnd", h, <<o, <<"xnd_del", t>> >>), UNCHANGED <<block, fault>>,
         Good(h, Masters(block), Plus(Outside(held, << >>), o)), BlocksOK(h, block)
  PROVE  IInv'
<1> DEFINE c == <<"xnd_del", t>>
           calls == <<c>>
           none == << >>
<1>1. c \notin Objects /\ c \in Calls /\ Objects \subseteq Calls /\ o \in Calls
  BY DelCall
<1>2. /\ heap' = h /\ todo' = <<o, c>> /\ held' = held /\ block' = block
      /\ "mblock_from_xnd" \in Failing
  BY DEF Fail
<1> HIDE DEF c
<1>3. calls \in Seq(Calls) /\ <<o>> \in Seq(Calls) /\ none \in Seq(Calls) /\ <<o, c>> \in Seq(Calls)
  BY <1>1
<1>4. <<c>> \o none = calls
  BY <1>3, ConcatEmptySeq
<1>5. <<o>> \o calls = <<o, c>>
  <2>1. Len(<<o>> \o calls) = 2 /\ <<o>> \o calls \in Seq(Calls)
          /\ (<<o>> \o calls)[1] = o /\ (<<o>> \o calls)[2] = c
    BY <1>3, ConcatProperties
  <2>2. \A i \in 1..2 : (<<o>> \o calls)[i] = <<o, c>>[i]
    BY <2>1
  <2>3. QED
    BY <1>3, <2>1, <2>2, SeqEqual
<1> HIDE DEF calls, none
<1>6. Outside(held, <<c>> \o none) = Outside(held, none)
  BY <1>1, <1>3, OutsideCons
<1>7. Outside(held, <<o>> \o calls) = Plus(Outside(held, calls), o)
  BY <1>1, <1>3, OutsideCons
<1>8. Outside(held', todo') = Plus(Outside(held, << >>), o)
  BY <1>2, <1>4, <1>5, <1>6, <1>7 DEF none
<1>9. held' \subseteq Objects
  BY <1>2, AtIdle
<1>10. QED
  BY <1>2, <1>3, <1>8, <1>9 DEF IInv, CallsInv

\* Xnd_FromXnd().
LEMMA FromXndStep == ASSUME IInv, FromXnd PROVE IInv'
<1> DEFINE t == Fresh(heap, "ndt")
           o == Fresh(heap, "tobj")
           m == Fresh(heap, "mb")
           f == New(heap, t, << >>)
           g == New(f, o, <<t>>)
           h == New(g, m, <<o>>)
<1>1. /\ Idle /\ Room("ndt", 1) /\ Room("tobj", 1) /\ Room("mb", 1) /\ fault' = fault
      /\ \/ FromMblock(h, m, o) /\ block' = [block EXCEPT ![m] = Master("owned", m, "none")]
         \/ Fail("mblock_from_xnd", f, <<t, <<"xnd_del", t>> >>) /\ UNCHANGED block
         \/ Fail("mblock_from_xnd", g, <<o, <<"xnd_del", t>> >>) /\ UNCHANGED block
  BY DEF FromXnd
<1>2. /\ t \in Objects /\ o \in Objects
      /\ Good(f, Masters(block), Plus(Outside(held, << >>), t)) /\ BlocksOK(f, block)
      /\ Good(g, Masters(block), Plus(Outside(held, << >>), o)) /\ BlocksOK(g, block)
  BY <1>1, NewTypedBlock
<1>3. CASE FromMblock(h, m, o) /\ block' = [block EXCEPT ![m] = Master("owned", m, "none")]
  BY <1>1, <1>3, OwnNewBlock
<1> HIDE DEF t, o, m, f, g, h
<1>4. CASE Fail("mblock_from_xnd", f, <<t, <<"xnd_del", t>> >>) /\ UNCHANGED block
  BY <1>1, <1>2, <1>4, FromXndFails
<1>5. CASE Fail("mblock_from_xnd", g, <<o, <<"xnd_del", t>> >>) /\ UNCHANGED block
  BY <1>1, <1>2, <1>5, FromXndFails
<1>6. QED
  BY <1>1, <1>3, <1>4, <1>5

-----------------------------------------------------------------------------
(* Buffers.                                                                *)

\* buffer_alloc(): a new proxy over an xnd object that the program holds.
LEMMA NewProxy ==
  ASSUME IInv, Idle, NEW x \in held, x[1] = "xo", Room("px", 1)
  PROVE  LET p == Fresh(heap, "px")
             g == Proxy(heap, x)
         IN  /\ p \in Objects /\ p[1] = "px" /\ heap[p].rc = 0 /\ x \in Objects
             /\ Good(g, Masters(block), Plus(Outside(held, << >>), p))
             /\ Extends(heap, g) /\ BlocksOK(g, block)
             /\ g[p] = [rc |-> 1, owns |-> <<x>>]
             /\ \A kind : kind # "px" => Dead(g, kind) = Dead(heap, kind)
<1> DEFINE p == Fresh(heap, "px")
           f == Incref(heap, x)
           g == New(f, p, <<x>>)
           R == Outside(held, << >>)
           M == Masters(block)
<1>1. R \in Counts /\ Good(heap, M, R) /\ BlocksOK(heap, block) /\ x \in Objects /\ heap[x].rc > 0
  BY AtIdle
<1>2. p \in Objects /\ p[1] = "px" /\ heap[p].rc = 0
  BY SomeDead, FreshObject DEF Room
<1>3. g = Proxy(heap, x)
  BY DEF Proxy
<1> HIDE DEF p, R, M
<1>4. Good(f, M, Plus(R, x)) /\ Extends(heap, f)
  BY <1>1, IncrefGood
<1>5. f[p].rc = 0
  <2>1. f[p].rc = heap[p].rc + (IF p = x THEN 1 ELSE 0)
    BY <1>1, <1>2, IncrefCell
  <2>2. QED
    BY <2>1, <1>2
<1>6. \A kind : Dead(f, kind) = Dead(heap, kind)
  BY <1>1, DeadAfterIncref
<1> HIDE DEF f
<1>7. Good(g, M, Plus(R, p)) /\ Extends(f, g) /\ g[p] = [rc |-> 1, owns |-> <<x>>]
  BY <1>1, <1>2, <1>4, <1>5, NewOwner
<1>8. \A kind : kind # "px" => Dead(g, kind) = Dead(f, kind)
  BY <1>2, <1>4, DeadAfterNew
<1> HIDE DEF g
<1>9. Extends(heap, g)
  BY <1>4, <1>7, ExtendsTrans
<1>10. BlocksOK(g, block)
  BY <1>1, <1>9, BlocksFrame DEF M
<1>11. QED
  BY <1>1, <1>2, <1>3, <1>6, <1>7, <1>8, <1>9, <1>10 DEF p, R, M

\* pyxnd_getbuf().
LEMMA GetBufStep == ASSUME IInv, NEW x \in Objects, GetBuf(x) PROVE IInv'
<1> DEFINE p == Fresh(heap, "px")
           g == Proxy(heap, x)
<1>1. /\ Idle /\ x \in held /\ x[1] = "xo" /\ Room("px", 1) /\ block' = block /\ fault' = fault
      /\ \/ heap' = g /\ held' = held \union {p} /\ todo' = todo
         \/ Fail("fill_buffer", g, <<p>>)
  BY DEF GetBuf
<1>2. /\ p \in Objects /\ heap[p].rc = 0
      /\ Good(g, Masters(block), Plus(Outside(held, << >>), p)) /\ BlocksOK(g, block)
  BY <1>1, NewProxy
<1> HIDE DEF p, g
<1>3. CASE heap' = g /\ held' = held \union {p} /\ todo' = todo
  BY <1>1, <1>2, <1>3, AtIdle, AfterReturn
<1>4. CASE Fail("fill_buffer", g, <<p>>)
  <2>1. Outside(held, <<p>>) = Plus(Outside(held, << >>), p) /\ <<p>> \in Seq(Objects)
    BY <1>2, OutsideOne
  <2>2. QED
    BY <1>1, <1>2, <1>4, <2>1, AfterFail
<1>5. QED
  BY <1>1, <1>3, <1>4

\* mblock_from_buffer(), for a Py_buffer that owns nothing or a proxy p.
LEMMA FromBufferStep ==
  ASSUME IInv, Idle, NEW h, NEW m \in Objects, m[1] = "mb", heap[m].rc = 0, h[m].rc = 0,
         NEW Q \in Counts, Good(h, Masters(block), Q), BlocksOK(h, block),
         \A kind : kind # "px" => Dead(h, kind) = Dead(heap, kind),
         NEW pin \in Seq(Objects), NEW p \in Objects,
         NEW mstr \in Masterful, mstr.master = "borrowed",
         \/ /\ pin = << >> /\ Q = Outside(held, << >>)
            /\ mstr.origin = m /\ mstr.view # "proxy"
         \/ /\ pin = <<p>> /\ Q = Plus(Outside(held, << >>), p)
            /\ p[1] = "px" /\ h[p].rc > 0 /\ h[p].owns[1] \in Objects /\ h[h[p].owns[1]].rc > 0
            /\ h[h[p].owns[1]].owns[1] \in Masters(block)
            /\ mstr.origin = block[h[h[p].owns[1]].owns[1]].origin,
         FromBuffer(h, m, pin, mstr), fault' = fault
  PROVE  IInv'
<1> DEFINE t == Fresh(h, "ndt")
           o == Fresh(h, "tobj")
           h1 == New(New(h, t, << >>), o, <<t>>)
           refs == <<o>> \o pin
           h2 == New(h1, m, refs)
           h3 == New(h, m, pin)
           R == Outside(held, << >>)
           M == Masters(block)
           n == [mstr EXCEPT !.master = "none"]
<1>1. /\ Room("ndt", 1) /\ Room("tobj", 1)
      /\ \/ FromMblock(h2, m, o) /\ block' = [block EXCEPT ![m] = mstr]
         \/ Fail("type_from_buffer", h3, <<m>>) /\ block' = [block EXCEPT ![m] = n]
         \/ Fail("calloc", h2, <<m>>) /\ block' = [block EXCEPT ![m] = n]
  BY DEF FromBuffer
<1>2. /\ t \in Objects /\ t[1] = "ndt" /\ h[t].rc = 0
      /\ o \in Objects /\ o[1] = "tobj" /\ h[o].rc = 0
  BY <1>1, SomeDead, FreshObject DEF Room
<1>3. R \in Counts
  BY AtIdle
<1> HIDE DEF t, o, R
<1>4. /\ Good(h1, M, Plus(Q, o)) /\ Extends(h, h1) /\ h1[o] = [rc |-> 1, owns |-> <<t>>]
      /\ \A kind : kind \notin {"ndt", "tobj"} => Dead(h1, kind) = Dead(h, kind)
      /\ \A q \in Objects : q # t /\ q # o => h1[q] = h[q]
  BY <1>2, NewTypeObject
<1> HIDE DEF h1
<1>5. /\ Give(R, refs) = Plus(Q, o) /\ refs \in Seq(Objects) /\ Shaped(m, refs, M)
      /\ Len(refs) >= 1 /\ refs[1] = o
      /\ pin = <<p>> => Len(refs) = 2 /\ refs[2] = p
  <2>1. CASE pin = << >> /\ Q = R
    <3>1. refs = <<o>> /\ <<o>> \in Seq(Objects)
      BY <1>2, <2>1, ConcatEmptySeq
    <3>2. QED
      BY <1>2, <1>3, <2>1, <3>1, GiveOne DEF Shaped
  <2>2. CASE pin = <<p>> /\ Q = Plus(R, p) /\ p[1] = "px"
    <3>1. <<o>> \in Seq(Objects) /\ <<o, p>> \in Seq(Objects)
      BY <1>2
    <3>2. Len(refs) = 2 /\ refs \in Seq(Objects) /\ refs[1] = o /\ refs[2] = p
      BY <2>2, <3>1, ConcatProperties
    <3>3. refs = <<o, p>>
      <4>1. \A i \in 1..2 : refs[i] = <<o, p>>[i]
        BY <3>2
      <4>2. QED
        BY <3>1, <3>2, <4>1, SeqEqual
    <3>4. Give(R, <<o, p>>) = Plus(Plus(R, o), p)
      BY <1>2, <1>3, <2>2, GiveTwo
    <3>5. Plus(Plus(R, o), p) = Plus(Q, o)
      BY <1>2, <1>3, <2>2, PlusCommutes
    <3>6. Give(R, refs) = Plus(Q, o)
      BY <3>3, <3>4, <3>5
    <3> HIDE DEF refs
    <3>7. Shaped(m, refs, M)
      <4>1. refs[1][1] = "tobj" /\ refs[2][1] = "px"
        BY <1>2, <2>2, <3>2
      <4>2. QED
        BY <3>2, <4>1 DEF Shaped
    <3>8. Len(refs) >= 1
      BY <3>2
    <3>9. QED
      BY <3>2, <3>6, <3>7, <3>8
  <2>3. QED
    BY <2>1, <2>2 DEF R
<1> HIDE DEF refs
<1>6. h1[m].rc = 0
  BY <1>2, <1>4
<1>7. Good(h2, M, Plus(R, m)) /\ Extends(h1, h2)
  <2>1. Good(h1, M, Give(R, refs))
    BY <1>4, <1>5
  <2>2. QED
    BY <2>1, <1>3, <1>5, <1>6, NewGood
<1>8. h2[m] = [rc |-> 1, owns |-> refs]
  BY <1>4, NewCell
<1>9. Dead(h2, "xo") = Dead(heap, "xo")
  <2>1. Dead(h2, "xo") = Dead(h1, "xo")
    BY <1>4, DeadAfterNew
  <2>2. QED
    BY <2>1, <1>4
<1>10. h2[o].rc > 0
  BY <1>2, <1>4, <1>7 DEF Extends
<1> HIDE DEF h2
<1>11. Extends(h, h2)
  BY <1>4, <1>7, ExtendsTrans
<1>12. BlocksOK(h2, block)
  BY <1>11, BlocksFrame
<1>13. n \in Masterful /\ n.master = "none"
  BY DEF Masterful
<1>14. CASE FromMblock(h2, m, o) /\ block' = [block EXCEPT ![m] = mstr]
  <2>1. \/ mstr.origin = m /\ mstr.view # "proxy"
        \/ /\ Len(h2[m].owns) = 2
           /\ Exporter(h2, m) \in Masters(block) /\ mstr.origin = block[Exporter(h2, m)].origin
    <3>1. CASE mstr.origin = m /\ mstr.view # "proxy"
      BY <3>1
    <3>2. CASE /\ pin = <<p>>
               /\ h[p].rc > 0 /\ h[p].owns[1] \in Objects /\ h[h[p].owns[1]].rc > 0
               /\ h[h[p].owns[1]].owns[1] \in Masters(block)
               /\ mstr.origin = block[h[h[p].owns[1]].owns[1]].origin
      <4>1. h2[m].owns[2] = p /\ Len(h2[m].owns) = 2
        BY <1>5, <1>8, <3>2
      <4>2. h2[p].owns = h[p].owns /\ h2[h[p].owns[1]].owns = h[h[p].owns[1]].owns
        BY <1>11, <3>2 DEF Extends
      <4>3. Exporter(h2, m) = h[h[p].owns[1]].owns[1]
        BY <4>1, <4>2 DEF Exporter
      <4>4. QED
        BY <3>2, <4>1, <4>3
    <3>3. QED
      BY <3>1, <3>2
  <2>2. h2[m].rc > 0 /\ Len(h2[m].owns) >= 1 /\ h2[m].owns[1] = o
    BY <1>5, <1>8
  <2>3. Good(h2, Masters(block), Plus(Outside(held, << >>), m))
    BY <1>7 DEF R
  <2>4. QED
    BY <1>2, <1>9, <1>10, <1>12, <1>14, <2>1, <2>2, <2>3, AfterNewBlock
<1>15. CASE Fail("calloc", h2, <<m>>) /\ block' = [block EXCEPT ![m] = n]
  <2>1. Good(h2, Masters(block), Plus(Outside(held, << >>), m))
    BY <1>7 DEF R
  <2> HIDE DEF n
  <2>2. QED
    BY <1>12, <1>13, <1>15, <2>1, AfterFailedBlock
<1>16. CASE Fail("type_from_buffer", h3, <<m>>) /\ block' = [block EXCEPT ![m] = n]
  <2>1. Give(R, pin) = Q
    BY <1>3, GiveNone, GiveOne DEF R
  <2>2. Shaped(m, pin, M)
    BY DEF Shaped
  <2>3. Good(h3, M, Plus(R, m)) /\ Extends(h, h3)
    BY <1>3, <2>1, <2>2, NewGood
  <2> HIDE DEF h3, n
  <2>4. BlocksOK(h3, block)
    BY <2>3, BlocksFrame
  <2>5. QED
    BY <1>13, <1>16, <2>3, <2>4, AfterFailedBlock DEF R
<1>17. QED
  BY <1>1, <1>14, <1>15, <1>16

\* xnd.from_buffer() for memory of another library.
LEMMA FromExternalStep == ASSUME IInv, NEW view \in External, FromExternal(view) PROVE IInv'
<1> DEFINE m == Fresh(heap, "mb")
           e == Master("borrowed", m, view)
           R == Outside(held, << >>)
<1>1. Idle /\ Room("mb", 1) /\ fault' = fault /\ FromBuffer(heap, m, << >>, e)
  BY DEF FromExternal
<1>2. m \in Objects /\ m[1] = "mb" /\ heap[m].rc = 0
  BY <1>1, SomeDead, FreshObject DEF Room
<1>3. R \in Counts /\ Good(heap, Masters(block), R) /\ BlocksOK(heap, block)
  BY <1>1, AtIdle
<1> HIDE DEF m
<1>4. e \in Masterful /\ e.master = "borrowed" /\ e.origin = m /\ e.view # "proxy"
  BY <1>2 DEF Masterful, Master, Blocks, External
<1>5. << >> \in Seq(Objects) /\ R = Outside(held, << >>)
  OBVIOUS
<1> HIDE DEF e, R
<1> DEFINE none == << >>
<1>6. none \in Seq(Objects) /\ none = << >> /\ FromBuffer(heap, m, none, e)
  BY <1>1, <1>5
<1> HIDE DEF none
<1>7. \/ /\ none = << >> /\ R = Outside(held, << >>)
         /\ e.origin = m /\ e.view # "proxy"
      \/ /\ none = <<m>> /\ R = Plus(Outside(held, << >>), m)
         /\ m[1] = "px" /\ heap[m].rc > 0 /\ heap[m].owns[1] \in Objects /\ heap[heap[m].owns[1]].rc > 0
         /\ heap[heap[m].owns[1]].owns[1] \in Masters(block)
         /\ e.origin = block[heap[heap[m].owns[1]].owns[1]].origin
  BY <1>4, <1>5, <1>6
<1>8. \A kind : kind # "px" => Dead(heap, kind) = Dead(heap, kind)
  OBVIOUS
<1>9. IInv
  OBVIOUS
<1>10. QED
  BY ONLY <1>1, <1>2, <1>3, <1>4, <1>6, <1>7, <1>8, <1>9, FromBufferStep

\* xnd.from_buffer() for an xnd object.
LEMMA FromXndBufferStep == ASSUME IInv, NEW x \in Objects, FromXndBuffer(x) PROVE IInv'
<1> DEFINE m == Fresh(heap, "mb")
           p == Fresh(heap, "px")
           h == Proxy(heap, x)
           y == heap[x].owns[1]
           e == Master("borrowed", block[y].origin, "proxy")
           Q == Plus(Outside(held, << >>), p)
           pin == <<p>>
<1>1. /\ Idle /\ x \in held /\ x[1] = "xo" /\ Room("mb", 1) /\ Room("px", 1) /\ fault' = fault
      /\ FromBuffer(h, m, pin, e)
  BY DEF FromXndBuffer, Mblock
<1>2. m \in Objects /\ m[1] = "mb" /\ heap[m].rc = 0
  BY <1>1, SomeDead, FreshObject DEF Room
<1>3. /\ p \in Objects /\ p[1] = "px" /\ heap[p].rc = 0
      /\ Good(h, Masters(block), Q)
      /\ Extends(heap, h) /\ BlocksOK(h, block)
      /\ h[p] = [rc |-> 1, owns |-> <<x>>]
      /\ \A kind : kind # "px" => Dead(h, kind) = Dead(heap, kind)
  BY <1>1, NewProxy
<1>4. /\ Good(heap, Masters(block), Outside(held, << >>)) /\ BlocksOK(heap, block)
      /\ heap[x].rc > 0 /\ Outside(held, << >>) \in Counts
  BY <1>1, AtIdle
<1> HIDE DEF p, h, m
<1>5. y \in Masters(block) /\ y \in Objects
  <2>1. heap[x].rc # 0
    BY <1>4
  <2>2. QED
    BY <1>1, <1>4, <2>1, View
<1>6. h[x].rc > 0 /\ h[x].owns[1] = y
  BY <1>3, <1>4 DEF Extends
<1>7. h[m].rc = 0
  <2>1. m \in Dead(heap, "mb")
    BY <1>2 DEF Dead
  <2>2. Dead(h, "mb") = Dead(heap, "mb")
    BY <1>3
  <2>3. QED
    BY <2>1, <2>2 DEF Dead
<1> HIDE DEF y
<1>8. e \in Masterful /\ e.master = "borrowed" /\ e.origin = block[y].origin
  <2>1. block[y].origin \in Masters(block)
    BY <1>4, <1>5 DEF BlocksOK
  <2>2. block[y].origin \in Blocks
    BY <2>1 DEF Masters
  <2>3. QED
    BY <2>2 DEF Masterful, Master
<1>9. h[p].rc > 0 /\ h[p].owns[1] = x
  BY <1>3
<1>10. Q \in Counts /\ Q = Plus(Outside(held, << >>), p)
  BY <1>3, <1>4, PlusType
<1>11. pin \in Seq(Objects) /\ pin = <<p>>
  BY <1>3
<1> HIDE DEF e, Q, pin
<1>12. /\ h[p].owns[1] \in Objects /\ h[h[p].owns[1]].rc > 0
       /\ h[h[p].owns[1]].owns[1] \in Masters(block)
       /\ e.origin = block[h[h[p].owns[1]].owns[1]].origin
  BY <1>5, <1>6, <1>8, <1>9
<1>13. QED
  BY <1>1, <1>2, <1>3, <1>4, <1>7, <1>8, <1>9, <1>10, <1>11, <1>12, FromBufferStep

-----------------------------------------------------------------------------
(* Views.                                                                  *)

\* What xnd objects that the program holds lead to.
LEMMA ViewType ==
  ASSUME IInv, Idle, NEW x \in held, x[1] = "xo"
  PROVE  LET m == Mblock(x)
             o == heap[x].owns[2]
             u == XndType(x)
         IN  /\ m \in Objects /\ m[1] = "mb" /\ heap[m].rc > 0 /\ m \in Masters(block)
             /\ o \in Objects /\ o[1] = "tobj" /\ heap[o].rc > 0
             /\ u \in Objects /\ u[1] = "ndt" /\ heap[u].rc > 0
<1> DEFINE o == heap[x].owns[2]
           R == Outside(held, << >>)
           M == Masters(block)
<1>1. Good(heap, M, R) /\ x \in Objects /\ heap[x].rc > 0
  BY AtIdle
<1> HIDE DEF R, M
<1>2. heap[x].rc # 0
  BY <1>1
<1>3. /\ heap[x].owns[1] \in Objects /\ heap[x].owns[1][1] = "mb" /\ heap[heap[x].owns[1]].rc > 0
      /\ heap[x].owns[1] \in M
      /\ o \in Objects /\ o[1] = "tobj" /\ heap[o].rc > 0
  BY <1>1, <1>2, View
<1> HIDE DEF o
<1>4. heap[o].owns[1] \in Objects /\ heap[o].owns[1][1] = "ndt" /\ heap[heap[o].owns[1]].rc > 0
  <2>1. heap[o].rc # 0
    BY <1>3
  <2>2. QED
    BY <1>1, <1>3, <2>1, TypeObject
<1>5. XndType(x) = heap[o].owns[1] /\ Mblock(x) = heap[x].owns[1]
  BY DEF XndType, NDT, o, Mblock
<1>6. QED
  BY <1>3, <1>4, <1>5 DEF o, M

\* A dimension has one element type.
LEMMA Dimension ==
  ASSUME NEW h, NEW M, NEW R, Good(h, M, R), NEW u \in Objects, u[1] = "ndt", h[u].rc # 0
  PROVE  /\ h[u].owns # << >> =>
              /\ h[u].owns = << h[u].owns[1] >>
              /\ h[u].owns[1] \in Objects /\ h[u].owns[1][1] = "ndt" /\ h[h[u].owns[1]].rc > 0
         /\ \A t \in {u} \union Range(h[u].owns) : t \in Objects /\ t[1] = "ndt" /\ h[t].rc > 0
<1>1. /\ Len(h[u].owns) <= 1 /\ \A k \in DOMAIN h[u].owns : h[u].owns[k][1] = "ndt"
      /\ h[u].owns \in Seq(Objects)
      /\ DOMAIN h[u].owns = 1..Len(h[u].owns) /\ Len(h[u].owns) \in Nat
  BY LiveShape DEF Shaped
<1>2. h[u].rc \in Nat
  BY DEF Good, Sound, Heaps
<1>3. ASSUME h[u].owns # << >>
      PROVE  /\ h[u].owns = << h[u].owns[1] >> /\ 1 \in DOMAIN h[u].owns
             /\ Range(h[u].owns) = {h[u].owns[1]}
             /\ h[u].owns[1] \in Objects /\ h[u].owns[1][1] = "ndt" /\ h[h[u].owns[1]].rc > 0
  <2>1. Len(h[u].owns) # 0
    BY <1>1, <1>3, EmptySeq
  <2>2. Len(h[u].owns) = 1 /\ 1 \in DOMAIN h[u].owns
    <3>1. Len(h[u].owns) \in Nat /\ Len(h[u].owns) <= 1
      BY <1>1
    <3> DEFINE n == Len(h[u].owns)
    <3>2. n \in Nat /\ n <= 1 /\ n # 0
      BY <3>1, <2>1
    <3> HIDE DEF n
    <3>3. n = 1
      BY <3>2
    <3>4. Len(h[u].owns) = 1
      BY <3>3 DEF n
    <3>5. QED
      BY <1>1, <3>4
  <2>3. h[u].owns[1] \in Objects /\ h[h[u].owns[1]].rc > 0
    BY <2>2, OwnedAt
  <2>4. h[u].owns[1][1] = "ndt"
    BY <1>1, <2>2
  <2>5. h[u].owns = << h[u].owns[1] >>
    <3>1. << h[u].owns[1] >> \in Seq(Objects) /\ Len(<< h[u].owns[1] >>) = 1
      BY <2>3
    <3>2. \A i \in 1..1 : h[u].owns[i] = << h[u].owns[1] >>[i]
      OBVIOUS
    <3>3. QED
      BY <1>1, <2>2, <3>1, <3>2, SeqEqual
  <2>6. Range(h[u].owns) = {h[u].owns[1]}
    BY <1>1, <2>2 DEF Range
  <2>7. QED
    BY <2>2, <2>3, <2>4, <2>5, <2>6
<1>4. ASSUME h[u].owns = << >> PROVE Range(h[u].owns) = {}
  BY <1>4 DEF Range
<1>5. ASSUME NEW t \in {u} \union Range(h[u].owns)
      PROVE  t \in Objects /\ t[1] = "ndt" /\ h[t].rc > 0
  <2>1. CASE t = u
    BY <1>2, <2>1
  <2>2. CASE t \in Range(h[u].owns)
    BY <1>3, <1>4, <2>2
  <2>3. QED
    BY <2>1, <2>2
<1>6. QED
  BY <1>3, <1>5

\* A slice is a new type with a reference to the element type.
LEMMA SliceGood ==
  ASSUME NEW h, NEW M, NEW R \in Counts, Good(h, M, R),
         NEW u \in Objects, u[1] = "ndt", h[u].rc # 0, h[u].owns # << >>, Dead(h, "ndt") # {}
  PROVE  LET t == Fresh(h, "ndt")
             g == Slice(h, u)
         IN  /\ t \in Objects /\ t[1] = "ndt" /\ h[t].rc = 0
             /\ Good(g, M, Plus(R, t)) /\ Extends(h, g)
             /\ Dead(g, "ndt") = Dead(h, "ndt") \ {t}
             /\ \A kind : kind # "ndt" => Dead(g, kind) = Dead(h, kind)
<1> DEFINE t == Fresh(h, "ndt")
           v == h[u].owns[1]
           f == Incref(h, v)
           refs == <<v>>
           g == New(f, t, refs)
<1>1. t \in Objects /\ t[1] = "ndt" /\ h[t].rc = 0
  BY FreshObject
<1>2. h[u].owns = <<v>> /\ v \in Objects /\ v[1] = "ndt" /\ h[v].rc > 0
  BY Dimension
<1>3. g = Slice(h, u)
  BY <1>2 DEF Slice
<1> HIDE DEF t, v
<1>4. Good(f, M, Plus(R, v)) /\ Extends(h, f)
  BY <1>2, IncrefGood
<1>5. f[t].rc = 0
  <2>1. f[t].rc = h[t].rc + (IF t = v THEN 1 ELSE 0)
    BY <1>1, <1>2, IncrefCell
  <2>2. QED
    BY <2>1, <1>1, <1>2
<1>6. \A kind : Dead(f, kind) = Dead(h, kind)
  BY <1>2, DeadAfterIncref
<1> HIDE DEF f
<1>7. Good(g, M, Plus(R, t)) /\ Extends(f, g)
  BY <1>1, <1>2, <1>4, <1>5, NewOwner
<1> HIDE DEF refs
<1>8. ASSUME NEW kind
      PROVE  Dead(g, kind) = IF kind = "ndt" THEN Dead(f, kind) \ {t} ELSE Dead(f, kind)
  <2>1. Dead(g, kind) = IF t[1] = kind THEN Dead(f, kind) \ {t} ELSE Dead(f, kind)
    BY <1>1, <1>4, DeadAfterNew
  <2>2. QED
    BY <2>1, <1>1
<1> HIDE DEF g
<1>9. Extends(h, g)
  BY <1>4, <1>7, ExtendsTrans
<1>10. QED
  BY <1>1, <1>3, <1>6, <1>7, <1>8, <1>9 DEF t

\* A type moves into a new type object.
LEMMA MoveTypeGood ==
  ASSUME NEW h, NEW M, NEW R \in Counts, NEW t \in Objects, t[1] = "ndt", Good(h, M, Plus(R, t)),
         Dead(h, "tobj") # {}
  PROVE  LET o == Fresh(h, "tobj")
             g == MoveType(h, t)
         IN  /\ o \in Objects /\ o[1] = "tobj" /\ h[o].rc = 0 /\ g[o].rc = 1
             /\ Good(g, M, Plus(R, o)) /\ Extends(h, g)
             /\ Dead(g, "xo") = Dead(h, "xo") /\ Dead(g, "tobj") = Dead(h, "tobj") \ {o}
<1> DEFINE o == Fresh(h, "tobj")
           g == New(h, o, <<t>>)
<1>1. o \in Objects /\ o[1] = "tobj" /\ h[o].rc = 0
  BY FreshObject
<1>2. g = MoveType(h, t)
  BY DEF MoveType
<1> HIDE DEF o
<1>3. Good(g, M, Plus(R, o)) /\ Extends(h, g) /\ g[o] = [rc |-> 1, owns |-> <<t>>]
  BY <1>1, NewOwner
<1>4. Dead(g, "xo") = Dead(h, "xo") /\ Dead(g, "tobj") = Dead(h, "tobj") \ {o}
  BY <1>1, DeadAfterNew
<1> HIDE DEF g
<1>5. g[o].rc = 1
  BY <1>3
<1>6. QED
  BY <1>1, <1>2, <1>3, <1>4, <1>5 DEF o

\* Block m has memory for a view of type t, to which R does not count a reference.
Viewable(h, M, R, t, m) ==
  /\ R \in Counts /\ t \in Objects /\ t[1] = "ndt" /\ Good(h, M, Plus(R, t))
  /\ Dead(h, "tobj") # {} /\ Dead(h, "xo") # {}
  /\ m \in Objects /\ m[1] = "mb" /\ m \in M /\ h[m].rc > 0

\* pyxnd_view_move_type(): a new xnd object in a block with memory.
LEMMA ViewMoveTypeGood ==
  ASSUME NEW h, NEW M, NEW R, NEW t, NEW m, Viewable(h, M, R, t, m)
  PROVE  LET o == Fresh(h, "tobj")
             x == Fresh(h, "xo")
             g == ViewMoveType(h, m, t)
         IN  /\ x \in Objects /\ x[1] = "xo" /\ h[x].rc = 0
             /\ Good(g, M, Plus(R, x)) /\ Extends(h, g)
             /\ Dead(g, "xo") = Dead(h, "xo") \ {x} /\ Dead(g, "tobj") = Dead(h, "tobj") \ {o}
<1> DEFINE o == Fresh(h, "tobj")
           x == Fresh(h, "xo")
           f == MoveType(h, t)
           e == Incref(f, m)
           g == New(e, x, <<m, o>>)
<1> USE DEF Viewable
<1>1. x \in Objects /\ x[1] = "xo" /\ h[x].rc = 0
  BY FreshObject
<1>2. /\ o \in Objects /\ o[1] = "tobj" /\ h[o].rc = 0 /\ f[o].rc = 1
      /\ Good(f, M, Plus(R, o)) /\ Extends(h, f)
      /\ Dead(f, "xo") = Dead(h, "xo") /\ Dead(f, "tobj") = Dead(h, "tobj") \ {o}
  BY MoveTypeGood
<1>3. g = ViewMoveType(h, m, t)
  BY DEF ViewMoveType
<1> HIDE DEF o, x, f
<1>4. f[m].rc > 0 /\ f[x].rc = 0
  <2>1. x \in Dead(h, "xo")
    BY <1>1 DEF Dead
  <2>2. x \in Dead(f, "xo")
    BY <2>1, <1>2
  <2>3. QED
    BY <2>2, <1>2 DEF Dead, Extends
<1>5. Good(e, M, Plus(Plus(R, o), m)) /\ Extends(f, e)
  BY <1>2, <1>4, IncrefGood
<1>6. e[x].rc = 0
  <2>1. e[x].rc = f[x].rc + (IF x = m THEN 1 ELSE 0)
    BY <1>1, <1>2, IncrefCell
  <2>2. QED
    BY <2>1, <1>1, <1>4
<1>7. \A kind : Dead(e, kind) = Dead(f, kind)
  BY <1>2, <1>4, DeadAfterIncref
<1> HIDE DEF e
<1>8. Plus(Plus(R, o), m) = Give(R, <<m, o>>)
  <2>1. Give(R, <<m, o>>) = Plus(Plus(R, m), o)
    BY <1>2, GiveTwo
  <2>2. QED
    BY <2>1, <1>2, PlusCommutes
<1>9. Good(e, M, Give(R, <<m, o>>))
  BY <1>5, <1>8
<1>10. Shaped(x, <<m, o>>, M) /\ <<m, o>> \in Seq(Objects)
  BY <1>1, <1>2 DEF Shaped
<1>11. Good(g, M, Plus(R, x)) /\ Extends(e, g)
  BY <1>1, <1>6, <1>9, <1>10, NewGood
<1>12. Dead(g, "xo") = Dead(e, "xo") \ {x} /\ Dead(g, "tobj") = Dead(e, "tobj")
  BY <1>1, <1>5, DeadAfterNew
<1> HIDE DEF g
<1>13. Extends(h, g)
  BY <1>2, <1>5, <1>11, ExtendsTrans
<1>14. Dead(g, "xo") = Dead(h, "xo") \ {x} /\ Dead(g, "tobj") = Dead(h, "tobj") \ {o}
  BY <1>2, <1>7, <1>12
<1>15. QED
  BY <1>1, <1>3, <1>11, <1>13, <1>14 DEF o, x

\* The type that xnd_subscript(), xnd_transpose() or xnd_reshape() returns.
LEMMA SubtreeGood ==
  ASSUME IInv, Idle, NEW x \in held, x[1] = "xo",
         NEW res \in Subtrees(XndType(x)) \union Slices(XndType(x))
  PROVE  /\ res.t \in Objects /\ res.t[1] = "ndt"
         /\ Good(res.h, Masters(block), Plus(Outside(held, << >>), res.t))
         /\ Extends(heap, res.h)
         /\ Dead(res.h, "tobj") = Dead(heap, "tobj") /\ Dead(res.h, "xo") = Dead(heap, "xo")
<1> DEFINE u == XndType(x)
           R == Outside(held, << >>)
           M == Masters(block)
<1>1. Good(heap, M, R) /\ R \in Counts
  BY AtIdle
<1>2. u \in Objects /\ u[1] = "ndt" /\ heap[u].rc > 0
  BY ViewType
<1> HIDE DEF u, R, M
<1>3. heap[u].rc # 0
  BY <1>2
<1>4. CASE res \in Subtrees(u)
  <2>1. PICK t \in {u} \union Range(heap[u].owns) : res = [h |-> Incref(heap, t), t |-> t]
    BY <1>4 DEF Subtrees
  <2>2. t \in Objects /\ t[1] = "ndt" /\ heap[t].rc > 0
    BY <1>1, <1>2, <1>3, Dimension
  <2> DEFINE g == Incref(heap, t)
  <2>3. res.h = g /\ res.t = t
    BY <2>1
  <2>4. Good(g, M, Plus(R, t)) /\ Extends(heap, g)
    BY <1>1, <2>2, IncrefGood
  <2>5. Dead(g, "tobj") = Dead(heap, "tobj") /\ Dead(g, "xo") = Dead(heap, "xo")
    BY <1>1, <2>2, DeadAfterIncref
  <2> HIDE DEF g
  <2>6. QED
    BY <2>2, <2>3, <2>4, <2>5 DEF R, M
<1>5. CASE res \in Slices(u)
  <2> DEFINE t == Fresh(heap, "ndt")
             g == Slice(heap, u)
  <2>1. heap[u].owns # << >> /\ Room("ndt", 1) /\ res.h = g /\ res.t = t
    BY <1>5 DEF Slices, IsDimension
  <2>2. Dead(heap, "ndt") # {}
    BY <2>1, SomeDead DEF Room
  <2>3. /\ t \in Objects /\ t[1] = "ndt" /\ heap[t].rc = 0
        /\ Good(g, M, Plus(R, t)) /\ Extends(heap, g)
        /\ Dead(g, "ndt") = Dead(heap, "ndt") \ {t}
        /\ \A kind : kind # "ndt" => Dead(g, kind) = Dead(heap, kind)
    BY <1>1, <1>2, <1>3, <2>1, <2>2, SliceGood
  <2> HIDE DEF t, g
  <2>4. QED
    BY <2>1, <2>3 DEF R, M
<1>6. QED
  BY <1>4, <1>5 DEF u

\* x[key], x.transpose() and x.reshape().
LEMMA SubscriptStep == ASSUME IInv, NEW x \in Objects, Subscript(x) PROVE IInv'
<1> DEFINE u == XndType(x)
           m == Mblock(x)
           R == Outside(held, << >>)
           M == Masters(block)
<1>1. /\ Idle /\ x \in held /\ x[1] = "xo" /\ Room("tobj", 1)
      /\ block' = block /\ fault' = fault
  BY DEF Subscript
<1>2. PICK res \in Subtrees(u) \union Slices(u) :
        \/ /\ Room("xo", 1)
           /\ heap' = ViewMoveType(res.h, m, res.t)
           /\ held' = held \union {Fresh(heap, "xo")}
           /\ todo' = todo
        \/ Fail("pyxnd_alloc", MoveType(res.h, res.t), << Fresh(heap, "tobj") >>)
        \/ Fail("pyxnd_view_move_type", res.h, << >>)
  BY DEF Subscript
<1> DEFINE h == res.h
           t == res.t
           o == Fresh(h, "tobj")
           v == Fresh(h, "xo")
<1>3. /\ t \in Objects /\ t[1] = "ndt"
      /\ Good(h, M, Plus(R, t)) /\ Extends(heap, h)
      /\ Dead(h, "tobj") = Dead(heap, "tobj") /\ Dead(h, "xo") = Dead(heap, "xo")
  BY <1>1, SubtreeGood
<1>4. o = Fresh(heap, "tobj") /\ v = Fresh(heap, "xo")
  BY <1>3 DEF Fresh
<1>5. m \in Objects /\ m[1] = "mb" /\ heap[m].rc > 0 /\ m \in M
  BY <1>1, ViewType
<1>6. R \in Counts /\ BlocksOK(heap, block) /\ Good(heap, M, R) /\ todo = << >>
  BY <1>1, AtIdle
<1>7. Dead(h, "tobj") # {}
  BY <1>1, <1>3, SomeDead DEF Room
<1> HIDE DEF R, M, m, u, h, t
<1>8. h[m].rc > 0
  BY <1>3, <1>5 DEF Extends
<1>9. R \in Counts /\ t \in Objects /\ t[1] = "ndt" /\ Good(h, M, Plus(R, t))
  BY <1>3, <1>6
<1>10. CASE /\ Room("xo", 1)
            /\ heap' = ViewMoveType(h, m, t)
            /\ held' = held \union {v}
            /\ todo' = todo
  <2> DEFINE g == ViewMoveType(h, m, t)
  <2>1. Dead(h, "xo") # {}
    BY <1>3, <1>10, SomeDead DEF Room
  <2>2. Viewable(h, M, R, t, m)
    BY <1>5, <1>7, <1>8, <1>9, <2>1 DEF Viewable
  <2>3. /\ v \in Objects /\ v[1] = "xo" /\ h[v].rc = 0
        /\ Good(g, M, Plus(R, v)) /\ Extends(h, g)
        /\ Dead(g, "xo") = Dead(h, "xo") \ {v} /\ Dead(g, "tobj") = Dead(h, "tobj") \ {o}
    BY <2>2, ViewMoveTypeGood
  <2>4. heap[v].rc = 0
    <3>1. v \in Dead(h, "xo")
      BY <2>3 DEF Dead
    <3>2. QED
      BY <3>1, <1>3 DEF Dead
  <2> HIDE DEF g, v, o
  <2>5. heap' = g
    BY <1>10 DEF g
  <2>6. BlocksOK(heap', block')
    <3>1. Extends(heap, g)
      BY <1>3, <2>3, ExtendsTrans
    <3>2. BlocksOK(g, block)
      BY <1>6, <3>1, BlocksFrame DEF M
    <3>3. QED
      BY <1>1, <2>5, <3>2
  <2>7. Good(heap', Masters(block'), Plus(Outside(held, << >>), v))
    BY <1>1, <2>3, <2>5 DEF M, R
  <2>8. QED
    BY <1>1, <1>6, <1>10, <2>3, <2>4, <2>6, <2>7, AfterReturn
<1>11. CASE Fail("pyxnd_alloc", MoveType(h, t), <<o>>)
  <2> DEFINE g == MoveType(h, t)
  <2>1. /\ o \in Objects /\ o[1] = "tobj" /\ h[o].rc = 0 /\ g[o].rc = 1
        /\ Good(g, M, Plus(R, o)) /\ Extends(h, g)
        /\ Dead(g, "xo") = Dead(h, "xo") /\ Dead(g, "tobj") = Dead(h, "tobj") \ {o}
    BY <1>7, <1>9, MoveTypeGood
  <2> HIDE DEF g, o
  <2>2. BlocksOK(g, block)
    <3>1. Extends(heap, g)
      BY <1>3, <2>1, ExtendsTrans
    <3>2. QED
      BY <1>6, <3>1, BlocksFrame DEF M
  <2>3. Outside(held, <<o>>) = Plus(Outside(held, << >>), o) /\ <<o>> \in Seq(Objects)
    BY <2>1, OutsideOne
  <2>4. Good(g, Masters(block'), Outside(held, <<o>>)) /\ BlocksOK(g, block')
    BY <1>1, <2>1, <2>2, <2>3 DEF M, R
  <2>5. Fail("pyxnd_alloc", g, <<o>>)
    BY <1>11 DEF g
  <2>6. QED
    BY <1>1, <2>3, <2>4, <2>5, AfterFail
<1>12. CASE Fail("pyxnd_view_move_type", h, << >>)
  <2>1. ~NoLeak
    BY <1>12 DEF Fail, NoLeak
  <2>2. Good(h, M, R)
    BY <1>3, <1>6, <2>1, LeakGood
  <2>3. BlocksOK(h, block)
    BY <1>3, <1>6, BlocksFrame DEF M
  <2>4. Good(h, Masters(block'), Outside(held, << >>)) /\ BlocksOK(h, block') /\ << >> \in Seq(Objects)
    BY <1>1, <2>2, <2>3 DEF M, R
  <2>5. QED
    BY <1>1, <1>12, <2>4, AfterFail
<1>13. QED
  BY <1>2, <1>4, <1>10, <1>11, <1>12 DEF h, t, m

\* x.type
LEMMA GetTypeStep == ASSUME IInv, NEW x \in Objects, GetType(x) PROVE IInv'
<1> DEFINE o == heap[x].owns[2]
           g == Incref(heap, o)
<1>1. /\ Idle /\ x \in held /\ x[1] = "xo" /\ o \notin held
      /\ heap' = g /\ held' = held \union {o} /\ block' = block /\ todo' = todo /\ fault' = fault
  BY DEF GetType
<1>2. o \in Objects /\ o[1] = "tobj" /\ heap[o].rc > 0
  BY <1>1, ViewType
<1>3. /\ Good(heap, Masters(block), Outside(held, << >>)) /\ BlocksOK(heap, block)
      /\ todo = << >> /\ held \subseteq Objects
  BY <1>1, AtIdle
<1> HIDE DEF o
<1>4. Good(g, Masters(block), Plus(Outside(held, << >>), o)) /\ Extends(heap, g)
  BY <1>2, <1>3, IncrefGood
<1> HIDE DEF g
<1>5. BlocksOK(g, block)
  BY <1>3, <1>4, BlocksFrame
<1>6. Outside(held \union {o}, << >>) = Plus(Outside(held, << >>), o)
  BY <1>1, <1>2, OutsideHold
<1>7. /\ held' \subseteq Objects /\ todo' \in Seq(Objects)
      /\ Good(heap', Masters(block'), Outside(held', todo')) /\ BlocksOK(heap', block')
  BY <1>1, <1>2, <1>3, <1>4, <1>5, <1>6
<1>8. QED
  BY <1>1, <1>7, AfterOperation

\* x.dtype
LEMMA GetDtypeStep == ASSUME IInv, NEW x \in Objects, GetDtype(x) PROVE IInv'
<1> DEFINE u == XndType(x)
           t == IF IsDimension(u) THEN heap[u].owns[1] ELSE u
           o == Fresh(heap, "tobj")
           f == Incref(heap, t)
           g == New(f, o, <<t>>)
           R == Outside(held, << >>)
           M == Masters(block)
<1>1. /\ Idle /\ x \in held /\ x[1] = "xo" /\ Room("tobj", 1)
      /\ heap' = g /\ held' = held \union {o} /\ block' = block /\ todo' = todo /\ fault' = fault
  BY DEF GetDtype
<1>2. u \in Objects /\ u[1] = "ndt" /\ heap[u].rc > 0
  BY <1>1, ViewType
<1>3. R \in Counts /\ Good(heap, M, R) /\ BlocksOK(heap, block) /\ todo = << >>
  BY <1>1, AtIdle
<1>4. o \in Objects /\ o[1] = "tobj" /\ heap[o].rc = 0
  BY <1>1, SomeDead, FreshObject DEF Room
<1> HIDE DEF u, o, R, M
<1>5. t \in Objects /\ t[1] = "ndt" /\ heap[t].rc > 0
  <2>1. heap[u].rc # 0
    BY <1>2
  <2>2. heap[u].owns # << >> =>
          heap[u].owns[1] \in Objects /\ heap[u].owns[1][1] = "ndt" /\ heap[heap[u].owns[1]].rc > 0
    BY <1>2, <1>3, <2>1, Dimension
  <2>3. QED
    BY <1>2, <2>2 DEF IsDimension
<1> HIDE DEF t
<1>6. Good(f, M, Plus(R, t)) /\ Extends(heap, f)
  BY <1>3, <1>5, IncrefGood
<1>7. f[o].rc = 0
  <2>1. f[o].rc = heap[o].rc + (IF o = t THEN 1 ELSE 0)
    BY <1>3, <1>4, <1>5, IncrefCell
  <2>2. QED
    BY <2>1, <1>4, <1>5
<1> HIDE DEF f
<1>8. Good(g, M, Plus(R, o)) /\ Extends(f, g)
  BY <1>3, <1>4, <1>5, <1>6, <1>7, NewOwner
<1> HIDE DEF g
<1>9. Extends(heap, g)
  BY <1>6, <1>8, ExtendsTrans
<1>10. BlocksOK(g, block)
  BY <1>3, <1>9, BlocksFrame DEF M
<1>11. Good(heap', Masters(block'), Plus(Outside(held, << >>), o)) /\ BlocksOK(heap', block')
  BY <1>1, <1>8, <1>10 DEF M, R
<1>12. todo' = << >>
  BY <1>1, <1>3
<1>13. QED
  BY <1>1, <1>4, <1>11, <1>12, AfterReturn

\* An operation that has only added to the heap fails.
LEMMA AfterFailOver ==
  ASSUME IInv, Idle, NEW site, NEW h, NEW calls \in Seq(Objects), Fail(site, h, calls),
         block' = block, fault' = fault, Extends(heap, h),
         Good(h, Masters(block), Outside(held, calls))
  PROVE  IInv'
<1>1. Good(heap, Masters(block), Outside(held, << >>)) /\ BlocksOK(heap, block)
  BY AtIdle
<1>2. BlocksOK(h, block)
  BY <1>1, BlocksFrame
<1>3. Good(h, Masters(block'), Outside(held, calls)) /\ BlocksOK(h, block')
  BY <1>2
<1>4. QED
  BY <1>3, AfterFail

\* The slices of a dimension, for two parts.
LEMMA TwoSlices ==
  ASSUME NEW h, NEW M, NEW R \in Counts, Good(h, M, R),
         NEW u \in Objects, u[1] = "ndt", h[u].rc # 0, h[u].owns # << >>,
         Cardinality(Dead(h, "ndt")) >= 2
  PROVE  LET s1 == Fresh(h, "ndt")
             h1 == Slice(h, u)
             s2 == Fresh(h1, "ndt")
             h2 == Slice(h1, u)
         IN  /\ s1 \in Objects /\ s1[1] = "ndt" /\ s2 \in Objects /\ s2[1] = "ndt"
             /\ Good(h2, M, Plus(Plus(R, s2), s1)) /\ Extends(h, h2)
             /\ Dead(h2, "tobj") = Dead(h, "tobj") /\ Dead(h2, "xo") = Dead(h, "xo")
<1> DEFINE s1 == Fresh(h, "ndt")
           h1 == Slice(h, u)
           s2 == Fresh(h1, "ndt")
           h2 == Slice(h1, u)
<1>1. Dead(h, "ndt") # {} /\ Dead(h, "ndt") \ {s1} # {}
  BY TwoDead
<1>2. /\ s1 \in Objects /\ s1[1] = "ndt" /\ h[s1].rc = 0
      /\ Good(h1, M, Plus(R, s1)) /\ Extends(h, h1)
      /\ Dead(h1, "ndt") = Dead(h, "ndt") \ {s1}
      /\ \A kind : kind # "ndt" => Dead(h1, kind) = Dead(h, kind)
  BY <1>1, SliceGood
<1> HIDE DEF s1, h1
<1>3. Dead(h1, "ndt") # {} /\ Good(h1, M, Plus(R, s1)) /\ Plus(R, s1) \in Counts
  BY <1>1, <1>2, PlusType
<1>4. h1[u].rc # 0 /\ h1[u].owns # << >>
  <2>1. h[u].rc > 0
    BY DEF Good, Sound, Heaps
  <2>2. h1[u].rc > 0 /\ h1[u].owns = h[u].owns
    BY <1>2, <2>1 DEF Extends
  <2>3. QED
    BY <2>2
<1>5. /\ s2 \in Objects /\ s2[1] = "ndt" /\ h1[s2].rc = 0
      /\ Good(h2, M, Plus(Plus(R, s1), s2)) /\ Extends(h1, h2)
      /\ Dead(h2, "ndt") = Dead(h1, "ndt") \ {s2}
      /\ \A kind : kind # "ndt" => Dead(h2, kind) = Dead(h1, kind)
  BY <1>3, <1>4, SliceGood
<1> HIDE DEF s2, h2
<1>6. Plus(Plus(R, s1), s2) = Plus(Plus(R, s2), s1)
  BY <1>2, <1>5, PlusCommutes
<1>7. Extends(h, h2)
  BY <1>2, <1>5, ExtendsTrans
<1>8. Dead(h2, "tobj") = Dead(h, "tobj") /\ Dead(h2, "xo") = Dead(h, "xo")
  BY <1>2, <1>5
<1>9. Good(h2, M, Plus(Plus(R, s2), s1))
  BY <1>5, <1>6
<1>10. QED
  BY <1>2, <1>5, <1>7, <1>8, <1>9 DEF s1, h1, s2, h2

\* x.split(2)
LEMMA SplitXndStep == ASSUME IInv, NEW x \in Objects, SplitXnd(x) PROVE IInv'
<1> DEFINE u == XndType(x)
           m == Mblock(x)
           R == Outside(held, << >>)
           M == Masters(block)
           s1 == Fresh(heap, "ndt")
           h1 == Slice(heap, u)
           s2 == Fresh(h1, "ndt")
           h2 == Slice(h1, u)
           o1 == Fresh(h2, "tobj")
           v1 == Fresh(h2, "xo")
           h3 == ViewMoveType(h2, m, s1)
           o2 == Fresh(h3, "tobj")
           v2 == Fresh(h3, "xo")
           h4 == ViewMoveType(h3, m, s2)
           P == Plus(R, s2)
           Q == Plus(R, v1)
<1>1. /\ Idle /\ x \in held /\ x[1] = "xo" /\ heap[u].owns # << >>
      /\ Room("ndt", 2) /\ Room("tobj", 2) /\ Room("xo", 2)
      /\ block' = block /\ fault' = fault
      /\ \/ heap' = h4 /\ held' = held \union {v1, v2} /\ todo' = todo
         \/ Fail("PyList_New", h2, <<s1, s2>>)
         \/ Fail("pyxnd_view_move_type", h2, <<s2>>)
         \/ Fail("pyxnd_alloc", MoveType(h2, s1), <<o1, s2>>)
         \/ Fail("pyxnd_view_move_type", h3, <<v1>>)
         \/ Fail("pyxnd_alloc", MoveType(h3, s2), <<o2, v1>>)
  BY DEF SplitXnd, IsDimension
<1>2. /\ m \in Objects /\ m[1] = "mb" /\ heap[m].rc > 0 /\ m \in M
      /\ u \in Objects /\ u[1] = "ndt" /\ heap[u].rc > 0
  BY <1>1, ViewType
<1>3. R \in Counts /\ BlocksOK(heap, block) /\ Good(heap, M, R) /\ todo = << >>
  BY <1>1, AtIdle
<1>4. /\ s1 \in Objects /\ s1[1] = "ndt" /\ s2 \in Objects /\ s2[1] = "ndt"
      /\ Good(h2, M, Plus(Plus(R, s2), s1)) /\ Extends(heap, h2)
      /\ Dead(h2, "tobj") = Dead(heap, "tobj") /\ Dead(h2, "xo") = Dead(heap, "xo")
  <2>1. heap[u].rc # 0 /\ Cardinality(Dead(heap, "ndt")) >= 2
    BY <1>1, <1>2 DEF Room
  <2> HIDE DEF R, M, u
  <2>2. QED
    BY <1>1, <1>2, <1>3, <2>1, TwoSlices
<1> HIDE DEF R, M, m, u, s1, s2, h1, h2
<1>5. /\ Dead(h2, "tobj") # {} /\ Dead(h2, "tobj") \ {o1} # {}
      /\ Dead(h2, "xo") # {} /\ Dead(h2, "xo") \ {v1} # {}
  <2>1. Cardinality(Dead(h2, "tobj")) >= 2 /\ Cardinality(Dead(h2, "xo")) >= 2
    BY <1>1, <1>4 DEF Room
  <2>2. QED
    BY <2>1, TwoDead
<1>6. /\ Plus(R, s2) \in Counts /\ s1 \in Objects /\ s1[1] = "ndt"
      /\ Good(h2, M, Plus(Plus(R, s2), s1))
  BY <1>3, <1>4, PlusType
<1>7. m \in Objects /\ m[1] = "mb" /\ m \in M /\ h2[m].rc > 0
  BY <1>2, <1>4 DEF Extends
<1>8. /\ v1 \in Objects /\ v1[1] = "xo" /\ h2[v1].rc = 0
      /\ Good(h3, M, Plus(P, v1)) /\ Extends(h2, h3)
      /\ Dead(h3, "xo") = Dead(h2, "xo") \ {v1} /\ Dead(h3, "tobj") = Dead(h2, "tobj") \ {o1}
  <2>1. Viewable(h2, M, P, s1, m)
    BY <1>5, <1>6, <1>7 DEF Viewable
  <2> HIDE DEF P
  <2>2. QED
    BY <2>1, ViewMoveTypeGood
<1>9. Extends(heap, h3)
  BY <1>4, <1>8, ExtendsTrans
<1> HIDE DEF h3, o1, v1
<1>10. Plus(Plus(R, s2), v1) = Plus(Plus(R, v1), s2)
  BY <1>3, <1>4, <1>8, PlusCommutes
<1>11. /\ Plus(R, v1) \in Counts /\ s2 \in Objects /\ s2[1] = "ndt"
       /\ Good(h3, M, Plus(Plus(R, v1), s2))
  BY <1>3, <1>4, <1>8, <1>10, PlusType
<1>12. Dead(h3, "tobj") # {} /\ Dead(h3, "xo") # {} /\ m \in Objects /\ m[1] = "mb" /\ m \in M
         /\ h3[m].rc > 0
  BY <1>5, <1>7, <1>8 DEF Extends
<1>13. CASE heap' = h4 /\ held' = held \union {v1, v2} /\ todo' = todo
  <2>1. /\ v2 \in Objects /\ v2[1] = "xo" /\ h3[v2].rc = 0
        /\ Good(h4, M, Plus(Q, v2)) /\ Extends(h3, h4)
        /\ Dead(h4, "xo") = Dead(h3, "xo") \ {v2} /\ Dead(h4, "tobj") = Dead(h3, "tobj") \ {o2}
    <3>1. Viewable(h3, M, Q, s2, m)
      BY <1>11, <1>12 DEF Viewable
    <3> HIDE DEF Q
    <3>2. QED
      BY <3>1, ViewMoveTypeGood
  <2> HIDE DEF h4, v2
  <2>2. heap[v1].rc = 0 /\ heap[v2].rc = 0 /\ v1 # v2
    <3>1. v1 \in Dead(h2, "xo") /\ v2 \in Dead(h3, "xo")
      BY <1>8, <2>1 DEF Dead
    <3>2. QED
      BY <3>1, <1>4, <1>8 DEF Dead
  <2>3. v1 \notin held /\ v2 \notin held /\ held \subseteq Objects
    BY <1>1, <2>2, AtIdle
  <2>4. Outside(held \union {v1}, << >>) = Plus(R, v1)
    BY <1>8, <2>3, OutsideHold DEF R
  <2> DEFINE more == held \union {v1}
  <2>5. v2 \notin more /\ held \union {v1, v2} = more \union {v2}
    BY <2>2, <2>3
  <2> HIDE DEF more
  <2>6. Outside(more \union {v2}, << >>) = Plus(Outside(more, << >>), v2)
    BY <2>1, <2>5, OutsideHold
  <2>7. Outside(held', todo') = Plus(Plus(R, v1), v2)
    BY <1>3, <1>13, <2>4, <2>5, <2>6 DEF more
  <2>8. BlocksOK(h4, block)
    <3>1. Extends(heap, h4)
      BY <1>9, <2>1, ExtendsTrans
    <3>2. QED
      BY <1>3, <3>1, BlocksFrame DEF M
  <2>9. /\ held' \subseteq Objects /\ todo' \in Seq(Objects)
        /\ Good(heap', Masters(block'), Outside(held', todo')) /\ BlocksOK(heap', block')
    BY <1>1, <1>3, <1>8, <1>13, <2>1, <2>3, <2>7, <2>8 DEF M
  <2>10. QED
    BY <1>1, <2>9, AfterOperation
<1>14. CASE Fail("PyList_New", h2, <<s1, s2>>)
  <2>1. Outside(held, <<s1, s2>>) = Plus(Plus(R, s2), s1) /\ <<s1, s2>> \in Seq(Objects)
    BY <1>4, OutsideTwo DEF R
  <2>2. Good(h2, Masters(block), Outside(held, <<s1, s2>>))
    BY <1>6, <2>1 DEF M
  <2>3. QED
    BY <1>1, <1>4, <1>14, <2>1, <2>2, AfterFailOver
<1>15. CASE Fail("pyxnd_view_move_type", h2, <<s2>>)
  <2>1. ~NoLeak
    BY <1>15 DEF Fail, NoLeak
  <2>2. Good(h2, M, Plus(R, s2))
    BY <1>6, <2>1, LeakGood
  <2>3. Outside(held, <<s2>>) = Plus(R, s2) /\ <<s2>> \in Seq(Objects)
    BY <1>4, OutsideOne DEF R
  <2>4. Good(h2, Masters(block), Outside(held, <<s2>>))
    BY <2>2, <2>3 DEF M
  <2>5. QED
    BY <1>1, <1>4, <1>15, <2>3, <2>4, AfterFailOver
<1>16. CASE Fail("pyxnd_alloc", MoveType(h2, s1), <<o1, s2>>)
  <2> DEFINE g == MoveType(h2, s1)
             o == Fresh(h2, "tobj")
  <2>1. /\ o \in Objects /\ o[1] = "tobj" /\ h2[o].rc = 0 /\ g[o].rc = 1
        /\ Good(g, M, Plus(Plus(R, s2), o)) /\ Extends(h2, g)
        /\ Dead(g, "xo") = Dead(h2, "xo") /\ Dead(g, "tobj") = Dead(h2, "tobj") \ {o}
    BY <1>5, <1>6, MoveTypeGood
  <2> HIDE DEF g, o
  <2>2. o1 = o
    BY DEF o1, o
  <2>3. Outside(held, <<o1, s2>>) = Plus(Plus(R, s2), o1) /\ <<o1, s2>> \in Seq(Objects)
    BY <1>4, <2>1, <2>2, OutsideTwo DEF R
  <2>4. Good(g, Masters(block), Outside(held, <<o1, s2>>))
    BY <2>1, <2>2, <2>3 DEF M
  <2>5. Extends(heap, g)
    BY <1>4, <2>1, ExtendsTrans
  <2>6. Fail("pyxnd_alloc", g, <<o1, s2>>)
    BY <1>16 DEF g
  <2>7. QED
    BY <1>1, <2>3, <2>4, <2>5, <2>6, AfterFailOver
<1>17. CASE Fail("pyxnd_view_move_type", h3, <<v1>>)
  <2>1. ~NoLeak
    BY <1>17 DEF Fail, NoLeak
  <2>2. Good(h3, M, Plus(R, v1))
    BY <1>11, <2>1, LeakGood
  <2>3. Outside(held, <<v1>>) = Plus(R, v1) /\ <<v1>> \in Seq(Objects)
    BY <1>8, OutsideOne DEF R
  <2>4. Good(h3, Masters(block), Outside(held, <<v1>>))
    BY <2>2, <2>3 DEF M
  <2>5. QED
    BY <1>1, <1>9, <1>17, <2>3, <2>4, AfterFailOver
<1>18. CASE Fail("pyxnd_alloc", MoveType(h3, s2), <<o2, v1>>)
  <2> DEFINE g == MoveType(h3, s2)
  <2>1. /\ o2 \in Objects /\ o2[1] = "tobj" /\ h3[o2].rc = 0 /\ g[o2].rc = 1
        /\ Good(g, M, Plus(Plus(R, v1), o2)) /\ Extends(h3, g)
        /\ Dead(g, "xo") = Dead(h3, "xo") /\ Dead(g, "tobj") = Dead(h3, "tobj") \ {o2}
    BY <1>11, <1>12, MoveTypeGood
  <2> HIDE DEF g, o2
  <2>2. Outside(held, <<o2, v1>>) = Plus(Plus(R, v1), o2) /\ <<o2, v1>> \in Seq(Objects)
    BY <1>8, <2>1, OutsideTwo DEF R
  <2>3. Good(g, Masters(block), Outside(held, <<o2, v1>>))
    BY <2>1, <2>2 DEF M
  <2>4. Extends(heap, g)
    BY <1>9, <2>1, ExtendsTrans
  <2>5. Fail("pyxnd_alloc", g, <<o2, v1>>)
    BY <1>18 DEF g
  <2>6. QED
    BY <1>1, <2>2, <2>3, <2>4, <2>5, AfterFailOver
<1>19. QED
  BY <1>1, <1>13, <1>14, <1>15, <1>16, <1>17, <1>18

-----------------------------------------------------------------------------
(* The end of references.                                                  *)

\* The program lets go of an object.
LEMMA DropStep == ASSUME IInv, NEW o \in Objects, Drop(o) PROVE IInv'
<1> DEFINE rest == held \ {o}
<1>1. /\ Idle /\ o \in held /\ held' = rest /\ todo' = <<o>>
      /\ heap' = heap /\ block' = block /\ fault' = fault
  BY DEF Drop
<1>2. /\ Good(heap, Masters(block), Outside(held, << >>)) /\ BlocksOK(heap, block)
      /\ held \subseteq Objects
  BY <1>1, AtIdle
<1>3. o \notin rest /\ held = rest \union {o}
  BY <1>1
<1> HIDE DEF rest
<1>4. Outside(rest \union {o}, << >>) = Plus(Outside(rest, << >>), o)
  BY <1>3, OutsideHold
<1>5. Outside(rest, <<o>>) = Plus(Outside(rest, << >>), o) /\ <<o>> \in Seq(Objects)
  BY OutsideOne
<1>6. /\ held' \subseteq Objects /\ todo' \in Seq(Objects)
      /\ Good(heap', Masters(block'), Outside(held', todo')) /\ BlocksOK(heap', block')
  BY <1>1, <1>2, <1>3, <1>4, <1>5 DEF rest
<1>7. QED
  BY <1>1, <1>6, AfterOperation

\* No block has memory from a block that nothing refers to: its proxy would
\* lead to another block with memory from there, and so on without end.
LEMMA NoOrigin ==
  ASSUME NEW h, NEW b, NEW R, Good(h, Masters(b), R), BlocksOK(h, b),
         NEW o \in Objects, \A p \in Objects : ~Owns(h, p, o)
  PROVE  \A m \in Masters(b) : m # o => b[m].origin # o
<1> DEFINE B == {m \in Masters(b) : m # o /\ b[m].origin = o}
           p(m) == h[m].owns[2]
           x(m) == h[p(m)].owns[1]
           S == B \union {p(m) : m \in B} \union {x(m) : m \in B}
<1>1. ASSUME NEW m \in B
      PROVE  /\ m \in Objects /\ p(m) \in Objects /\ x(m) \in Objects /\ Exporter(h, m) \in B
             /\ Owns(h, m, p(m)) /\ Owns(h, p(m), x(m)) /\ Owns(h, x(m), Exporter(h, m))
  <2>1. m \in Masters(b) /\ m # o /\ b[m].origin = o
    OBVIOUS
  <2>2. m \in Objects /\ m[1] = "mb"
    BY <2>1, MastersBlocks
  <2>3. h[m].rc > 0 /\ Len(h[m].owns) = 2 /\ b[Exporter(h, m)].origin = o
    BY <2>1 DEF BlocksOK
  <2>4. /\ p(m) \in Objects /\ x(m) \in Objects
        /\ Exporter(h, m) \in Objects /\ Exporter(h, m) \in Masters(b)
        /\ Owns(h, m, p(m)) /\ Owns(h, p(m), x(m)) /\ Owns(h, x(m), Exporter(h, m))
    BY <2>2, <2>3, Chain
  <2>5. Exporter(h, m) # o
    BY <2>4
  <2>6. QED
    BY <2>2, <2>3, <2>4, <2>5
<1> HIDE DEF B, p, x
<1>2. ASSUME NEW m \in B PROVE FALSE
  <2>1. S \in (SUBSET Objects) \ {{}}
    BY <1>1
  <2>2. PICK q \in S : \A r \in S : ~Owns(h, q, r)
    BY <2>1 DEF Good, Acyclic
  <2>3. ASSUME NEW n \in B PROVE q # n /\ q # p(n) /\ q # x(n)
    <3>1. p(n) \in S /\ x(n) \in S /\ Exporter(h, n) \in S
      BY <1>1
    <3>2. QED
      BY <1>1, <2>2, <3>1
  <2>4. QED
    BY <2>2, <2>3
<1>3. QED
  BY <1>2 DEF B

\* An object goes that nothing refers to, and its master buffer with it.
LEMMA FreeBlocks ==
  ASSUME NEW h, NEW b, NEW R, Good(h, Masters(b), R), BlocksOK(h, b),
         NEW o \in Objects, \A p \in Objects : ~Owns(h, p, o)
  PROVE  LET c == IF o \in Blocks THEN [b EXCEPT ![o] = NoMaster(o)] ELSE b
         IN  Masters(c) = Masters(b) \ {o} /\ BlocksOK(Free(h, o), c)
<1> DEFINE c == IF o \in Blocks THEN [b EXCEPT ![o] = NoMaster(o)] ELSE b
           g == Free(h, o)
<1>1. b \in [Blocks -> Masterful]
  BY DEF BlocksOK
<1>2. ASSUME o \in Blocks PROVE NoMaster(o) \in Masterful /\ NoMaster(o).master = "none"
  BY <1>2 DEF Masterful, NoMaster, Master
<1>3. /\ c \in [Blocks -> Masterful]
      /\ \A m \in Blocks : c[m] = IF m = o THEN NoMaster(o) ELSE b[m]
  <2>1. CASE o \in Blocks
    BY <1>1, <1>2, <2>1
  <2>2. CASE o \notin Blocks
    BY <1>1, <2>2
  <2>3. QED
    BY <2>1, <2>2
<1>4. \A p \in Objects : p # o => g[p] = h[p]
  BY DEF Free, Good, Sound, Heaps
<1> HIDE DEF c, g
<1>5. Masters(c) = Masters(b) \ {o}
  BY <1>2, <1>3 DEF Masters
<1>6. ASSUME NEW m \in Masters(c)
      PROVE  LET r == c[m].origin
             IN  /\ g[m].rc > 0 /\ Len(g[m].owns) >= 1 /\ g[m].owns[1][1] = "tobj"
                 /\ r \in Masters(c) /\ c[r].origin = r /\ c[r].view # "proxy"
                 /\ m # r => Len(g[m].owns) = 2 /\ c[Exporter(g, m)].origin = r
  <2> DEFINE r == b[m].origin
  <2>1. m \in Masters(b) /\ m # o
    BY <1>5
  <2>2. m \in Objects /\ m[1] = "mb" /\ m \in Blocks
    BY <2>1, MastersBlocks
  <2>3. /\ h[m].rc > 0 /\ Len(h[m].owns) >= 1 /\ h[m].owns[1][1] = "tobj"
        /\ r \in Masters(b) /\ b[r].origin = r /\ b[r].view # "proxy"
        /\ m # r => Len(h[m].owns) = 2 /\ b[Exporter(h, m)].origin = r
    BY <2>1 DEF BlocksOK
  <2>4. r # o
    BY <2>1, NoOrigin
  <2>5. g[m] = h[m] /\ c[m] = b[m] /\ c[r] = b[r]
    BY <1>3, <1>4, <2>1, <2>2, <2>3, <2>4, MastersBlocks
  <2>6. ASSUME m # r PROVE c[Exporter(g, m)] = b[Exporter(h, m)]
    <3> DEFINE p == h[m].owns[2]
               x == h[p].owns[1]
               y == Exporter(h, m)
    <3>1. /\ p \in Objects /\ x \in Objects /\ y \in Objects /\ y \in Masters(b)
          /\ Owns(h, m, p) /\ Owns(h, p, x) /\ Owns(h, x, y)
      BY <2>2, <2>3, <2>6, Chain
    <3>2. p # o /\ x # o /\ y # o
      BY <2>2, <3>1
    <3>3. g[p] = h[p] /\ g[x] = h[x]
      BY <1>4, <3>1, <3>2
    <3>4. Exporter(g, m) = Exporter(h, m)
      BY <2>5, <3>3 DEF Exporter
    <3>5. c[y] = b[y]
      BY <1>3, <3>1, <3>2, MastersBlocks
    <3>6. QED
      BY <3>4, <3>5
  <2>7. QED
    BY <1>5, <2>3, <2>4, <2>5, <2>6
<1>7. QED
  BY <1>3, <1>5, <1>6 DEF BlocksOK, c, g

\* No object owns another twice.
LEMMA OwnsDistinct ==
  ASSUME NEW h, NEW M, NEW R, Good(h, M, R), NEW o \in Objects, h[o].rc # 0
  PROVE  \A i, j \in DOMAIN h[o].owns : h[o].owns[i] = h[o].owns[j] => i = j
<1> DEFINE s == h[o].owns
<1>1. Shaped(o, s, M) /\ DOMAIN s = 1..Len(s) /\ Len(s) \in Nat
  BY LiveShape
<1>2. o[1] \in {"ndt", "tobj", "mb", "xo", "px"}
  BY ObjectKind DEF Kinds
<1> HIDE DEF s
<1>3. CASE Len(s) <= 1 \/ Len(s) = 1
  BY <1>1, <1>3 DEF s
<1>4. CASE Len(s) = 2 /\ s[1][1] # s[2][1]
  <2>1. s[1] # s[2]
    BY <1>4
  <2>2. DOMAIN s = {1, 2}
    BY <1>1, <1>4
  <2>3. QED
    BY <2>1, <2>2 DEF s
<1>5. CASE o[1] = "ndt" \/ o[1] = "tobj" \/ o[1] = "px"
  BY <1>1, <1>3, <1>5 DEF Shaped
<1>6. CASE o[1] = "xo"
  BY <1>1, <1>4, <1>6 DEF Shaped
<1>7. CASE o[1] = "mb"
  BY <1>1, <1>3, <1>4, <1>7 DEF Shaped
<1>8. QED
  BY <1>2, <1>5, <1>6, <1>7

\* The calls that are pending, the first and the rest.
LEMMA Pending ==
  ASSUME IInv, todo # << >>
  PROVE  /\ Head(todo) \in Calls /\ Tail(todo) \in Seq(Calls)
         /\ Outside(held, Tail(todo)) \in Counts
         /\ Good(heap, Masters(block),
                 IF Head(todo) \in Objects THEN Plus(Outside(held, Tail(todo)), Head(todo))
                 ELSE Outside(held, Tail(todo)))
         /\ "mblock_from_xnd" \notin Failing =>
              \A k \in DOMAIN Tail(todo) : Tail(todo)[k] \in Objects
<1> DEFINE c == Head(todo)
           rest == Tail(todo)
<1>1. todo \in Seq(Calls) /\ Good(heap, Masters(block), Outside(held, todo)) /\ CallsInv
  BY DEF IInv
<1>2. /\ c \in Calls /\ rest \in Seq(Calls) /\ Len(rest) = Len(todo) - 1
      /\ \A i \in 1..Len(rest) : rest[i] = todo[i + 1]
  BY <1>1, HeadTailProperties
<1>3. Len(todo) \in Nat /\ DOMAIN todo = 1..Len(todo) /\ Len(rest) \in Nat /\ DOMAIN rest = 1..Len(rest)
  BY <1>1, <1>2, LenProperties
<1>4. todo = <<c>> \o rest
  <2>1. <<c>> \in Seq(Calls)
    BY <1>2
  <2> HIDE DEF rest
  <2>2. /\ <<c>> \o rest \in Seq(Calls) /\ Len(<<c>> \o rest) = 1 + Len(rest)
        /\ \A i \in 1..(1 + Len(rest)) : (<<c>> \o rest)[i] = IF i <= 1 THEN <<c>>[i] ELSE rest[i - 1]
    BY <1>2, <2>1, ConcatProperties
  <2>3. Len(<<c>> \o rest) = Len(todo)
    BY <1>2, <1>3, <2>2
  <2>4. ASSUME NEW i \in 1..Len(todo) PROVE todo[i] = (<<c>> \o rest)[i]
    <3>1. CASE i = 1
      BY <1>3, <2>2, <3>1
    <3>2. CASE i # 1
      <4>1. i - 1 \in 1..Len(rest) /\ ~(i <= 1) /\ i \in 1..(1 + Len(rest))
        BY <1>2, <1>3, <3>2
      <4>2. (<<c>> \o rest)[i] = rest[i - 1]
        BY <2>2, <4>1
      <4>3. rest[i - 1] = todo[(i - 1) + 1]
        BY <1>2, <4>1
      <4>4. (i - 1) + 1 = i
        BY <4>1
      <4>5. QED
        BY <4>2, <4>3, <4>4
    <3>3. QED
      BY <3>1, <3>2
  <2>5. QED
    BY <1>1, <2>2, <2>3, <2>4, SeqEqual
<1> HIDE DEF c, rest
<1>5. Outside(held, <<c>> \o rest) = IF c \in Objects THEN Plus(Outside(held, rest), c) ELSE Outside(held, rest)
  BY <1>2, OutsideCons
<1>6. Outside(held, rest) \in Counts
  BY <1>2, OutsideType
<1>7. ASSUME "mblock_from_xnd" \notin Failing, NEW k \in DOMAIN rest PROVE rest[k] \in Objects
  <2>1. k \in 1..Len(rest) /\ k + 1 \in DOMAIN todo /\ k + 1 # 1
    BY <1>2, <1>3
  <2>2. todo[k + 1] \in Objects
    BY <1>1, <1>7, <2>1 DEF CallsInv
  <2>3. QED
    BY <1>2, <2>1, <2>2
<1>8. Good(heap, Masters(block), IF c \in Objects THEN Plus(Outside(held, rest), c) ELSE Outside(held, rest))
  BY <1>1, <1>4, <1>5
<1>9. QED
  BY <1>2, <1>6, <1>7, <1>8 DEF c, rest

\* xnd_del(), whose type is alive because the type object comes next.
LEMMA XndDelStep == ASSUME IInv, XndDel PROVE IInv'
<1> DEFINE rest == Tail(todo)
<1>1. /\ todo # << >> /\ Head(todo) \notin Objects
      /\ fault' = IF Live(Head(todo)[2]) THEN fault ELSE fault \union {Head(todo)}
      /\ todo' = rest /\ heap' = heap /\ block' = block /\ held' = held
  BY DEF XndDel
<1>2. held \subseteq Objects /\ BlocksOK(heap, block) /\ todo \in Seq(Calls) /\ CallsInv
  BY DEF IInv
<1>3. /\ rest \in Seq(Calls) /\ Outside(held, rest) \in Counts
      /\ Good(heap, Masters(block), Outside(held, rest))
      /\ "mblock_from_xnd" \notin Failing => \A k \in DOMAIN rest : rest[k] \in Objects
  BY <1>1, Pending
<1>4. ASSUME "mblock_from_xnd" \notin Failing PROVE fault' = {}
  <2>1. todo[1] = Head(todo) /\ DOMAIN todo = 1..Len(todo) /\ Len(todo) \in Nat /\ Len(todo) # 0
    BY <1>1, <1>2, LenProperties, EmptySeq
  <2>2. 1 \in DOMAIN todo
    BY <2>1
  <2>3. /\ fault = {} /\ Len(todo) >= 2
        /\ todo[2][1] = "tobj" /\ heap[todo[2]].owns = << todo[1][2] >>
    BY <1>1, <1>2, <1>4, <2>1, <2>2 DEF CallsInv
  <2>4. 2 \in 1..Len(todo) /\ 1 \in 1..Len(rest) /\ rest[1] = todo[2] /\ 1 \in DOMAIN rest
    <3>1. Len(rest) = Len(todo) - 1 /\ \A i \in 1..Len(rest) : rest[i] = todo[i + 1]
      BY <1>1, <1>2, HeadTailProperties
    <3>2. DOMAIN rest = 1..Len(rest)
      BY <1>3, LenProperties
    <3>3. QED
      BY <2>1, <2>3, <3>1, <3>2
  <2>5. rest[1] \in Objects
    BY <1>3, <1>4, <2>4
  <2> DEFINE o == rest[1]
             R == Outside(held, rest)
  <2> HIDE DEF rest
  <2>6. o \in Objects /\ o = rest[1]
    BY <2>5
  <2>7. R \in Counts /\ Good(heap, Masters(block), R)
    BY <1>3
  <2> HIDE DEF o
  <2>8. R[o] # 0
    <3> DEFINE A == {k \in DOMAIN rest : rest[k] = o}
    <3>1. IsFiniteSet(A) /\ CountIn(rest, o) \in Nat /\ CountIn(rest, o) = Cardinality(A)
      BY <1>3, CountType DEF CountIn
    <3>2. 1 \in A
      BY <2>4, <2>6
    <3>3. Cardinality(A) # 0
      <4>1. A # {}
        BY <3>2
      <4> HIDE DEF A
      <4>2. QED
        BY <3>1, <4>1, FS_EmptySet
    <3> HIDE DEF A
    <3>4. R[o] = (IF o \in held THEN 1 ELSE 0) + CountIn(rest, o)
      BY <2>6, OutsideAt
    <3>5. QED
      BY <3>1, <3>3, <3>4
  <2> HIDE DEF R
  <2>9. heap[o].rc # 0
    BY <2>8, <2>6, <2>7, DeadOwnsNothing
  <2>10. heap[o].owns[1] = Head(todo)[2]
    BY <2>1, <2>3, <2>4, <2>6
  <2>11. Live(Head(todo)[2])
    <3>1. o \in Objects /\ o[1] = "tobj"
      BY <2>3, <2>4, <2>6
    <3>2. heap[heap[o].owns[1]].rc > 0
      BY <2>9, <2>7, <3>1, TypeObject
    <3>3. QED
      BY <2>10, <3>2 DEF Live
  <2>12. QED
    BY <1>1, <2>3, <2>11
<1>5. CallsInv'
  BY <1>1, <1>3, <1>4 DEF CallsInv
<1>6. QED
  BY <1>1, <1>2, <1>3, <1>5 DEF IInv

\* The destructor's calls come before the rest.
LEMMA DestructorCalls ==
  ASSUME IInv, todo # << >>, NEW o, o = Head(todo), o \in Objects, heap[o].rc # 0
  PROVE  LET rest == Tail(todo)
             d == Destructor(o) \o rest
         IN  /\ d \in Seq(Calls)
             /\ Outside(held, d) = Give(Outside(held, rest), heap[o].owns)
             /\ "mblock_from_xnd" \notin Failing =>
                  \A k \in DOMAIN d : d[k] \notin Objects =>
                    /\ k = 1 /\ Len(d) >= 2
                    /\ d[2] \in Objects /\ d[2] # o /\ d[2][1] = "tobj"
                    /\ heap[d[2]].owns = << d[1][2] >>
<1> DEFINE rest == Tail(todo)
           s == heap[o].owns
           c == <<"xnd_del", BlockType(o)>>
           M == Masters(block)
           R == Outside(held, rest)
           d == Destructor(o) \o rest
<1>1. /\ rest \in Seq(Calls) /\ R \in Counts /\ Good(heap, M, Plus(R, o))
      /\ "mblock_from_xnd" \notin Failing => \A k \in DOMAIN rest : rest[k] \in Objects
  BY Pending
<1>2. s \in Seq(Objects) /\ DOMAIN s = 1..Len(s) /\ Len(s) \in Nat
  BY <1>1, LiveShape
<1>3. \A i, j \in DOMAIN s : s[i] = s[j] => i = j
  BY <1>1, OwnsDistinct
<1>4. Objects \subseteq Calls /\ s \in Seq(Calls)
  <2>1. Objects \subseteq Calls
    BY DEF Calls
  <2>2. QED
    BY <1>2, <2>1, SeqMonotonic
<1>5. BlocksOK(heap, block)
  BY DEF IInv
<1> HIDE DEF rest, s, R
<1>6. Outside(held, s \o rest) = Give(R, s)
  BY <1>1, <1>2, <1>3, <1>4, OutsideGive DEF R
<1>7. /\ s \o rest \in Seq(Calls) /\ Len(s \o rest) = Len(s) + Len(rest)
      /\ \A i \in 1..(Len(s) + Len(rest)) : (s \o rest)[i] = IF i <= Len(s) THEN s[i] ELSE rest[i - Len(s)]
  BY <1>1, <1>4, ConcatProperties
<1>8. Len(rest) \in Nat /\ DOMAIN rest = 1..Len(rest)
  BY <1>1, LenProperties
<1>9. ASSUME "mblock_from_xnd" \notin Failing, NEW k \in 1..(Len(s) + Len(rest))
      PROVE  (s \o rest)[k] \in Objects
  <2>1. CASE k <= Len(s)
    <3>1. k \in 1..Len(s) /\ (s \o rest)[k] = s[k]
      BY <1>2, <1>7, <1>8, <2>1
    <3>2. QED
      BY <1>2, <3>1, ElementOfSeq
  <2>2. CASE ~(k <= Len(s))
    <3>1. k - Len(s) \in 1..Len(rest) /\ (s \o rest)[k] = rest[k - Len(s)]
      BY <1>2, <1>7, <1>8, <2>2
    <3>2. QED
      BY <1>1, <1>8, <1>9, <3>1
  <2>3. QED
    BY <2>1, <2>2
<1>10. CASE ~(o \in Blocks /\ block[o].master = "owned")
  <2>1. Destructor(o) = << >> \o s
    BY <1>10 DEF Destructor, s
  <2>2. Destructor(o) = s
    BY <1>4, <2>1, ConcatEmptySeq
  <2>3. d = s \o rest
    BY <2>2
  <2> HIDE DEF d
  <2>4. DOMAIN d = 1..(Len(s) + Len(rest))
    BY <1>7, <2>3, LenProperties
  <2>5. QED
    BY <1>6, <1>7, <1>9, <2>3, <2>4 DEF d, rest, s, R
<1>11. CASE o \in Blocks /\ block[o].master = "owned"
  <2>1. o \in M /\ o[1] = "mb"
    BY <1>11 DEF Masters, Blocks
  <2>2. Len(s) >= 1 /\ s[1][1] = "tobj"
    BY <1>5, <2>1 DEF BlocksOK, s, M
  <2>3. s[1] \in Objects /\ heap[s[1]].rc > 0
    BY <1>1, <1>2, <2>2, OwnedAt DEF s
  <2>4. s[1] # o
    BY <2>1, <2>2
  <2> DEFINE e == s[1]
  <2>5. e \in Objects /\ e[1] = "tobj" /\ heap[e].rc # 0
    BY <2>2, <2>3
  <2> HIDE DEF e
  <2>6. Len(heap[e].owns) = 1 /\ heap[e].owns[1] \in Objects
    BY <1>1, <2>5, TypeObject
  <2>7. BlockType(o) = heap[e].owns[1]
    BY DEF BlockType, NDT, e, s
  <2>8. heap[e].owns = << BlockType(o) >>
    <3>1. heap[e].owns \in Seq(Objects)
      BY <1>1, <2>5, LiveShape
    <3>2. << BlockType(o) >> \in Seq(Objects) /\ Len(<< BlockType(o) >>) = 1
      BY <2>6, <2>7
    <3>3. \A i \in 1..1 : heap[e].owns[i] = << BlockType(o) >>[i]
      BY <2>7
    <3>4. QED
      BY <2>6, <3>1, <3>2, <3>3, SeqEqual
  <2>9. c \notin Objects /\ c \in Calls
    BY <2>6, <2>7, DelCall
  <2>10. c[2] = BlockType(o)
    OBVIOUS
  <2>11. Destructor(o) = <<c>> \o s
    BY <1>11 DEF Destructor, s
  <2> HIDE DEF c
  <2>12. <<c>> \in Seq(Calls)
    BY <2>9
  <2> DEFINE more == s \o rest
             one == <<c>>
  <2>13. (one \o s) \o rest = one \o more
    BY <1>1, <1>4, <2>12, ConcatAssociative
  <2>14. d = <<c>> \o more
    BY <2>11, <2>13
  <2>15. more \in Seq(Calls) /\ Len(more) = Len(s) + Len(rest) /\ more[1] = e
    BY <1>2, <1>7, <1>8, <2>2 DEF e
  <2>16. "mblock_from_xnd" \notin Failing => \A k \in 1..Len(more) : more[k] \in Objects
    BY <1>9, <2>15
  <2> HIDE DEF d, more
  <2>17. Outside(held, <<c>> \o more) = Outside(held, more)
    BY <2>9, <2>15, OutsideCons
  <2>18. /\ d \in Seq(Calls) /\ Len(d) = 1 + Len(more)
         /\ \A i \in 1..(1 + Len(more)) : d[i] = IF i <= 1 THEN <<c>>[i] ELSE more[i - 1]
    BY <2>12, <2>14, <2>15, ConcatProperties
  <2>19. Len(more) \in Nat /\ Len(more) >= 1
    BY <1>2, <1>8, <2>2, <2>15
  <2>20. d[1] = c /\ d[2] = e /\ DOMAIN d = 1..(1 + Len(more))
    BY <2>15, <2>18, <2>19, LenProperties
  <2>21. ASSUME "mblock_from_xnd" \notin Failing, NEW k \in DOMAIN d, d[k] \notin Objects
         PROVE  /\ k = 1 /\ Len(d) >= 2
                /\ d[2] \in Objects /\ d[2] # o /\ d[2][1] = "tobj"
                /\ heap[d[2]].owns = << d[1][2] >>
    <3>1. k = 1
      <4>1. ASSUME k # 1 PROVE FALSE
        <5>1. k - 1 \in 1..Len(more) /\ ~(k <= 1) /\ k \in 1..(1 + Len(more))
          BY <2>19, <2>20, <4>1
        <5>2. d[k] = more[k - 1]
          BY <2>18, <5>1
        <5>3. QED
          BY <2>16, <2>21, <5>1, <5>2
      <4>2. QED
        BY <4>1
    <3>2. d[2] # o
      BY <2>4, <2>20 DEF e
    <3>3. QED
      BY <2>5, <2>8, <2>10, <2>18, <2>19, <2>20, <3>1, <3>2
  <2>22. Outside(held, d) = Give(R, s)
    BY <1>6, <2>14, <2>17 DEF more
  <2>23. QED
    BY <2>18, <2>21, <2>22 DEF d, rest, s, R
<1>12. QED
  BY <1>10, <1>11

\* Py_DECREF() and ndt_decref().
LEMMA DecrefStep == ASSUME IInv, Decref PROVE IInv'
<1> DEFINE o == Head(todo)
           rest == Tail(todo)
           M == Masters(block)
           R == Outside(held, rest)
           d == Destructor(o) \o rest
           c == IF o \in Blocks THEN [block EXCEPT ![o] = NoMaster(o)] ELSE block
<1>1. /\ todo # << >> /\ o \in Objects /\ held' = held
      /\ ~Live(o) => heap' = heap /\ block' = block
      /\ Live(o) => fault' = fault
      /\ Live(o) /\ heap[o].rc # 1 =>
           heap' = Unref(heap, o) /\ block' = block /\ todo' = << >> \o rest
      /\ Live(o) /\ heap[o].rc = 1 => heap' = Free(heap, o) /\ block' = c /\ todo' = d
  BY DEF Decref
<1>2. /\ rest \in Seq(Calls) /\ R \in Counts /\ Good(heap, M, Plus(R, o))
      /\ "mblock_from_xnd" \notin Failing => \A k \in DOMAIN rest : rest[k] \in Objects
  BY <1>1, Pending
<1>3. held \subseteq Objects /\ BlocksOK(heap, block) /\ CallsInv
  BY DEF IInv
<1> HIDE DEF o, rest, c
<1>4. heap[o].rc # 0 /\ heap[o].rc \in Nat
  <2>1. Plus(R, o)[o] = R[o] + 1 /\ R[o] \in Nat
    BY <1>1, <1>2, PlusType DEF Counts
  <2>2. Plus(R, o)[o] # 0
    BY <2>1
  <2> HIDE DEF R, M
  <2>3. heap[o].rc # 0
    BY <1>1, <1>2, <2>2, DeadOwnsNothing
  <2>4. QED
    BY <1>1, <1>2, <2>3 DEF Good, Sound, Heaps
<1>5. Live(o) /\ fault' = fault
  BY <1>1, <1>4 DEF Live
<1>6. CASE heap[o].rc # 1
  <2> DEFINE g == Unref(heap, o)
  <2>1. heap' = g /\ block' = block /\ todo' = << >> \o rest
    BY <1>1, <1>5, <1>6
  <2>2. todo' = rest
    BY <1>2, <2>1, ConcatEmptySeq
  <2>3. Good(g, M, R)
    BY <1>1, <1>2, <1>6, DropGood
  <2>4. Extends(heap, g)
    <3>1. ASSUME NEW p \in Objects, heap[p].rc > 0 PROVE g[p].rc > 0 /\ g[p].owns = heap[p].owns
      <4>1. g[p].owns = heap[p].owns /\ g[p].rc = heap[p].rc - (IF p = o THEN 1 ELSE 0)
        BY <1>1, <1>2 DEF Unref, Good, Sound, Heaps
      <4>2. heap[p].rc \in Nat
        BY <1>2 DEF Good, Sound, Heaps
      <4>3. QED
        BY <1>6, <3>1, <4>1, <4>2
    <3>2. QED
      BY <3>1 DEF Extends
  <2> HIDE DEF g
  <2>5. BlocksOK(g, block)
    BY <1>2, <1>3, <2>4, BlocksFrame
  <2>6. CallsInv'
    BY <1>2, <1>3, <1>5, <2>2 DEF CallsInv
  <2>7. Good(heap', Masters(block'), Outside(held', todo'))
    BY <1>1, <2>1, <2>2, <2>3
  <2>8. QED
    BY <1>1, <1>2, <1>3, <2>1, <2>2, <2>5, <2>6, <2>7 DEF IInv
<1>7. CASE heap[o].rc = 1
  <2> DEFINE g == Free(heap, o)
             s == heap[o].owns
  <2>1. heap' = g /\ block' = c /\ todo' = d
    BY <1>1, <1>5, <1>7
  <2>2. /\ \A p \in Objects : ~Owns(heap, p, o)
        /\ Good(g, M \ {o}, Give(R, s))
    <3>1. R \in Counts /\ o \in Objects /\ Good(heap, M, Plus(R, o)) /\ heap[o].rc = 1
      BY <1>1, <1>2, <1>7
    <3> HIDE DEF R, M
    <3>2. \A p \in Objects : ~Owns(heap, p, o)
      BY <3>1, FreeGood
    <3>3. Good(g, M \ {o}, Give(R, s))
      BY <3>1, FreeGood
    <3>4. QED
      BY <3>2, <3>3
  <2>3. Masters(c) = M \ {o} /\ BlocksOK(g, c)
    BY <1>1, <1>2, <1>3, <2>2, FreeBlocks DEF c
  <2>4. /\ d \in Seq(Calls) /\ Outside(held, d) = Give(R, s)
        /\ "mblock_from_xnd" \notin Failing =>
             \A k \in DOMAIN d : d[k] \notin Objects =>
               /\ k = 1 /\ Len(d) >= 2
               /\ d[2] \in Objects /\ d[2] # o /\ d[2][1] = "tobj"
               /\ heap[d[2]].owns = << d[1][2] >>
    BY <1>1, <1>4, DestructorCalls DEF o, rest
  <2>5. \A p \in Objects : p # o => g[p] = heap[p]
    BY <1>2 DEF Free, Good, Sound, Heaps
  <2> HIDE DEF g, s, d, R, M
  <2>6. CallsInv'
    <3>1. ASSUME "mblock_from_xnd" \notin Failing, NEW k \in DOMAIN d, d[k] \notin Objects
          PROVE  k = 1 /\ Len(d) >= 2 /\ d[2][1] = "tobj" /\ g[d[2]].owns = << d[1][2] >>
      BY <2>4, <2>5, <3>1
    <3>2. "mblock_from_xnd" \notin Failing => fault' = {}
      BY <1>3, <1>5 DEF CallsInv
    <3>3. QED
      BY <2>1, <3>1, <3>2 DEF CallsInv
  <2>7. Good(heap', Masters(block'), Outside(held', todo'))
    BY <1>1, <2>1, <2>2, <2>3, <2>4
  <2>8. QED
    BY <1>1, <1>3, <2>1, <2>3, <2>4, <2>6, <2>7 DEF IInv
<1>8. QED
  BY <1>6, <1>7

-----------------------------------------------------------------------------
(* The invariant.                                                          *)

\* The program starts with one type object, for a dimension type and its
\* element type, and each of the three has one reference.
LEMMA InitInv == ASSUME Init PROVE IInv
<1> DEFINE a == <<"ndt", 1>>
           b == <<"ndt", 2>>
           t == <<"tobj", 1>>
           R == Outside(held, todo)
<1>1. Slots["ndt"] \in Nat /\ Slots["tobj"] \in Nat /\ Slots["ndt"] >= 2 /\ Slots["tobj"] >= 1
  BY SlotsAssumption DEF SlotsAssumption, Kinds
<1>2. a \in Objects /\ b \in Objects /\ t \in Objects
  <2>1. a \in {"ndt"} \X (1..Slots["ndt"]) /\ b \in {"ndt"} \X (1..Slots["ndt"])
          /\ t \in {"tobj"} \X (1..Slots["tobj"])
    BY <1>1
  <2>2. "ndt" \in Kinds /\ "tobj" \in Kinds
    BY DEF Kinds
  <2> HIDE DEF a, b, t
  <2>3. QED
    BY <2>1, <2>2 DEF Objects
<1>3. /\ heap = [o \in Objects |->
                  CASE o = b -> [rc |-> 1, owns |-> << >>]
                    [] o = a -> [rc |-> 1, owns |-> <<b>>]
                    [] o = t -> [rc |-> 1, owns |-> <<a>>]
                    [] OTHER -> Unused]
      /\ block = [m \in Blocks |-> NoMaster(m)]
      /\ held = {t} /\ todo = << >> /\ fault = {}
  BY DEF Init
<1>4. a # b /\ a # t /\ b # t /\ a[1] = "ndt" /\ b[1] = "ndt" /\ t[1] = "tobj"
  OBVIOUS
<1> HIDE DEF a, b, t
<1>5. \A o \in Objects : heap[o] = IF o = b THEN [rc |-> 1, owns |-> << >>]
                                   ELSE IF o = a THEN [rc |-> 1, owns |-> <<b>>]
                                   ELSE IF o = t THEN [rc |-> 1, owns |-> <<a>>]
                                   ELSE [rc |-> 0, owns |-> << >>]
  BY <1>3, <1>4 DEF Unused
<1>6. heap \in Heaps
  <2>1. << >> \in Seq(Objects) /\ <<a>> \in Seq(Objects) /\ <<b>> \in Seq(Objects)
    BY <1>2
  <2>2. DOMAIN heap = Objects /\ heap = [o \in Objects |-> heap[o]]
    BY <1>3
  <2> DEFINE Cell(n, refs) == [rc |-> n, owns |-> refs]
  <2>3. /\ Cell(1, << >>) \in [rc : Nat, owns : Seq(Objects)]
        /\ Cell(1, <<a>>) \in [rc : Nat, owns : Seq(Objects)]
        /\ Cell(1, <<b>>) \in [rc : Nat, owns : Seq(Objects)]
        /\ Cell(0, << >>) \in [rc : Nat, owns : Seq(Objects)]
    BY <2>1
  <2>4. \A o \in Objects : heap[o] = IF o = b THEN Cell(1, << >>) ELSE IF o = a THEN Cell(1, <<b>>)
                                     ELSE IF o = t THEN Cell(1, <<a>>) ELSE Cell(0, << >>)
    BY <1>5
  <2> HIDE DEF Cell
  <2>5. \A o \in Objects : heap[o] \in [rc : Nat, owns : Seq(Objects)]
    BY <2>3, <2>4
  <2>6. QED
    BY <2>2, <2>5 DEF Heaps
<1>7. \A p, o \in Objects : Owns(heap, p, o) <=> (p = a /\ o = b) \/ (p = t /\ o = a)
  <2> SUFFICES ASSUME NEW p \in Objects, NEW o \in Objects
               PROVE  Owns(heap, p, o) <=> (p = a /\ o = b) \/ (p = t /\ o = a)
    OBVIOUS
  <2>1. CASE p = a
    <3>1. heap[p].owns = <<b>>
      BY <1>2, <1>4, <1>5, <2>1
    <3>2. QED
      BY <1>4, <2>1, <3>1 DEF Owns
  <2>2. CASE p = t
    <3>1. heap[p].owns = <<a>>
      BY <1>2, <1>4, <1>5, <2>2
    <3>2. QED
      BY <1>4, <2>2, <3>1 DEF Owns
  <2>3. CASE p # a /\ p # t
    <3>1. heap[p].owns = << >>
      BY <1>5, <2>3
    <3>2. QED
      BY <2>3, <3>1 DEF Owns
  <2>4. QED
    BY <2>1, <2>2, <2>3
<1>8. Masters(block) = {}
  BY <1>3 DEF Masters, NoMaster, Master
<1>9. Sound(heap, {})
  <2>1. ASSUME NEW o \in Objects
        PROVE  IF heap[o].rc = 0 THEN heap[o].owns = << >> ELSE Shaped(o, heap[o].owns, {})
    <3>1. CASE o = b
      BY <1>4, <1>5, <3>1 DEF Shaped
    <3>2. CASE o = a
      <4>1. heap[o].rc = 1 /\ heap[o].owns = <<b>>
        BY <1>4, <1>5, <3>2
      <4>2. Shaped(o, <<b>>, {})
        BY <1>4, <3>2 DEF Shaped
      <4>3. QED
        BY <4>1, <4>2
    <3>3. CASE o = t
      <4>1. heap[o].rc = 1 /\ heap[o].owns = <<a>>
        BY <1>4, <1>5, <3>3
      <4>2. Shaped(o, <<a>>, {})
        BY <1>4, <3>3 DEF Shaped
      <4>3. QED
        BY <4>1, <4>2
    <3>4. CASE o # a /\ o # b /\ o # t
      BY <1>5, <3>4
    <3>5. QED
      BY <3>1, <3>2, <3>3, <3>4
  <2>2. QED
    BY <1>6, <2>1 DEF Sound
<1>10. Acyclic(heap)
  <2> SUFFICES ASSUME NEW S \in (SUBSET Objects) \ {{}}
               PROVE  /\ \E o \in S : \A p \in S : ~Owns(heap, p, o)
                      /\ \E p \in S : \A o \in S : ~Owns(heap, p, o)
    BY DEF Acyclic
  <2>1. \E o \in S : \A p \in S : ~Owns(heap, p, o)
    <3>1. CASE t \in S
      BY <1>4, <1>7, <3>1
    <3>2. CASE t \notin S /\ a \in S
      BY <1>4, <1>7, <3>2
    <3>3. CASE t \notin S /\ a \notin S
      BY <1>7, <3>3
    <3>4. QED
      BY <3>1, <3>2, <3>3
  <2>2. \E p \in S : \A o \in S : ~Owns(heap, p, o)
    <3>1. CASE b \in S
      BY <1>4, <1>7, <3>1
    <3>2. CASE b \notin S /\ a \in S
      BY <1>4, <1>7, <3>2
    <3>3. CASE b \notin S /\ a \notin S
      BY <1>7, <3>3
    <3>4. QED
      BY <3>1, <3>2, <3>3
  <2>3. QED
    BY <2>1, <2>2
<1>11. R \in Counts /\ \A o \in Objects : R[o] = IF o = t THEN 1 ELSE 0
  <2>1. << >> \in Seq(Objects)
    OBVIOUS
  <2>2. R \in Counts
    BY <1>3, <2>1, OutsideType
  <2>3. ASSUME NEW o \in Objects PROVE R[o] = IF o = t THEN 1 ELSE 0
    BY <1>3, OutsideNone
  <2>4. QED
    BY <2>2, <2>3
<1> HIDE DEF R
<1>12. Counted(heap, R)
  <2> SUFFICES ASSUME NEW o \in Objects
               PROVE  LET n == Cardinality(OwnersIn(heap, o)) + R[o]
                      IN  heap[o].rc >= n /\ (o[1] # "ndt" \/ NoLeak => heap[o].rc = n)
    BY DEF Counted
  <2>1. OwnersIn(heap, o) = IF o = b THEN {a} ELSE IF o = a THEN {t} ELSE {}
    BY <1>2, <1>4, <1>7 DEF OwnersIn
  <2>2. Cardinality({a}) = 1 /\ Cardinality({t}) = 1 /\ Cardinality({}) = 0
    BY FS_EmptySet, FS_Singleton
  <2>3. Cardinality(OwnersIn(heap, o)) = IF o = b \/ o = a THEN 1 ELSE 0
    BY <2>1, <2>2
  <2>4. heap[o].rc = IF o = b \/ o = a \/ o = t THEN 1 ELSE 0
    BY <1>5
  <2>5. R[o] = IF o = t THEN 1 ELSE 0
    BY <1>11
  <2>6. heap[o].rc = Cardinality(OwnersIn(heap, o)) + R[o] /\ heap[o].rc \in Nat
    BY <1>4, <2>3, <2>4, <2>5
  <2>7. QED
    BY <2>6
<1>13. Good(heap, Masters(block), Outside(held, todo))
  BY <1>8, <1>9, <1>10, <1>11, <1>12 DEF Good, R
<1>14. BlocksOK(heap, block)
  <2>1. block \in [Blocks -> Masterful]
    BY <1>3 DEF Masterful, NoMaster, Master
  <2>2. QED
    BY <1>8, <2>1 DEF BlocksOK
<1>15. held \subseteq Objects /\ todo \in Seq(Calls)
  BY <1>2, <1>3
<1>16. CallsInv
  BY <1>3 DEF CallsInv
<1>17. QED
  BY <1>13, <1>14, <1>15, <1>16 DEF IInv

\* Every operation, failing or not, and every destructor call keeps the invariant.
LEMMA NextInv == ASSUME IInv, [Next]_vars PROVE IInv'
<1>1. ASSUME NEW o \in Objects, Operation(o) PROVE IInv'
  BY <1>1, NewXndStep, FromBufferAndTypeStep, SubscriptStep, SplitXndStep, GetTypeStep,
     GetDtypeStep, GetBufStep, FromXndBufferStep, DropStep DEF Operation
<1>2. CASE NewXndFromType \/ FromXnd \/ \E view \in External : FromExternal(view)
  BY <1>2, NewXndFromTypeStep, FromXndStep, FromExternalStep
<1>3. CASE Decref \/ XndDel
  BY <1>3, DecrefStep, XndDelStep
<1>4. CASE UNCHANGED vars
  BY <1>4 DEF vars, IInv, CallsInv
<1>5. QED
  BY <1>1, <1>2, <1>3, <1>4 DEF Next

\* The counts match the owners of each object, every chain of memory ends in
\* the block that obtained it, and the calls of destructors come in order.
THEOREM Invariance == Spec => []IInv
<1>1. Init => IInv
  BY InitInv
<1>2. IInv /\ [Next]_vars => IInv'
  BY NextInv
<1>3. QED
  BY <1>1, <1>2, PTL DEF Spec

-----------------------------------------------------------------------------
(* What follows from the invariant.                                        *)

\* The form of the objects follows from what is alive.
LEMMA InvTypeOK == ASSUME IInv PROVE TypeOK
<1> DEFINE M == Masters(block)
           R == Outside(held, todo)
<1>1. /\ held \subseteq Objects /\ todo \in Seq(Calls)
      /\ Good(heap, M, R) /\ BlocksOK(heap, block)
  BY DEF IInv
<1>2. heap \in Heaps
  BY <1>1 DEF Good, Sound
<1> HIDE DEF M, R
<1>3. ASSUME NEW o \in Objects
      PROVE  /\ heap[o].rc \in Nat
             /\ Range(heap[o].owns) \subseteq Objects
  <2>1. heap[o].rc \in Nat /\ heap[o].owns \in Seq(Objects)
    BY <1>2 DEF Heaps
  <2>2. \A k \in DOMAIN heap[o].owns : heap[o].owns[k] \in Objects
    BY <2>1, LenProperties, ElementOfSeq
  <2>3. QED
    BY <2>1, <2>2 DEF Range
<1>4. ASSUME NEW o \in Objects, Live(o)
      PROVE  CASE o[1] = "tobj" -> NDT(o)[1] = "ndt"
               [] o[1] = "xo" -> Mblock(o)[1] = "mb" /\ XndType(o)[1] = "ndt"
               [] OTHER -> TRUE
  <2>1. heap[o].rc # 0
    BY <1>3, <1>4 DEF Live
  <2>2. CASE o[1] = "tobj"
    <3>1. NDT(o)[1] = "ndt"
      BY <1>1, <2>1, <2>2, TypeObject DEF NDT
    <3>2. QED
      BY <2>2, <3>1
  <2>3. CASE o[1] = "xo"
    <3> DEFINE e == heap[o].owns[2]
    <3>1. heap[o].owns[1][1] = "mb" /\ e \in Objects /\ e[1] = "tobj" /\ heap[e].rc > 0
      BY <1>1, <2>1, <2>3, View
    <3>2. XndType(o) = heap[e].owns[1] /\ Mblock(o) = heap[o].owns[1]
      BY DEF XndType, NDT, Mblock
    <3> HIDE DEF e
    <3>3. heap[e].rc # 0
      BY <3>1
    <3>4. heap[e].owns[1][1] = "ndt"
      BY <1>1, <3>1, <3>3, TypeObject
    <3>5. QED
      BY <2>3, <3>1, <3>2, <3>4
  <2>4. CASE o[1] # "tobj" /\ o[1] # "xo"
    BY <2>4
  <2>5. QED
    BY <2>2, <2>3, <2>4
<1>5. /\ DOMAIN block = Blocks
      /\ \A m \in Blocks :
           /\ block[m].master \in {"none", "owned", "borrowed"}
           /\ block[m].origin \in Blocks
           /\ block[m].view \in External \union {"none", "proxy"}
  BY <1>1 DEF BlocksOK, Masterful
<1>6. \A k \in DOMAIN todo : todo[k] \in Objects \/ todo[k][1] = "xnd_del"
  <2>1. \A k \in DOMAIN todo : todo[k] \in Calls
    BY <1>1, LenProperties, ElementOfSeq
  <2>2. QED
    BY <2>1 DEF Calls
<1>7. DOMAIN heap = Objects
  BY <1>2 DEF Heaps
<1>8. QED
  BY <1>1, <1>3, <1>4, <1>5, <1>6, <1>7 DEF TypeOK

\* The owners that the invariant counts are those of the properties.
LEMMA OwnersCounted ==
  ASSUME NEW o \in Objects
  PROVE  Owners(o) = Cardinality(OwnersIn(heap, o)) + (IF o \in held THEN 1 ELSE 0) + CountIn(todo, o)
<1>1. Owned(o) = OwnersIn(heap, o)
  BY DEF Owned, OwnersIn, Owns
<1>2. QED
  BY <1>1 DEF Owners

\* The counts of the invariant are those of the properties.
LEMMA InvCounts ==
  ASSUME IInv, NEW o \in Objects
  PROVE  /\ heap[o].rc \in Nat /\ Owners(o) \in Nat
         /\ heap[o].rc >= Owners(o)
         /\ o[1] # "ndt" \/ NoLeak => heap[o].rc = Owners(o)
<1> DEFINE R == Outside(held, todo)
           c == Cardinality(OwnersIn(heap, o))
           n == CountIn(todo, o)
           k == IF o \in held THEN 1 ELSE 0
<1>1. todo \in Seq(Calls) /\ Good(heap, Masters(block), R)
  BY DEF IInv
<1>2. n \in Nat /\ c \in Nat /\ k \in Nat
  BY <1>1, CountType, OwnersFinite
<1>3. R[o] = k + n /\ Owners(o) = c + k + n
  BY OutsideAt, OwnersCounted
<1>4. heap[o].rc \in Nat /\ heap[o].rc >= c + R[o] /\ (o[1] # "ndt" \/ NoLeak => heap[o].rc = c + R[o])
  BY <1>1 DEF Good, Counted, Sound, Heaps
<1> HIDE DEF c, n, k, R
<1>5. QED
  BY <1>2, <1>3, <1>4

\* Nothing holds an object up: among the live ones there would be one that no
\* other owns, so that nothing counts for it.
LEMMA InvReleased == ASSUME IInv, NoLeak PROVE AllReleased
<1> SUFFICES ASSUME Idle, held = {}, NEW o \in Objects, Live(o) PROVE FALSE
  BY DEF AllReleased
<1> DEFINE S == {p \in Objects : heap[p].rc # 0}
<1>1. Good(heap, Masters(block), Outside(held, todo)) /\ todo = << >>
  BY DEF IInv, Idle
<1>2. \A p \in Objects : heap[p].rc \in Nat
  BY <1>1 DEF Good, Sound, Heaps
<1>3. S \in (SUBSET Objects) \ {{}}
  BY <1>2 DEF Live
<1>4. PICK p \in S : \A q \in S : ~Owns(heap, q, p)
  BY <1>1, <1>3 DEF Good, Acyclic
<1>5. ASSUME NEW q \in Objects, q \notin S PROVE ~Owns(heap, q, p)
  BY <1>1, <1>5, DeadOwnsNothing
<1>6. OwnersIn(heap, p) = {}
  BY <1>4, <1>5 DEF OwnersIn
<1>7. Cardinality(OwnersIn(heap, p)) = 0
  BY <1>6, FS_EmptySet
<1>8. Outside(held, todo)[p] = 0
  BY <1>1, OutsideNone
<1>9. heap[p].rc = 0
  BY <1>1, <1>7, <1>8 DEF Good, Counted
<1>10. QED
  BY <1>9

\* What a view uses is alive: each object on the way is owned by the one before.
LEMMA InvViews == ASSUME IInv PROVE ViewsValid
<1> SUFFICES ASSUME NEW x \in Xnds, Live(x)
             PROVE  LET m == Mblock(x)
                    IN  /\ Live(m) /\ block[m].master # "none"
                        /\ Live(block[m].origin) /\ block[block[m].origin].view # "proxy"
                        /\ Live(XndType(x)) /\ Live(BlockType(m))
  BY DEF ViewsValid
<1> DEFINE m == Mblock(x)
           M == Masters(block)
           R == Outside(held, todo)
           g == block[m].origin
<1>1. Good(heap, M, R) /\ BlocksOK(heap, block) /\ \A o \in Objects : heap[o].rc \in Nat
  BY DEF IInv, Good, Sound, Heaps
<1>2. x \in Objects /\ x[1] = "xo" /\ heap[x].rc # 0
  BY <1>1 DEF Xnds, Live
<1> HIDE DEF R
<1> DEFINE e == heap[x].owns[2]
<1>3. /\ m \in Objects /\ m[1] = "mb" /\ heap[m].rc > 0 /\ m \in M
      /\ e \in Objects /\ e[1] = "tobj" /\ heap[e].rc # 0
  <2>1. /\ heap[x].owns[1] \in Objects /\ heap[x].owns[1][1] = "mb" /\ heap[heap[x].owns[1]].rc > 0
        /\ heap[x].owns[1] \in M
        /\ e \in Objects /\ e[1] = "tobj" /\ heap[e].rc > 0
    BY <1>1, <1>2, View
  <2> HIDE DEF e
  <2>2. QED
    BY <2>1 DEF Mblock
<1>4. XndType(x) = heap[e].owns[1]
  BY DEF XndType, NDT
<1> HIDE DEF m, e
<1>5. Live(XndType(x))
  BY <1>1, <1>3, <1>4, TypeObject DEF Live
<1>6. /\ Len(heap[m].owns) >= 1 /\ heap[m].owns[1][1] = "tobj"
      /\ g \in M /\ block[g].view # "proxy"
  BY <1>1, <1>3 DEF BlocksOK
<1>7. heap[g].rc > 0
  BY <1>1, <1>6 DEF BlocksOK
<1>8. block[m].master # "none"
  BY <1>3 DEF Masters
<1> DEFINE t == heap[m].owns[1]
<1>9. t \in Objects /\ t[1] = "tobj" /\ heap[t].rc # 0
  <2>1. heap[m].rc # 0
    BY <1>3
  <2>2. 1 \in 1..Len(heap[m].owns)
    BY <1>1, <1>3, <1>6, <2>1, LiveShape
  <2>3. t \in Objects /\ heap[t].rc > 0
    BY <1>1, <1>3, <2>2, OwnedAt
  <2>4. QED
    BY <1>6, <2>3
<1> HIDE DEF t
<1>10. heap[heap[t].owns[1]].rc > 0
  BY <1>1, <1>9, TypeObject
<1>11. Live(BlockType(m))
  BY <1>10 DEF Live, BlockType, NDT, t
<1>12. QED
  BY <1>3, <1>5, <1>6, <1>7, <1>8, <1>11 DEF Live, m

\* Every object keeps the form that the code gives it, whatever fails.
THEOREM TypeCorrect == Spec => []TypeOK
<1>1. IInv => TypeOK
  BY InvTypeOK
<1>2. QED
  BY <1>1, Invariance, PTL

\* No reference count is ever too low, in the middle of a cascade of
\* destructors and after any failure: an object is freed only when nothing
\* refers to it, and what error paths leave behind is only types.
THEOREM CountsSuffice == Spec => []RefsSuffice
<1>1. IInv => RefsSuffice
  <2> SUFFICES ASSUME IInv, NEW o \in Objects
               PROVE  heap[o].rc >= Owners(o) /\ (o[1] # "ndt" => heap[o].rc = Owners(o))
    BY DEF RefsSuffice
  <2>1. QED
    BY InvCounts
<1>2. QED
  BY <1>1, Invariance, PTL

\* Where pyxnd_view_move_type() and deserialize() do not fail no count is too
\* high either, and when the program has let go of everything nothing is left.
THEOREM Exactness == ASSUME NoLeak PROVE Spec => []NothingKept
<1>1. IInv => RefsExact
  <2> SUFFICES ASSUME IInv, NEW o \in Objects PROVE heap[o].rc = Owners(o)
    BY DEF RefsExact
  <2>1. QED
    BY InvCounts
<1>2. IInv => AllReleased
  BY InvReleased
<1>3. IInv => NothingKept
  BY <1>1, <1>2 DEF NothingKept
<1>4. QED
  BY <1>3, Invariance, PTL

\* The memory and the types that a view uses are there as long as the view,
\* through any chain of buffers that xnd objects have exported and imported.
THEOREM ViewsKeptAlive == Spec => []ViewsValid
<1>1. IInv => ViewsValid
  BY InvViews
<1>2. QED
  BY <1>1, Invariance, PTL

\* Destructors use nothing that has been freed, where mblock_from_xnd(), which
\* drops the type of a buffer before the buffer, does not fail.
THEOREM DestructorsSafe ==
  ASSUME "mblock_from_xnd" \notin Failing PROVE Spec => []NoUseAfterFree
<1>1. IInv => NoUseAfterFree
  BY DEF IInv, CallsInv, NoUseAfterFree
<1>2. QED
  BY <1>1, Invariance, PTL
=============================================================================
