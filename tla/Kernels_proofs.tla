--------------------------- MODULE Kernels_proofs ---------------------------
(***************************************************************************)
(* The table of functions: whatever fails while a module is imported or    *)
(* functions are added, the names in the table lead to their functions,    *)
(* and a module that could be imported is complete.                        *)
(* The loops of the kernels: each element of a result is computed from     *)
(* those in its place, whatever the layout, and integers are exact.        *)
(***************************************************************************)
EXTENDS KernelLoops, Recursion_proofs, FiniteSetTheorems

-----------------------------------------------------------------------------
(* Tables.                                                                 *)

\* A function, a batch of its kernels and the nodes that the tree may have.
Labels ==
  {"none", "user", "copy", "reduce", "invert", "negative", "math", "arithmetic", "nocomplex", "divide",
   "comparison", "equaln", "bitwise", "mv"}
Group == [rows : Labels, n : Int]
Func == [name : AllNames, check : Labels, batches : Seq(Group), freed : Int]
Nodes == {<< >>} \union UNION {Prefixes(SubSeq(Path(n), 1, GoodLength(Path(n)))) : n \in AllNames}
Maps == UNION {[D -> Nat] : D \in SUBSET Nodes}
Trees == [value : Maps, funcs : Seq(Func)]

\* Each node that has a function has one that is alive and is found under its name.
Leads(t) ==
  \A p \in DOMAIN t.value : t.value[p] # NoFunc =>
    /\ t.value[p] \in 1..Len(t.funcs)
    /\ t.funcs[t.value[p]].freed = 0 /\ Path(t.funcs[t.value[p]].name) = p
Tables == {t \in Trees : Leads(t)}

LEMMA TablesType ==
  ASSUME NEW t \in Tables
  PROVE  /\ t = [value |-> t.value, funcs |-> t.funcs]
         /\ DOMAIN t.value \in SUBSET Nodes /\ t.value \in [DOMAIN t.value -> Nat] /\ t.value \in Maps
         /\ t.funcs \in Seq(Func) /\ Len(t.funcs) \in Nat /\ DOMAIN t.funcs = 1..Len(t.funcs)
         /\ \A f \in 1..Len(t.funcs) : t.funcs[f] \in Func
<1>1. t \in [value : Maps, funcs : Seq(Func)]
  BY DEF Tables, Trees
<1>2. PICK D \in SUBSET Nodes : t.value \in [D -> Nat]
  BY <1>1 DEF Maps
<1>3. QED
  BY <1>1, <1>2

\* A table with the same tree in which the functions of the tree live on.
LEMMA Kept ==
  ASSUME NEW t \in Tables, NEW u, u = [value |-> u.value, funcs |-> u.funcs],
         u.value = t.value, u.funcs \in Seq(Func), Len(u.funcs) >= Len(t.funcs),
         \A f \in 1..Len(t.funcs) :
            /\ u.funcs[f].name = t.funcs[f].name
            /\ u.funcs[f].freed = t.funcs[f].freed \/ \A p \in DOMAIN t.value : t.value[p] # f
  PROVE  u \in Tables
<1>1. /\ t.value \in Maps /\ t.value \in [DOMAIN t.value -> Nat] /\ Len(t.funcs) \in Nat
      /\ Len(u.funcs) \in Nat
  BY TablesType
<1>2. u \in Trees
  BY <1>1 DEF Trees
<1>3. ASSUME NEW p \in DOMAIN u.value, u.value[p] # NoFunc
      PROVE  /\ u.value[p] \in 1..Len(u.funcs)
             /\ u.funcs[u.value[p]].freed = 0 /\ Path(u.funcs[u.value[p]].name) = p
  <2>1. /\ t.value[p] \in 1..Len(t.funcs)
        /\ t.funcs[t.value[p]].freed = 0 /\ Path(t.funcs[t.value[p]].name) = p
    BY <1>3 DEF Tables, Leads
  <2>2. /\ u.funcs[t.value[p]].name = t.funcs[t.value[p]].name
        /\ u.funcs[t.value[p]].freed = t.funcs[t.value[p]].freed
    BY <1>3, <2>1
  <2>3. QED
    BY <1>1, <2>1, <2>2
<1>4. QED
  BY <1>2, <1>3 DEF Tables, Leads

-----------------------------------------------------------------------------
(* Kernels of one function.                                                *)

\* The number of kernels is the sum over the batches.
Sums(s, g) == g[0] = 0 /\ \A k \in 1..Len(s) : g[k] = g[k-1] + s[k].n

LEMMA CountRec ==
  ASSUME NEW t, NEW f, t.funcs[f].batches \in Seq(Group)
  PROVE  \E g \in [0..Len(t.funcs[f].batches) -> Int] :
           Sums(t.funcs[f].batches, g) /\ Count(t, f) = g[Len(t.funcs[f].batches)]
<1> DEFINE s == t.funcs[f].batches
           N == Len(s)
           V == Int
           a == 0
           E(k, x) == x + s[k].n
           H == [k \in 1..N |-> [x \in V |-> E(k, x)]]
           Body(h) == [u \in SUBSET DOMAIN s |-> IF u = {} THEN a ELSE E(Max(u), h[u \ {Max(u)}])]
<1>1. N \in Nat /\ DOMAIN s = 1..N /\ \A k \in 1..N : s[k].n \in Int
  <2>1. s \in Seq(Group)
    OBVIOUS
  <2> HIDE DEF s
  <2>2. Len(s) \in Nat /\ DOMAIN s = 1..Len(s) /\ \A k \in 1..Len(s) : s[k] \in Group
    BY <2>1
  <2>3. \A x \in Group : x.n \in Int
    BY DEF Group
  <2>4. QED
    BY <2>2, <2>3
<1>2. a \in V
  OBVIOUS
<1>3. ASSUME NEW k \in 1..N, NEW x \in V PROVE E(k, x) \in V
  BY <1>1
<1>4. Count(t, f) = (CHOOSE h : h = Body(h))[DOMAIN s]
  BY DEF Count, FoldLeft, MapThenFoldSet
<1> HIDE DEF N, V, a, E
<1>5. H \in [1..N -> [V -> V]]
  BY <1>3
<1>6. PICK h \in [SUBSET (1..N) -> V] : FoldsTo(h, N, a, H)
  <2> HIDE DEF H
  <2>1. QED
    BY <1>1, <1>2, <1>5, FoldExists
<1>7. h = Body(h)
  <2>1. ASSUME NEW u \in SUBSET (1..N)
        PROVE  h[u] = IF u = {} THEN a ELSE E(Max(u), h[u \ {Max(u)}])
    <3>1. CASE u = {}
      BY <1>6, <3>1 DEF FoldsTo
    <3>2. CASE u # {}
      <4> DEFINE m == Max(u)
      <4>1. m \in u
        BY <1>1, <3>2, Largest
      <4>2. h[u] = H[m][h[u \ {m}]]
        BY <1>6, <3>2 DEF FoldsTo
      <4> HIDE DEF m
      <4>3. m \in 1..N /\ h[u \ {m}] \in V
        BY <4>1
      <4>4. QED
        BY <3>2, <4>2, <4>3 DEF m
    <3>3. QED
      BY <3>1, <3>2
  <2>2. QED
    BY <1>1, <2>1
<1> DEFINE v == CHOOSE h_1 : h_1 = Body(h_1)
<1>8. v = Body(v)
  <2> HIDE DEF Body
  <2>1. QED
    BY <1>7
<1>9. Count(t, f) = v[1..N]
  BY <1>1, <1>4
<1> HIDE DEF v
<1>10. \A u \in SUBSET (1..N) : v[u] = IF u = {} THEN a ELSE E(Max(u), v[u \ {Max(u)}])
  BY <1>1, <1>8
<1> HIDE DEF Body
<1>11. v[{}] = a
  BY <1>10
<1>12. GoesBy(v, N, V, H)
  <2> SUFFICES ASSUME NEW k \in 1..N, NEW x \in V, v[1..(k-1)] = x PROVE v[1..k] = H[k][x]
    BY DEF GoesBy
  <2>1. /\ 1..k \in SUBSET (1..N) /\ 1..k # {}
        /\ Max(1..k) = k
        /\ (1..k) \ {Max(1..k)} = 1..(k-1)
    BY <1>1, Segment
  <2>2. v[1..k] = E(k, v[1..(k-1)])
    BY <1>10, <2>1
  <2>3. QED
    BY <2>2
<1>13. PICK g \in [0..N -> V] : EndsAs(g, v, N, a, H)
  <2> HIDE DEF H
  <2>1. QED
    BY <1>1, <1>2, <1>5, <1>11, <1>12, FoldFollows
<1>14. \A k \in 1..N : g[k] = E(k, g[k-1])
  <2> SUFFICES ASSUME NEW k \in 1..N PROVE g[k] = E(k, g[k-1])
    OBVIOUS
  <2>1. g[k-1] \in V
    BY <1>1
  <2>2. g[k] = H[k][g[k-1]]
    BY <1>13 DEF EndsAs, Follows
  <2>3. QED
    BY <2>1, <2>2
<1>15. g[0] = a
  BY <1>13 DEF EndsAs, Follows
<1>16. Sums(s, g) /\ Count(t, f) = g[N]
  BY <1>9, <1>13, <1>14, <1>15 DEF EndsAs, Sums, a, E, N
<1>17. QED
  BY <1>16 DEF N, V

LEMMA CountIs ==
  ASSUME NEW t, NEW f, t.funcs[f].batches \in Seq(Group)
  PROVE  /\ Count(t, f) \in Int
         /\ t.funcs[f].batches = << >> => Count(t, f) = 0
         /\ \A x \in Group : t.funcs[f].batches = <<x>> => Count(t, f) = x.n
<1> DEFINE s == t.funcs[f].batches
<1>1. PICK g \in [0..Len(s) -> Int] : Sums(s, g) /\ Count(t, f) = g[Len(s)]
  BY CountRec
<1>2. Len(s) \in Nat /\ Len(s) \in 0..Len(s)
  OBVIOUS
<1>3. s = << >> => Count(t, f) = 0
  BY <1>1 DEF Sums
<1>4. ASSUME NEW x \in Group, s = <<x>> PROVE Count(t, f) = x.n
  <2>1. Len(s) = 1 /\ s[1] = x /\ x.n \in Int
    BY <1>4 DEF Group
  <2>2. g[1] = g[0] + x.n /\ g[0] = 0
    <3>1. g[1] = g[1-1] + s[1].n
      BY <1>1, <2>1 DEF Sums
    <3>2. QED
      BY <1>1, <2>1, <3>1 DEF Sums
  <2>3. QED
    BY <1>1, <2>1, <2>2
<1>5. QED
  BY <1>1, <1>2, <1>3, <1>4

LEMMA SmallestIs ==
  ASSUME NEW x \in Int, NEW y \in Int, NEW T, T = {} \/ \E z \in Int : T = {z}
  PROVE  Min({x, y} \union T) \in Int
<1>1. \E m \in {x, y} \union T : \A k \in {x, y} \union T : m <= k
  <2>1. CASE T = {}
    BY <2>1
  <2>2. CASE \E z \in Int : T = {z}
    <3>1. PICK z \in Int : T = {z}
      BY <2>2
    <3>2. QED
      BY <3>1
  <2>3. QED
    BY <2>1, <2>2
<1>2. Min({x, y} \union T) \in {x, y} \union T
  BY <1>1 DEF Min
<1>3. QED
  BY <1>2

\* What can be told of a fault: the number of a kernel is one.
IsFault(fault) == fault.kind = "sig" => fault.at \in Int

\* A batch goes to the function, all of it or what there is room for.
Grown(t, u, f) ==
  /\ u \in Tables /\ u.value = t.value /\ Len(u.funcs) = Len(t.funcs)
  /\ \A g \in 1..Len(t.funcs) : g # f => u.funcs[g] = t.funcs[g]
  /\ u.funcs[f].name = t.funcs[f].name /\ u.funcs[f].check = t.funcs[f].check
  /\ u.funcs[f].freed = t.funcs[f].freed

LEMMA BatchAdded ==
  ASSUME NEW t \in Tables, NEW f \in 1..Len(t.funcs), NEW batch \in Group, NEW fault, IsFault(fault)
  PROVE  LET r == AddBatch(t, f, batch, fault)
         IN  /\ r = [ok |-> r.ok, tbl |-> r.tbl] /\ r.ok \in BOOLEAN /\ Grown(t, r.tbl, f)
             /\ r.ok /\ batch.n = 0 => r.tbl.funcs[f].batches = t.funcs[f].batches
             /\ r.ok /\ batch.n # 0 => r.tbl.funcs[f].batches = Append(t.funcs[f].batches, batch)
<1> DEFINE T == IF fault.kind = "sig" THEN {fault.at - 1} ELSE {}
           n == Min({batch.n, MaxKernels - Count(t, f)} \union T)
           old == t.funcs[f]
           part == [batch EXCEPT !.n = n]
           new == [old EXCEPT !.batches = Append(old.batches, part)]
           u == [value |-> t.value, funcs |-> [t.funcs EXCEPT ![f] = new]]
<1>1. /\ t = [value |-> t.value, funcs |-> t.funcs] /\ t.funcs \in Seq(Func) /\ Len(t.funcs) \in Nat
      /\ DOMAIN t.funcs = 1..Len(t.funcs) /\ old \in Func
  BY TablesType
<1>2. old.batches \in Seq(Group) /\ batch.n \in Int /\ batch.rows \in Labels
  BY <1>1 DEF Func, Group
<1>3. n \in Int
  <2>1. Count(t, f) \in Int
    BY <1>2, CountIs
  <2>2. MaxKernels - Count(t, f) \in Int
    BY <2>1, MaxKernelsAssumption
  <2>3. T = {} \/ \E z \in Int : T = {z}
    BY DEF IsFault
  <2> HIDE DEF T
  <2>4. QED
    BY <1>2, <2>2, <2>3, SmallestIs
<1>4. AddBatch(t, f, batch, fault) = [ok |-> n = batch.n, tbl |-> IF n = 0 THEN t ELSE u]
  <2>1. [t EXCEPT !.funcs[f].batches = Append(@, part)] = u
    <3>1. [t EXCEPT !.funcs[f].batches = Append(@, part)] = [t EXCEPT !.funcs = [t.funcs EXCEPT ![f] = new]]
      OBVIOUS
    <3>2. \A fs : [[value |-> t.value, funcs |-> t.funcs] EXCEPT !.funcs = fs] = [value |-> t.value, funcs |-> fs]
      OBVIOUS
    <3> HIDE DEF new, part
    <3>3. QED
      BY <1>1, <3>1, <3>2
  <2>2. QED
    BY <2>1 DEF AddBatch
<1> HIDE DEF n
<1>5. part \in Group /\ (n = batch.n => part = batch)
  BY <1>3 DEF Group
<1>6. Append(old.batches, part) \in Seq(Group)
  BY <1>2, <1>5, AppendProperties
<1>7. /\ new \in Func /\ new.batches = Append(old.batches, part)
      /\ new.name = old.name /\ new.check = old.check /\ new.freed = old.freed
  BY <1>1, <1>6 DEF Func
<1> HIDE DEF new, part
<1>8. /\ u.value = t.value /\ u.funcs \in Seq(Func) /\ Len(u.funcs) = Len(t.funcs)
      /\ \A g \in 1..Len(t.funcs) : u.funcs[g] = IF g = f THEN new ELSE t.funcs[g]
  BY <1>1, <1>7
<1>9. u \in Tables
  <2>1. \A g \in 1..Len(t.funcs) : u.funcs[g].name = t.funcs[g].name /\ u.funcs[g].freed = t.funcs[g].freed
    BY <1>7, <1>8
  <2>2. u = [value |-> u.value, funcs |-> u.funcs]
    OBVIOUS
  <2> HIDE DEF u
  <2>3. QED
    BY <1>1, <1>8, <2>1, <2>2, Kept
<1> HIDE DEF u, old
<1>10. Grown(t, u, f) /\ u.funcs[f].batches = Append(t.funcs[f].batches, part)
  BY <1>7, <1>8, <1>9 DEF Grown, old
<1>11. Grown(t, t, f)
  BY DEF Grown
<1> HIDE DEF u
<1> DEFINE r == AddBatch(t, f, batch, fault)
<1>12. /\ r = [ok |-> r.ok, tbl |-> r.tbl] /\ r.ok = (n = batch.n)
       /\ r.tbl = IF n = 0 THEN t ELSE u
  BY <1>4
<1> HIDE DEF r
<1>13. Grown(t, r.tbl, f)
  BY <1>10, <1>11, <1>12
<1>14. r.ok /\ batch.n = 0 => r.tbl.funcs[f].batches = t.funcs[f].batches
  BY <1>12
<1>15. r.ok /\ batch.n # 0 => r.tbl.funcs[f].batches = Append(t.funcs[f].batches, batch)
  BY <1>5, <1>10, <1>12
<1>16. QED
  BY <1>12, <1>13, <1>14, <1>15 DEF r

-----------------------------------------------------------------------------
(* A new function.                                                         *)

LEMMA NewFunc ==
  ASSUME NEW t \in Tables, NEW name \in AllNames
  PROVE  LET u == [t EXCEPT !.funcs = Append(@, gm_func_new(name))]
         IN  /\ u \in Tables /\ u.value = t.value /\ Len(u.funcs) = Len(t.funcs) + 1
             /\ \A g \in 1..Len(t.funcs) : u.funcs[g] = t.funcs[g]
             /\ u.funcs[Len(t.funcs) + 1] = gm_func_new(name)
             /\ \A p \in DOMAIN t.value : t.value[p] # Len(t.funcs) + 1
<1> DEFINE new == gm_func_new(name)
           fs == Append(t.funcs, new)
           u == [value |-> t.value, funcs |-> fs]
<1>1. /\ t = [value |-> t.value, funcs |-> t.funcs] /\ t.funcs \in Seq(Func) /\ Len(t.funcs) \in Nat
      /\ t.value \in [DOMAIN t.value -> Nat]
  BY TablesType
<1>2. new \in Func
  <2>1. << >> \in Seq(Group)
    BY EmptySeq
  <2>2. \A c \in Labels : \A s \in Seq(Group) : [name |-> name, check |-> c, batches |-> s, freed |-> 0] \in Func
    BY DEF Func
  <2>3. None \in Labels
    BY DEF None, Labels
  <2>4. QED
    BY <2>1, <2>2, <2>3 DEF gm_func_new
<1> HIDE DEF new
<1>3. /\ fs \in Seq(Func) /\ Len(fs) = Len(t.funcs) + 1
      /\ \A g \in 1..Len(t.funcs) : fs[g] = t.funcs[g]
      /\ fs[Len(t.funcs) + 1] = new
  BY <1>1, <1>2, AppendProperties
<1> HIDE DEF fs
<1>4. [t EXCEPT !.funcs = fs] = u
  <2>1. [[value |-> t.value, funcs |-> t.funcs] EXCEPT !.funcs = fs] = u
    OBVIOUS
  <2>2. QED
    BY <1>1, <2>1
<1>5. u \in Tables
  <2>1. u.value = t.value /\ u.funcs = fs /\ u = [value |-> u.value, funcs |-> u.funcs]
    OBVIOUS
  <2> HIDE DEF u
  <2>2. QED
    BY <1>1, <1>3, <2>1, Kept
<1>6. \A p \in DOMAIN t.value : t.value[p] # Len(t.funcs) + 1
  <2> SUFFICES ASSUME NEW p \in DOMAIN t.value, t.value[p] = Len(t.funcs) + 1 PROVE FALSE
    OBVIOUS
  <2>1. t.value[p] \in 1..Len(t.funcs)
    BY <1>1 DEF Tables, Leads, NoFunc
  <2>2. QED
    BY <1>1, <2>1
<1>7. QED
  BY <1>3, <1>4, <1>5, <1>6 DEF fs, new

\* A function that is not in the tree may be released.
LEMMA Released ==
  ASSUME NEW t \in Tables, NEW f \in 1..Len(t.funcs), \A p \in DOMAIN t.value : t.value[p] # f
  PROVE  /\ Release(t, f) \in Tables /\ Release(t, f).value = t.value
         /\ Len(Release(t, f).funcs) = Len(t.funcs)
         /\ \A g \in 1..Len(t.funcs) : g # f => Release(t, f).funcs[g] = t.funcs[g]
<1> DEFINE new == [t.funcs[f] EXCEPT !.freed = @ + 1]
           u == [value |-> t.value, funcs |-> [t.funcs EXCEPT ![f] = new]]
<1>1. /\ t = [value |-> t.value, funcs |-> t.funcs] /\ t.funcs \in Seq(Func) /\ Len(t.funcs) \in Nat
      /\ t.funcs[f] \in Func
  BY TablesType
<1>2. new \in Func /\ new.name = t.funcs[f].name
  <2>1. \A x \in Func : [x EXCEPT !.freed = x.freed + 1] \in Func /\ [x EXCEPT !.freed = x.freed + 1].name = x.name
    BY DEF Func
  <2>2. QED
    BY <1>1, <2>1
<1>3. Release(t, f) = u
  <2>1. Release(t, f) = [t EXCEPT !.funcs = [t.funcs EXCEPT ![f] = new]]
    BY DEF Release
  <2>2. \A fs : [[value |-> t.value, funcs |-> t.funcs] EXCEPT !.funcs = fs] = [value |-> t.value, funcs |-> fs]
    OBVIOUS
  <2> HIDE DEF new
  <2>3. QED
    BY <1>1, <2>1, <2>2
<1> HIDE DEF new
<1>4. /\ u.value = t.value /\ u.funcs \in Seq(Func) /\ Len(u.funcs) = Len(t.funcs)
      /\ \A g \in 1..Len(t.funcs) : u.funcs[g] = IF g = f THEN new ELSE t.funcs[g]
  BY <1>1, <1>2
<1>5. u = [value |-> u.value, funcs |-> u.funcs]
  OBVIOUS
<1> HIDE DEF u
<1>6. u \in Tables
  BY <1>1, <1>2, <1>4, <1>5, Kept
<1>7. QED
  BY <1>3, <1>4, <1>6

\* The tree has new nodes and one more function.
Joins(t, value, path, f) ==
  /\ path \in DOMAIN value /\ value[path] = f /\ DOMAIN t.value \subseteq DOMAIN value
  /\ \A p \in DOMAIN value : p # path => value[p] = IF p \in DOMAIN t.value THEN t.value[p] ELSE NoFunc

\* A function is stored, or released and not in the tree.
StoredOrNot(t, r, path, f) ==
  /\ r = [ok |-> r.ok, tbl |-> r.tbl] /\ r.ok \in BOOLEAN
  /\ r.tbl \in Tables /\ Len(r.tbl.funcs) = Len(t.funcs)
  /\ r.ok => r.tbl.funcs = t.funcs /\ Joins(t, r.tbl.value, path, f)
  /\ ~r.ok => \A p \in DOMAIN r.tbl.value : r.tbl.value[p] # f

LEMMA StoreIs ==
  ASSUME NEW t \in Tables, NEW f \in 1..Len(t.funcs), NEW made \in SUBSET Nodes, NEW path,
         NEW complete \in BOOLEAN, complete => path \in DOMAIN t.value \union made,
         \A p \in DOMAIN t.value : t.value[p] # f,
         t.funcs[f].freed = 0, Path(t.funcs[f].name) = path
  PROVE  StoredOrNot(t, Store(t, made, path, f, complete), path, f)
<1> DEFINE D == DOMAIN t.value \union made
           e == [p \in D |-> IF p \in DOMAIN t.value THEN t.value[p] ELSE NoFunc]
           w == [e EXCEPT ![path] = f]
           grown == [value |-> e, funcs |-> t.funcs]
           u == [value |-> w, funcs |-> t.funcs]
           ok == complete /\ e[path] = NoFunc
           r == Store(t, made, path, f, complete)
<1>1. /\ t = [value |-> t.value, funcs |-> t.funcs] /\ t.funcs \in Seq(Func) /\ Len(t.funcs) \in Nat
      /\ t.value \in [DOMAIN t.value -> Nat] /\ DOMAIN t.value \in SUBSET Nodes
  BY TablesType
<1>2. r = [ok |-> ok, tbl |-> IF ok THEN u ELSE Release(grown, f)]
  <2>1. \A x : [[value |-> t.value, funcs |-> t.funcs] EXCEPT !.value = x] = [value |-> x, funcs |-> t.funcs]
    OBVIOUS
  <2>2. [t EXCEPT !.value = e] = grown
    <3> HIDE DEF e
    <3>1. QED
      BY <1>1, <2>1
  <2>3. [grown EXCEPT !.value[path] = f] = u
    <3>1. [grown EXCEPT !.value[path] = f] = [grown EXCEPT !.value = w]
      <4>1. grown.value = e
        OBVIOUS
      <4> HIDE DEF grown, e
      <4>2. QED
        BY <4>1
    <3> HIDE DEF w, e
    <3>2. QED
      BY <3>1
  <2> HIDE DEF grown, u
  <2>4. QED
    BY <2>2, <2>3 DEF Store, grown
<1>3. D \in SUBSET Nodes /\ e \in [D -> Nat]
  BY <1>1 DEF NoFunc
<1>4. e \in Maps /\ w \in Maps
  <2>1. w \in [D -> Nat]
    <3>1. f \in Nat
      BY <1>1
    <3> HIDE DEF D, e
    <3>2. QED
      BY <1>3, <3>1
  <2> HIDE DEF D, e, w
  <2>2. QED
    BY <1>3, <2>1 DEF Maps
<1>5. grown \in Tables
  <2>1. grown \in Trees
    <3> HIDE DEF e
    <3>1. QED
      BY <1>1, <1>4 DEF Trees
  <2>2. Leads(grown)
    BY DEF Leads, Tables, NoFunc
  <2>3. QED
    BY <2>1, <2>2 DEF Tables
<1>6. \A p \in DOMAIN grown.value : grown.value[p] # f
  BY DEF NoFunc
<1>7. ASSUME ok PROVE u \in Tables /\ Joins(t, w, path, f)
  <2>1. path \in D
    BY <1>7
  <2>2. DOMAIN w = D /\ \A p \in D : w[p] = IF p = path THEN f ELSE e[p]
    BY <1>3, <2>1
  <2>3. u \in Trees
    <3> HIDE DEF w
    <3>1. QED
      BY <1>1, <1>4 DEF Trees
  <2>4. Leads(u)
    <3> SUFFICES ASSUME NEW p \in D, w[p] # NoFunc
                 PROVE  w[p] \in 1..Len(t.funcs) /\ t.funcs[w[p]].freed = 0 /\ Path(t.funcs[w[p]].name) = p
      BY <2>2 DEF Leads
    <3>1. CASE p = path
      BY <2>2, <3>1
    <3>2. CASE p # path
      <4>1. w[p] = e[p] /\ e[p] # NoFunc /\ p \in DOMAIN t.value /\ e[p] = t.value[p]
        BY <2>2, <3>2
      <4> HIDE DEF w, e
      <4>2. QED
        BY <4>1 DEF Tables, Leads
    <3>3. QED
      BY <3>1, <3>2
  <2>5. Joins(t, w, path, f)
    BY <2>1, <2>2 DEF Joins
  <2>6. QED
    BY <2>3, <2>4, <2>5 DEF Tables
<1>8. /\ grown.funcs = t.funcs /\ u.funcs = t.funcs /\ u.value = w
  OBVIOUS
<1>9. r.ok = ok /\ r.tbl = (IF ok THEN u ELSE Release(grown, f)) /\ r = [ok |-> r.ok, tbl |-> r.tbl]
      /\ ok \in BOOLEAN
  BY <1>2
<1> HIDE DEF grown, u, w, ok, r
<1>10. CASE ok
  BY <1>7, <1>8, <1>9, <1>10 DEF StoredOrNot, r
<1>11. CASE ~ok
  <2>1. /\ Release(grown, f) \in Tables /\ Release(grown, f).value = grown.value
        /\ Len(Release(grown, f).funcs) = Len(grown.funcs)
    BY <1>5, <1>6, <1>8, Released
  <2>2. QED
    BY <1>6, <1>8, <1>9, <1>11, <2>1 DEF StoredOrNot, r
<1>12. QED
  BY <1>10, <1>11

LEMMA AddIs ==
  ASSUME NEW t \in Tables, NEW name \in AllNames, NEW f \in 1..Len(t.funcs), NEW room,
         \A p \in DOMAIN t.value : t.value[p] # f, t.funcs[f] = gm_func_new(name)
  PROVE  StoredOrNot(t, gm_tbl_add(t, name, f, room), Path(name), f)
<1> DEFINE path == Path(name)
           P == Prefixes(SubSeq(path, 1, GoodLength(path)))
           missing == P \ DOMAIN t.value
           made == {p \in missing : Cardinality({q \in missing : Len(q) <= Len(p)}) <= room}
           complete == made = missing /\ GoodLength(path) = Len(path)
<1>1. gm_tbl_add(t, name, f, room) = Store(t, made, path, f, complete)
  BY DEF gm_tbl_add
<1>2. P \in SUBSET Nodes
  BY DEF Nodes
<1>3. ASSUME complete PROVE path \in P
  <2>1. path \in Seq(STRING)
    BY PathAssumption
  <2>2. SubSeq(path, 1, Len(path)) = path /\ Len(path) \in Nat
    BY <2>1
  <2>3. P = Prefixes(path)
    BY <1>3, <2>2
  <2>4. path \in Prefixes(path)
    <3>1. Len(path) \in 0..Len(path)
      BY <2>2
    <3>2. SubSeq(path, 1, Len(path)) \in Prefixes(path)
      BY <3>1 DEF Prefixes
    <3>3. QED
      BY <2>2, <3>2
  <2>5. QED
    BY <2>3, <2>4
<1> HIDE DEF P
<1>4. made \in SUBSET Nodes
  BY <1>2
<1>5. complete => path \in DOMAIN t.value \union made
  BY <1>3
<1>6. complete \in BOOLEAN
  OBVIOUS
<1>7. t.funcs[f].freed = 0 /\ Path(t.funcs[f].name) = path
  BY DEF gm_func_new
<1> HIDE DEF made, complete, path
<1>8. StoredOrNot(t, Store(t, made, path, f, complete), path, f)
  BY <1>4, <1>5, <1>6, <1>7, StoreIs
<1>9. QED
  BY <1>1, <1>8 DEF path

\* A function was added, or the table is as good as before.
Added1(t, u, name, func) ==
  /\ Len(u.funcs) = Len(t.funcs) + 1
  /\ \A g \in 1..Len(t.funcs) : u.funcs[g] = t.funcs[g]
  /\ u.funcs[Len(t.funcs) + 1] = func
  /\ Joins(t, u.value, Path(name), Len(t.funcs) + 1)

LEMMA AddFuncIs ==
  ASSUME NEW t \in Tables, NEW name \in AllNames, NEW room
  PROVE  LET r == gm_add_func(t, name, room)
         IN  /\ r = [ok |-> r.ok, tbl |-> r.tbl, f |-> r.f] /\ r.ok \in BOOLEAN /\ r.tbl \in Tables
             /\ r.ok => r.f = Len(t.funcs) + 1 /\ Added1(t, r.tbl, name, gm_func_new(name))
<1> DEFINE f == Len(t.funcs) + 1
           u == [t EXCEPT !.funcs = Append(@, gm_func_new(name))]
           a == gm_tbl_add(u, name, f, room)
           r == gm_add_func(t, name, room)
<1>1. /\ u \in Tables /\ u.value = t.value /\ Len(u.funcs) = f
      /\ \A g \in 1..Len(t.funcs) : u.funcs[g] = t.funcs[g]
      /\ u.funcs[f] = gm_func_new(name)
      /\ \A p \in DOMAIN t.value : t.value[p] # f
  BY NewFunc
<1>2. r = IF a.ok THEN [ok |-> TRUE, tbl |-> a.tbl, f |-> f]
          ELSE [ok |-> FALSE, tbl |-> Release(a.tbl, f), f |-> NoFunc]
  BY DEF gm_add_func
<1> HIDE DEF u
<1>3. StoredOrNot(u, a, Path(name), f)
  <2>1. f \in 1..Len(u.funcs)
    BY <1>1, TablesType
  <2> HIDE DEF f
  <2>2. QED
    BY <1>1, <2>1, AddIs
<1> HIDE DEF a, r
<1>4. CASE a.ok
  <2>1. a.tbl \in Tables /\ a.tbl.funcs = u.funcs /\ Joins(u, a.tbl.value, Path(name), f)
    BY <1>3, <1>4 DEF StoredOrNot
  <2>2. r.ok /\ r.tbl = a.tbl /\ r.f = f /\ r = [ok |-> r.ok, tbl |-> r.tbl, f |-> r.f]
    BY <1>2, <1>4
  <2>3. Joins(t, a.tbl.value, Path(name), f)
    BY <1>1, <2>1 DEF Joins
  <2>4. Added1(t, a.tbl, name, gm_func_new(name))
    BY <1>1, <2>1, <2>3 DEF Added1
  <2>5. QED
    BY <2>1, <2>2, <2>4 DEF r
<1>5. CASE ~a.ok
  <2>1. /\ a.tbl \in Tables /\ Len(a.tbl.funcs) = f
        /\ \A p \in DOMAIN a.tbl.value : a.tbl.value[p] # f
    BY <1>1, <1>3, <1>5 DEF StoredOrNot
  <2>2. f \in 1..Len(a.tbl.funcs)
    BY <2>1, TablesType
  <2> HIDE DEF f
  <2>3. Release(a.tbl, f) \in Tables
    BY <2>1, <2>2, Released
  <2>4. ~r.ok /\ r.ok \in BOOLEAN /\ r.tbl = Release(a.tbl, f) /\ r = [ok |-> r.ok, tbl |-> r.tbl, f |-> r.f]
    BY <1>2, <1>5
  <2>5. QED
    BY <2>3, <2>4 DEF r
<1>6. QED
  BY <1>4, <1>5

LEMMA FindIs ==
  ASSUME NEW t \in Tables, NEW name \in AllNames
  PROVE  LET f == gm_tbl_find(t, name)
         IN  f # NoFunc =>
               /\ Path(name) \in DOMAIN t.value /\ t.value[Path(name)] = f
               /\ f \in 1..Len(t.funcs) /\ t.funcs[f].freed = 0 /\ t.funcs[f].name = name
<1> DEFINE f == gm_tbl_find(t, name)
<1> SUFFICES ASSUME f # NoFunc
             PROVE  /\ Path(name) \in DOMAIN t.value /\ t.value[Path(name)] = f
                    /\ f \in 1..Len(t.funcs) /\ t.funcs[f].freed = 0 /\ t.funcs[f].name = name
  OBVIOUS
<1>1. Path(name) \in DOMAIN t.value /\ t.value[Path(name)] = f
  BY DEF gm_tbl_find
<1> HIDE DEF f
<1>2. f \in 1..Len(t.funcs) /\ t.funcs[f].freed = 0 /\ Path(t.funcs[f].name) = Path(name)
  BY <1>1 DEF Tables, Leads
<1>3. t.funcs[f].name \in AllNames
  <2>1. t.funcs[f] \in Func
    BY <1>2, TablesType
  <2>2. \A x \in Func : x.name \in AllNames
    BY DEF Func
  <2>3. QED
    BY <2>1, <2>2
<1>4. t.funcs[f].name = name
  BY <1>2, <1>3, PathAssumption
<1>5. QED
  BY <1>1, <1>2, <1>4

\* The function of the name, or a new one.
FoundOrNew(t, r, name, check) ==
  /\ r.ok \in BOOLEAN /\ r.tbl \in Tables
  /\ r.ok => r.f \in 1..Len(r.tbl.funcs)
  /\ r.ok /\ gm_tbl_find(t, name) = NoFunc =>
       r.f = Len(t.funcs) + 1 /\ Added1(t, r.tbl, name, [gm_func_new(name) EXCEPT !.check = check])

LEMMA FindOrAddIs ==
  ASSUME NEW t \in Tables, NEW name \in AllNames, NEW check \in Labels, NEW fault
  PROVE  FoundOrNew(t, FindOrAdd(t, name, check, fault), name, check)
<1> DEFINE r == FindOrAdd(t, name, check, fault)
           room == IF fault.kind = "node" THEN fault.at ELSE Len(Path(name))
           a == gm_add_func(t, name, room)
<1>1. CASE gm_tbl_find(t, name) # NoFunc
  <2>1. r = [ok |-> TRUE, tbl |-> t, f |-> gm_tbl_find(t, name)]
    BY <1>1 DEF FindOrAdd
  <2>2. gm_tbl_find(t, name) \in 1..Len(t.funcs)
    BY <1>1, FindIs
  <2>3. QED
    BY <1>1, <2>1, <2>2 DEF FoundOrNew
<1>2. CASE gm_tbl_find(t, name) = NoFunc /\ fault.kind = "func"
  <2>1. r = [ok |-> FALSE, tbl |-> t, f |-> NoFunc]
    BY <1>2 DEF FindOrAdd
  <2>2. QED
    BY <2>1 DEF FoundOrNew
<1>3. CASE gm_tbl_find(t, name) = NoFunc /\ fault.kind # "func"
  <2>1. r = IF a.ok THEN [a EXCEPT !.tbl.funcs[a.f].check = check] ELSE a
    BY <1>3 DEF FindOrAdd
  <2>2. /\ a = [ok |-> a.ok, tbl |-> a.tbl, f |-> a.f] /\ a.ok \in BOOLEAN /\ a.tbl \in Tables
        /\ a.ok => a.f = Len(t.funcs) + 1 /\ Added1(t, a.tbl, name, gm_func_new(name))
    BY AddFuncIs
  <2> HIDE DEF a, r
  <2>3. CASE ~a.ok
    BY <2>1, <2>2, <2>3 DEF FoundOrNew, r
  <2>4. CASE a.ok
    <3> DEFINE f == a.f
               old == a.tbl.funcs[f]
               new == [old EXCEPT !.check = check]
               u == [value |-> a.tbl.value, funcs |-> [a.tbl.funcs EXCEPT ![f] = new]]
    <3>1. /\ a.tbl = [value |-> a.tbl.value, funcs |-> a.tbl.funcs] /\ a.tbl.funcs \in Seq(Func)
          /\ Len(a.tbl.funcs) = f /\ Len(t.funcs) \in Nat /\ f = Len(t.funcs) + 1
          /\ old = gm_func_new(name)
      BY <2>2, <2>4, TablesType DEF Added1
    <3>2. f \in 1..Len(a.tbl.funcs) /\ old \in Func
      <4>1. f \in 1..Len(a.tbl.funcs)
        BY <3>1
      <4>2. QED
        BY <4>1, <2>2, TablesType
    <3>3. new \in Func /\ new.name = old.name /\ new.freed = old.freed
      <4>1. \A x \in Func : LET y == [x EXCEPT !.check = check] IN y \in Func /\ y.name = x.name /\ y.freed = x.freed
        BY DEF Func
      <4>2. QED
        BY <3>2, <4>1
    <3>4. [a EXCEPT !.tbl.funcs[a.f].check = check] = [ok |-> a.ok, tbl |-> u, f |-> f]
      <4>1. [a EXCEPT !.tbl.funcs[a.f].check = check]
            = [a EXCEPT !.tbl = [a.tbl EXCEPT !.funcs = [a.tbl.funcs EXCEPT ![f] = new]]]
        OBVIOUS
      <4>2. \A fs : [[value |-> a.tbl.value, funcs |-> a.tbl.funcs] EXCEPT !.funcs = fs]
                   = [value |-> a.tbl.value, funcs |-> fs]
        OBVIOUS
      <4>3. \A x : [[ok |-> a.ok, tbl |-> a.tbl, f |-> f] EXCEPT !.tbl = x] = [ok |-> a.ok, tbl |-> x, f |-> f]
        OBVIOUS
      <4> HIDE DEF new
      <4>4. [a.tbl EXCEPT !.funcs = [a.tbl.funcs EXCEPT ![f] = new]] = u
        BY <3>1, <4>2
      <4> HIDE DEF u
      <4>5. QED
        BY <2>2, <4>1, <4>3, <4>4
    <3>5. new = [gm_func_new(name) EXCEPT !.check = check]
      BY <3>1
    <3> HIDE DEF new
    <3>6. /\ u.value = a.tbl.value /\ u.funcs \in Seq(Func) /\ Len(u.funcs) = f
          /\ \A g \in 1..f : u.funcs[g] = IF g = f THEN new ELSE a.tbl.funcs[g]
      BY <3>1, <3>2, <3>3
    <3>7. u = [value |-> u.value, funcs |-> u.funcs]
      OBVIOUS
    <3> HIDE DEF u
    <3>8. u \in Tables
      <4>1. \A g \in 1..Len(a.tbl.funcs) :
              u.funcs[g].name = a.tbl.funcs[g].name /\ u.funcs[g].freed = a.tbl.funcs[g].freed
        BY <3>1, <3>3, <3>6
      <4> HIDE DEF old, f
      <4>2. Len(u.funcs) >= Len(a.tbl.funcs)
        BY <3>1, <3>6
      <4>3. QED
        BY <2>2, <3>6, <3>7, <4>1, <4>2, Kept
    <3>9. Added1(t, u, name, new)
      <4>1. /\ \A g \in 1..Len(t.funcs) : a.tbl.funcs[g] = t.funcs[g]
            /\ Joins(t, a.tbl.value, Path(name), Len(t.funcs) + 1)
        BY <2>2, <2>4 DEF Added1
      <4>2. \A g \in 1..Len(t.funcs) : g \in 1..f /\ g # f
        BY <3>1
      <4>3. f \in 1..f /\ f = Len(t.funcs) + 1
        BY <3>1
      <4>4. QED
        BY <3>6, <4>1, <4>2, <4>3 DEF Added1
    <3>10. r.ok = a.ok /\ r.tbl = u /\ r.f = f
      BY <2>1, <2>4, <3>4
    <3>11. f \in 1..Len(u.funcs)
      BY <3>1, <3>6
    <3>12. QED
      BY <2>4, <3>1, <3>5, <3>8, <3>9, <3>10, <3>11 DEF FoundOrNew, r
  <2>5. QED
    BY <2>3, <2>4
<1>4. QED
  BY <1>1, <1>2, <1>3

\* A table with one more function and its kernels.
HasMore(t, u, name, check, batch) ==
  \E func : /\ Added1(t, u, name, func)
            /\ func.name = name /\ func.check = check
            /\ func.batches = IF batch.n = 0 THEN << >> ELSE <<batch>>

LEMMA KernelsAdded ==
  ASSUME NEW t \in Tables, NEW name \in AllNames, NEW batch \in Group, NEW check \in Labels,
         NEW fault, IsFault(fault)
  PROVE  LET r == gm_add_kernels(t, name, batch, check, fault)
         IN  /\ r \in [ok : BOOLEAN, tbl : Tables]
             /\ r.ok /\ gm_tbl_find(t, name) = NoFunc => HasMore(t, r.tbl, name, check, batch)
<1> DEFINE a == FindOrAdd(t, name, check, fault)
           d == AddBatch(a.tbl, a.f, batch, fault)
           r == gm_add_kernels(t, name, batch, check, fault)
<1>1. r = IF a.ok THEN d ELSE [ok |-> FALSE, tbl |-> a.tbl]
  BY DEF gm_add_kernels
<1>2. FoundOrNew(t, a, name, check)
  BY FindOrAddIs
<1> HIDE DEF a, r
<1>3. CASE ~a.ok
  <2>1. r = [ok |-> FALSE, tbl |-> a.tbl] /\ a.tbl \in Tables
    BY <1>1, <1>2, <1>3 DEF FoundOrNew
  <2>2. QED
    BY <2>1 DEF r
<1>4. CASE a.ok
  <2>1. a.tbl \in Tables /\ a.f \in 1..Len(a.tbl.funcs)
    BY <1>2, <1>4 DEF FoundOrNew
  <2>2. /\ d = [ok |-> d.ok, tbl |-> d.tbl] /\ d.ok \in BOOLEAN /\ Grown(a.tbl, d.tbl, a.f)
        /\ d.ok /\ batch.n = 0 => d.tbl.funcs[a.f].batches = a.tbl.funcs[a.f].batches
        /\ d.ok /\ batch.n # 0 => d.tbl.funcs[a.f].batches = Append(a.tbl.funcs[a.f].batches, batch)
    BY <2>1, BatchAdded
  <2>3. r = d
    BY <1>1, <1>4
  <2> HIDE DEF d
  <2>4. d \in [ok : BOOLEAN, tbl : Tables]
    <3>1. d.tbl \in Tables
      BY <2>2 DEF Grown
    <3>2. QED
      BY <2>2, <3>1
  <2>5. ASSUME d.ok, gm_tbl_find(t, name) = NoFunc PROVE HasMore(t, d.tbl, name, check, batch)
    <3> DEFINE func == d.tbl.funcs[a.f]
               new == [gm_func_new(name) EXCEPT !.check = check]
    <3>1. a.f = Len(t.funcs) + 1 /\ Added1(t, a.tbl, name, new)
      BY <1>2, <1>4, <2>5 DEF FoundOrNew
    <3>2. new.name = name /\ new.check = check /\ new.batches = << >>
      BY DEF gm_func_new
    <3> HIDE DEF new
    <3>3. /\ d.tbl.value = a.tbl.value /\ Len(d.tbl.funcs) = Len(a.tbl.funcs)
          /\ \A g \in 1..Len(a.tbl.funcs) : g # a.f => d.tbl.funcs[g] = a.tbl.funcs[g]
          /\ func.name = a.tbl.funcs[a.f].name /\ func.check = a.tbl.funcs[a.f].check
      BY <2>2 DEF Grown
    <3>4. Len(t.funcs) \in Nat /\ Len(a.tbl.funcs) = Len(t.funcs) + 1 /\ a.tbl.funcs[a.f] = new
      BY <3>1, TablesType DEF Added1
    <3>5. func.batches = IF batch.n = 0 THEN << >> ELSE <<batch>>
      <4>1. Append(<< >>, batch) = <<batch>>
        OBVIOUS
      <4>2. QED
        BY <2>2, <2>5, <3>2, <3>4, <4>1
    <3>6. func.name = name /\ func.check = check
      BY <3>2, <3>3, <3>4
    <3>7. Added1(t, d.tbl, name, func)
      <4>1. \A g \in 1..Len(t.funcs) : g \in 1..Len(a.tbl.funcs) /\ g # a.f
        BY <3>1, <3>4
      <4>2. QED
        BY <3>1, <3>3, <3>4, <4>1 DEF Added1
    <3> HIDE DEF func
    <3>8. QED
      BY <3>5, <3>6, <3>7 DEF HasMore
  <2>6. QED
    BY <2>3, <2>4, <2>5 DEF r
<1>5. QED
  BY <1>3, <1>4

-----------------------------------------------------------------------------
(* Lists of a known length, whatever their elements are.                   *)

IsList(s, m) == m \in Nat /\ DOMAIN s = 1..m /\ s = [i \in 1..m |-> s[i]]

LEMMA ListIs == ASSUME NEW s, NEW m, IsList(s, m) PROVE s \in Seq({s[i] : i \in 1..m}) /\ Len(s) = m
<1> DEFINE S == {s[i] : i \in 1..m}
<1>1. \A i \in 1..m : s[i] \in S
  OBVIOUS
<1> HIDE DEF S
<1>2. s \in Seq(S) /\ Len(s) = m
  BY <1>1 DEF IsList
<1>3. QED
  BY <1>2 DEF S

LEMMA SeqList == ASSUME NEW S, NEW s \in Seq(S) PROVE IsList(s, Len(s))
BY DEF IsList

\* Two lists, one after the other.
AreJoined(u, s, m, t, n) == IsList(u, m + n) /\ \A i \in 1..(m + n) : u[i] = IF i <= m THEN s[i] ELSE t[i-m]

LEMMA Joined ==
  ASSUME NEW s, NEW t, NEW m, NEW n, IsList(s, m), IsList(t, n)
  PROVE  AreJoined(s \o t, s, m, t, n)
<1> DEFINE A == {s[i] : i \in 1..m}
           B == {t[i] : i \in 1..n}
           S == A \union B
<1>1. s \in Seq(A) /\ t \in Seq(B) /\ Len(s) = m /\ Len(t) = n /\ m \in Nat /\ n \in Nat
  BY ListIs DEF IsList
<1> HIDE DEF A, B
<1>2. s \in Seq(S) /\ t \in Seq(S)
  BY <1>1
<1> HIDE DEF S
<1>3. /\ s \o t \in Seq(S) /\ Len(s \o t) = Len(s) + Len(t)
      /\ \A i \in 1..(Len(s) + Len(t)) : (s \o t)[i] = IF i <= Len(s) THEN s[i] ELSE t[i-Len(s)]
  BY <1>2, ConcatProperties
<1>4. IsList(s \o t, Len(s \o t))
  BY <1>3, SeqList
<1>5. Len(s \o t) = m + n
  BY <1>1, <1>3
<1>6. QED
  BY <1>1, <1>3, <1>4, <1>5 DEF AreJoined

LEMMA TailList ==
  ASSUME NEW s, NEW m, NEW k, IsList(s, m), m # 0, k = m - 1
  PROVE  IsList(Tail(s), k) /\ \A i \in 1..k : Tail(s)[i] = s[i+1]
<1> DEFINE S == {s[i] : i \in 1..m}
<1>1. s \in Seq(S) /\ Len(s) = m /\ m \in Nat
  BY ListIs DEF IsList
<1> HIDE DEF S
<1>2. s # << >>
  BY <1>1
<1>3. Tail(s) \in Seq(S) /\ Len(Tail(s)) = Len(s) - 1 /\ \A i \in 1..Len(Tail(s)) : Tail(s)[i] = s[i+1]
  BY <1>1, <1>2, HeadTailProperties
<1>4. IsList(Tail(s), Len(Tail(s)))
  BY <1>3, SeqList
<1>5. QED
  BY <1>1, <1>3, <1>4

-----------------------------------------------------------------------------
(* The functions that are registered: each once.                           *)

\* The place of a name in the order in which the names are registered, with 100 for each family.
NameNr(name) ==
  CASE name = "copy" -> 101 [] name = "abs" -> 102
    [] name = "reduce_add" -> 201 [] name = "reduce_multiply" -> 202
    [] name = "invert" -> 301 [] name = "negative" -> 401
    [] name = "fabs" -> 501 [] name = "exp" -> 502 [] name = "exp2" -> 503 [] name = "expm1" -> 504
    [] name = "log" -> 505 [] name = "log2" -> 506 [] name = "log10" -> 507 [] name = "log1p" -> 508
    [] name = "logb" -> 509 [] name = "sqrt" -> 510 [] name = "cbrt" -> 511
    [] name = "sin" -> 512 [] name = "cos" -> 513 [] name = "tan" -> 514 [] name = "asin" -> 515
    [] name = "acos" -> 516 [] name = "atan" -> 517 [] name = "sinh" -> 518 [] name = "cosh" -> 519
    [] name = "tanh" -> 520 [] name = "asinh" -> 521 [] name = "acosh" -> 522 [] name = "atanh" -> 523
    [] name = "erf" -> 524 [] name = "erfc" -> 525 [] name = "lgamma" -> 526 [] name = "tgamma" -> 527
    [] name = "ceil" -> 528 [] name = "floor" -> 529 [] name = "trunc" -> 530 [] name = "round" -> 531
    [] name = "nearbyint" -> 532
    [] name = "add" -> 601 [] name = "subtract" -> 602 [] name = "multiply" -> 603
    [] name = "floor_divide" -> 701 [] name = "remainder" -> 702
    [] name = "divide" -> 801 [] name = "power" -> 901
    [] name = "less" -> 1001 [] name = "less_equal" -> 1002 [] name = "greater_equal" -> 1003
    [] name = "greater" -> 1004 [] name = "equal" -> 1005 [] name = "not_equal" -> 1006
    [] name = "equaln" -> 1101
    [] name = "bitwise_and" -> 1201 [] name = "bitwise_or" -> 1202 [] name = "bitwise_xor" -> 1203
    [] name = "divmod" -> 1301

Families == Labels \ {"none", "user"}
IsFam(x, n) ==
  /\ x.family \in Families
  /\ \E m \in 1..99 : DOMAIN x.names = 1..m /\ \A j \in 1..m : NameNr(x.names[j]) = n + j

LEMMA UnaryFams ==
  /\ IsList(CpuUnaryInit, 4)
  /\ \A i \in 1..4 : IsFam(CpuUnaryInit[i], IF i = 1 THEN 100 ELSE 100 * (i + 1))
<1>1. IsList(CpuUnaryInit, 4)
  BY DEF IsList, CpuUnaryInit
<1>2. IsFam(CpuUnaryInit[1], 100)
  <2>1. CpuUnaryInit[1].family = "copy" /\ CpuUnaryInit[1].names = <<"copy", "abs">>
    BY DEF CpuUnaryInit, Fam
  <2>2. DOMAIN <<"copy", "abs">> = 1..2 /\ \A j \in 1..2 : NameNr(<<"copy", "abs">>[j]) = 100 + j
    BY DEF NameNr
  <2>3. QED
    BY <2>1, <2>2 DEF IsFam, Families, Labels
<1>3. IsFam(CpuUnaryInit[2], 300)
  <2>1. CpuUnaryInit[2].family = "invert" /\ CpuUnaryInit[2].names = <<"invert">>
    BY DEF CpuUnaryInit, Fam
  <2>2. DOMAIN <<"invert">> = 1..1 /\ \A j \in 1..1 : NameNr(<<"invert">>[j]) = 300 + j
    BY DEF NameNr
  <2>3. QED
    BY <2>1, <2>2 DEF IsFam, Families, Labels
<1>4. IsFam(CpuUnaryInit[3], 400)
  <2>1. CpuUnaryInit[3].family = "negative" /\ CpuUnaryInit[3].names = <<"negative">>
    BY DEF CpuUnaryInit, Fam
  <2>2. DOMAIN <<"negative">> = 1..1 /\ \A j \in 1..1 : NameNr(<<"negative">>[j]) = 400 + j
    BY DEF NameNr
  <2>3. QED
    BY <2>1, <2>2 DEF IsFam, Families, Labels
<1>5. IsFam(CpuUnaryInit[4], 500)
  <2> DEFINE names == CpuUnaryInit[4].names
  <2>1. CpuUnaryInit[4].family = "math" /\ DOMAIN names = 1..32
    BY DEF CpuUnaryInit, Fam
  <2>2. \A j \in 1..32 : NameNr(names[j]) = 500 + j
    BY DEF NameNr, CpuUnaryInit, Fam
  <2>3. 32 \in 1..99
    OBVIOUS
  <2>4. QED
    BY <2>1, <2>2, <2>3 DEF IsFam, Families, Labels
<1>6. QED
  BY <1>1, <1>2, <1>3, <1>4, <1>5

LEMMA BinaryFams ==
  /\ IsList(CpuBinaryInit, 8)
  /\ \A i \in 1..8 : IsFam(CpuBinaryInit[i], 100 * (i + 5))
<1>1. IsList(CpuBinaryInit, 8)
  BY DEF IsList, CpuBinaryInit
<1>2. IsFam(CpuBinaryInit[1], 600)
  <2>1. CpuBinaryInit[1].family = "arithmetic" /\ CpuBinaryInit[1].names = <<"add", "subtract", "multiply">>
    BY DEF CpuBinaryInit, Fam
  <2>2. /\ DOMAIN <<"add", "subtract", "multiply">> = 1..3
        /\ \A j \in 1..3 : NameNr(<<"add", "subtract", "multiply">>[j]) = 600 + j
    BY DEF NameNr
  <2>3. QED
    BY <2>1, <2>2 DEF IsFam, Families, Labels
<1>3. IsFam(CpuBinaryInit[2], 700)
  <2>1. CpuBinaryInit[2].family = "nocomplex" /\ CpuBinaryInit[2].names = <<"floor_divide", "remainder">>
    BY DEF CpuBinaryInit, Fam
  <2>2. DOMAIN <<"floor_divide", "remainder">> = 1..2 /\ \A j \in 1..2 : NameNr(<<"floor_divide", "remainder">>[j]) = 700 + j
    BY DEF NameNr
  <2>3. QED
    BY <2>1, <2>2 DEF IsFam, Families, Labels
<1>4. IsFam(CpuBinaryInit[3], 800)
  <2>1. CpuBinaryInit[3].family = "divide" /\ CpuBinaryInit[3].names = <<"divide">>
    BY DEF CpuBinaryInit, Fam
  <2>2. DOMAIN <<"divide">> = 1..1 /\ \A j \in 1..1 : NameNr(<<"divide">>[j]) = 800 + j
    BY DEF NameNr
  <2>3. QED
    BY <2>1, <2>2 DEF IsFam, Families, Labels
<1>5. IsFam(CpuBinaryInit[4], 900)
  <2>1. CpuBinaryInit[4].family = "arithmetic" /\ CpuBinaryInit[4].names = <<"power">>
    BY DEF CpuBinaryInit, Fam
  <2>2. DOMAIN <<"power">> = 1..1 /\ \A j \in 1..1 : NameNr(<<"power">>[j]) = 900 + j
    BY DEF NameNr
  <2>3. QED
    BY <2>1, <2>2 DEF IsFam, Families, Labels
<1>6. IsFam(CpuBinaryInit[5], 1000)
  <2>1. /\ CpuBinaryInit[5].family = "comparison"
        /\ CpuBinaryInit[5].names = <<"less", "less_equal", "greater_equal", "greater", "equal", "not_equal">>
    BY DEF CpuBinaryInit, Fam
  <2>2. /\ DOMAIN <<"less", "less_equal", "greater_equal", "greater", "equal", "not_equal">> = 1..6
        /\ \A j \in 1..6 :
             NameNr(<<"less", "less_equal", "greater_equal", "greater", "equal", "not_equal">>[j]) = 1000 + j
    BY DEF NameNr
  <2>3. QED
    BY <2>1, <2>2 DEF IsFam, Families, Labels
<1>7. IsFam(CpuBinaryInit[6], 1100)
  <2>1. CpuBinaryInit[6].family = "equaln" /\ CpuBinaryInit[6].names = <<"equaln">>
    BY DEF CpuBinaryInit, Fam
  <2>2. DOMAIN <<"equaln">> = 1..1 /\ \A j \in 1..1 : NameNr(<<"equaln">>[j]) = 1100 + j
    BY DEF NameNr
  <2>3. QED
    BY <2>1, <2>2 DEF IsFam, Families, Labels
<1>8. IsFam(CpuBinaryInit[7], 1200)
  <2>1. CpuBinaryInit[7].family = "bitwise" /\ CpuBinaryInit[7].names = <<"bitwise_and", "bitwise_or", "bitwise_xor">>
    BY DEF CpuBinaryInit, Fam
  <2>2. /\ DOMAIN <<"bitwise_and", "bitwise_or", "bitwise_xor">> = 1..3
        /\ \A j \in 1..3 : NameNr(<<"bitwise_and", "bitwise_or", "bitwise_xor">>[j]) = 1200 + j
    BY DEF NameNr
  <2>3. QED
    BY <2>1, <2>2 DEF IsFam, Families, Labels
<1>9. IsFam(CpuBinaryInit[8], 1300)
  <2>1. CpuBinaryInit[8].family = "mv" /\ CpuBinaryInit[8].names = <<"divmod">>
    BY DEF CpuBinaryInit, Fam
  <2>2. DOMAIN <<"divmod">> = 1..1 /\ \A j \in 1..1 : NameNr(<<"divmod">>[j]) = 1300 + j
    BY DEF NameNr
  <2>3. QED
    BY <2>1, <2>2 DEF IsFam, Families, Labels
<1>10. QED
  BY <1>1, <1>2, <1>3, <1>4, <1>5, <1>6, <1>7, <1>8, <1>9

LEMMA ReduceFam == IsFam(Fam("reduce", <<"reduce_add", "reduce_multiply">>), 200)
<1>1. DOMAIN <<"reduce_add", "reduce_multiply">> = 1..2
      /\ \A j \in 1..2 : NameNr(<<"reduce_add", "reduce_multiply">>[j]) = 200 + j
  BY DEF NameNr
<1>2. QED
  BY <1>1 DEF IsFam, Fam, Families, Labels

\* The family at a place, by the number of its names.
FamNr(i) == IF b = "cpu" /\ i > 1 THEN i + 1 ELSE i

LEMMA CudaUnaryFams ==
  IsList(CudaUnaryInit, 5) /\ \A i \in 1..5 : IsFam(CudaUnaryInit[i], 100 * i)
<1> DEFINE A == <<CpuUnaryInit[1], Fam("reduce", <<"reduce_add", "reduce_multiply">>)>>
           T == Tail(CpuUnaryInit)
<1>1. IsList(A, 2)
  BY DEF IsList
<1>2. IsList(T, 3) /\ \A i \in 1..3 : T[i] = CpuUnaryInit[i+1]
  <2>1. 3 = 4 - 1 /\ 4 # 0 /\ IsList(CpuUnaryInit, 4)
    BY UnaryFams
  <2>2. QED
    BY <2>1, TailList
<1>3. IsFam(A[1], 100) /\ IsFam(A[2], 200)
  <2>1. IsFam(CpuUnaryInit[1], 100)
    BY UnaryFams
  <2>2. QED
    BY <2>1, ReduceFam
<1>4. CudaUnaryInit = A \o T
  BY DEF CudaUnaryInit
<1> HIDE DEF A, T
<1>5. IsList(A \o T, 5) /\ \A i \in 1..5 : (A \o T)[i] = IF i <= 2 THEN A[i] ELSE T[i-2]
  <2>1. AreJoined(A \o T, A, 2, T, 3)
    BY <1>1, <1>2, Joined
  <2>2. 2 + 3 = 5
    OBVIOUS
  <2>3. IsList(A \o T, 5)
    BY <2>1, <2>2 DEF AreJoined
  <2>4. QED
    BY <2>1, <2>2, <2>3 DEF AreJoined
<1>6. ASSUME NEW i \in 1..5 PROVE IsFam((A \o T)[i], 100 * i)
  <2>1. CASE i = 1
    <3>1. 1 \in 1..5 /\ 1 <= 2
      OBVIOUS
    <3>2. (A \o T)[1] = A[1]
      BY <1>5, <3>1
    <3>3. QED
      BY <1>3, <2>1, <3>2
  <2>2. CASE i = 2
    <3>1. 2 \in 1..5 /\ 2 <= 2
      OBVIOUS
    <3>2. (A \o T)[2] = A[2]
      BY <1>5, <3>1
    <3>3. QED
      BY <1>3, <2>2, <3>2
  <2>3. CASE i > 2
    <3>1. i-2 \in 1..3 /\ i-1 \in 1..4 /\ i-1 # 1 /\ (i-1)+1 = i /\ (i-2)+1 = i-1 /\ ~(i <= 2)
      BY <2>3
    <3>2. (A \o T)[i] = CpuUnaryInit[i-1]
      BY <1>2, <1>5, <3>1
    <3>3. IsFam(CpuUnaryInit[i-1], 100 * i)
      BY <3>1, UnaryFams
    <3>4. QED
      BY <3>2, <3>3
  <2>4. i = 1 \/ i = 2 \/ i > 2
    OBVIOUS
  <2>5. QED
    BY <2>1, <2>2, <2>3, <2>4
<1>7. QED
  BY <1>4, <1>5, <1>6

LEMMA RegisteredFams ==
  ASSUME b \in {"cpu", "cuda"}
  PROVE  \E n \in Nat \ {0} :
           IsList(Registered, n) /\ \A i \in 1..n : IsFam(Registered[i], 100 * FamNr(i))
<1>1. CASE b = "cpu"
  <2>1. Registered = CpuUnaryInit \o CpuBinaryInit
    BY <1>1 DEF Registered
  <2>2. /\ IsList(Registered, 12)
        /\ \A i \in 1..12 : Registered[i] = IF i <= 4 THEN CpuUnaryInit[i] ELSE CpuBinaryInit[i-4]
    <3>1. AreJoined(Registered, CpuUnaryInit, 4, CpuBinaryInit, 8)
      BY <2>1, UnaryFams, BinaryFams, Joined
    <3>2. 4 + 8 = 12
      OBVIOUS
    <3>3. IsList(Registered, 12)
      BY <3>1, <3>2 DEF AreJoined
    <3>4. QED
      BY <3>1, <3>2, <3>3 DEF AreJoined
  <2>3. ASSUME NEW i \in 1..12 PROVE IsFam(Registered[i], 100 * FamNr(i))
    <3>1. CASE i <= 4
      <4>1. i \in 1..4 /\ 100 * FamNr(i) = IF i = 1 THEN 100 ELSE 100 * (i + 1)
        BY <1>1, <3>1 DEF FamNr
      <4>2. IsFam(CpuUnaryInit[i], 100 * FamNr(i))
        BY <4>1, UnaryFams
      <4>3. QED
        BY <2>2, <3>1, <4>2
    <3>2. CASE i > 4
      <4>1. i-4 \in 1..8 /\ (i-4) + 5 = i + 1 /\ FamNr(i) = i + 1 /\ ~(i <= 4)
        BY <1>1, <3>2 DEF FamNr
      <4>2. IsFam(CpuBinaryInit[i-4], 100 * FamNr(i))
        BY <4>1, BinaryFams
      <4>3. QED
        BY <2>2, <4>1, <4>2
    <3>3. QED
      BY <3>1, <3>2
  <2>4. QED
    BY <2>2, <2>3
<1>2. CASE b = "cuda"
  <2>1. Registered = CudaUnaryInit \o CpuBinaryInit
    BY <1>2 DEF Registered, CudaBinaryInit
  <2>2. /\ IsList(Registered, 13)
        /\ \A i \in 1..13 : Registered[i] = IF i <= 5 THEN CudaUnaryInit[i] ELSE CpuBinaryInit[i-5]
    <3>1. AreJoined(Registered, CudaUnaryInit, 5, CpuBinaryInit, 8)
      BY <2>1, CudaUnaryFams, BinaryFams, Joined
    <3>2. 5 + 8 = 13
      OBVIOUS
    <3>3. IsList(Registered, 13)
      BY <3>1, <3>2 DEF AreJoined
    <3>4. QED
      BY <3>1, <3>2, <3>3 DEF AreJoined
  <2>3. ASSUME NEW i \in 1..13 PROVE IsFam(Registered[i], 100 * FamNr(i))
    <3>1. FamNr(i) = i
      BY <1>2 DEF FamNr
    <3>2. CASE i <= 5
      <4>1. IsFam(CudaUnaryInit[i], 100 * i)
        BY <3>2, CudaUnaryFams
      <4>2. QED
        BY <2>2, <3>1, <3>2, <4>1
    <3>3. CASE i > 5
      <4>1. i-5 \in 1..8 /\ (i-5) + 5 = i /\ ~(i <= 5)
        BY <3>3
      <4>2. IsFam(CpuBinaryInit[i-5], 100 * i)
        BY <4>1, BinaryFams
      <4>3. QED
        BY <2>2, <3>1, <4>1, <4>2
    <3>4. QED
      BY <3>2, <3>3
  <2>4. QED
    BY <2>2, <2>3
<1>3. QED
  BY <1>1, <1>2

\* No name is registered twice, and each family has kernels.
Once(R) ==
  /\ Len(R) \in Nat \ {0} /\ DOMAIN R = 1..Len(R)
  /\ \A i \in 1..Len(R) : R[i].family \in Families /\ \E m \in Nat : DOMAIN R[i].names = 1..m
  /\ \A i, k \in 1..Len(R) : \A j \in DOMAIN R[i].names, l \in DOMAIN R[k].names :
       R[i].names[j] = R[k].names[l] => i = k /\ j = l

LEMMA RegisteredOnce == ASSUME b \in {"cpu", "cuda"} PROVE Once(Registered)
<1> DEFINE R == Registered
           N(i) == 100 * FamNr(i)
<1>1. /\ Len(R) \in Nat \ {0} /\ DOMAIN R = 1..Len(R)
      /\ \A i \in 1..Len(R) : IsFam(R[i], N(i))
  <2>1. PICK n \in Nat \ {0} : IsList(R, n) /\ \A i \in 1..n : IsFam(R[i], N(i))
    BY RegisteredFams
  <2> HIDE DEF R
  <2>2. Len(R) = n /\ DOMAIN R = 1..n
    BY <2>1, ListIs DEF IsList
  <2>3. QED
    BY <2>1, <2>2
<1>2. \A i \in 1..Len(R) : FamNr(i) \in Nat
  BY <1>1 DEF FamNr
<1>3. \A i, k \in 1..Len(R) : FamNr(i) = FamNr(k) => i = k
  BY <1>1 DEF FamNr
<1> HIDE DEF R
<1>4. ASSUME NEW i \in 1..Len(R)
      PROVE  /\ R[i].family \in Families /\ \E m \in Nat : DOMAIN R[i].names = 1..m
             /\ \A j \in DOMAIN R[i].names : j \in 1..99 /\ NameNr(R[i].names[j]) = 100 * FamNr(i) + j
  <2>1. PICK m \in 1..99 : DOMAIN R[i].names = 1..m /\ \A j \in 1..m : NameNr(R[i].names[j]) = N(i) + j
    BY <1>1 DEF IsFam
  <2>2. R[i].family \in Families
    BY <1>1 DEF IsFam
  <2>3. ASSUME NEW j \in DOMAIN R[i].names
        PROVE  j \in 1..99 /\ NameNr(R[i].names[j]) = 100 * FamNr(i) + j
    <3>1. j \in 1..m
      BY <2>1
    <3>2. j \in 1..99
      BY <2>1, <3>1
    <3>3. QED
      BY <2>1, <3>1, <3>2
  <2>4. \E n \in Nat : DOMAIN R[i].names = 1..n
    <3>1. m \in 1..99 /\ DOMAIN R[i].names = 1..m
      BY <2>1, Zenon
    <3>2. 1..99 \subseteq Nat
      OBVIOUS
    <3>3. QED
      BY <3>1, <3>2, Zenon
  <2>5. QED
    BY <2>2, <2>3, <2>4
<1>5. ASSUME NEW i \in 1..Len(R), NEW k \in 1..Len(R), NEW j \in DOMAIN R[i].names, NEW l \in DOMAIN R[k].names,
             R[i].names[j] = R[k].names[l]
      PROVE  i = k /\ j = l
  <2>1. /\ j \in 1..99 /\ l \in 1..99 /\ NameNr(R[i].names[j]) = 100 * FamNr(i) + j
        /\ NameNr(R[k].names[l]) = 100 * FamNr(k) + l
    BY <1>4
  <2>2. 100 * FamNr(i) + j = 100 * FamNr(k) + l
    BY <1>5, <2>1
  <2>3. FamNr(i) \in Nat /\ FamNr(k) \in Nat
    BY <1>2
  <2>4. FamNr(i) = FamNr(k) /\ j = l
    <3>1. \A x, y \in Nat : \A c, d \in 1..99 : 100 * x + c = 100 * y + d => x = y /\ c = d
      OBVIOUS
    <3> DEFINE x == FamNr(i)
               y == FamNr(k)
    <3>2. x \in Nat /\ y \in Nat /\ 100 * x + j = 100 * y + l
      BY <2>2, <2>3
    <3> HIDE DEF x, y
    <3>3. x = y /\ j = l
      BY <2>1, <3>1, <3>2
    <3>4. QED
      BY <3>3 DEF x, y
  <2>5. QED
    BY <1>3, <2>4
<1>6. Once(R)
  BY <1>1, <1>4, <1>5 DEF Once
<1>7. QED
  BY <1>6 DEF R

-----------------------------------------------------------------------------
(* The list of what is registered.                                         *)

Entry(R, k, j) == [name |-> R[k].names[j], family |-> R[k].family]
Entries(R) == UNION {{Entry(R, k, j) : j \in DOMAIN R[k].names} : k \in 1..Len(R)}

\* A list of the functions of the first families, each function once.
Listed(R, s, i) ==
  /\ \A p \in 1..Len(s) : \E k \in 1..i : \E j \in DOMAIN R[k].names : s[p] = Entry(R, k, j)
  /\ \A k \in 1..i : \A j \in DOMAIN R[k].names : \E p \in 1..Len(s) : s[p] = Entry(R, k, j)
  /\ \A p, q \in 1..Len(s) : s[p].name = s[q].name => p = q

LEMMA ListedNext ==
  ASSUME NEW R, Once(R), NEW i \in 1..Len(R), NEW s \in Seq(Entries(R)), Listed(R, s, i-1),
         NEW m \in Nat, DOMAIN R[i].names = 1..m, NEW f \in Seq(Entries(R)), Len(f) = m,
         \A j \in 1..m : f[j] = Entry(R, i, j)
  PROVE  Listed(R, s \o f, i)
<1> DEFINE u == s \o f
           L == Len(s)
           X == Entries(R)
<1>0. L \in Nat /\ i \in Nat /\ i \in 1..i /\ Len(R) \in Nat /\ i-1 \in 0..(Len(R)-1)
  BY DEF Once
<1> HIDE DEF X
<1>1. /\ Len(u) = L + m /\ \A p \in 1..(L + m) : u[p] = IF p <= L THEN s[p] ELSE f[p - L]
  BY ConcatProperties DEF X
<1> HIDE DEF u, L
<1>2. \A p \in 1..L : p \in 1..(L + m) /\ u[p] = s[p]
  BY <1>0, <1>1
<1>3. \A j \in 1..m : L + j \in 1..(L + m) /\ u[L + j] = Entry(R, i, j)
  <2> SUFFICES ASSUME NEW j \in 1..m PROVE L + j \in 1..(L + m) /\ u[L + j] = Entry(R, i, j)
    OBVIOUS
  <2>1. L + j \in 1..(L + m) /\ ~(L + j <= L) /\ (L + j) - L = j
    BY <1>0
  <2>2. QED
    BY <1>1, <2>1
<1>4. \A p \in 1..(L + m) : p \in 1..L \/ \E j \in 1..m : p = L + j
  <2> SUFFICES ASSUME NEW p \in 1..(L + m), ~(p \in 1..L) PROVE \E j \in 1..m : p = L + j
    OBVIOUS
  <2>1. p - L \in 1..m /\ p = L + (p - L)
    BY <1>0
  <2>2. QED
    BY <2>1
<1>5. \A k \in 1..i : k = i \/ k \in 1..(i-1)
  BY <1>0
<1>6. \A k \in 1..(i-1) : k \in 1..i /\ k \in 1..Len(R) /\ k # i
  BY <1>0
<1>7. ASSUME NEW p \in 1..(L + m) PROVE \E k \in 1..i : \E j \in DOMAIN R[k].names : u[p] = Entry(R, k, j)
  <2>1. CASE p \in 1..L
    <3>1. \E k \in 1..(i-1) : \E j \in DOMAIN R[k].names : s[p] = Entry(R, k, j)
      BY <2>1 DEF Listed, L
    <3>2. QED
      BY <1>2, <1>6, <2>1, <3>1
  <2>2. CASE \E j \in 1..m : p = L + j
    BY <1>0, <1>3, <2>2
  <2>3. QED
    BY <1>4, <2>1, <2>2
<1>8. ASSUME NEW k \in 1..i, NEW j \in DOMAIN R[k].names PROVE \E p \in 1..(L + m) : u[p] = Entry(R, k, j)
  <2>1. CASE k = i
    BY <1>3, <2>1
  <2>2. CASE k \in 1..(i-1)
    <3>1. \E p \in 1..L : s[p] = Entry(R, k, j)
      BY <2>2 DEF Listed, L
    <3>2. QED
      BY <1>2, <3>1
  <2>3. QED
    BY <1>5, <2>1, <2>2
<1>9. ASSUME NEW p \in 1..L, NEW j \in 1..m PROVE u[p].name # u[L + j].name
  <2>1. PICK k \in 1..(i-1) : \E l \in DOMAIN R[k].names : s[p] = Entry(R, k, l)
    BY DEF Listed, L
  <2>2. PICK l \in DOMAIN R[k].names : s[p] = Entry(R, k, l)
    BY <2>1
  <2>3. u[p].name = R[k].names[l] /\ u[L + j].name = R[i].names[j]
    BY <1>2, <1>3, <2>2 DEF Entry
  <2>4. QED
    BY <1>6, <2>1, <2>2, <2>3 DEF Once
<1>10. ASSUME NEW j \in 1..m, NEW l \in 1..m, u[L + j].name = u[L + l].name PROVE j = l
  <2>1. R[i].names[j] = R[i].names[l]
    BY <1>3, <1>10 DEF Entry
  <2>2. QED
    BY <2>1 DEF Once
<1>11. ASSUME NEW p \in 1..L, NEW q \in 1..L, u[p].name = u[q].name PROVE p = q
  BY <1>2, <1>11 DEF Listed, L
<1>12. ASSUME NEW p \in 1..(L + m), NEW q \in 1..(L + m), u[p].name = u[q].name PROVE p = q
  <2>1. CASE p \in 1..L /\ q \in 1..L
    BY <1>11, <1>12, <2>1
  <2>2. CASE p \in 1..L /\ \E j \in 1..m : q = L + j
    BY <1>9, <1>12, <2>2
  <2>3. CASE q \in 1..L /\ \E j \in 1..m : p = L + j
    BY <1>9, <1>12, <2>3
  <2>4. CASE (\E j \in 1..m : p = L + j) /\ \E l \in 1..m : q = L + l
    BY <1>10, <1>12, <2>4
  <2>5. QED
    BY <1>4, <2>1, <2>2, <2>3, <2>4
<1>13. Listed(R, u, i)
  <2>1. Len(u) = L + m
    BY <1>1
  <2>2. QED
    BY <1>7, <1>8, <1>12, <2>1 DEF Listed
<1>14. QED
  BY <1>13 DEF u

LEMMA TodoIs ==
  ASSUME b \in {"cpu", "cuda"}
  PROVE  Todo \in Seq(Entries(Registered)) /\ Listed(Registered, Todo, Len(Registered))
<1> DEFINE R == Registered
           n == Len(R)
           seqs == [i \in DOMAIN R |-> [j \in DOMAIN R[i].names |-> Entry(R, i, j)]]
<1>1. Once(R)
  BY RegisteredOnce
<1>2. Todo = FlattenSeq(seqs)
  BY DEF Todo, Entry
<1> HIDE DEF R
<1>3. n \in Nat \ {0} /\ DOMAIN R = 1..n
  BY <1>1 DEF Once
<1>4. \A i \in 1..n : \E m \in Nat : DOMAIN R[i].names = 1..m
  BY <1>1 DEF Once
<1>5. \A i \in 1..n : \A j \in DOMAIN R[i].names : Entry(R, i, j) \in Entries(R)
  BY DEF Entries
<1> DEFINE X == Entries(R)
<1> HIDE DEF X
<1>6. ASSUME NEW i \in 1..n PROVE seqs[i] \in Seq(X)
  <2>1. PICK m \in Nat : DOMAIN R[i].names = 1..m
    BY <1>4
  <2>2. seqs[i] = [j \in 1..m |-> Entry(R, i, j)]
    BY <1>3, <2>1
  <2>3. \A j \in 1..m : Entry(R, i, j) \in X
    BY <1>5, <2>1 DEF X
  <2> HIDE DEF seqs
  <2>4. QED
    BY <2>2, <2>3
<1>7. seqs \in [1..n -> Seq(X)]
  <2>1. seqs = [i \in 1..n |-> seqs[i]]
    BY <1>3
  <2> HIDE DEF seqs
  <2>2. QED
    BY <1>6, <2>1
<1>8. ASSUME NEW i \in 1..n, NEW m \in Nat, DOMAIN R[i].names = 1..m
      PROVE  Len(seqs[i]) = m /\ \A j \in 1..m : seqs[i][j] = Entry(R, i, j)
  BY <1>3, <1>8
<1> HIDE DEF seqs, n
<1>9. PICK g \in [0..n -> Seq(X)] : Flattened(g, n, seqs)
  BY <1>3, <1>7, FlattenRec
<1> DEFINE T == {i \in 0..n : Listed(R, g[i], i)}
<1>10. 0 \in T
  <2>1. g[0] = << >> /\ Len(<< >>) = 0
    BY <1>9 DEF Flattened
  <2>2. Listed(R, g[0], 0)
    BY <2>1 DEF Listed
  <2>3. QED
    BY <1>3, <2>2
<1>11. ASSUME NEW i \in 0..(n-1), i \in T PROVE i+1 \in T
  <2>1. i+1 \in 1..n /\ (i+1)-1 = i /\ i \in 0..n /\ i+1 \in 0..n
    BY <1>3
  <2>2. g[i+1] = g[i] \o seqs[i+1]
    BY <1>9, <2>1 DEF Flattened
  <2>3. PICK m \in Nat : DOMAIN R[i+1].names = 1..m
    BY <1>4, <2>1
  <2>4. Len(seqs[i+1]) = m /\ \A j \in 1..m : seqs[i+1][j] = Entry(R, i+1, j)
    BY <1>8, <2>1, <2>3
  <2>5. g[i] \in Seq(X) /\ seqs[i+1] \in Seq(X) /\ Listed(R, g[i], (i+1)-1)
    BY <1>6, <1>11, <2>1
  <2>6. Listed(R, g[i] \o seqs[i+1], i+1)
    BY <1>1, <2>1, <2>3, <2>4, <2>5, ListedNext DEF X, n
  <2>7. QED
    BY <2>1, <2>2, <2>6
<1>12. n \in T
  <2> HIDE DEF T
  <2>1. \A i \in 0..n : i \in T
    BY <1>3, <1>10, <1>11, UpTo
  <2>2. QED
    BY <1>3, <2>1
<1>13. Todo = g[n] /\ g[n] \in Seq(X)
  BY <1>2, <1>3, <1>9 DEF Flattened
<1>14. QED
  BY <1>12, <1>13 DEF R, X, n

\* The names that are registered, with their families.
LEMMA NamesListed ==
  ASSUME b \in {"cpu", "cuda"}
  PROVE  /\ Len(Todo) \in Nat /\ DOMAIN Todo = 1..Len(Todo)
         /\ \A i \in 1..Len(Todo) :
              Todo[i].name \in AllNames /\ Todo[i].family \in Families /\ Family(Todo[i].name) = Todo[i].family
         /\ \A i, k \in 1..Len(Todo) : Todo[i].name = Todo[k].name => i = k
         /\ Names = {Todo[i].name : i \in 1..Len(Todo)}
<1> DEFINE R == Registered
           n == Len(R)
<1>1. Once(R) /\ Todo \in Seq(Entries(R)) /\ Listed(R, Todo, n)
  BY RegisteredOnce, TodoIs
<1>2. Names \subseteq AllNames
  BY DEF Names, AllNames, Registered
<1>3. Names = UNION {ToSet(R[i].names) : i \in DOMAIN R}
  BY DEF Names, NamesIn
<1>4. \A name : Family(name) = R[CHOOSE i \in DOMAIN R : name \in ToSet(R[i].names)].family
  BY DEF Family, FamilyOf
<1> HIDE DEF R
<1>5. n \in Nat /\ DOMAIN R = 1..n
  BY <1>1 DEF Once
<1>6. Len(Todo) \in Nat /\ DOMAIN Todo = 1..Len(Todo)
  BY <1>1
<1>7. ASSUME NEW name PROVE name \in Names <=> \E k \in 1..n : \E j \in DOMAIN R[k].names : name = R[k].names[j]
  BY <1>3, <1>5 DEF ToSet
<1>8. ASSUME NEW k \in 1..n, NEW j \in DOMAIN R[k].names
      PROVE  Family(R[k].names[j]) = R[k].family
  <2> DEFINE name == R[k].names[j]
             P(i) == i \in DOMAIN R /\ name \in ToSet(R[i].names)
             c == CHOOSE i \in DOMAIN R : name \in ToSet(R[i].names)
  <2>1. name \in ToSet(R[k].names) /\ k \in DOMAIN R
    BY <1>5 DEF ToSet
  <2>2. c \in DOMAIN R /\ name \in ToSet(R[c].names)
    BY <2>1
  <2>3. Family(name) = R[c].family
    BY <1>4
  <2> HIDE DEF c
  <2>4. c = k
    BY <1>1, <1>5, <2>2 DEF Once, ToSet
  <2>5. QED
    BY <2>3, <2>4
<1>9. ASSUME NEW i \in 1..Len(Todo)
      PROVE  /\ Todo[i].name \in Names /\ Todo[i].family \in Families
             /\ Family(Todo[i].name) = Todo[i].family
  <2>0. PICK k \in 1..n : \E j \in DOMAIN R[k].names : Todo[i] = Entry(R, k, j)
    BY <1>1 DEF Listed
  <2>1. PICK j \in DOMAIN R[k].names : Todo[i] = Entry(R, k, j)
    BY <2>0
  <2>2. Todo[i].name = R[k].names[j] /\ Todo[i].family = R[k].family
    BY <2>1 DEF Entry
  <2>3. R[k].family \in Families
    BY <1>1 DEF Once
  <2>4. QED
    BY <1>7, <1>8, <2>2, <2>3
<1>10. ASSUME NEW name \in Names PROVE \E i \in 1..Len(Todo) : name = Todo[i].name
  <2>0. PICK k \in 1..n : \E j \in DOMAIN R[k].names : name = R[k].names[j]
    BY <1>7
  <2>1. PICK j \in DOMAIN R[k].names : name = R[k].names[j]
    BY <2>0
  <2>2. PICK i \in 1..Len(Todo) : Todo[i] = Entry(R, k, j)
    BY <1>1 DEF Listed
  <2>3. QED
    BY <2>1, <2>2 DEF Entry
<1>11. \A i, k \in 1..Len(Todo) : Todo[i].name = Todo[k].name => i = k
  BY <1>1 DEF Listed
<1>12. Names = {Todo[i].name : i \in 1..Len(Todo)}
  BY <1>9, <1>10
<1>13. QED
  BY <1>2, <1>6, <1>9, <1>11, <1>12

-----------------------------------------------------------------------------
(* The kernels of a function are finitely many.                            *)

AnyList(s) == \E n \in Nat : IsList(s, n)

LEMMA AnyJoined == ASSUME NEW s, NEW t, AnyList(s), AnyList(t) PROVE AnyList(s \o t)
<1>1. PICK m \in Nat : IsList(s, m)
  BY DEF AnyList
<1>2. PICK n \in Nat : IsList(t, n)
  BY DEF AnyList
<1>3. AreJoined(s \o t, s, m, t, n)
  BY <1>1, <1>2, Joined
<1>4. IsList(s \o t, m + n) /\ m + n \in Nat
  BY <1>3 DEF AreJoined
<1>5. QED
  BY <1>4 DEF AnyList

LEMMA JoinedSet ==
  ASSUME NEW s, NEW t, AnyList(s), AnyList(t) PROVE ToSet(s \o t) \subseteq ToSet(s) \union ToSet(t)
<1>1. PICK m \in Nat : IsList(s, m)
  BY DEF AnyList
<1>2. PICK n \in Nat : IsList(t, n)
  BY DEF AnyList
<1>3. AreJoined(s \o t, s, m, t, n)
  BY <1>1, <1>2, Joined
<1> DEFINE u == s \o t
<1> HIDE DEF u
<1>4. /\ DOMAIN u = 1..(m + n) /\ \A i \in 1..(m + n) : u[i] = IF i <= m THEN s[i] ELSE t[i-m]
      /\ DOMAIN s = 1..m /\ DOMAIN t = 1..n
  BY <1>1, <1>2, <1>3 DEF AreJoined, IsList, u
<1>5. ASSUME NEW i \in 1..(m + n) PROVE u[i] \in ToSet(s) \union ToSet(t)
  <2>1. CASE i <= m
    BY <1>4, <2>1 DEF ToSet
  <2>2. CASE ~(i <= m)
    <3>1. i-m \in 1..n
      BY <2>2
    <3>2. u[i] = t[i-m]
      BY <1>4, <2>2
    <3>3. QED
      BY <1>4, <3>1, <3>2 DEF ToSet
  <2>3. QED
    BY <2>1, <2>2
<1>6. QED
  BY <1>4, <1>5 DEF ToSet, u

LEMMA AnyFlat ==
  ASSUME NEW s, NEW m, IsList(s, m), \A i \in 1..m : AnyList(s[i])
  PROVE  AnyList(FlattenSeq(s))
<1> DEFINE X == UNION {{s[i][j] : j \in DOMAIN s[i]} : i \in 1..m}
<1>1. ASSUME NEW i \in 1..m PROVE s[i] \in Seq(X)
  <2>1. PICK n \in Nat : IsList(s[i], n)
    BY DEF AnyList
  <2>2. s[i] \in Seq({s[i][j] : j \in 1..n}) /\ DOMAIN s[i] = 1..n
    BY <2>1, ListIs DEF IsList
  <2>3. {s[i][j] : j \in 1..n} \subseteq X
    BY <2>2
  <2> HIDE DEF X
  <2>4. \A A : \A q \in Seq(A) : A \subseteq X => q \in Seq(X)
    OBVIOUS
  <2>5. QED
    BY <2>2, <2>3, <2>4
<1> HIDE DEF X
<1>2. s \in Seq(Seq(X))
  <2>1. s = [i \in 1..m |-> s[i]] /\ m \in Nat
    BY DEF IsList
  <2>2. QED
    BY <1>1, <2>1
<1>3. FlattenSeq(s) \in Seq(X)
  BY <1>2, FlattenType
<1>4. IsList(FlattenSeq(s), Len(FlattenSeq(s))) /\ Len(FlattenSeq(s)) \in Nat
  BY <1>3, SeqList
<1>5. QED
  BY <1>4 DEF AnyList

LEMMA AnyLen == ASSUME NEW s, AnyList(s) PROVE Len(s) \in Nat
<1>1. PICK n \in Nat : IsList(s, n)
  BY DEF AnyList
<1>2. QED
  BY <1>1, ListIs

\* The list of the dtypes, and of those that go with a dtype.
LEMMA TypeLists ==
  /\ AnyList(Unsigned) /\ AnyList(Signed) /\ AnyList(Reals) /\ AnyList(Complexes)
  /\ AnyList(IntegerTypes) /\ AnyList(Numeric) /\ AnyList(ToU32) /\ AnyList(<<"b">> \o IntegerTypes)
<1>1. AnyList(Unsigned) /\ AnyList(Signed) /\ AnyList(Reals)
  <2>1. IsList(Unsigned, 4) /\ IsList(Signed, 4) /\ IsList(Reals, 4)
    BY DEF IsList, Unsigned, Signed, Reals
  <2>2. QED
    BY <2>1 DEF AnyList
<1>2. AnyList(Complexes) /\ AnyList(ToU32)
  <2>1. IsList(Complexes, 3) /\ IsList(ToU32, 3)
    BY DEF IsList, Complexes, ToU32
  <2>2. QED
    BY <2>1 DEF AnyList
<1>3. AnyList(<<"b">>)
  <2>1. IsList(<<"b">>, 1)
    BY DEF IsList
  <2>2. QED
    BY <2>1 DEF AnyList
<1>4. AnyList(IntegerTypes)
  BY <1>1, AnyJoined DEF IntegerTypes
<1>5. AnyList(Numeric)
  <2>1. AnyList(IntegerTypes \o Reals)
    BY <1>1, <1>4, AnyJoined
  <2>2. QED
    BY <1>2, <2>1, AnyJoined DEF Numeric
<1>6. AnyList(<<"b">> \o IntegerTypes)
  BY <1>3, <1>4, AnyJoined
<1>7. QED
  BY <1>1, <1>2, <1>4, <1>5, <1>6

LEMMA NumericLists == ASSUME NEW t \in ToSet(Numeric) PROVE AnyList(NumericPartners[t])
<1>1. AnyList(ToU32 \o Signed)
  BY TypeLists, AnyJoined
<1>2. AnyList(ToU32 \o Signed \o Reals \o Complexes)
  <2>1. AnyList(ToU32 \o Signed \o Reals)
    BY <1>1, TypeLists, AnyJoined
  <2>2. QED
    BY <2>1, TypeLists, AnyJoined
<1>3. AnyList(ToU32 \o <<"i8", "i16", "i32">> \o Reals \o Complexes)
  <2>1. IsList(<<"i8", "i16", "i32">>, 3)
    BY DEF IsList
  <2>2. AnyList(<<"i8", "i16", "i32">>)
    BY <2>1 DEF AnyList
  <2>3. AnyList(ToU32 \o <<"i8", "i16", "i32">>)
    BY <2>2, TypeLists, AnyJoined
  <2>4. AnyList(ToU32 \o <<"i8", "i16", "i32">> \o Reals)
    BY <2>3, TypeLists, AnyJoined
  <2>5. QED
    BY <2>4, TypeLists, AnyJoined
<1>4. NumericPartners[t] \in {Numeric, Unsigned, ToU32 \o Signed \o Reals \o Complexes, ToU32 \o Signed,
                              ToU32 \o <<"i8", "i16", "i32">> \o Reals \o Complexes}
  BY DEF NumericPartners
<1>5. QED
  BY <1>1, <1>2, <1>3, <1>4, TypeLists

LEMMA BitLists == ASSUME NEW t \in {"b"} \union ToSet(IntegerTypes) PROVE AnyList(BitPartners[t])
<1>1. AnyList(<<"b">>) /\ AnyList(<<"b", "u8", "u16", "u32">>)
  <2>1. IsList(<<"b">>, 1) /\ IsList(<<"b", "u8", "u16", "u32">>, 4)
    BY DEF IsList
  <2>2. QED
    BY <2>1 DEF AnyList
<1>2. AnyList(<<"b">> \o Unsigned) /\ AnyList(<<"b", "u8", "u16", "u32">> \o Signed)
  BY <1>1, TypeLists, AnyJoined
<1>3. BitPartners[t] \in {<<"b">> \o IntegerTypes, <<"b">> \o Unsigned, <<"b", "u8", "u16", "u32">> \o Signed}
  BY DEF BitPartners
<1>4. QED
  BY <1>2, <1>3, TypeLists

\* The rows of the tables for two operands.
LEMMA BinaryRows ==
  /\ AnyList(CpuArithmeticInit) /\ AnyList(CpuFloatReturnInit) /\ AnyList(CpuComparisonInit)
  /\ AnyList(CpuBitwiseInit) /\ AnyList(MVRows)
<1>1. PICK m \in Nat : IsList(Numeric, m)
  BY TypeLists DEF AnyList
<1>2. DOMAIN Numeric = 1..m /\ \A i \in 1..m : Numeric[i] \in ToSet(Numeric)
  BY <1>1 DEF IsList, ToSet
<1>3. ASSUME NEW i \in 1..m PROVE \E n \in Nat : DOMAIN NumericPartners[Numeric[i]] = 1..n
  BY <1>2, NumericLists DEF AnyList, IsList
<1>4. AnyList(CpuArithmeticInit)
  <2> DEFINE row(i) == [j \in DOMAIN NumericPartners[Numeric[i]] |->
                          LET p == <<Numeric[i], NumericPartners[Numeric[i]][j]>> IN [in |-> p, out |-> Arithmetic(p)]]
             rows == [i \in DOMAIN Numeric |-> row(i)]
  <2>1. CpuArithmeticInit = FlattenSeq(rows)
    BY DEF CpuArithmeticInit, Rows
  <2>2. ASSUME NEW i \in 1..m PROVE AnyList(row(i))
    <3>1. PICK n \in Nat : DOMAIN NumericPartners[Numeric[i]] = 1..n
      BY <1>3
    <3>2. IsList(row(i), n)
      BY <3>1 DEF IsList
    <3>3. QED
      BY <3>2 DEF AnyList
  <2> HIDE DEF row
  <2>3. IsList(rows, m) /\ \A i \in 1..m : AnyList(rows[i])
    BY <1>2, <2>2 DEF IsList
  <2> HIDE DEF rows
  <2>4. QED
    BY <2>1, <2>3, AnyFlat
<1>5. AnyList(CpuFloatReturnInit)
  <2> DEFINE row(i) == [j \in DOMAIN NumericPartners[Numeric[i]] |->
                          LET p == <<Numeric[i], NumericPartners[Numeric[i]][j]>> IN [in |-> p, out |-> FloatReturn(p)]]
             rows == [i \in DOMAIN Numeric |-> row(i)]
  <2>1. CpuFloatReturnInit = FlattenSeq(rows)
    BY DEF CpuFloatReturnInit, Rows
  <2>2. ASSUME NEW i \in 1..m PROVE AnyList(row(i))
    <3>1. PICK n \in Nat : DOMAIN NumericPartners[Numeric[i]] = 1..n
      BY <1>3
    <3>2. IsList(row(i), n)
      BY <3>1 DEF IsList
    <3>3. QED
      BY <3>2 DEF AnyList
  <2> HIDE DEF row
  <2>3. IsList(rows, m) /\ \A i \in 1..m : AnyList(rows[i])
    BY <1>2, <2>2 DEF IsList
  <2> HIDE DEF rows
  <2>4. QED
    BY <2>1, <2>3, AnyFlat
<1>6. AnyList(CpuComparisonInit)
  <2> DEFINE row(i) == [j \in DOMAIN NumericPartners[Numeric[i]] |->
                          LET p == <<Numeric[i], NumericPartners[Numeric[i]][j]>> IN [in |-> p, out |-> Comparison(p)]]
             rows == [i \in DOMAIN Numeric |-> row(i)]
  <2>1. CpuComparisonInit = FlattenSeq(rows)
    BY DEF CpuComparisonInit, Rows
  <2>2. ASSUME NEW i \in 1..m PROVE AnyList(row(i))
    <3>1. PICK n \in Nat : DOMAIN NumericPartners[Numeric[i]] = 1..n
      BY <1>3
    <3>2. IsList(row(i), n)
      BY <3>1 DEF IsList
    <3>3. QED
      BY <3>2 DEF AnyList
  <2> HIDE DEF row
  <2>3. IsList(rows, m) /\ \A i \in 1..m : AnyList(rows[i])
    BY <1>2, <2>2 DEF IsList
  <2> HIDE DEF rows
  <2>4. QED
    BY <2>1, <2>3, AnyFlat
<1>7. AnyList(CpuBitwiseInit)
  <2> DEFINE types == <<"b">> \o IntegerTypes
             row(i) == [j \in DOMAIN BitPartners[types[i]] |->
                          LET p == <<types[i], BitPartners[types[i]][j]>> IN [in |-> p, out |-> Bitwise(p)]]
             rows == [i \in DOMAIN types |-> row(i)]
  <2>1. CpuBitwiseInit = FlattenSeq(rows)
    BY DEF CpuBitwiseInit, Rows
  <2>2. AnyList(types) /\ ToSet(types) \subseteq {"b"} \union ToSet(IntegerTypes)
    <3>1. IsList(<<"b">>, 1) /\ ToSet(<<"b">>) = {"b"}
      BY DEF IsList, ToSet
    <3>2. AnyList(<<"b">>)
      BY <3>1 DEF AnyList
    <3>3. QED
      BY <3>1, <3>2, TypeLists, JoinedSet
  <2> HIDE DEF types
  <2>3. PICK k \in Nat : IsList(types, k)
    BY <2>2 DEF AnyList
  <2>4. DOMAIN types = 1..k
    BY <2>3 DEF IsList
  <2>5. ASSUME NEW i \in 1..k PROVE types[i] \in {"b"} \union ToSet(IntegerTypes)
    BY <2>2, <2>4 DEF ToSet
  <2>6. ASSUME NEW i \in 1..k PROVE AnyList(row(i))
    <3>1. PICK n \in Nat : DOMAIN BitPartners[types[i]] = 1..n
      BY <2>5, BitLists DEF AnyList, IsList
    <3>2. IsList(row(i), n)
      BY <3>1 DEF IsList
    <3>3. QED
      BY <3>2 DEF AnyList
  <2> HIDE DEF row
  <2>7. IsList(rows, k) /\ \A i \in 1..k : AnyList(rows[i])
    BY <2>3, <2>4, <2>6 DEF IsList
  <2> HIDE DEF rows
  <2>8. QED
    BY <2>1, <2>7, AnyFlat
<1>8. AnyList(MVRows)
  <2>1. IsList(MVRows, 11)
    BY DEF IsList, MVRows
  <2>2. QED
    BY <2>1 DEF AnyList
<1>9. QED
  BY <1>4, <1>5, <1>6, <1>7, <1>8

\* The rows of the tables for one operand.
LEMMA SameLists ==
  /\ U!Unsigned = Unsigned /\ U!Signed = Signed /\ U!Reals = Reals /\ U!Complexes = Complexes
  /\ U!IntegerTypes = IntegerTypes /\ U!Numeric = Numeric
  /\ \A s : U!ToSet(s) = ToSet(s) /\ U!FlattenSeq(s) = FlattenSeq(s)
<1>1. U!Unsigned = Unsigned /\ U!Signed = Signed /\ U!Reals = Reals /\ U!Complexes = Complexes
  BY DEF U!Unsigned, Unsigned, U!Signed, Signed, U!Reals, Reals, U!Complexes, Complexes
<1>2. U!IntegerTypes = IntegerTypes
  BY <1>1 DEF U!IntegerTypes, IntegerTypes
<1>3. U!Numeric = Numeric
  BY <1>1, <1>2 DEF U!Numeric, Numeric
<1>4. \A s : U!ToSet(s) = ToSet(s)
  BY DEF U!ToSet, ToSet
<1>5. \A s : U!FlattenSeq(s) = FlattenSeq(s)
  BY DEF U!FlattenSeq, FlattenSeq
<1>6. QED
  BY <1>1, <1>2, <1>3, <1>4, <1>5

LEMMA CopyLists ==
  /\ AnyList(U!CopyTypes)
  /\ \A t \in ToSet(U!CopyTypes) : AnyList(U!CopyPartners[t])
<1>1. AnyList(<<"b">>) /\ ToSet(<<"b">>) = {"b"}
  <2>1. IsList(<<"b">>, 1)
    BY DEF IsList
  <2>2. QED
    BY <2>1 DEF AnyList, ToSet
<1>2. AnyList(U!CopyTypes)
  BY <1>1, SameLists, TypeLists, AnyJoined DEF U!CopyTypes
<1>3. ToSet(U!CopyTypes) \subseteq
        {"b"} \union ToSet(Unsigned) \union ToSet(Signed) \union ToSet(Reals) \union ToSet(Complexes)
  <2>1. ToSet(U!CopyTypes) \subseteq {"b"} \union ToSet(Numeric)
    BY <1>1, SameLists, TypeLists, JoinedSet DEF U!CopyTypes
  <2>2. ToSet(IntegerTypes) \subseteq ToSet(Unsigned) \union ToSet(Signed)
    BY TypeLists, JoinedSet DEF IntegerTypes
  <2>3. ToSet(Numeric) \subseteq ToSet(IntegerTypes) \union ToSet(Reals) \union ToSet(Complexes)
    <3>1. ToSet(IntegerTypes \o Reals) \subseteq ToSet(IntegerTypes) \union ToSet(Reals)
      BY TypeLists, JoinedSet
    <3>2. ToSet(Numeric) \subseteq ToSet(IntegerTypes \o Reals) \union ToSet(Complexes)
      <4>1. AnyList(IntegerTypes \o Reals)
        BY TypeLists, AnyJoined
      <4>2. QED
        BY <4>1, TypeLists, JoinedSet DEF Numeric
    <3>3. QED
      BY <3>1, <3>2
  <2>4. QED
    BY <2>1, <2>2, <2>3
<1>4. AnyList(<<"i16", "i32", "i64">>)
  <2>1. IsList(<<"i16", "i32", "i64">>, 3)
    BY DEF IsList
  <2>2. QED
    BY <2>1 DEF AnyList
<1>5. /\ AnyList(<<"b">> \o Numeric) /\ AnyList(Signed \o Reals \o Complexes)
      /\ AnyList(Unsigned \o <<"i16", "i32", "i64">> \o Reals \o Complexes)
  <2>1. AnyList(<<"b">> \o Numeric)
    BY <1>1, TypeLists, AnyJoined
  <2>2. AnyList(Signed \o Reals \o Complexes)
    <3>1. AnyList(Signed \o Reals)
      BY TypeLists, AnyJoined
    <3>2. QED
      BY <3>1, TypeLists, AnyJoined
  <2>3. AnyList(Unsigned \o <<"i16", "i32", "i64">> \o Reals \o Complexes)
    <3>1. AnyList(Unsigned \o <<"i16", "i32", "i64">>)
      BY <1>4, TypeLists, AnyJoined
    <3>2. AnyList(Unsigned \o <<"i16", "i32", "i64">> \o Reals)
      BY <3>1, TypeLists, AnyJoined
    <3>3. QED
      BY <3>2, TypeLists, AnyJoined
  <2>4. QED
    BY <2>1, <2>2, <2>3
<1> DEFINE I == U!IntegerPartners
           F == U!FloatPartners
<1>6. DOMAIN I = {"b", "u8", "u16", "u32", "u64", "i8", "i16", "i32", "i64"}
  BY DEF U!IntegerPartners
<1>7. DOMAIN F = {"bf16", "f16", "f32", "f64", "c32", "c64", "c128"}
  BY DEF U!FloatPartners
<1>8. AnyList(I["b"]) /\ AnyList(I["u8"]) /\ AnyList(I["i8"])
  <2>1. /\ I["b"] = <<"b">> \o Numeric /\ I["i8"] = Signed \o Reals \o Complexes
        /\ I["u8"] = Unsigned \o <<"i16", "i32", "i64">> \o Reals \o Complexes
    BY SameLists DEF U!IntegerPartners
  <2>2. QED
    BY <1>5, <2>1
<1>9. /\ AnyList(I["u16"]) /\ AnyList(I["u32"]) /\ AnyList(I["u64"])
      /\ AnyList(I["i16"]) /\ AnyList(I["i32"]) /\ AnyList(I["i64"])
  <2>1. /\ IsList(I["u16"], 9) /\ IsList(I["u32"], 5) /\ IsList(I["u64"], 1)
        /\ IsList(I["i16"], 7) /\ IsList(I["i32"], 4) /\ IsList(I["i64"], 1)
    BY DEF U!IntegerPartners, IsList
  <2> HIDE DEF I
  <2>2. QED
    BY <2>1 DEF AnyList
<1>10. \A t \in DOMAIN F : AnyList(F[t])
  <2>1. /\ IsList(F["bf16"], 5) /\ IsList(F["f16"], 6) /\ IsList(F["f32"], 4) /\ IsList(F["f64"], 2)
        /\ IsList(F["c32"], 3) /\ IsList(F["c64"], 2) /\ IsList(F["c128"], 1)
    BY DEF U!FloatPartners, IsList
  <2> HIDE DEF F
  <2>2. QED
    BY <1>7, <2>1 DEF AnyList
<1>11. \A t \in DOMAIN I : AnyList(I[t])
  <2> HIDE DEF I
  <2>1. QED
    BY <1>6, <1>8, <1>9
<1>12. ToSet(U!CopyTypes) \subseteq DOMAIN I \union DOMAIN F
  <2>1. /\ ToSet(Unsigned) \union ToSet(Signed) \subseteq DOMAIN I
        /\ ToSet(Reals) \union ToSet(Complexes) \subseteq DOMAIN F
    <3> HIDE DEF I, F
    <3>1. QED
      BY <1>6, <1>7 DEF ToSet, Unsigned, Signed, Reals, Complexes
  <2> HIDE DEF I, F
  <2>2. QED
    BY <1>3, <1>6, <2>1
<1>13. \A t \in ToSet(U!CopyTypes) : U!CopyPartners[t] = IF t \in DOMAIN I THEN I[t] ELSE F[t]
  BY SameLists DEF U!CopyPartners
<1> HIDE DEF I, F
<1>14. QED
  BY <1>2, <1>10, <1>11, <1>12, <1>13

LEMMA RowsOfPairs == ASSUME NEW pairs, AnyList(pairs) PROVE AnyList(U!AsRows(pairs))
<1>1. PICK n \in Nat : IsList(pairs, n)
  BY DEF AnyList
<1>2. IsList(U!AsRows(pairs), n)
  BY <1>1 DEF U!AsRows, IsList
<1>3. QED
  BY <1>2 DEF AnyList

LEMMA UnaryRows ==
  /\ AnyList(U!CpuCopyInit) /\ AnyList(U!CpuInvertInit) /\ AnyList(U!CpuNegativeInit) /\ AnyList(U!CpuMathInit)
  /\ AnyList(U!CudaCopyInit) /\ AnyList(U!CudaReduceInit)
  /\ AnyList(U!CudaInvertInit) /\ AnyList(U!CudaNegativeInit) /\ AnyList(U!CudaMathInit)
<1>1. AnyList(U!CopyRows(U!CopyTypes, U!CopyPartners))
  <2> DEFINE types == U!CopyTypes
             row(i) == [j \in DOMAIN U!CopyPartners[types[i]] |-> <<types[i], U!CopyPartners[types[i]][j]>>]
             rows == [i \in DOMAIN types |-> row(i)]
  <2>1. U!CopyRows(types, U!CopyPartners) = FlattenSeq(rows)
    BY SameLists DEF U!CopyRows
  <2> HIDE DEF types
  <2>2. PICK m \in Nat : IsList(types, m)
    BY CopyLists DEF AnyList, types
  <2>3. DOMAIN types = 1..m
    BY <2>2 DEF IsList
  <2>4. ASSUME NEW i \in 1..m PROVE AnyList(row(i))
    <3>1. types[i] \in ToSet(types)
      BY <2>3 DEF ToSet
    <3>2. PICK n \in Nat : DOMAIN U!CopyPartners[types[i]] = 1..n
      BY <3>1, CopyLists DEF AnyList, IsList, types
    <3>3. IsList(row(i), n)
      BY <3>2 DEF IsList
    <3>4. QED
      BY <3>3 DEF AnyList
  <2> HIDE DEF row
  <2>5. IsList(rows, m) /\ \A i \in 1..m : AnyList(rows[i])
    BY <2>2, <2>3, <2>4 DEF IsList
  <2> HIDE DEF rows
  <2>6. AnyList(FlattenSeq(rows))
    BY <2>5, AnyFlat
  <2>7. QED
    BY <2>1, <2>6 DEF types
<1>2. AnyList(U!InvertRows)
  <2>1. IsList(U!InvertRows, 9)
    BY DEF IsList, U!InvertRows
  <2>2. QED
    BY <2>1 DEF AnyList
<1>3. AnyList(U!NegativeRows)
  <2> DEFINE A == <<<<"u8", "i16">>, <<"u16", "i32">>, <<"u32", "i64">>>>
             B == [i \in 1..11 |-> LET t == (U!Signed \o U!Reals \o U!Complexes)[i] IN <<t, t>>]
  <2>1. IsList(A, 3) /\ IsList(B, 11)
    <3>1. \A x, y, z : IsList(<<x, y, z>>, 3)
      BY DEF IsList
    <3>2. IsList(A, 3)
      BY <3>1
    <3>3. IsList(B, 11)
      BY DEF IsList
    <3>4. QED
      BY <3>2, <3>3
  <2>2. U!NegativeRows = A \o B
    BY DEF U!NegativeRows
  <2> HIDE DEF A, B
  <2>3. AnyList(A) /\ AnyList(B)
    BY <2>1 DEF AnyList
  <2>4. QED
    BY <2>2, <2>3, AnyJoined
<1>4. AnyList(U!HalfRows \o U!RealRows \o U!ComplexRows)
  <2>1. IsList(U!HalfRows, 3) /\ IsList(U!RealRows, 7) /\ IsList(U!ComplexRows, 3)
    BY DEF IsList, U!HalfRows, U!RealRows, U!ComplexRows
  <2>2. AnyList(U!HalfRows) /\ AnyList(U!RealRows) /\ AnyList(U!ComplexRows)
    BY <2>1 DEF AnyList
  <2>3. AnyList(U!HalfRows \o U!RealRows)
    BY <2>2, AnyJoined
  <2>4. QED
    BY <2>2, <2>3, AnyJoined
<1>5. /\ AnyList(U!CpuCopyInit) /\ AnyList(U!CudaCopyInit) /\ AnyList(U!CudaReduceInit)
      /\ AnyList(U!CpuInvertInit) /\ AnyList(U!CudaInvertInit)
  BY <1>1, <1>2, RowsOfPairs DEF U!CpuCopyInit, U!CudaCopyInit, U!CudaReduceInit, U!CpuInvertInit, U!CudaInvertInit
<1>6. /\ AnyList(U!CpuNegativeInit) /\ AnyList(U!CudaNegativeInit)
      /\ AnyList(U!CpuMathInit) /\ AnyList(U!CudaMathInit)
  BY <1>3, <1>4, RowsOfPairs DEF U!CpuNegativeInit, U!CudaNegativeInit, U!CpuMathInit, U!CudaMathInit
<1>7. QED
  BY <1>5, <1>6

LEMMA RowsListed == ASSUME NEW family \in Families PROVE AnyList(InitRows(family))
<1>1. /\ CudaArithmeticInit = CpuArithmeticInit /\ CudaFloatReturnInit = CpuFloatReturnInit
      /\ CudaComparisonInit = CpuComparisonInit /\ CudaBitwiseInit = CpuBitwiseInit
      /\ CpuEqualnInit = CpuComparisonInit /\ CudaEqualnInit = CpuComparisonInit
  BY DEF CudaArithmeticInit, CpuArithmeticInit, CudaFloatReturnInit, CpuFloatReturnInit, CudaComparisonInit,
         CpuComparisonInit, CudaBitwiseInit, CpuBitwiseInit, CpuEqualnInit, CudaEqualnInit
<1>2. InitRows(family) \in
        {U!CpuCopyInit, U!CpuInvertInit, U!CpuNegativeInit, U!CpuMathInit, U!CudaCopyInit, U!CudaReduceInit,
         U!CudaInvertInit, U!CudaNegativeInit, U!CudaMathInit,
         CpuArithmeticInit, CpuFloatReturnInit, CpuComparisonInit, CpuBitwiseInit, MVRows}
  BY <1>1 DEF InitRows, Families, Labels
<1>3. QED
  BY <1>2, UnaryRows, BinaryRows

LEMMA VariantsListed == ASSUME NEW family PROVE AnyList(Variants(family))
<1>1. AnyList(CpuBinaryVariants)
  <2> DEFINE row(d) == [o \in 1..4 |-> Kern(<<"fixed", "var", "array">>[d], BinaryOpt[o])]
             rows == [d \in 1..3 |-> row(d)]
  <2>1. \A d \in 1..3 : IsList(row(d), 4)
    BY DEF IsList
  <2>2. CpuBinaryVariants = FlattenSeq(rows)
    BY DEF CpuBinaryVariants
  <2> HIDE DEF row
  <2>3. IsList(rows, 3) /\ \A d \in 1..3 : AnyList(rows[d])
    BY <2>1 DEF IsList, AnyList
  <2> HIDE DEF rows
  <2>4. QED
    BY <2>2, <2>3, AnyFlat
<1>2. AnyList(CpuUnaryVariants)
  <2> DEFINE row(d) == [o \in 1..2 |-> Kern(<<"fixed", "var", "array">>[d], <<o = 2>>)]
             rows == [d \in 1..3 |-> row(d)]
  <2>1. \A d \in 1..3 : IsList(row(d), 2)
    BY DEF IsList
  <2>2. CpuUnaryVariants = FlattenSeq(rows)
    BY DEF CpuUnaryVariants
  <2> HIDE DEF row
  <2>3. IsList(rows, 3) /\ \A d \in 1..3 : AnyList(rows[d])
    BY <2>1 DEF IsList, AnyList
  <2> HIDE DEF rows
  <2>4. QED
    BY <2>2, <2>3, AnyFlat
<1>3. AnyList(CudaBinaryVariants) /\ AnyList(CudaUnaryVariants) /\ AnyList(ReduceVariants)
  <2>1. IsList(CudaBinaryVariants, 4) /\ IsList(CudaUnaryVariants, 2) /\ IsList(ReduceVariants, 2)
    BY DEF IsList, CudaBinaryVariants, CudaUnaryVariants, ReduceVariants
  <2>2. QED
    BY <2>1 DEF AnyList
<1>4. AnyList(<<Kern("fixed", <<FALSE, FALSE>>)>>)
  <2>1. IsList(<<Kern("fixed", <<FALSE, FALSE>>)>>, 1)
    BY DEF IsList
  <2>2. QED
    BY <2>1 DEF AnyList
<1>5. Variants(family) \in {CpuBinaryVariants, CpuUnaryVariants, CudaBinaryVariants, CudaUnaryVariants, ReduceVariants,
                            <<Kern("fixed", <<FALSE, FALSE>>)>>}
  BY DEF Variants
<1>6. QED
  BY <1>1, <1>2, <1>3, <1>4, <1>5

LEMMA BatchIs == ASSUME NEW family \in Families PROVE Batch(family) \in Group /\ Check(family) \in Labels
<1>1. Len(InitRows(family)) \in Nat /\ Len(Variants(family)) \in Nat
  BY RowsListed, VariantsListed, AnyLen
<1>2. \A m, n \in Nat : m * n \in Int
  OBVIOUS
<1>3. Len(InitRows(family)) * Len(Variants(family)) \in Int
  BY <1>1, <1>2
<1>4. family \in Labels /\ None \in Labels
  BY DEF Families, Labels, None
<1>5. QED
  BY <1>3, <1>4 DEF Batch, Group, Check

-----------------------------------------------------------------------------
(* One function more in the tree.                                          *)

\* The names of the functions in the tree.
InTree(t) == {t.funcs[f].name : f \in gm_tbl_map(t)}

LEMMA FoundInTree ==
  ASSUME NEW t \in Tables, NEW name \in AllNames
  PROVE  gm_tbl_find(t, name) # NoFunc <=> name \in InTree(t)
<1> DEFINE f == gm_tbl_find(t, name)
<1>1. ASSUME f # NoFunc PROVE name \in InTree(t)
  <2> HIDE DEF f
  <2>1. Path(name) \in DOMAIN t.value /\ t.value[Path(name)] = f /\ t.funcs[f].name = name
    BY <1>1, FindIs DEF f
  <2>2. QED
    BY <1>1, <2>1 DEF InTree, gm_tbl_map
<1>2. ASSUME name \in InTree(t) PROVE f # NoFunc
  <2>1. PICK p \in DOMAIN t.value : t.value[p] # NoFunc /\ t.funcs[t.value[p]].name = name
    BY <1>2 DEF InTree, gm_tbl_map
  <2>2. Path(name) = p
    BY <2>1 DEF Tables, Leads
  <2>3. QED
    BY <2>1, <2>2 DEF gm_tbl_find
<1>3. QED
  BY <1>1, <1>2

\* Its kernels and its type check.
Has(t, name, check, n) ==
  LET f == gm_tbl_find(t, name) IN Count(t, f) = n /\ t.funcs[f].check = check

LEMMA MoreIs ==
  ASSUME NEW t \in Tables, NEW u \in Tables, NEW name \in AllNames, NEW check, NEW batch \in Group,
         HasMore(t, u, name, check, batch), gm_tbl_find(t, name) = NoFunc
  PROVE  /\ InTree(u) = InTree(t) \union {name} /\ Has(u, name, check, batch.n)
         /\ \A m \in InTree(t) : \A c, n : Has(t, m, c, n) => Has(u, m, c, n)
<1> DEFINE f == Len(t.funcs) + 1
<1>1. PICK func : /\ Added1(t, u, name, func)
                  /\ func.name = name /\ func.check = check
                  /\ func.batches = IF batch.n = 0 THEN << >> ELSE <<batch>>
  BY DEF HasMore
<1>2. /\ Len(u.funcs) = f /\ u.funcs[f] = func /\ \A g \in 1..Len(t.funcs) : u.funcs[g] = t.funcs[g]
      /\ Joins(t, u.value, Path(name), f)
  BY <1>1 DEF Added1
<1>3. Len(t.funcs) \in Nat /\ f # NoFunc /\ t.value \in [DOMAIN t.value -> Nat]
  BY TablesType DEF NoFunc
<1>4. /\ Path(name) \in DOMAIN u.value /\ u.value[Path(name)] = f /\ DOMAIN t.value \subseteq DOMAIN u.value
      /\ \A p \in DOMAIN u.value : p # Path(name) => u.value[p] = IF p \in DOMAIN t.value THEN t.value[p] ELSE NoFunc
  BY <1>2 DEF Joins
<1> HIDE DEF f
<1>5. ASSUME Path(name) \in DOMAIN t.value PROVE t.value[Path(name)] = NoFunc
  BY <1>5 DEF gm_tbl_find
<1>6. gm_tbl_map(u) = gm_tbl_map(t) \union {f}
  <2>1. ASSUME NEW g \in gm_tbl_map(u) PROVE g \in gm_tbl_map(t) \union {f}
    <3>1. PICK p \in DOMAIN u.value : g = u.value[p] /\ g # NoFunc
      BY DEF gm_tbl_map
    <3>2. CASE p = Path(name)
      BY <1>4, <3>1, <3>2
    <3>3. CASE p # Path(name)
      BY <1>4, <3>1, <3>3 DEF gm_tbl_map
    <3>4. QED
      BY <3>2, <3>3
  <2>2. ASSUME NEW g \in gm_tbl_map(t) PROVE g \in gm_tbl_map(u)
    <3>1. PICK p \in DOMAIN t.value : g = t.value[p] /\ g # NoFunc
      BY DEF gm_tbl_map
    <3>2. p # Path(name) /\ p \in DOMAIN u.value
      BY <1>4, <1>5, <3>1
    <3>3. QED
      BY <1>4, <3>1, <3>2 DEF gm_tbl_map
  <2>3. f \in gm_tbl_map(u)
    BY <1>3, <1>4 DEF gm_tbl_map
  <2>4. QED
    BY <2>1, <2>2, <2>3
<1>7. \A g \in gm_tbl_map(t) : g \in 1..Len(t.funcs) /\ u.funcs[g] = t.funcs[g]
  BY <1>2 DEF gm_tbl_map, Tables, Leads
<1>8. InTree(u) = InTree(t) \union {name}
  BY <1>1, <1>2, <1>6, <1>7 DEF InTree
<1>9. Has(u, name, check, batch.n)
  <2>1. gm_tbl_find(u, name) = f
    BY <1>4 DEF gm_tbl_find
  <2>2. u.funcs[f].batches \in Seq(Group)
    <3>1. << >> \in Seq(Group) /\ <<batch>> \in Seq(Group)
      OBVIOUS
    <3>2. QED
      BY <1>1, <1>2, <3>1
  <2>3. Count(u, f) = batch.n
    <3>1. u.funcs[f].batches = IF batch.n = 0 THEN << >> ELSE <<batch>>
      BY <1>1, <1>2
    <3>2. QED
      BY <2>2, <3>1, CountIs
  <2>4. QED
    BY <1>1, <1>2, <2>1, <2>3 DEF Has
<1>10. ASSUME NEW m \in InTree(t), NEW c, NEW n, Has(t, m, c, n) PROVE Has(u, m, c, n)
  <2>1. PICK p \in DOMAIN t.value : t.value[p] # NoFunc /\ t.funcs[t.value[p]].name = m
    BY DEF InTree, gm_tbl_map
  <2>2. Path(m) = p
    BY <2>1 DEF Tables, Leads
  <2>3. p # Path(name) /\ p \in DOMAIN u.value /\ u.value[p] = t.value[p]
    BY <1>4, <1>5, <2>1
  <2>4. gm_tbl_find(t, m) = t.value[p] /\ gm_tbl_find(u, m) = t.value[p]
    BY <2>1, <2>2, <2>3 DEF gm_tbl_find
  <2>5. u.funcs[t.value[p]] = t.funcs[t.value[p]]
    BY <1>7, <2>1 DEF gm_tbl_map
  <2>6. Count(u, t.value[p]) = Count(t, t.value[p])
    BY <2>5 DEF Count
  <2>7. QED
    BY <1>10, <2>4, <2>5, <2>6 DEF Has
<1>11. QED
  BY <1>8, <1>9, <1>10

-----------------------------------------------------------------------------
(* All functions of a module, one after the other.                         *)

AddNext(x, e, fault) ==
  IF ~x.ok THEN x
  ELSE gm_add_kernels(x.tbl, e.name, Batch(e.family), Check(e.family), IF e.name = fault.name THEN fault ELSE NoFault)

Results == [ok : BOOLEAN, tbl : Tables]
AddsAll(g, fault) ==
  /\ g[0] = [ok |-> TRUE, tbl |-> gm_tbl_new]
  /\ \A k \in 1..Len(Todo) : g[k] = AddNext(g[k-1], Todo[k], fault)
  /\ AddAll(fault) = g[Len(Todo)]

LEMMA EmptyTable == gm_tbl_new \in Tables /\ InTree(gm_tbl_new) = {}
<1> DEFINE v == [p \in {<< >>} |-> NoFunc]
<1>1. gm_tbl_new = [value |-> v, funcs |-> << >>]
  BY DEF gm_tbl_new
<1>2. v \in Maps
  <2>1. {<< >>} \in SUBSET Nodes
    BY DEF Nodes
  <2>2. v \in [{<< >>} -> Nat]
    BY DEF NoFunc
  <2>3. QED
    BY <2>1, <2>2 DEF Maps
<1>3. \A p \in DOMAIN v : v[p] = NoFunc
  OBVIOUS
<1> HIDE DEF v
<1>4. << >> \in Seq(Func)
  BY EmptySeq
<1>5. gm_tbl_new \in Trees
  BY <1>1, <1>2, <1>4 DEF Trees
<1>6. gm_tbl_new.value = v
  BY <1>1
<1>7. QED
  BY <1>3, <1>5, <1>6 DEF Tables, Leads, InTree, gm_tbl_map

LEMMA AddAllRec ==
  ASSUME NEW fault, IsFault(fault), b \in {"cpu", "cuda"}
  PROVE  \E g \in [0..Len(Todo) -> Results] : AddsAll(g, fault)
<1> DEFINE s == Todo
           N == Len(s)
           V == Results
           a == [ok |-> TRUE, tbl |-> gm_tbl_new]
           E(k, x) == AddNext(x, s[k], fault)
           H == [k \in 1..N |-> [x \in V |-> E(k, x)]]
           Body(h) == [u \in SUBSET DOMAIN s |-> IF u = {} THEN a ELSE E(Max(u), h[u \ {Max(u)}])]
<1>1. N \in Nat /\ DOMAIN s = 1..N
  BY NamesListed
<1>2. a \in V
  BY EmptyTable DEF Results
<1>3. ASSUME NEW k \in 1..N, NEW x \in V PROVE E(k, x) \in V
  <2>1. s[k].name \in AllNames /\ s[k].family \in Families
    BY NamesListed
  <2>2. Batch(s[k].family) \in Group /\ Check(s[k].family) \in Labels
    BY <2>1, BatchIs
  <2>3. x.tbl \in Tables
    BY DEF Results
  <2>4. IsFault(IF s[k].name = fault.name THEN fault ELSE NoFault)
    BY DEF IsFault, NoFault, None
  <2> HIDE DEF s
  <2>5. gm_add_kernels(x.tbl, s[k].name, Batch(s[k].family), Check(s[k].family),
                       IF s[k].name = fault.name THEN fault ELSE NoFault) \in V
    BY <2>1, <2>2, <2>3, <2>4, KernelsAdded DEF Results
  <2>6. QED
    BY <2>5 DEF AddNext
<1>4. AddAll(fault) = (CHOOSE h : h = Body(h))[DOMAIN s]
  BY DEF AddAll, FoldLeft, MapThenFoldSet, AddNext
<1> HIDE DEF s, N, V, a, E
<1>5. H \in [1..N -> [V -> V]]
  BY <1>3
<1>6. PICK h \in [SUBSET (1..N) -> V] : FoldsTo(h, N, a, H)
  <2> HIDE DEF H
  <2>1. QED
    BY <1>1, <1>2, <1>5, FoldExists
<1>7. h = Body(h)
  <2>1. ASSUME NEW u \in SUBSET (1..N)
        PROVE  h[u] = IF u = {} THEN a ELSE E(Max(u), h[u \ {Max(u)}])
    <3>1. CASE u = {}
      BY <1>6, <3>1 DEF FoldsTo
    <3>2. CASE u # {}
      <4> DEFINE m == Max(u)
      <4>1. m \in u
        BY <1>1, <3>2, Largest
      <4>2. h[u] = H[m][h[u \ {m}]]
        BY <1>6, <3>2 DEF FoldsTo
      <4> HIDE DEF m
      <4>3. m \in 1..N /\ h[u \ {m}] \in V
        BY <4>1
      <4>4. QED
        BY <3>2, <4>2, <4>3 DEF m
    <3>3. QED
      BY <3>1, <3>2
  <2>2. QED
    BY <1>1, <2>1
<1> DEFINE v == CHOOSE h_1 : h_1 = Body(h_1)
<1>8. v = Body(v)
  <2> HIDE DEF Body
  <2>1. QED
    BY <1>7
<1>9. AddAll(fault) = v[1..N]
  BY <1>1, <1>4
<1> HIDE DEF v
<1>10. \A u \in SUBSET (1..N) : v[u] = IF u = {} THEN a ELSE E(Max(u), v[u \ {Max(u)}])
  BY <1>1, <1>8
<1> HIDE DEF Body
<1>11. v[{}] = a
  BY <1>10
<1>12. GoesBy(v, N, V, H)
  <2> SUFFICES ASSUME NEW k \in 1..N, NEW x \in V, v[1..(k-1)] = x PROVE v[1..k] = H[k][x]
    BY DEF GoesBy
  <2>1. /\ 1..k \in SUBSET (1..N) /\ 1..k # {}
        /\ Max(1..k) = k
        /\ (1..k) \ {Max(1..k)} = 1..(k-1)
    BY <1>1, Segment
  <2>2. v[1..k] = E(k, v[1..(k-1)])
    BY <1>10, <2>1
  <2>3. QED
    BY <2>2
<1>13. PICK g \in [0..N -> V] : EndsAs(g, v, N, a, H)
  <2> HIDE DEF H
  <2>1. QED
    BY <1>1, <1>2, <1>5, <1>11, <1>12, FoldFollows
<1>14. \A k \in 1..N : g[k] = E(k, g[k-1])
  <2> SUFFICES ASSUME NEW k \in 1..N PROVE g[k] = E(k, g[k-1])
    OBVIOUS
  <2>1. g[k-1] \in V
    BY <1>1
  <2>2. g[k] = H[k][g[k-1]]
    BY <1>13 DEF EndsAs, Follows
  <2>3. QED
    BY <2>1, <2>2
<1>15. g[0] = a
  BY <1>13 DEF EndsAs, Follows
<1>16. AddsAll(g, fault)
  BY <1>9, <1>13, <1>14, <1>15 DEF EndsAs, AddsAll, a, E, N, s
<1>17. QED
  BY <1>16 DEF N, V, s

\* A module whose functions were all added has each of them with all its kernels.
Complete(t) ==
  /\ InTree(t) = Names
  /\ \A name \in Names : Has(t, name, Check(Family(name)), Batch(Family(name)).n)

LEMMA AllAdded ==
  ASSUME NEW fault, IsFault(fault), b \in {"cpu", "cuda"}
  PROVE  /\ AddAll(fault) \in Results
         /\ AddAll(fault).ok => Complete(AddAll(fault).tbl)
<1> DEFINE N == Len(Todo)
           Firsts(k) == {Todo[i].name : i \in 1..k}
           Good(t, k) == /\ InTree(t) = Firsts(k)
                         /\ \A i \in 1..k : Has(t, Todo[i].name, Check(Todo[i].family), Batch(Todo[i].family).n)
<1>1. PICK g \in [0..N -> Results] : AddsAll(g, fault)
  BY AddAllRec
<1> DEFINE T == {k \in 0..N : g[k].ok => Good(g[k].tbl, k)}
<1>2. N \in Nat
  BY NamesListed
<1>3. 0 \in T
  <2>1. g[0].tbl = gm_tbl_new
    BY <1>1 DEF AddsAll
  <2>2. Good(g[0].tbl, 0)
    BY <2>1, EmptyTable
  <2> HIDE DEF Good
  <2>3. QED
    BY <1>2, <2>2
<1>4. ASSUME NEW k \in 0..(N-1), k \in T PROVE k+1 \in T
  <2> DEFINE e == Todo[k+1]
             t == g[k].tbl
             u == g[k+1].tbl
             batch == Batch(e.family)
             check == Check(e.family)
             failing == IF e.name = fault.name THEN fault ELSE NoFault
  <2> SUFFICES ASSUME g[k+1].ok PROVE Good(u, k+1)
    <3> HIDE DEF Good
    <3>1. k+1 \in 0..N
      BY <1>2
    <3>2. QED
      BY <3>1
  <2>1. k+1 \in 1..N /\ (k+1)-1 = k /\ k \in 0..N
    BY <1>2
  <2>2. g[k+1] = AddNext(g[k], e, fault)
    <3>1. g[k+1] = AddNext(g[(k+1)-1], Todo[k+1], fault)
      BY <1>1, <2>1 DEF AddsAll
    <3>2. QED
      BY <2>1, <3>1
  <2>3. g[k] \in Results /\ g[k+1] \in Results
    BY <2>1
  <2>4. g[k].ok /\ g[k+1] = gm_add_kernels(t, e.name, batch, check, failing)
    BY <2>2, <2>3 DEF AddNext, Results
  <2>5. e.name \in AllNames /\ batch \in Group /\ check \in Labels
    BY <2>1, NamesListed, BatchIs
  <2>6. t \in Tables /\ u \in Tables
    BY <2>3 DEF Results
  <2>7. InTree(t) = Firsts(k) /\ \A i \in 1..k : Has(t, Todo[i].name, Check(Todo[i].family), Batch(Todo[i].family).n)
    BY <1>4, <2>4
  <2>8. gm_tbl_find(t, e.name) = NoFunc
    <3>1. \A i \in 1..k : i \in 1..N /\ i # k+1
      BY <1>2
    <3>2. e.name \notin Firsts(k)
      BY <2>1, <3>1, NamesListed
    <3> HIDE DEF e, t, Firsts
    <3>3. QED
      BY <2>5, <2>6, <2>7, <3>2, FoundInTree
  <2>9. HasMore(t, u, e.name, check, batch)
    <3>1. IsFault(failing)
      BY DEF IsFault, NoFault, None
    <3> HIDE DEF e, t, batch, check, failing, Good
    <3>2. QED
      BY <2>4, <2>5, <2>6, <2>8, <3>1, KernelsAdded
  <2> HIDE DEF t, u, batch, check, failing
  <2>10. /\ InTree(u) = InTree(t) \union {e.name} /\ Has(u, e.name, check, batch.n)
         /\ \A m \in InTree(t) : \A c, n : Has(t, m, c, n) => Has(u, m, c, n)
    <3> HIDE DEF e, Good
    <3>1. QED
      BY <2>5, <2>6, <2>8, <2>9, MoreIs
  <2>11. \A i \in 1..(k+1) : i \in 1..k \/ i = k+1
    BY <1>2
  <2>12. \A i \in 1..k : i \in 1..(k+1)
    BY <1>2
  <2>13. k+1 \in 1..(k+1)
    BY <1>2
  <2>14. Firsts(k+1) = Firsts(k) \union {e.name}
    BY <2>11, <2>12, <2>13
  <2>15. InTree(u) = Firsts(k+1)
    <3> HIDE DEF Firsts, e
    <3>1. QED
      BY <2>7, <2>10, <2>14
  <2>16. ASSUME NEW i \in 1..(k+1)
         PROVE  Has(u, Todo[i].name, Check(Todo[i].family), Batch(Todo[i].family).n)
    <3>1. CASE i = k+1
      BY <2>10, <3>1 DEF check, batch
    <3>2. CASE i \in 1..k
      <4>1. Todo[i].name \in InTree(t)
        BY <2>7, <3>2
      <4>2. QED
        BY <2>7, <2>10, <3>2, <4>1
    <3>3. QED
      BY <2>11, <3>1, <3>2
  <2>17. QED
    BY <2>15, <2>16
<1>5. N \in T /\ AddAll(fault) = g[N] /\ g[N] \in Results
  <2> HIDE DEF T
  <2>1. \A k \in 0..N : k \in T
    BY <1>2, <1>3, <1>4, UpTo
  <2>2. N \in 0..N
    BY <1>2
  <2>3. QED
    BY <1>1, <2>1, <2>2 DEF AddsAll
<1>6. ASSUME Good(g[N].tbl, N) PROVE Complete(g[N].tbl)
  <2>1. Names = Firsts(N)
    BY NamesListed
  <2>2. ASSUME NEW name \in Names PROVE Has(g[N].tbl, name, Check(Family(name)), Batch(Family(name)).n)
    <3>1. PICK i \in 1..N : name = Todo[i].name
      BY <2>1
    <3>2. Family(name) = Todo[i].family
      BY <3>1, NamesListed
    <3>3. QED
      BY <1>6, <3>1, <3>2
  <2>3. QED
    BY <1>6, <2>1, <2>2 DEF Complete
<1> HIDE DEF Good
<1>7. QED
  BY <1>5, <1>6

-----------------------------------------------------------------------------
(* The invariant.                                                          *)

\* Whatever failed, the names in the table lead to their functions; a module
\* that is ready has all of them.
TableInv ==
  /\ b \in Backends /\ tbl \in Tables
  /\ (ready /\ b # "user") =>
       module = Names /\ \A name \in Names : Has(tbl, name, Check(Family(name)), Batch(Family(name)).n)

LEMMA NoTableIs == NoTable \in Tables
<1>1. NoTable = [value |-> << >>, funcs |-> << >>]
  BY DEF NoTable
<1>2. << >> \in Maps /\ << >> \in Seq(Func) /\ DOMAIN << >> = {}
  <2>1. << >> \in [{} -> Nat] /\ {} \in SUBSET Nodes
    OBVIOUS
  <2>2. QED
    BY <2>1, EmptySeq DEF Maps
<1>3. NoTable \in Trees /\ NoTable.value = << >>
  BY <1>1, <1>2 DEF Trees
<1>4. QED
  BY <1>2, <1>3 DEF Tables, Leads

\* What is registered stays the same.
LEMMA SameModule ==
  ASSUME b' = b
  PROVE  Names' = Names /\ \A name : Check(Family(name))' = Check(Family(name)) /\ Batch(Family(name))' = Batch(Family(name))
<1>1. Registered' = Registered
  BY DEF Registered
<1>2. Names' = Names
  BY <1>1 DEF Names
<1> DEFINE F(R, name) == R[CHOOSE i \in DOMAIN R : name \in ToSet(R[i].names)].family
           C(f) == IF f \in Unchecked THEN None ELSE f
<1>3. ASSUME NEW name PROVE Family(name)' = Family(name)
  <2>1. Family(name)' = F(Registered', name) /\ Family(name) = F(Registered, name)
    BY DEF Family, FamilyOf
  <2> HIDE DEF F
  <2>2. QED
    BY <1>1, <2>1
<1>4. ASSUME NEW name PROVE Check(Family(name))' = Check(Family(name))
  <2>1. Check(Family(name))' = C(Family(name)') /\ Check(Family(name)) = C(Family(name))
    BY DEF Check
  <2> HIDE DEF C
  <2>2. QED
    BY <1>3, <2>1
<1>5. ASSUME NEW name PROVE Batch(Family(name))' = Batch(Family(name))
  <2> DEFINE f == Family(name)
             g == f'
  <2>1. g = f
    BY <1>3
  <2>2. InitRows(f)' = InitRows(f)
    BY <2>1 DEF InitRows
  <2>3. Variants(f)' = Variants(f)
    BY <2>1 DEF Variants
  <2> HIDE DEF f
  <2>4. Batch(f)' = Batch(f)
    BY <2>1, <2>2, <2>3 DEF Batch
  <2>5. QED
    BY <2>4 DEF f
<1>6. QED
  BY <1>2, <1>4, <1>5

LEMMA FaultsAre == \A fault \in Faults : IsFault(fault)
<1> SUFFICES ASSUME NEW fault \in Faults, fault.kind = "sig" PROVE fault.at \in Int
  BY DEF IsFault
<1>1. CASE fault \in [name : Faulty, kind : {"sig"}, at : FaultAt]
  <2>1. fault.at \in FaultAt
    BY <1>1
  <2>2. FaultAt \subseteq Nat \ {0}
    BY RangesAssumption, Zenon
  <2>3. FaultAt \subseteq Int
    BY <2>2
  <2>4. QED
    BY <2>1, <2>3
<1>2. CASE fault \in {[name |-> n, kind |-> "node", at |-> k] : n \in Faulty, k \in 0..1}
  <2>1. PICK n \in Faulty : \E k \in 0..1 : fault = [name |-> n, kind |-> "node", at |-> k]
    BY <1>2
  <2>2. fault.kind = "node"
    BY <2>1
  <2>3. QED
    BY <2>2
<1>3. CASE fault \in [name : Faulty, kind : {"func"}, at : {0}]
  <2>1. fault.kind = "func"
    BY <1>3
  <2>2. QED
    BY <2>1
<1>4. CASE fault \in {[name |-> None, kind |-> None, at |-> 0], [name |-> None, kind |-> "table", at |-> 0]}
  BY <1>4 DEF None
<1>5. QED
  BY <1>1, <1>2, <1>3, <1>4 DEF Faults

LEMMA TableInit == Init => TableInv
<1> SUFFICES ASSUME Init PROVE TableInv
  OBVIOUS
<1>1. tbl \in Tables
  BY NoTableIs, EmptyTable DEF Init
<1>2. QED
  BY <1>1 DEF Init, TableInv

\* The import of a module.
LEMMA ImportKeeps == ASSUME TableInv, Import PROVE TableInv'
<1>1. b' = b /\ b \in Backends /\ b \in {"cpu", "cuda"} /\ module = {}
  BY RangesAssumption DEF TableInv, Import
<1>2. PICK fault \in Faults : IF fault.kind = "table" THEN tbl' = NoTable /\ UNCHANGED <<module, ready, aborted>>
                              ELSE Imported(AddAll(fault))
  BY DEF Import
<1>3. CASE fault.kind = "table"
  <2>1. tbl' = NoTable /\ module' = {} /\ ready' = ready
    BY <1>1, <1>2, <1>3
  <2>2. ASSUME ready' PROVE Names' = {}
    BY <1>1, <2>1, <2>2, SameModule DEF TableInv
  <2>3. QED
    BY <1>1, <2>1, <2>2, NoTableIs DEF TableInv
<1>4. CASE fault.kind # "table"
  <2> DEFINE done == AddAll(fault)
  <2>1. done \in Results /\ (done.ok => Complete(done.tbl))
    BY <1>1, FaultsAre, AllAdded
  <2>2. tbl' = done.tbl /\ ready' = done.ok /\ module' = IF done.ok THEN InTree(done.tbl) ELSE {}
    BY <1>2, <1>4 DEF Imported, InTree
  <2> HIDE DEF done
  <2>3. tbl' \in Tables
    BY <2>1, <2>2 DEF Results
  <2>4. ASSUME ready'
        PROVE  /\ module' = Names'
               /\ \A name \in Names' : Has(tbl', name, Check(Family(name))', Batch(Family(name))'.n)
    <3>1. done.ok /\ Complete(tbl') /\ module' = InTree(tbl')
      BY <2>1, <2>2, <2>4
    <3>2. module' = Names /\ \A name \in Names : Has(tbl', name, Check(Family(name)), Batch(Family(name)).n)
      BY <3>1 DEF Complete
    <3>3. QED
      BY <1>1, <3>2, SameModule
  <2>5. QED
    BY <1>1, <2>3, <2>4 DEF TableInv
<1>5. QED
  BY <1>3, <1>4

\* A kernel that the user adds.
LEMMA UserAdds ==
  ASSUME TableInv, NEW name \in UserNames, NEW n \in Int, NEW fault, IsFault(fault),
         unsafe_add_kernel(name, n, fault)
  PROVE  TableInv'
<1> DEFINE batch == [rows |-> "user", n |-> n]
           done == gm_add_kernels(tbl, name, batch, None, fault)
<1>1. b' = b /\ b = "user" /\ tbl' = done.tbl
  BY DEF unsafe_add_kernel, Added
<1>2. batch \in Group /\ None \in Labels /\ name \in AllNames
  BY DEF Group, Labels, None, AllNames
<1>3. tbl \in Tables /\ b \in Backends
  BY DEF TableInv
<1> HIDE DEF batch
<1>4. done \in [ok : BOOLEAN, tbl : Tables]
  BY <1>2, <1>3, KernelsAdded
<1> HIDE DEF done
<1>5. done.tbl \in Tables
  BY <1>4
<1>6. QED
  BY <1>1, <1>3, <1>5 DEF TableInv

\* Everything else leaves the table as it is.
LEMMA Unchanged ==
  ASSUME TableInv, UNCHANGED <<b, tbl, module, ready>> PROVE TableInv'
<1>1. Names' = Names /\ \A name : Check(Family(name))' = Check(Family(name)) /\ Batch(Family(name))' = Batch(Family(name))
  BY SameModule
<1>2. \A name : Has(tbl', name, Check(Family(name))', Batch(Family(name))'.n)
                  <=> Has(tbl, name, Check(Family(name)), Batch(Family(name)).n)
  BY <1>1
<1>3. QED
  BY <1>1, <1>2 DEF TableInv

LEMMA TableStep == ASSUME TableInv, [LoopNext]_loopVars PROVE TableInv'
<1>1. CASE Import
  BY <1>1, ImportKeeps
<1>2. ASSUME NEW name \in UserNames, NEW n \in Repeats, unsafe_add_kernel(name, n, NoFault) PROVE TableInv'
  <2>1. n \in Int /\ IsFault(NoFault)
    BY RangesAssumption DEF IsFault, NoFault, None
  <2>2. QED
    BY <1>2, <2>1, UserAdds
<1>3. ASSUME NEW name \in UserNames, unsafe_add_kernel(name, 1, [kind |-> "sig", at |-> 1]) PROVE TableInv'
  <2>1. IsFault([kind |-> "sig", at |-> 1])
    BY DEF IsFault
  <2>2. QED
    BY <1>3, <2>1, UserAdds
<1>4. CASE \E name \in Called \intersect module : \E a \in Arguments(name) : Call(a)
  <2>1. UNCHANGED <<b, tbl, module, ready>>
    BY <1>4 DEF Call
  <2>2. QED
    BY <2>1, Unchanged
<1>5. CASE Return \/ Stopped \/ Start \/ MapRow \/ Finish
  <2>1. UNCHANGED <<b, tbl, module, ready>>
    BY <1>5 DEF Return, Stopped, Start, MapRow, Finish, vars
  <2>2. QED
    BY <2>1, Unchanged
<1>6. CASE UNCHANGED loopVars
  <2>1. UNCHANGED <<b, tbl, module, ready>>
    BY <1>6 DEF loopVars, vars
  <2>2. QED
    BY <2>1, Unchanged
<1>7. QED
  BY <1>1, <1>2, <1>3, <1>4, <1>5, <1>6 DEF LoopNext, Next

LEMMA TableSafe == TableInv => TableExact
<1> SUFFICES ASSUME TableInv PROVE TableExact
  OBVIOUS
<1>1. LookupExact
  BY DEF TableInv, Tables, Leads, LookupExact
<1>2. ImportComplete
  BY DEF TableInv, ImportComplete, Has
<1>3. QED
  BY <1>1, <1>2 DEF TableExact

\* The table of functions is complete and leads to what it should, after any
\* sequence of imports that fail where they can fail (gm_init_cpu_unary_kernels()
\* and its siblings, gm_add_kernel(), gm_tbl_add()) and of calls of
\* unsafe_add_kernel(), for any names whose letters differ.
THEOREM TableOfFunctions == LoopSpec => []TableExact
<1>1. LoopInit => TableInv
  BY TableInit DEF LoopInit
<1>2. TableInv /\ [LoopNext]_loopVars => TableInv'
  BY TableStep
<1>3. QED
  BY <1>1, <1>2, TableSafe, PTL DEF LoopSpec

-----------------------------------------------------------------------------
(* Powers modulo 128.                                                      *)

\* g[k] is the power of x with the exponent k.
PowersOf(x) == {g \in [0..255 -> Int] : g[0] = 1 /\ \A k \in 1..255 : g[k] = g[k-1] * x}

LEMMA PowersExist == ASSUME NEW x \in Int PROVE \E g : g \in PowersOf(x)
<1> DEFINE V == Int
           H == [k \in 1..255 |-> [y \in V |-> y * x]]
<1>1. H \in [1..255 -> [V -> V]] /\ 1 \in V /\ 255 \in Nat
  OBVIOUS
<1> HIDE DEF H
<1>2. PICK g \in [0..255 -> V] : Follows(g, 255, 1, H)
  BY <1>1, RecursionExists
<1>3. \A k \in 1..255 : g[k] = H[k][g[k-1]] /\ g[k-1] \in V
  <2>1. \A k \in 1..255 : k-1 \in 0..255
    OBVIOUS
  <2>2. \A k \in 1..255 : g[k-1] \in V
    BY <2>1
  <2>3. QED
    BY <1>2, <2>2 DEF Follows
<1>4. \A k \in 1..255 : g[k] = g[k-1] * x
  BY <1>3 DEF H
<1>5. QED
  BY <1>2, <1>4 DEF PowersOf, Follows

LEMMA PowersAre ==
  ASSUME NEW x \in Int, NEW g \in PowersOf(x)
  PROVE  /\ g \in [0..255 -> Int] /\ g[0] = 1
         /\ \A n \in 0..254 : g[n] \in Int /\ g[n+1] = g[n] * x
<1>1. \A n \in 0..254 : n+1 \in 1..255 /\ (n+1)-1 = n
  OBVIOUS
<1>2. \A n \in 0..254 : g[n+1] = g[n] * x
  BY <1>1 DEF PowersOf
<1>3. QED
  BY <1>2 DEF PowersOf

\* Congruence.
Cong(x, y) == \E q \in Int : x = y + 128 * q

LEMMA CongSame == ASSUME NEW x \in Int PROVE Cong(x, x)
<1>1. x = x + 128 * 0
  OBVIOUS
<1>2. QED
  BY <1>1 DEF Cong

LEMMA CongMod == ASSUME NEW x \in Nat PROVE x % 128 \in 0..127 /\ Cong(x % 128, x)
<1>1. x \div 128 \in Nat /\ x % 128 \in 0..127 /\ x = (x % 128) + (x \div 128) * 128
  BY Division
<1> DEFINE q == x \div 128
           r == x % 128
<1>2. q \in Nat /\ r \in 0..127 /\ x = r + q * 128
  BY <1>1
<1> HIDE DEF q, r
<1>3. r = x + 128 * (-q) /\ -q \in Int
  BY <1>2
<1>4. Cong(r, x)
  BY <1>3 DEF Cong
<1>5. QED
  BY <1>2, <1>4 DEF r

LEMMA CongTrans ==
  ASSUME NEW x \in Int, NEW y \in Int, NEW z \in Int, Cong(x, y), Cong(y, z)
  PROVE  Cong(x, z)
<1>1. PICK p \in Int : x = y + 128 * p
  BY DEF Cong
<1>2. PICK q \in Int : y = z + 128 * q
  BY DEF Cong
<1>3. x = z + 128 * (p + q) /\ p + q \in Int
  BY <1>1, <1>2
<1>4. QED
  BY <1>3 DEF Cong

LEMMA CongTimes ==
  ASSUME NEW x \in Int, NEW y \in Int, NEW u \in Int, NEW v \in Int, Cong(x, y), Cong(u, v)
  PROVE  Cong(x * u, y * v)
<1>1. PICK p \in Int : x = y + 128 * p
  BY DEF Cong
<1>2. PICK q \in Int : u = v + 128 * q
  BY DEF Cong
<1> DEFINE c == y * q + p * v + 128 * (p * q)
<1>3. c \in Int
  OBVIOUS
<1>4. x * u = y * v + 128 * c
  <2>1. x * u = (y + 128 * p) * (v + 128 * q)
    BY <1>1, <1>2
  <2>2. (y + 128 * p) * (v + 128 * q) = y * v + 128 * (y * q) + 128 * (p * v) + 128 * (128 * (p * q))
    OBVIOUS
  <2>3. 128 * c = 128 * (y * q) + 128 * (p * v) + 128 * (128 * (p * q))
    OBVIOUS
  <2>4. x * u \in Int /\ y * v \in Int /\ 128 * (y * q) \in Int /\ 128 * (p * v) \in Int /\ 128 * (128 * (p * q)) \in Int
    OBVIOUS
  <2> HIDE DEF c
  <2>5. QED
    BY <2>1, <2>2, <2>3, <2>4
<1> HIDE DEF c
<1>5. QED
  BY <1>3, <1>4 DEF Cong

LEMMA CongEqual == ASSUME NEW x \in 0..127, NEW y \in 0..127, Cong(x, y) PROVE x = y
<1>1. PICK q \in Int : x = y + 128 * q
  BY DEF Cong
<1>2. QED
  BY <1>1

\* Powers of congruent numbers are congruent.
LEMMA CongPowers ==
  ASSUME NEW x \in Int, NEW y \in Int, Cong(x, y), NEW g \in PowersOf(x), NEW h \in PowersOf(y)
  PROVE  \A n \in 0..255 : Cong(g[n], h[n])
<1> DEFINE T == {n \in 0..255 : Cong(g[n], h[n])}
<1>1. 0 \in T
  <2>1. g[0] = 1 /\ h[0] = 1 /\ Cong(1, 1)
    BY PowersAre, CongSame
  <2>2. QED
    BY <2>1
<1>2. ASSUME NEW n \in 0..(255-1), n \in T PROVE n+1 \in T
  <2>1. n \in 0..254 /\ n+1 \in 0..255 /\ Cong(g[n], h[n])
    BY <1>2
  <2>2. /\ g[n] \in Int /\ g[n+1] = g[n] * x
        /\ h[n] \in Int /\ h[n+1] = h[n] * y
    BY <2>1, PowersAre
  <2>3. Cong(g[n] * x, h[n] * y)
    BY <2>1, <2>2, CongTimes
  <2>4. QED
    BY <2>1, <2>2, <2>3
<1> HIDE DEF T
<1>3. \A n \in 0..255 : n \in T
  BY <1>1, <1>2, UpTo
<1>4. QED
  BY <1>3 DEF T

\* Powers of a square.
LEMMA SquarePowers ==
  ASSUME NEW x \in Int, NEW g \in PowersOf(x), NEW h \in PowersOf(x * x)
  PROVE  \A n \in 0..127 : h[n] = g[2 * n]
<1> DEFINE T == {n \in 0..127 : h[n] = g[2 * n]}
<1>1. 0 \in T
  <2>1. g[0] = 1 /\ h[0] = 1 /\ 2 * 0 = 0 /\ x * x \in Int
    BY PowersAre
  <2>2. QED
    BY <2>1
<1>2. ASSUME NEW n \in 0..(127-1), n \in T PROVE n+1 \in T
  <2>1. n \in 0..254 /\ 2 * n \in 0..254 /\ 2 * n + 1 \in 0..254 /\ n+1 \in 0..127 /\ h[n] = g[2 * n]
        /\ 2 * (n + 1) = (2 * n + 1) + 1
    BY <1>2
  <2>2. /\ h[n] \in Int /\ h[n+1] = h[n] * (x * x)
        /\ g[2 * n] \in Int /\ g[2 * n + 1] = g[2 * n] * x
        /\ g[(2 * n + 1) + 1] = g[2 * n + 1] * x
    BY <2>1, PowersAre
  <2>3. h[n] * (x * x) = (h[n] * x) * x
    BY <2>2
  <2>4. h[n+1] = g[2 * (n + 1)]
    BY <2>1, <2>2, <2>3
  <2>5. QED
    BY <2>1, <2>4
<1> HIDE DEF T
<1>3. \A n \in 0..127 : n \in T
  BY <1>1, <1>2, UpTo
<1>4. QED
  BY <1>3 DEF T

\* Powers of a negative number.
LEMMA SignedPowers ==
  ASSUME NEW x \in Int, NEW g \in PowersOf(x), NEW h \in PowersOf(Magnitude(x))
  PROVE  \A n \in 0..255 : h[n] \in Nat /\ g[n] = IF x < 0 /\ n % 2 # 0 THEN -h[n] ELSE h[n]
<1> DEFINE y == Magnitude(x)
           T == {n \in 0..255 : h[n] \in Nat /\ g[n] = IF x < 0 /\ n % 2 # 0 THEN -h[n] ELSE h[n]}
<1>1. y \in Nat /\ h \in PowersOf(y) /\ y = IF x < 0 THEN -x ELSE x
  BY DEF Magnitude
<1> HIDE DEF y
<1>2. 0 \in T
  <2>1. g[0] = 1 /\ h[0] = 1
    BY <1>1, PowersAre
  <2>2. QED
    BY <2>1
<1>3. ASSUME NEW n \in 0..(255-1), n \in T PROVE n+1 \in T
  <2>1. n \in 0..254 /\ n+1 \in 0..255 /\ h[n] \in Nat
        /\ g[n] = IF x < 0 /\ n % 2 # 0 THEN -h[n] ELSE h[n]
    BY <1>3
  <2>2. /\ g[n+1] = g[n] * x
        /\ h[n+1] = h[n] * y
    <3>1. g[n+1] = g[n] * x
      BY <2>1, PowersAre
    <3>2. y \in Int
      BY <1>1
    <3>3. h[n+1] = h[n] * y
      BY <1>1, <2>1, <3>2, PowersAre
    <3>4. QED
      BY <3>1, <3>3
  <2>3. (n+1) % 2 # 0 <=> n % 2 = 0
    BY <2>1
  <2>4. h[n] * y \in Nat
    BY <1>1, <2>1
  <2> DEFINE p == h[n]
  <2>5. (-p) * (-y) = p * y /\ p * (-y) = -(p * y)
    BY <1>1, <2>1
  <2>6. g[n+1] = IF x < 0 /\ (n+1) % 2 # 0 THEN -(p * y) ELSE p * y
    <3>1. CASE x >= 0
      BY <1>1, <2>1, <2>2, <3>1
    <3>2. CASE x < 0
      <4>1. x = -y
        BY <1>1, <3>2
      <4>2. CASE n % 2 = 0
        BY <2>1, <2>2, <2>3, <2>5, <3>2, <4>1, <4>2
      <4>3. CASE n % 2 # 0
        BY <2>1, <2>2, <2>3, <2>5, <3>2, <4>1, <4>3
      <4>4. QED
        BY <4>2, <4>3
    <3>3. QED
      BY <3>1, <3>2
  <2>7. QED
    BY <2>1, <2>2, <2>4, <2>6
<1> HIDE DEF T
<1>4. \A n \in 0..255 : n \in T
  BY <1>2, <1>3, UpTo
<1>5. QED
  BY <1>4 DEF T

-----------------------------------------------------------------------------
(* pow_unsigned().                                                         *)

PowBody(f) ==
  [e \in 0..255 |-> [base \in 0..255 |-> [r \in 0..127 |->
    IF e = 0 THEN r ELSE f[e \div 2][(base * base) % 128][IF e % 2 = 1 THEN (r * base) % 128 ELSE r]]]]

LEMMA Halves ==
  ASSUME NEW e \in 0..255
  PROVE  /\ e \div 2 \in 0..127 /\ e % 2 \in 0..1 /\ e = (e % 2) + (e \div 2) * 2
         /\ e # 0 => e \div 2 < e
<1>1. /\ e \div 2 \in Nat /\ e % 2 \in 0..1 /\ e = (e % 2) + (e \div 2) * 2
  BY Division
<1> DEFINE q == e \div 2
           t == e % 2
<1>2. q \in Nat /\ t \in 0..1 /\ e = t + q * 2
  BY <1>1
<1> HIDE DEF q, t
<1>3. q \in 0..127 /\ (e # 0 => q < e)
  BY <1>2
<1>4. QED
  BY <1>2, <1>3 DEF q, t

LEMMA PowStep ==
  ASSUME NEW base \in 0..255, NEW r \in 0..127
  PROVE  (base * base) % 128 \in 0..127 /\ (r * base) % 128 \in 0..127
<1>1. base * base \in Nat /\ r * base \in Nat
  OBVIOUS
<1>2. QED
  BY <1>1, CongMod

\* The recursion has a solution: the one for exponents up to k gives the one for k+1.
LEMMA PowSolved == \E f : f = PowBody(f)
<1> DEFINE V0 == [0..255 -> [0..127 -> 0..127]]
           V == [0..255 -> V0]
           One(F, k) == [base \in 0..255 |-> [r \in 0..127 |->
             F[k \div 2][(base * base) % 128][IF k % 2 = 1 THEN (r * base) % 128 ELSE r]]]
           H == [k \in 1..255 |-> [F \in V |-> [e \in 0..255 |-> IF e = k THEN One(F, k) ELSE F[e]]]]
           a == [e \in 0..255 |-> [base \in 0..255 |-> [r \in 0..127 |-> r]]]
<1>1. a \in V
  OBVIOUS
<1> HIDE DEF V, a
<1>2. ASSUME NEW k \in 1..255, NEW F \in V PROVE One(F, k) \in V0
  <2>1. k \div 2 \in 0..255
    <3>1. k \in 0..255
      OBVIOUS
    <3>2. k \div 2 \in 0..127
      BY <3>1, Halves
    <3>3. QED
      BY <3>2
  <2>2. F[k \div 2] \in V0
    BY <2>1 DEF V
  <2> HIDE DEF V0
  <2>3. ASSUME NEW base \in 0..255, NEW r \in 0..127
        PROVE  F[k \div 2][(base * base) % 128][IF k % 2 = 1 THEN (r * base) % 128 ELSE r] \in 0..127
    <3> DEFINE y == (base * base) % 128
               z == IF k % 2 = 1 THEN (r * base) % 128 ELSE r
    <3>1. y \in 0..255 /\ z \in 0..127
      <4>1. (base * base) % 128 \in 0..127 /\ (r * base) % 128 \in 0..127
        BY PowStep
      <4>2. y \in 0..127
        BY <4>1
      <4>3. z \in 0..127
        BY <4>1
      <4> HIDE DEF y, z
      <4>4. QED
        BY <4>2, <4>3
    <3> HIDE DEF y, z
    <3>2. F[k \div 2][y] \in [0..127 -> 0..127]
      BY <2>2, <3>1 DEF V0
    <3>3. F[k \div 2][y][z] \in 0..127
      BY <3>1, <3>2
    <3>4. QED
      BY <3>3 DEF y, z
  <2>4. QED
    BY <2>3 DEF V0
<1> HIDE DEF V0, One
<1>3. H \in [1..255 -> [V -> V]]
  <2>1. ASSUME NEW k \in 1..255, NEW F \in V PROVE [e \in 0..255 |-> IF e = k THEN One(F, k) ELSE F[e]] \in V
    BY <1>2 DEF V
  <2>2. QED
    BY <2>1
<1> HIDE DEF H
<1>4. PICK g \in [0..255 -> V] : Follows(g, 255, a, H)
  BY <1>1, <1>3, RecursionExists
<1>5. ASSUME NEW k \in 1..255 PROVE g[k-1] \in V /\ g[k] = [e \in 0..255 |-> IF e = k THEN One(g[k-1], k) ELSE g[k-1][e]]
  <2>1. k-1 \in 0..255
    OBVIOUS
  <2>2. g[k-1] \in V /\ g[k] = H[k][g[k-1]]
    BY <1>4, <2>1 DEF Follows
  <2>3. QED
    BY <2>2 DEF H
\* What is set stays.
<1> DEFINE T(e) == {n \in 0..255 : n >= e => g[n][e] = g[e][e]}
<1>6. ASSUME NEW e \in 0..255 PROVE \A n \in 0..255 : n >= e => g[n][e] = g[e][e]
  <2>1. 0 \in T(e)
    OBVIOUS
  <2>2. ASSUME NEW n \in 0..(255-1), n \in T(e) PROVE n+1 \in T(e)
    <3>1. n+1 \in 1..255 /\ n+1 \in 0..255 /\ (n+1)-1 = n
      OBVIOUS
    <3>2. CASE n+1 = e
      BY <3>1, <3>2
    <3>3. CASE n+1 # e
      <4>1. g[n+1] = [d \in 0..255 |-> IF d = n+1 THEN One(g[(n+1)-1], n+1) ELSE g[(n+1)-1][d]]
        BY ONLY <1>5, <3>1
      <4>2. g[n+1][e] = g[(n+1)-1][e]
        BY <3>3, <4>1
      <4>3. n+1 >= e => n >= e
        BY <3>3
      <4>4. QED
        BY <2>2, <3>1, <4>2, <4>3
    <3>4. QED
      BY <3>2, <3>3
  <2> HIDE DEF T
  <2>3. \A n \in 0..255 : n \in T(e)
    BY <2>1, <2>2, UpTo
  <2>4. QED
    BY <2>3 DEF T
<1> DEFINE f == g[255]
<1>7. f \in V
  OBVIOUS
<1>8. f[0] = [base \in 0..255 |-> [r \in 0..127 |-> r]]
  <2>1. g[0] = a
    BY <1>4 DEF Follows
  <2>a. a[0] = [base \in 0..255 |-> [r \in 0..127 |-> r]]
    <3>1. 0 \in 0..255
      OBVIOUS
    <3>2. QED
      BY ONLY <3>1 DEF a
  <2>2. f[0] = g[0][0]
    <3>1. 0 \in 0..255 /\ 255 \in 0..255 /\ 255 >= 0
      OBVIOUS
    <3>2. QED
      BY <1>6, <3>1
  <2>3. QED
    BY ONLY <2>1, <2>a, <2>2
<1>9. ASSUME NEW e \in 1..255 PROVE f[e] = One(f, e)
  <2>1. e \in 0..255 /\ e-1 \in 0..255 /\ e \div 2 \in 0..255 /\ e-1 >= e \div 2
    BY Halves
  <2>2. f[e] = g[e][e]
    <3>1. 255 \in 0..255 /\ 255 >= e
      OBVIOUS
    <3>2. QED
      BY <1>6, <2>1, <3>1
  <2>3. g[e][e] = One(g[e-1], e)
    BY <1>5, <2>1
  <2>4. g[e-1][e \div 2] = f[e \div 2]
    <3>1. g[e-1][e \div 2] = g[e \div 2][e \div 2]
      BY <1>6, <2>1
    <3>2. 255 \in 0..255 /\ 255 >= e \div 2
      BY <2>1
    <3>3. f[e \div 2] = g[e \div 2][e \div 2]
      BY <1>6, <2>1, <3>2
    <3>4. QED
      BY <3>1, <3>3
  <2> HIDE DEF f
  <2>5. One(g[e-1], e) = One(f, e)
    BY <2>4 DEF One
  <2>6. QED
    BY <2>2, <2>3, <2>5
<1> HIDE DEF f
<1>10. f = PowBody(f)
  <2>1. f = [e \in 0..255 |-> f[e]]
    BY <1>7 DEF V
  <2>2. ASSUME NEW e \in 0..255
        PROVE  f[e] = [base \in 0..255 |-> [r \in 0..127 |->
                 IF e = 0 THEN r ELSE f[e \div 2][(base * base) % 128][IF e % 2 = 1 THEN (r * base) % 128 ELSE r]]]
    <3>1. CASE e = 0
      BY <1>8, <3>1
    <3>2. CASE e # 0
      <4>1. e \in 1..255
        BY <3>2
      <4>2. f[e] = [base \in 0..255 |-> [r \in 0..127 |->
                     f[e \div 2][(base * base) % 128][IF e % 2 = 1 THEN (r * base) % 128 ELSE r]]]
        BY <1>9, <4>1 DEF One
      <4>3. QED
        BY <3>2, <4>2
    <3>3. QED
      BY <3>1, <3>2
  <2>3. QED
    BY <2>1, <2>2 DEF PowBody
<1>11. QED
  BY <1>10

PowMore(e, base, r) == PowLoop[e \div 2][(base * base) % 128][IF e % 2 = 1 THEN (r * base) % 128 ELSE r]

LEMMA PowRec ==
  ASSUME NEW e \in 0..255, NEW base \in 0..255, NEW r \in 0..127
  PROVE  PowLoop[e][base][r] = IF e = 0 THEN r ELSE PowMore(e, base, r)
<1> DEFINE p == CHOOSE f : f = PowBody(f)
<1>1. PowLoop = p
  BY DEF PowLoop, PowBody
<1>2. p = PowBody(p)
  BY PowSolved
<1> HIDE DEF p
<1>3. PowLoop = PowBody(PowLoop)
  BY <1>1, <1>2
<1>4. ASSUME NEW f
      PROVE  PowBody(f)[e][base][r] =
               IF e = 0 THEN r ELSE f[e \div 2][(base * base) % 128][IF e % 2 = 1 THEN (r * base) % 128 ELSE r]
  <2> DEFINE x == IF e = 0 THEN r ELSE f[e \div 2][(base * base) % 128][IF e % 2 = 1 THEN (r * base) % 128 ELSE r]
  <2>1. PowBody(f)[e][base][r] = x
    BY ZenonT(30) DEF PowBody
  <2>2. QED
    BY <2>1
<1> HIDE DEF PowBody
<1>5. PowLoop[e][base][r] = PowBody(PowLoop)[e][base][r]
  BY <1>3
<1>6. QED
  BY <1>4, <1>5 DEF PowMore

\* It is the power, modulo 128.
LEMMA PowLoopIs ==
  ASSUME NEW e \in 0..255, NEW base \in 0..255, NEW r \in 0..127, NEW g \in PowersOf(base)
  PROVE  PowLoop[e][base][r] \in 0..127 /\ Cong(PowLoop[e][base][r], r * g[e])
<1> DEFINE Right(n, x, y, h) == PowLoop[n][x][y] \in 0..127 /\ Cong(PowLoop[n][x][y], y * h[n])
           All(n) == \A x \in 0..255 : \A y \in 0..127 : \A h \in PowersOf(x) : Right(n, x, y, h)
           T == {m \in 0..255 : \A n \in 0..m : All(n)}
<1>1. ASSUME NEW n \in 0..255, NEW x \in 0..255, NEW y \in 0..127, NEW h \in PowersOf(x), n = 0 PROVE Right(n, x, y, h)
  <2>1. PowLoop[n][x][y] = y
    BY <1>1, PowRec
  <2>2. h[0] = 1 /\ y * 1 = y /\ Cong(y, y)
    BY PowersAre, CongSame
  <2>3. QED
    BY <1>1, <2>1, <2>2
<1>2. ASSUME NEW n \in 1..255, NEW x \in 0..255, NEW y \in 0..127, NEW h \in PowersOf(x),
             All(n \div 2)
      PROVE  Right(n, x, y, h)
  <2> DEFINE k == n \div 2
             c == (x * x) % 128
             d == IF n % 2 = 1 THEN (y * x) % 128 ELSE y
             z == PowLoop[k][c][d]
  <2>1. n \in 0..255 /\ n # 0 /\ x * x \in Nat /\ y * x \in Nat /\ x \in Int /\ y \in Int
    OBVIOUS
  <2>2. k \in 0..127 /\ n % 2 \in 0..1 /\ n = (n % 2) + k * 2
    BY <2>1, Halves
  <2>3. c \in 0..127 /\ Cong(c, x * x)
    BY <2>1, CongMod
  <2>4. (y * x) % 128 \in 0..127 /\ Cong((y * x) % 128, y * x)
    BY <2>1, CongMod
  <2>5. PowLoop[n][x][y] = z
    <3>1. PowLoop[n][x][y] = PowMore(n, x, y)
      BY ONLY <2>1, x \in 0..255, y \in 0..127, PowRec
    <3>2. QED
      BY <3>1 DEF PowMore
  <2>6. d \in 0..127 /\ Cong(d, IF n % 2 = 1 THEN y * x ELSE y)
    <3>1. CASE n % 2 = 1
      BY <2>4, <3>1
    <3>2. CASE n % 2 # 1
      BY <2>1, <3>2, CongSame
    <3>3. QED
      BY <3>1, <3>2
  <2>7. PICK u : u \in PowersOf(c)
    <3>1. c \in Int
      BY <2>3
    <3> HIDE DEF c
    <3>2. QED
      BY <3>1, PowersExist
  <2>8. PICK v : v \in PowersOf(x * x)
    BY <2>1, PowersExist
  <2> HIDE DEF k, c, d, z
  <2>9. Right(k, c, d, u)
    <3>1. c \in 0..255
      BY <2>3
    <3> HIDE DEF Right
    <3>2. QED
      BY <1>2, <2>6, <2>7, <3>1 DEF k
  <2>10. z \in 0..127 /\ Cong(z, d * u[k])
    BY <2>9 DEF z
  <2>11. u[k] \in Int /\ v[k] \in Int /\ Cong(u[k], v[k]) /\ v[k] = h[2 * k] /\ h[2 * k] \in Int
    <3>1. k \in 0..255 /\ c \in Int /\ x * x \in Int /\ k \in 0..254 /\ 2 * k \in 0..254
      BY <2>1, <2>2, <2>3
    <3>2. Cong(u[k], v[k])
      BY <2>3, <2>7, <2>8, <3>1, CongPowers
    <3>3. u[k] \in Int /\ v[k] \in Int
      BY <2>7, <2>8, <3>1, PowersAre
    <3>4. v[k] = h[2 * k]
      BY <2>1, <2>2, <2>8, SquarePowers
    <3>5. QED
      BY <3>2, <3>3, <3>4
  <2> DEFINE w == IF n % 2 = 1 THEN y * x ELSE y
  <2>12. w \in Int /\ Cong(d, w)
    BY <2>1, <2>6
  <2>13. Cong(d * u[k], w * v[k])
    <3>1. d \in Int
      BY <2>6
    <3> HIDE DEF w
    <3>2. QED
      BY <2>11, <2>12, <3>1, CongTimes
  <2>14. w * v[k] = y * h[n]
    <3>1. CASE n % 2 = 1
      <4>1. n = 2 * k + 1 /\ 2 * k \in 0..254
        BY <2>2, <3>1
      <4>2. h[n] = h[2 * k] * x
        BY <2>1, <4>1, PowersAre
      <4>3. (y * x) * h[2 * k] = y * (h[2 * k] * x)
        BY <2>1, <2>11
      <4>4. QED
        BY <2>11, <3>1, <4>2, <4>3
    <3>2. CASE n % 2 # 1
      <4>1. n = 2 * k
        BY <2>2, <3>2
      <4>2. QED
        BY <2>11, <3>2, <4>1
    <3>3. QED
      BY <3>1, <3>2
  <2>15. Cong(z, w * v[k])
    <3>1. z \in Int /\ d * u[k] \in Int /\ w * v[k] \in Int
      BY <2>6, <2>10, <2>11, <2>12
    <3> HIDE DEF w
    <3>2. QED
      BY <2>10, <2>13, <3>1, CongTrans
  <2>16. QED
    BY <2>5, <2>10, <2>14, <2>15
<1>a. ASSUME NEW n \in 0..255, n = 0 PROVE All(n)
  BY <1>1, <1>a
<1>b. ASSUME NEW n \in 1..255, All(n \div 2) PROVE All(n)
  <2> HIDE DEF Right
  <2>1. QED
    BY <1>2, <1>b
<1> HIDE DEF Right, All
<1>3. 0 \in T
  BY <1>a
<1>4. ASSUME NEW m \in 0..(255-1), m \in T PROVE m+1 \in T
  <2>a. m+1 \in 0..255 /\ \A n \in 0..m : All(n)
    BY <1>4
  <2> SUFFICES ASSUME NEW n \in 0..(m+1) PROVE All(n)
    BY <2>a
  <2>1. n \in 0..255
    OBVIOUS
  <2>2. CASE n = 0
    BY <1>a, <2>1, <2>2
  <2>3. CASE n # 0
    <3>1. n \in 1..255 /\ n \div 2 \in 0..m
      BY <2>1, <2>3, Halves
    <3>2. QED
      BY <1>b, <2>a, <3>1
  <2>4. QED
    BY <2>2, <2>3
<1> HIDE DEF T
<1>5. e \in T
  BY <1>3, <1>4, UpTo
<1>6. Right(e, base, r, g)
  <2>1. All(e)
    BY <1>5 DEF T
  <2>2. QED
    BY <2>1 DEF All
<1>7. QED
  BY <1>6 DEF Right

-----------------------------------------------------------------------------
(* Powers of int8_t.                                                       *)

\* The exact power, which stops at the first product that is too large.
Clipped(x, e, v) == v[0] = 1 /\ \A k \in 1..e : v[k] = IF v[k-1] > 127 \/ v[k-1] < -128 THEN v[k-1] ELSE v[k-1] * x

LEMMA ExpRec ==
  ASSUME NEW x \in Int, NEW e \in Nat
  PROVE  \E g \in [0..e -> Int] : Clipped(x, e, g) /\ Exp(x, e) = g[e]
<1> DEFINE s == [k \in 1..e |-> k]
           V == Int
           a == 1
           E(k, r) == IF r > 127 \/ r < -128 THEN r ELSE r * x
           H == [k \in 1..e |-> [r \in V |-> E(k, r)]]
           Body(h) == [u \in SUBSET DOMAIN s |-> IF u = {} THEN a ELSE E(Max(u), h[u \ {Max(u)}])]
<1>1. DOMAIN s = 1..e
  OBVIOUS
<1>2. a \in V
  OBVIOUS
<1>3. ASSUME NEW k \in 1..e, NEW r \in V PROVE E(k, r) \in V
  OBVIOUS
<1>4. Exp(x, e) = (CHOOSE h : h = Body(h))[DOMAIN s]
  BY DEF Exp, FoldLeft, MapThenFoldSet
<1> HIDE DEF V, a, E, s
<1>5. H \in [1..e -> [V -> V]]
  BY <1>3
<1>6. PICK h \in [SUBSET (1..e) -> V] : FoldsTo(h, e, a, H)
  <2> HIDE DEF H
  <2>1. QED
    BY <1>2, <1>5, FoldExists
<1>7. h = Body(h)
  <2>1. ASSUME NEW u \in SUBSET (1..e)
        PROVE  h[u] = IF u = {} THEN a ELSE E(Max(u), h[u \ {Max(u)}])
    <3>1. CASE u = {}
      BY <1>6, <3>1 DEF FoldsTo
    <3>2. CASE u # {}
      <4> DEFINE m == Max(u)
      <4>1. m \in u
        BY <3>2, Largest
      <4>2. h[u] = H[m][h[u \ {m}]]
        BY <1>6, <3>2 DEF FoldsTo
      <4> HIDE DEF m
      <4>3. m \in 1..e /\ h[u \ {m}] \in V
        BY <4>1
      <4>4. QED
        BY <3>2, <4>2, <4>3 DEF m
    <3>3. QED
      BY <3>1, <3>2
  <2>2. QED
    BY <1>1, <2>1
<1> DEFINE v == CHOOSE h_1 : h_1 = Body(h_1)
<1>8. v = Body(v)
  <2> HIDE DEF Body
  <2>1. QED
    BY <1>7
<1>9. Exp(x, e) = v[1..e]
  BY <1>1, <1>4
<1> HIDE DEF v
<1>10. \A u \in SUBSET (1..e) : v[u] = IF u = {} THEN a ELSE E(Max(u), v[u \ {Max(u)}])
  BY <1>1, <1>8
<1> HIDE DEF Body
<1>11. v[{}] = a
  BY <1>10
<1>12. GoesBy(v, e, V, H)
  <2> SUFFICES ASSUME NEW k \in 1..e, NEW r \in V, v[1..(k-1)] = r PROVE v[1..k] = H[k][r]
    BY DEF GoesBy
  <2>1. /\ 1..k \in SUBSET (1..e) /\ 1..k # {}
        /\ Max(1..k) = k
        /\ (1..k) \ {Max(1..k)} = 1..(k-1)
    BY Segment
  <2>2. v[1..k] = E(k, v[1..(k-1)])
    BY <1>10, <2>1
  <2>3. QED
    BY <2>2
<1>13. PICK g \in [0..e -> V] : EndsAs(g, v, e, a, H)
  <2> HIDE DEF H
  <2>1. QED
    BY <1>2, <1>5, <1>11, <1>12, FoldFollows
<1>14. \A k \in 1..e : g[k] = E(k, g[k-1])
  <2> SUFFICES ASSUME NEW k \in 1..e PROVE g[k] = E(k, g[k-1])
    OBVIOUS
  <2>1. g[k-1] \in V
    OBVIOUS
  <2>2. g[k] = H[k][g[k-1]]
    BY <1>13 DEF EndsAs, Follows
  <2>3. QED
    BY <2>1, <2>2
<1>15. g[0] = a
  BY <1>13 DEF EndsAs, Follows
<1>16. Clipped(x, e, g) /\ Exp(x, e) = g[e]
  BY <1>9, <1>13, <1>14, <1>15 DEF EndsAs, Clipped, a, E
<1>17. QED
  BY <1>16 DEF V

\* A power that is not clipped is exact.
LEMMA ExpIs ==
  ASSUME NEW x \in Int, NEW e \in 0..255, NEW g \in PowersOf(x), Exp(x, e) \in -128..127
  PROVE  Exp(x, e) = g[e]
<1>1. PICK v \in [0..e -> Int] : Clipped(x, e, v) /\ Exp(x, e) = v[e]
  <2>1. e \in Nat
    OBVIOUS
  <2>2. QED
    BY <2>1, ExpRec
<1> DEFINE T == {n \in 0..e : v[n] \in -128..127 => v[n] = g[n]}
<1>2. 0 \in T
  <2>1. v[0] = 1 /\ g[0] = 1
    BY <1>1, PowersAre DEF Clipped
  <2>2. QED
    BY <2>1
<1>3. ASSUME NEW n \in 0..(e-1), n \in T PROVE n+1 \in T
  <2>1. n+1 \in 1..e /\ (n+1)-1 = n /\ n \in 0..254 /\ n+1 \in 0..e /\ n \in 0..e
    OBVIOUS
  <2>2. v[n] \in Int /\ v[n+1] = IF v[n] > 127 \/ v[n] < -128 THEN v[n] ELSE v[n] * x
    <3>1. v[n+1] = IF v[(n+1)-1] > 127 \/ v[(n+1)-1] < -128 THEN v[(n+1)-1] ELSE v[(n+1)-1] * x
      BY ONLY <1>1, <2>1 DEF Clipped
    <3>2. QED
      BY <2>1, <3>1
  <2>3. g[n+1] = g[n] * x
    BY <2>1, PowersAre
  <2>4. v[n] \in -128..127 => v[n] = g[n]
    BY <1>3
  <2>5. v[n+1] \in -128..127 => v[n+1] = g[n+1]
    <3> DEFINE y == v[n]
               z == v[n+1]
    <3>a. y \in Int /\ z = (IF y > 127 \/ y < -128 THEN y ELSE y * x) /\ (y \in -128..127 => y = g[n])
      BY <2>2, <2>4
    <3> HIDE DEF y, z
    <3>1. CASE y > 127 \/ y < -128
      <4>1. z \notin -128..127
        BY ONLY <3>a, <3>1
      <4>2. QED
        BY <4>1 DEF z
    <3>2. CASE ~(y > 127 \/ y < -128)
      <4>1. y \in -128..127 /\ z = y * x
        BY ONLY <3>a, <3>2
      <4>2. z = g[n+1]
        BY <2>3, <3>a, <4>1
      <4>3. QED
        BY <4>2 DEF z
    <3>3. QED
      BY <3>1, <3>2
  <2>6. QED
    BY <2>1, <2>5
<1> HIDE DEF T
<1>4. e \in T
  <2>1. e \in Nat /\ e \in 0..e
    OBVIOUS
  <2>2. QED
    BY <1>2, <1>3, <2>1, UpTo
<1>5. QED
  BY <1>1, <1>4 DEF T

LEMMA NegatedZero == ASSUME NEW q \in Int, q >= 0, q <= 0 PROVE -q = 0
<1>1. -q \in Int /\ -q >= 0 /\ -q <= 0
  OBVIOUS
<1>2. \A p \in Int : p >= 0 /\ p <= 0 => p = 0
  OBVIOUS
<1>3. QED
  BY <1>1, <1>2

\* What pow_signed() makes of a power that is a byte: the smallest one becomes 0.
AsPower(p) == IF p = -128 THEN 0 ELSE p

\* pow_signed() is exact where the result is a byte, other than for the smallest.
LEMMA PowIs ==
  ASSUME NEW x \in -128..127, NEW e \in -128..127
  PROVE  /\ pow_signed(x, e) \in Int
         /\ e >= 0 /\ Exp(x, e) \in -128..127 => pow_signed(x, e) = AsPower(Exp(x, e))
<1> DEFINE y == Magnitude(x)
           n == e % 256
           r == PowLoop[n][y][1]
<1>1. y \in 0..255 /\ n \in 0..255 /\ (e >= 0 => n = e)
  BY DEF Magnitude
<1>2. PICK h : h \in PowersOf(y)
  <2>1. y \in Int
    BY <1>1
  <2> HIDE DEF y
  <2>2. QED
    BY <2>1, PowersExist
<1>3. PICK g : g \in PowersOf(x)
  BY PowersExist
<1> HIDE DEF y, n
<1>4. r \in 0..127 /\ Cong(r, 1 * h[n])
  <2>1. 1 \in 0..127
    OBVIOUS
  <2>2. QED
    BY ONLY <1>1, <1>2, <2>1, PowLoopIs
<1>5. pow_signed(x, e) = IF x < 0 /\ e % 2 # 0 THEN -r ELSE r
  BY DEF pow_signed, y, n
<1> HIDE DEF r
<1>6. ASSUME e >= 0, Exp(x, e) \in -128..127 PROVE pow_signed(x, e) = AsPower(Exp(x, e))
  <2>1. e \in 0..255 /\ n = e /\ x \in Int
    BY <1>1, <1>6
  <2>2. Exp(x, e) = g[e]
    BY <1>3, <1>6, <2>1, ExpIs
  <2>3. h[e] \in Nat /\ g[e] = IF x < 0 /\ e % 2 # 0 THEN -h[e] ELSE h[e]
    BY <1>2, <1>3, <2>1, SignedPowers DEF y
  <2>4. h[e] \in 0..128 /\ 1 * h[e] = h[e]
    BY <1>6, <2>2, <2>3
  <2>5. CASE h[e] # 128
    <3>1. h[e] \in 0..127
      BY <2>4, <2>5
    <3>2. r = h[e]
      BY <1>4, <2>1, <2>4, <3>1, CongEqual
    <3>3. g[e] # -128
      BY <2>3, <3>1
    <3>4. QED
      BY <1>5, <2>2, <2>3, <3>2, <3>3 DEF AsPower
  <2>6. CASE h[e] = 128
    <3>1. Cong(128, 0)
      <4>1. 128 = 0 + 128 * 1
        OBVIOUS
      <4>2. QED
        BY <4>1 DEF Cong
    <3>2. Cong(r, 128)
      BY <1>4, <2>1, <2>4, <2>6
    <3>3. r = 0
      <4>1. Cong(r, 0)
        BY <1>4, <3>1, <3>2, CongTrans
      <4>2. QED
        BY <1>4, <4>1, CongEqual
    <3>4. g[e] = -128
      BY <1>6, <2>2, <2>3, <2>6
    <3>5. pow_signed(x, e) = 0
      <4>1. pow_signed(x, e) \in {-r, r}
        BY <1>5
      <4>2. r \in Int /\ r >= 0 /\ r <= 0
        BY <1>4, <3>3
      <4>3. -r = 0
        BY <4>2, NegatedZero
      <4>4. QED
        BY <3>3, <4>1, <4>3
    <3>6. AsPower(Exp(x, e)) = 0
      BY <2>2, <3>4 DEF AsPower
    <3>7. QED
      BY <3>5, <3>6
  <2>7. QED
    BY <2>5, <2>6
<1>7. QED
  BY <1>4, <1>5, <1>6

-----------------------------------------------------------------------------
(* Division of int8_t.                                                     *)

\* _divmod() rounds down.
Floors(x, y, q, r) ==
  /\ r = x - q * y
  /\ IF y > 0 THEN r \in 0..(y-1) ELSE r \in (y+1)..0

LEMMA DivmodIs ==
  ASSUME NEW x \in -128..127, NEW y \in -128..127
  PROVE  /\ divmod_signed(x, y)[1] \in Int /\ divmod_signed(x, y)[2] \in Int
         /\ IF y = 0 \/ (x = -128 /\ y = -1)
            THEN divmod_signed(x, y)[1] = 0 /\ divmod_signed(x, y)[2] = 0
            ELSE Floors(x, y, divmod_signed(x, y)[1], divmod_signed(x, y)[2])
<1>1. CASE y = 0 \/ (x = -128 /\ y = -1)
  BY <1>1 DEF divmod_signed
<1>2. CASE ~(y = 0 \/ (x = -128 /\ y = -1))
  <2> DEFINE a == Magnitude(x)
             c == Magnitude(y)
             m == a \div c
             t == a % c
             qq == Truncated(x, y)
             q == IF x - qq * y # 0 /\ (x < 0) # (y < 0) THEN qq - 1 ELSE qq
  <2>1. divmod_signed(x, y) = <<q, x - q * y>>
    BY <1>2 DEF divmod_signed
  <2>2. a \in Nat /\ c \in Nat \ {0} /\ a = (IF x < 0 THEN -x ELSE x) /\ c = (IF y < 0 THEN -y ELSE y)
    BY <1>2 DEF Magnitude
  <2>3. qq = (IF (x < 0) # (y < 0) THEN -1 ELSE 1) * m
    BY DEF Truncated
  <2> HIDE DEF a, c, qq, m, t
  <2>4. m \in Nat /\ t \in 0..(c-1) /\ a = t + m * c
    BY <2>2, Division DEF m, t
  <2> DEFINE p == m * c
  <2>5. p \in Nat /\ a = t + p
    BY <2>2, <2>4
  <2>6. /\ (-m) * c = -p /\ m * (-c) = -p /\ (-m) * (-c) = p
        /\ (-m - 1) * c = -p - c /\ (-m - 1) * (-c) = p + c
    BY <2>2, <2>4
  <2>7. /\ x = IF x < 0 THEN -a ELSE a
        /\ y = IF y < 0 THEN -c ELSE c
    BY <2>2
  <2> HIDE DEF p
  <2>a. /\ (x < 0 <=> y < 0) => qq = m /\ q = m
        /\ ~(x < 0 <=> y < 0) => qq = -m /\ q = IF x - qq * y # 0 THEN qq - 1 ELSE qq
    <3> DEFINE differ == (x < 0) # (y < 0)
    <3>1. differ <=> ~(x < 0 <=> y < 0)
      OBVIOUS
    <3>2. qq = (IF differ THEN -1 ELSE 1) * m /\ q = IF x - qq * y # 0 /\ differ THEN qq - 1 ELSE qq
      BY <2>3
    <3> HIDE DEF differ, q
    <3>3. 1 * m = m /\ (-1) * m = -m
      BY <2>4
    <3>4. QED
      BY <3>1, <3>2, <3>3
  <2>8. Floors(x, y, q, x - q * y) /\ q \in Int /\ x - q * y \in Int
    <3> HIDE DEF q
    <3>1. CASE x >= 0 /\ y >= 0
      <4>1. qq = m /\ q = m /\ q * y = p
        <5>1. qq = m /\ q = m /\ y = c
          BY <2>a, <3>1, <2>7
        <5>2. q * y = m * c
          BY ONLY <5>1
        <5>3. QED
          BY <5>1, <5>2 DEF p
      <4>2. QED
        BY <2>2, <2>4, <2>5, <2>7, <3>1, <4>1 DEF Floors
    <3>2. CASE x < 0 /\ y < 0
      <4>1. qq = m /\ q = m /\ q * y = -p
        <5>1. qq = m /\ q = m /\ y = -c
          BY <2>a, <3>2, <2>7
        <5>2. q * y = m * (-c)
          BY ONLY <5>1
        <5>3. QED
          BY <2>6, <5>1, <5>2
      <4>2. QED
        BY <2>2, <2>4, <2>5, <2>7, <3>2, <4>1 DEF Floors
    <3>3. CASE x >= 0 /\ y < 0
      <4>1. qq = -m /\ y = -c /\ qq * y = p
        <5>1. qq = -m /\ y = -c
          BY <2>a, <3>3, <2>7
        <5>2. qq * y = (-m) * (-c)
          BY ONLY <5>1
        <5>3. QED
          BY <2>6, <5>1, <5>2
      <4>a. x - qq * y = t
        <5>1. x = t + p
          BY <2>5, <2>7, <3>3
        <5>2. QED
          BY ONLY <2>4, <2>5, <4>1, <5>1
      <4>2. q = IF t # 0 THEN -m - 1 ELSE -m
        BY <2>a, <2>4, <3>3, <4>1, <4>a
      <4>3. q * y = IF t # 0 THEN p + c ELSE p
        <5>1. CASE t # 0
          <6>1. q * y = (-m - 1) * (-c)
            BY ONLY <4>1, <4>2, <5>1
          <6>2. QED
            BY <2>6, <5>1, <6>1
        <5>2. CASE t = 0
          <6>1. q * y = (-m) * (-c)
            BY ONLY <4>1, <4>2, <5>2
          <6>2. QED
            BY <2>6, <5>2, <6>1
        <5>3. QED
          BY <5>1, <5>2
      <4>4. QED
        BY <2>2, <2>4, <2>5, <2>7, <3>3, <4>2, <4>3 DEF Floors
    <3>4. CASE x < 0 /\ y >= 0
      <4>1. qq = -m /\ y = c /\ qq * y = -p
        <5>1. qq = -m /\ y = c
          BY <2>a, <3>4, <2>7
        <5>2. qq * y = (-m) * c
          BY ONLY <5>1
        <5>3. QED
          BY <2>6, <5>1, <5>2
      <4>a. x - qq * y = -t
        <5>1. x = -(t + p)
          BY <2>5, <2>7, <3>4
        <5>2. QED
          BY ONLY <2>4, <2>5, <4>1, <5>1
      <4>2. q = IF t # 0 THEN -m - 1 ELSE -m
        BY <2>a, <2>4, <3>4, <4>1, <4>a
      <4>3. q * y = IF t # 0 THEN -p - c ELSE -p
        <5>1. CASE t # 0
          <6>1. q * y = (-m - 1) * c
            BY ONLY <4>1, <4>2, <5>1
          <6>2. QED
            BY <2>6, <5>1, <6>1
        <5>2. CASE t = 0
          <6>1. q * y = (-m) * c
            BY ONLY <4>1, <4>2, <5>2
          <6>2. QED
            BY <2>6, <5>2, <6>1
        <5>3. QED
          BY <5>1, <5>2
      <4>4. QED
        BY <2>2, <2>4, <2>5, <2>7, <3>4, <4>2, <4>3 DEF Floors
    <3>5. QED
      BY <3>1, <3>2, <3>3, <3>4
  <2> HIDE DEF q
  <2>9. QED
    BY <1>2, <2>1, <2>8
<1>3. QED
  BY <1>1, <1>2

\* A multiple of a number leaves no remainder.
LEMMA MultipleIs ==
  ASSUME NEW q \in Int, NEW y \in Int, y # 0
  PROVE  Magnitude(q * y) % Magnitude(y) = 0
<1> DEFINE c == Magnitude(y)
           m == Magnitude(q)
<1>1. c \in Nat \ {0} /\ m \in Nat /\ (y >= 0 => y = c) /\ (y < 0 => y = -c) /\ (q >= 0 => q = m) /\ (q < 0 => q = -m)
  BY DEF Magnitude
<1>2. Magnitude(q * y) = m * c
  <2> HIDE DEF c, m
  <2>1. m * c \in Nat /\ (-m) * c = -(m * c) /\ m * (-c) = -(m * c) /\ (-m) * (-c) = m * c
    BY <1>1
  <2>2. q * y = m * c \/ q * y = -(m * c)
    BY <1>1, <2>1
  <2>3. QED
    BY <2>1, <2>2 DEF Magnitude
<1> HIDE DEF c, m
<1>3. 0 \in 0..(c-1) /\ m * c = 0 + m * c
  BY <1>1
<1>4. (m * c) % c = 0
  BY <1>1, <1>3, DivisionIs
<1>5. QED
  BY <1>2, <1>4 DEF c

-----------------------------------------------------------------------------
(* The orders in which a loop runs over a row.                             *)

LEMMA BlocksCounted ==
  ASSUME NEW n \in Nat
  PROVE  Cardinality({i \in 0..n : i % 8 = 0 /\ i < n - 7}) = n \div 8
<1> DEFINE m == n \div 8
           t == n % 8
           B == {i \in 0..n : i % 8 = 0 /\ i < n - 7}
           f == [j \in 1..m |-> 8 * (j - 1)]
<1>1. m \in Nat /\ t \in 0..7 /\ n = t + m * 8
  BY Division
<1> HIDE DEF m, t
<1>2. ASSUME NEW j \in 1..m PROVE 8 * (j - 1) \in B
  <2>1. j - 1 \in Nat /\ 8 * (j - 1) = 0 + (j - 1) * 8 /\ 8 * (j - 1) \in Nat
    OBVIOUS
  <2>2. (8 * (j - 1)) % 8 = 0
    BY <2>1
  <2>3. 8 * (j - 1) <= 8 * m - 8
    BY <1>1
  <2>4. QED
    BY <1>1, <2>1, <2>2, <2>3
<1>3. ASSUME NEW i \in B PROVE \E j \in 1..m : f[j] = i
  <2>1. i \in Nat /\ i % 8 = 0 /\ i < n - 7
    OBVIOUS
  <2>2. i \div 8 \in Nat /\ i = 0 + (i \div 8) * 8
    BY <2>1, Division
  <2> DEFINE q == i \div 8
  <2>3. q \in Nat /\ i = q * 8
    BY <2>2
  <2> HIDE DEF q
  <2>4. q + 1 \in 1..m /\ 8 * ((q + 1) - 1) = i
    BY <1>1, <2>1, <2>3
  <2>5. QED
    BY <2>4
<1>4. f \in Bijection(1..m, B)
  <2>1. f \in [1..m -> B]
    BY <1>2
  <2>2. \A j, k \in 1..m : f[j] = f[k] => j = k
    OBVIOUS
  <2>3. \A i \in B : \E j \in 1..m : f[j] = i
    BY <1>3
  <2> HIDE DEF f, B
  <2>4. QED
    BY <2>1, <2>2, <2>3 DEF Bijection, Injection, Surjection, IsInjective
<1>5. IsFiniteSet(1..m) /\ Cardinality(1..m) = m
  <2>1. m \in Int /\ 1 \in Int
    BY <1>1
  <2>2. QED
    BY <1>1, <2>1, FS_Interval
<1>6. ExistsBijection(1..m, B)
  <2> HIDE DEF f, B
  <2>1. QED
    BY <1>4 DEF ExistsBijection
<1>7. Cardinality(B) = m
  <2> HIDE DEF B
  <2>1. QED
    BY <1>5, <1>6, FS_Bijection
<1>8. QED
  BY <1>7 DEF m

\* Eight elements at a time and the rest, or one thread for each: all of the row.
LEMMA OrderIs == ASSUME NEW n \in Nat PROVE Order(n) = 0..(n-1)
<1>1. CpuOrder(n) = 0..(n-1)
  <2> DEFINE m == n \div 8
             t == n % 8
             B == {i \in 0..n : i % 8 = 0 /\ i < n - 7}
             rest == 8 * m
  <2>1. m \in Nat /\ t \in 0..7 /\ n = t + m * 8
    BY Division
  <2>2. CpuOrder(n) = (UNION {{i + k : k \in 0..7} : i \in B}) \union (rest..(n - 1))
    BY BlocksCounted DEF CpuOrder
  <2>3. rest \in 0..n
    BY <2>1
  <2>4. ASSUME NEW i \in B, NEW k \in 0..7 PROVE i + k \in 0..(n-1)
    OBVIOUS
  <2>5. ASSUME NEW x \in 0..(n-1), x < rest PROVE \E i \in B : \E k \in 0..7 : x = i + k
    <3> DEFINE q == x \div 8
               s == x % 8
    <3>1. q \in Nat /\ s \in 0..7 /\ x = s + q * 8
      BY Division
    <3> HIDE DEF q, s, m, t
    <3>2. q < m
      BY <2>1, <2>5, <3>1
    <3>3. 8 * q \in 0..n /\ 8 * q < n - 7 /\ (8 * q) % 8 = 0
      <4>1. 8 * q + 8 <= 8 * m
        BY <2>1, <3>1, <3>2
      <4>2. QED
        BY <2>1, <3>1, <4>1
    <3>4. x = 8 * q + s
      BY <3>1
    <3>5. QED
      BY <3>1, <3>3, <3>4
  <2> HIDE DEF B, m, rest, t
  <2>6. ASSUME NEW x PROVE x \in UNION {{i + k : k \in 0..7} : i \in B} <=> \E i \in B : \E k \in 0..7 : x = i + k
    OBVIOUS
  <2>7. ASSUME NEW x \in 0..(n-1) PROVE x \in CpuOrder(n)
    <3>1. CASE x < rest
      BY <2>2, <2>5, <2>6, <3>1
    <3>2. CASE ~(x < rest)
      <4>1. x \in rest..(n-1)
        BY <2>3, <3>2
      <4>2. QED
        BY ONLY <2>2, <4>1, Zenon
    <3>3. QED
      BY <3>1, <3>2
  <2>8. ASSUME NEW x \in CpuOrder(n) PROVE x \in 0..(n-1)
    <3>1. CASE x \in rest..(n-1)
      BY <2>3, <3>1
    <3>2. CASE x \in UNION {{i + k : k \in 0..7} : i \in B}
      <4>1. PICK i \in B : \E k \in 0..7 : x = i + k
        BY <2>6, <3>2
      <4>2. PICK k \in 0..7 : x = i + k
        BY <4>1
      <4>3. QED
        BY <2>4, <4>2
    <3>3. QED
      <4>1. x \in rest..(n-1) \/ x \in UNION {{i + k : k \in 0..7} : i \in B}
        BY ONLY <2>2, x \in CpuOrder(n), Zenon
      <4>2. QED
        BY ONLY <3>1, <3>2, <4>1
  <2>9. QED
    BY <2>7, <2>8
<1>2. CudaOrder(n) = 0..(n-1)
  <2> DEFINE blocks == (n + BlockSize - 1) \div BlockSize
             w == blocks * BlockSize
  <2>1. BlockSize \in Nat \ {0} /\ n + BlockSize - 1 \in Nat
    BY OperandsAssumption
  <2>2. w \in Nat /\ w >= n
    <3>1. /\ blocks \in Nat /\ (n + BlockSize - 1) % BlockSize \in 0..(BlockSize-1)
          /\ n + BlockSize - 1 = ((n + BlockSize - 1) % BlockSize) + blocks * BlockSize
      BY <2>1, Division
    <3> DEFINE t == (n + BlockSize - 1) % BlockSize
    <3>2. t \in 0..(BlockSize-1) /\ n + BlockSize - 1 = t + w
      BY <3>1
    <3>3. w \in Nat
      BY <2>1, <3>1
    <3> HIDE DEF t, w
    <3>4. QED
      BY <2>1, <3>2, <3>3
  <2>3. CudaOrder(n) = {i \in 0..(n-1) : \E t \in 0..(w - 1) : i >= t /\ (i - t) % w = 0}
    BY DEF CudaOrder
  <2> HIDE DEF w
  <2>4. ASSUME NEW i \in 0..(n-1) PROVE \E t \in 0..(w - 1) : i >= t /\ (i - t) % w = 0
    <3>1. w \in Nat \ {0} /\ i \in 0..(w-1) /\ i >= i /\ i - i = 0
      BY <2>2
    <3>2. 0 % w = 0
      <4>1. 0 \in 0..(w-1) /\ 0 = 0 + 0 * w /\ 0 \in Nat
        BY <3>1
      <4>2. QED
        BY <3>1, <4>1, DivisionIs
    <3>3. (i - i) % w = 0
      BY <3>1, <3>2
    <3>4. QED
      BY <3>1, <3>3
  <2>5. QED
    BY <2>3, <2>4
<1>3. QED
  BY <1>1, <1>2 DEF Order

-----------------------------------------------------------------------------
(* Rows.                                                                   *)

OpNames == {"add", "equaln", "floor_divide", "remainder", "power"}
Byte == -128..127
Value == [v : Int, ok : BOOLEAN]
Place == [index : Int, steps : Int \X Int]
Memory == UNION {[0..m -> Value] : m \in Int}
Works ==
  [name : OpNames, opt : BOOLEAN \X BOOLEAN, x : Place, y : Place, mx : Memory, my : Memory, z : Place, mz : Memory,
   slot : {"OptC", "OptS"}, rows : Nat, n : Nat, r : Nat, err : BOOLEAN]

\* An operand: its elements are in its memory, valid unless they are optional.
Lies(w, x, m, opt) ==
  \A r \in 0..(w.rows-1), i \in 0..(w.n-1) :
    /\ At(x, r, i) \in DOMAIN m
    /\ ~opt => m[At(x, r, i)].ok = TRUE
    /\ w.name \in Bytewise => m[At(x, r, i)].v \in Byte
Sane(w) ==
  /\ w \in Works /\ w.r <= w.rows
  /\ Lies(w, w.x, w.mx, w.opt[1]) /\ Lies(w, w.y, w.my, w.opt[2])
  /\ w.z.steps = <<w.n, 1>> /\ w.z.index \in {0, 2}
  /\ DOMAIN w.mz = 0..(w.rows * w.n + (IF w.z.index = 0 THEN 0 ELSE 4) - 1)
  /\ w.slot = "OptC" => w.n <= 1 \/ (w.x.steps[2] = 1 /\ w.y.steps[2] = 1)

LEMMA WorkIs ==
  ASSUME NEW w, Sane(w)
  PROVE  /\ w.name \in OpNames /\ w.opt[1] \in BOOLEAN /\ w.opt[2] \in BOOLEAN /\ w.slot \in {"OptC", "OptS"}
         /\ w.x.index \in Int /\ w.x.steps[1] \in Int /\ w.x.steps[2] \in Int
         /\ w.y.index \in Int /\ w.y.steps[1] \in Int /\ w.y.steps[2] \in Int
         /\ w.rows \in Nat /\ w.n \in Nat /\ w.r \in Nat /\ w.r <= w.rows /\ w.rows * w.n \in Nat
         /\ \A k \in DOMAIN w.mx : w.mx[k] \in Value
         /\ \A k \in DOMAIN w.my : w.my[k] \in Value
         /\ \A k \in DOMAIN w.mz : w.mz[k] \in Value
<1>1. w \in Works
  BY DEF Sane
<1>2. \A m \in Memory : \A k \in DOMAIN m : m[k] \in Value
  BY DEF Memory
<1>3. \A x \in Place : x.index \in Int /\ x.steps[1] \in Int /\ x.steps[2] \in Int
  BY DEF Place
<1>4. /\ w.mx \in Memory /\ w.my \in Memory /\ w.mz \in Memory /\ w.x \in Place /\ w.y \in Place
      /\ w.opt \in BOOLEAN \X BOOLEAN
      /\ w.name \in OpNames /\ w.slot \in {"OptC", "OptS"} /\ w.rows \in Nat /\ w.n \in Nat /\ w.r \in Nat
  BY <1>1 DEF Works
<1>5. w.opt[1] \in BOOLEAN /\ w.opt[2] \in BOOLEAN
  BY <1>4
<1>6. w.r <= w.rows
  BY DEF Sane
<1>7. w.rows * w.n \in Nat
  BY <1>4
<1>8. QED
  BY <1>2, <1>3, <1>4, <1>5, <1>6, <1>7

\* The result has a place of its own for each row and column.
LEMMA ResultPlaces ==
  ASSUME NEW w, Sane(w), NEW r \in 0..(w.rows-1), NEW i \in 0..(w.n-1)
  PROVE  /\ At(w.z, r, i) \in DOMAIN w.mz
         /\ At(w.z, r, i) = w.z.index + (i + r * w.n)
         /\ i + r * w.n \in 0..(w.rows * w.n - 1)
         /\ \A s \in 0..(w.rows-1), j \in 0..(w.n-1) : At(w.z, r, i) = At(w.z, s, j) => r = s /\ i = j
<1> DEFINE n == w.n
           m == w.rows
<1>1. n \in Nat /\ m \in Nat /\ n * m \in Nat /\ m * n \in Nat /\ w.z.steps = <<n, 1>> /\ w.z.index \in {0, 2}
  BY WorkIs DEF Sane
<1>2. ASSUME NEW s \in 0..(m-1), NEW j \in 0..(n-1)
      PROVE  /\ At(w.z, s, j) = w.z.index + (j + s * n)
             /\ j + s * n \in 0..(m * n - 1) /\ s \in Nat /\ j \in Nat
  <2>1. w.z.steps[1] = n /\ w.z.steps[2] = 1
    BY <1>1
  <2>2. s * n \in Nat /\ j \in Nat /\ s \in Nat
    BY <1>1
  <2>3. At(w.z, s, j) = w.z.index + s * n + j * 1
    BY <2>1 DEF At
  <2>4. (m - 1 - s) * n \in Nat /\ m * n = (m - 1 - s) * n + s * n + n
    <3>1. m - 1 - s \in Nat
      BY <1>1
    <3> DEFINE d == m - 1 - s
    <3>2. d * n \in Nat /\ (d + s + 1) * n = d * n + s * n + n /\ m = d + s + 1
      BY <1>1, <3>1
    <3> HIDE DEF d
    <3>3. m * n = d * n + s * n + n
      BY <3>2
    <3>4. QED
      BY <3>2, <3>3 DEF d
  <2> DEFINE t == s * n
             p == m * n
             u == (m - 1 - s) * n
  <2>5. t \in Nat /\ u \in Nat /\ p = u + t + n /\ j \in 0..(n-1) /\ At(w.z, s, j) = w.z.index + t + j * 1
    BY <2>2, <2>3, <2>4
  <2> HIDE DEF t, p, u
  <2>6. At(w.z, s, j) = w.z.index + (j + t) /\ j + t \in 0..(p - 1)
    BY <1>1, <2>5
  <2>7. QED
    BY <2>2, <2>6 DEF t, p
<1> HIDE DEF n, m
<1>3. r \in 0..(m-1) /\ i \in 0..(n-1)
  BY DEF n, m
<1>4. At(w.z, r, i) \in DOMAIN w.mz
  <2> DEFINE p == m * n
             t == i + r * n
  <2>1. p \in Nat /\ t \in 0..(p-1) /\ At(w.z, r, i) = w.z.index + t
    BY <1>1, <1>2, <1>3
  <2>2. DOMAIN w.mz = 0..(p + (IF w.z.index = 0 THEN 0 ELSE 4) - 1)
    BY DEF Sane, n, m
  <2> HIDE DEF p, t
  <2>3. QED
    BY <1>1, <2>1, <2>2
<1>5. ASSUME NEW s \in 0..(m-1), NEW j \in 0..(n-1), At(w.z, r, i) = At(w.z, s, j)
      PROVE  r = s /\ i = j
  <2>1. i + r * n = j + s * n
    <3> DEFINE t == i + r * n
               u == j + s * n
               p == m * n
    <3>1. t \in 0..(p-1) /\ u \in 0..(p-1) /\ w.z.index + t = w.z.index + u
      BY <1>2, <1>3, <1>5
    <3> HIDE DEF t, u, p
    <3>2. t = u
      BY <1>1, <3>1
    <3>3. QED
      BY <3>2 DEF t, u
  <2>2. r \in Nat /\ s \in Nat
    BY <1>2, <1>3
  <2>3. QED
    BY <1>1, <1>3, <2>1, <2>2, ScaleUnique
<1>6. QED
  BY <1>2, <1>3, <1>4, <1>5 DEF n, m

\* The elements of row r, as the kernel reads and writes them.
Computed(w, r, i) == Op(w.name, w.mx[At(w.x, r, i)].v, w.my[At(w.y, r, i)].v)

LEMMA OpIs ==
  ASSUME NEW w, Sane(w), NEW r \in 0..(w.rows-1), NEW i \in 0..(w.n-1)
  PROVE  /\ Computed(w, r, i) \in Int
         /\ w.mx[At(w.x, r, i)] \in Value /\ w.my[At(w.y, r, i)] \in Value
<1> DEFINE x == w.mx[At(w.x, r, i)]
           y == w.my[At(w.y, r, i)]
<1>1. /\ x \in Value /\ y \in Value
      /\ w.name \in Bytewise => x.v \in Byte /\ y.v \in Byte
  BY WorkIs DEF Sane, Lies
<1>2. Computed(w, r, i) = Op(w.name, x.v, y.v) /\ w.name \in OpNames
  BY WorkIs DEF Computed
<1>3. x.v \in Int /\ y.v \in Int
  BY <1>1 DEF Value
<1> HIDE DEF x, y
<1> DEFINE z == Op(w.name, x.v, y.v)
<1>4. ASSUME w.name = "add" PROVE z \in Int
  BY <1>2, <1>3, <1>4 DEF Op
<1>5. ASSUME w.name = "equaln" PROVE z \in Int
  BY <1>2, <1>3, <1>5 DEF Op
<1>6. ASSUME w.name \in Bytewise PROVE z \in Int
  <2>1. x.v \in Byte /\ y.v \in Byte
    BY <1>1, <1>6
  <2>2. /\ pow_signed(x.v, y.v) \in Int
        /\ divmod_signed(x.v, y.v)[1] \in Int /\ divmod_signed(x.v, y.v)[2] \in Int
    BY <2>1, PowIs, DivmodIs DEF Byte
  <2>3. QED
    BY <1>2, <1>6, <2>2 DEF Op, Bytewise
<1>7. Computed(w, r, i) \in Int
  BY <1>2, <1>4, <1>5, <1>6 DEF OpNames, Bytewise
<1>8. QED
  BY <1>1, <1>7 DEF x, y

\* The loop computes the elements of the row, whether it counts in elements or by steps.
LEMMA DeviceIs ==
  ASSUME NEW w, Sane(w), w.r < w.rows, NEW d, d = Device(w, w.mz)
  PROVE  /\ DOMAIN d = DOMAIN w.mz /\ d = [k \in DOMAIN w.mz |-> d[k]]
         /\ \A i \in 0..(w.n-1) : d[At(w.z, w.r, i)] = [v |-> Computed(w, w.r, i), ok |-> w.mz[At(w.z, w.r, i)].ok]
         /\ \A k \in DOMAIN w.mz : (\A i \in 0..(w.n-1) : k # At(w.z, w.r, i)) => d[k] = w.mz[k]
<1> DEFINE N == 0..(w.n-1)
           start == RowStart(w.z, w.r)
           At0(i) == w.mx[RowStart(w.x, w.r) + i * Step(w, w.x)].v
           At1(i) == w.my[RowStart(w.y, w.r) + i * Step(w, w.y)].v
           V(k) == LET i == CHOOSE i \in N : k = start + i * Step(w, w.z) IN Op(w.name, At0(i), At1(i))
           z(i) == At(w.z, w.r, i)
<1>1. w.r \in 0..(w.rows-1) /\ w.n \in Nat
  BY WorkIs
<1>2. Order(w.n) = N
  BY <1>1, OrderIs
<1>3. d = [k \in DOMAIN w.mz |-> IF \E i \in N : k = start + i * Step(w, w.z) THEN [w.mz[k] EXCEPT !.v = V(k)] ELSE w.mz[k]]
  BY <1>2 DEF Device
<1> HIDE DEF V, z
<1>4. ASSUME NEW i \in N PROVE start + i * Step(w, w.z) = z(i)
  <2>1. w.z.steps[2] = 1
    BY DEF Sane
  <2>2. Step(w, w.z) = w.z.steps[2]
    BY <2>1 DEF Step
  <2>3. QED
    BY <2>2 DEF z, At, RowStart
<1>5. ASSUME NEW i \in N
      PROVE  /\ RowStart(w.x, w.r) + i * Step(w, w.x) = At(w.x, w.r, i)
             /\ RowStart(w.y, w.r) + i * Step(w, w.y) = At(w.y, w.r, i)
  <2>1. i * Step(w, w.x) = i * w.x.steps[2] /\ i * Step(w, w.y) = i * w.y.steps[2]
    <3>1. CASE w.slot = "OptC" /\ w.n <= 1
      <4>1. i = 0 /\ w.x.steps[2] \in Int /\ w.y.steps[2] \in Int
        BY <1>1, <3>1, WorkIs
      <4>2. Step(w, w.x) = 1 /\ Step(w, w.y) = 1
        BY <3>1 DEF Step
      <4>3. QED
        BY <4>1, <4>2
    <3>2. CASE w.slot = "OptC" /\ ~(w.n <= 1)
      <4>1. w.x.steps[2] = 1 /\ w.y.steps[2] = 1
        BY <3>2 DEF Sane
      <4>2. QED
        BY <3>2, <4>1 DEF Step
    <3>3. CASE w.slot # "OptC"
      BY <3>3 DEF Step
    <3>4. QED
      BY <3>1, <3>2, <3>3
  <2>2. QED
    BY <2>1 DEF At, RowStart
<1>6. ASSUME NEW i \in N PROVE z(i) \in DOMAIN w.mz /\ \A j \in N : z(i) = z(j) => i = j
  BY <1>1, ResultPlaces DEF z
<1>7. ASSUME NEW i \in N PROVE d[z(i)] = [v |-> Computed(w, w.r, i), ok |-> w.mz[z(i)].ok]
  <2> DEFINE k == z(i)
             j == CHOOSE j \in N : k = start + j * Step(w, w.z)
  <2>1. k \in DOMAIN w.mz /\ \E a \in N : k = start + a * Step(w, w.z)
    BY <1>4, <1>6
  <2>2. j \in N /\ k = start + j * Step(w, w.z)
    BY <2>1
  <2> HIDE DEF j
  <2>3. j = i
    BY <1>4, <1>6, <2>2
  <2>4. V(k) = Op(w.name, At0(j), At1(j))
    BY DEF V, j
  <2>5. V(k) = Computed(w, w.r, i)
    BY <1>5, <2>3, <2>4 DEF Computed
  <2>6. d[k] = [w.mz[k] EXCEPT !.v = V(k)]
    BY <1>3, <2>1
  <2>7. w.mz[k] \in Value
    BY <2>1, WorkIs
  <2> HIDE DEF k
  <2>8. d[k] = [v |-> V(k), ok |-> w.mz[k].ok]
    BY <2>6, <2>7 DEF Value
  <2>9. QED
    BY <2>5, <2>8 DEF k
<1>8. ASSUME NEW k \in DOMAIN w.mz, \A i \in N : k # z(i) PROVE d[k] = w.mz[k]
  <2>1. ~ \E i \in N : k = start + i * Step(w, w.z)
    BY <1>4, <1>8
  <2>2. QED
    BY <1>3, <2>1
<1>9. QED
  BY <1>3, <1>7, <1>8 DEF z

\* The bits of the row are set.
BothValid(w, r, i) == (w.opt[1] => w.mx[At(w.x, r, i)].ok) /\ (w.opt[2] => w.my[At(w.y, r, i)].ok)

LEMMA BitmapIs ==
  ASSUME NEW w, Sane(w), w.r < w.rows, NEW m, DOMAIN m = DOMAIN w.mz, \A k \in DOMAIN m : m[k] \in Value,
         NEW d, d = binary_update_bitmap(w, m)
  PROVE  /\ DOMAIN d = DOMAIN w.mz /\ d = [k \in DOMAIN w.mz |-> d[k]]
         /\ \A i \in 0..(w.n-1) : d[At(w.z, w.r, i)] = [v |-> m[At(w.z, w.r, i)].v, ok |-> BothValid(w, w.r, i)]
         /\ \A k \in DOMAIN w.mz : (\A i \in 0..(w.n-1) : k # At(w.z, w.r, i)) => d[k] = m[k]
<1> DEFINE N == 0..(w.n-1)
           z(i) == At(w.z, w.r, i)
           V(k) == LET i == CHOOSE i \in N : k = z(i) IN (w.opt[1] => Valid0(w, i)) /\ (w.opt[2] => Valid1(w, i))
<1>1. w.r \in 0..(w.rows-1) /\ w.n \in Nat
  BY WorkIs
<1>2. d = [k \in DOMAIN m |-> IF \E i \in N : k = z(i) THEN [m[k] EXCEPT !.ok = V(k)] ELSE m[k]]
  BY DEF binary_update_bitmap
<1> HIDE DEF V
<1>3. ASSUME NEW i \in N PROVE z(i) \in DOMAIN w.mz /\ \A j \in N : z(i) = z(j) => i = j
  BY <1>1, ResultPlaces
<1> HIDE DEF z
<1>4. ASSUME NEW i \in N PROVE d[z(i)] = [v |-> m[z(i)].v, ok |-> BothValid(w, w.r, i)]
  <2> DEFINE k == z(i)
             j == CHOOSE j \in N : k = z(j)
  <2>1. k \in DOMAIN m /\ \E a \in N : k = z(a)
    BY <1>3
  <2>2. j \in N /\ k = z(j)
    BY <2>1
  <2> HIDE DEF j
  <2>3. j = i
    BY <1>3, <2>2
  <2>4. V(k) = BothValid(w, w.r, i)
    <3>1. V(k) = ((w.opt[1] => Valid0(w, j)) /\ (w.opt[2] => Valid1(w, j)))
      BY DEF V, j
    <3>2. QED
      BY <2>3, <3>1 DEF BothValid, Valid0, Valid1
  <2>5. d[k] = [m[k] EXCEPT !.ok = V(k)] /\ m[k] \in Value
    BY <1>2, <2>1
  <2> HIDE DEF k
  <2>6. d[k] = [v |-> m[k].v, ok |-> V(k)]
    BY <2>5 DEF Value
  <2>7. QED
    BY <2>4, <2>6 DEF k
<1>5. ASSUME NEW k \in DOMAIN w.mz, \A i \in N : k # z(i) PROVE d[k] = m[k]
  BY <1>2, <1>5
<1>6. QED
  BY <1>2, <1>4, <1>5 DEF z

\* With equaln the result is what the missing elements make of it. The index of the row is added twice,
\* so that only the first row is right; later rows leave it alone.
LEMMA BoolIs ==
  ASSUME NEW w, Sane(w), w.r < w.rows, NEW m, DOMAIN m = DOMAIN w.mz, \A k \in DOMAIN m : m[k] \in Value,
         NEW d, d = binary_update_bitmap_bool(w, m)
  PROVE  /\ DOMAIN d = DOMAIN w.mz /\ d = [k \in DOMAIN w.mz |-> d[k]] /\ \A k \in DOMAIN d : d[k] \in Value
         /\ w.z.index = 0 => \A i \in 0..(w.n-1) :
              LET k == At(w.z, 0, i)
              IN /\ w.r = 0 => d[k].v = IF w.opt[1] \/ w.opt[2] THEN EqualIfValid(w, i, m[k].v) ELSE m[k].v
                 /\ w.r # 0 => d[k] = m[k]
<1> DEFINE N == 0..(w.n-1)
           n == w.n
           k2(i) == RowStart(w.z, w.r) + At(w.z, w.r, i)
           some == w.opt[1] \/ w.opt[2]
           V(k) == LET i == CHOOSE i \in N : k = k2(i) IN EqualIfValid(w, i, m[k].v)
<1>1. w.r \in 0..(w.rows-1) /\ n \in Nat /\ w.rows * n \in Nat /\ w.z.steps[1] = n /\ w.z.steps[2] = 1
      /\ 0 \in 0..(w.rows-1)
  BY WorkIs DEF Sane
<1>2. d = [k \in DOMAIN m |-> IF some /\ \E i \in N : k = k2(i) THEN [m[k] EXCEPT !.v = V(k)] ELSE m[k]]
  BY DEF binary_update_bitmap_bool
<1> HIDE DEF some
<1>3. ASSUME NEW k \in DOMAIN m PROVE d[k] \in Value
  <2>1. m[k] \in Value /\ m[k].v \in Int
    BY DEF Value
  <2>2. V(k) \in Int
    BY <2>1 DEF EqualIfValid
  <2> HIDE DEF V, k2
  <2>3. d[k] = m[k] \/ d[k] = [m[k] EXCEPT !.v = V(k)]
    BY <1>2
  <2>4. [m[k] EXCEPT !.v = V(k)] \in Value
    BY <2>1, <2>2 DEF Value
  <2>5. QED
    BY <2>1, <2>3, <2>4
<1>4. ASSUME w.z.index = 0, NEW i \in N
      PROVE  LET k == At(w.z, 0, i)
             IN /\ w.r = 0 => d[k].v = IF some THEN EqualIfValid(w, i, m[k].v) ELSE m[k].v
                /\ w.r # 0 => d[k] = m[k]
  <2> DEFINE k == At(w.z, 0, i)
  <2>1. k = i /\ k \in DOMAIN m
    <3>1. At(w.z, 0, i) \in DOMAIN w.mz /\ At(w.z, 0, i) = 0 + (i + 0 * w.n)
      BY <1>1, <1>4, ResultPlaces
    <3>2. QED
      BY <1>1, <3>1
  <2>2. ASSUME NEW j \in N PROVE k2(j) = 2 * (w.r * n) + j /\ w.r * n \in Nat
    BY <1>1, <1>4 DEF RowStart, At
  <2>3. w.r # 0 => \A j \in N : k # k2(j)
    <3> SUFFICES ASSUME w.r # 0, NEW j \in N PROVE k # k2(j)
      OBVIOUS
    <3>1. w.r - 1 \in Nat /\ w.r * n = (w.r - 1) * n + n
      BY <1>1
    <3>2. (w.r - 1) * n \in Nat
      BY <1>1, <3>1
    <3> DEFINE t == w.r * n
               u == (w.r - 1) * n
    <3>3. t = u + n /\ u \in Nat /\ k2(j) = 2 * t + j
      BY <2>2, <3>1, <3>2
    <3> HIDE DEF t, u, k2, k
    <3>4. QED
      BY <1>1, <2>1, <3>3
  <2>4. w.r = 0 => \A j \in N : k2(j) = j
    <3> SUFFICES ASSUME w.r = 0, NEW j \in N PROVE k2(j) = j
      OBVIOUS
    <3>1. w.r * n = 0
      BY <1>1
    <3>2. QED
      BY <2>2, <3>1
  <2> HIDE DEF k2, k
  <2>5. ASSUME w.r # 0 PROVE d[k] = m[k]
    BY <1>2, <2>1, <2>3, <2>5
  <2>6. ASSUME w.r = 0 PROVE d[k].v = IF some THEN EqualIfValid(w, i, m[k].v) ELSE m[k].v
    <3> DEFINE j == CHOOSE j \in N : k = k2(j)
    <3>1. k = k2(i)
      BY <2>1, <2>4, <2>6
    <3>2. j \in N /\ k = k2(j)
      BY <3>1
    <3> HIDE DEF j
    <3>3. j = i
      BY <2>1, <2>4, <2>6, <3>2
    <3>4. V(k) = EqualIfValid(w, j, m[k].v)
      BY DEF j
    <3> HIDE DEF V
    <3>5. d[k] = IF some THEN [m[k] EXCEPT !.v = V(k)] ELSE m[k]
      BY <1>2, <2>1, <3>1
    <3>6. m[k] \in Value
      BY <2>1
    <3>7. some => d[k].v = V(k)
      BY <3>5, <3>6 DEF Value
    <3>8. QED
      BY <3>3, <3>4, <3>5, <3>7
  <2>7. QED
    BY <2>5, <2>6 DEF k
<1>5. DOMAIN d = DOMAIN w.mz /\ d = [k \in DOMAIN w.mz |-> d[k]]
  BY <1>2
<1>6. QED
  BY <1>3, <1>4, <1>5 DEF some

\* What a call has done after some rows.
Filled(w) ==
  IF w.name = "equaln"
  THEN (w.z.index = 0 /\ w.r > 0) => \A i \in 0..(w.n-1) :
         (w.mz[At(w.z, 0, i)].v = 1) <=> EqualTo(w.mx[At(w.x, 0, i)], w.my[At(w.y, 0, i)])
  ELSE /\ \A r \in 0..(w.r-1), i \in 0..(w.n-1) :
            /\ w.mz[At(w.z, r, i)].v = Computed(w, r, i)
            /\ ((w.opt[1] \/ w.opt[2]) => w.mz[At(w.z, r, i)].ok = BothValid(w, r, i))
       /\ \A k \in DOMAIN w.mz \ Ours(w) : w.mz[k] = Cell(9, TRUE)

\* What equaln stores.
LEMMA EqualIs ==
  ASSUME NEW w, Sane(w), w.name = "equaln", NEW i \in 0..(w.n-1), w.r = 0, w.rows > 0, NEW z, NEW c,
         c = Computed(w, 0, i),
         z = IF w.opt[1] \/ w.opt[2] THEN EqualIfValid(w, i, c) ELSE c
  PROVE  (z = 1) <=> EqualTo(w.mx[At(w.x, 0, i)], w.my[At(w.y, 0, i)])
<1> DEFINE x == w.mx[At(w.x, 0, i)]
           y == w.my[At(w.y, 0, i)]
<1>1. 0 \in 0..(w.rows-1) /\ w.opt[1] \in BOOLEAN /\ w.opt[2] \in BOOLEAN
  BY WorkIs
<1>2. x \in Value /\ y \in Value /\ (~w.opt[1] => x.ok = TRUE) /\ (~w.opt[2] => y.ok = TRUE)
  BY <1>1, WorkIs DEF Sane, Lies
<1>3. c = IF x.v = y.v THEN 1 ELSE 0
  BY DEF Computed, Op
<1>4. Valid0(w, i) = x.ok /\ Valid1(w, i) = y.ok
  BY DEF Valid0, Valid1
<1>5. x.ok \in BOOLEAN /\ y.ok \in BOOLEAN
  BY <1>2 DEF Value
<1> HIDE DEF x, y
<1>6. (z = 1) <=> EqualTo(x, y)
  BY <1>1, <1>2, <1>3, <1>4, <1>5 DEF EqualIfValid, EqualTo
<1>7. QED
  BY <1>6 DEF x, y

\* One more row.
LEMMA RowDone ==
  ASSUME NEW w, Sane(w), Filled(w), w.r < w.rows,
         NEW mem, mem = Device(w, w.mz),
         NEW m, m = IF w.name # "equaln" /\ (w.opt[1] \/ w.opt[2]) THEN binary_update_bitmap(w, mem)
                    ELSE IF w.name = "equaln" THEN binary_update_bitmap_bool(w, mem) ELSE mem,
         NEW u, u = [w EXCEPT !.r = @ + 1, !.mz = m]
  PROVE  Sane(u) /\ Filled(u)
<1>1. w \in Works /\ w.r \in Nat /\ w.r \in 0..(w.rows-1) /\ w.n \in Nat /\ w.rows \in Nat
  BY WorkIs DEF Sane
<1>2. /\ u.name = w.name /\ u.opt = w.opt /\ u.x = w.x /\ u.y = w.y /\ u.mx = w.mx /\ u.my = w.my /\ u.z = w.z
      /\ u.slot = w.slot /\ u.rows = w.rows /\ u.n = w.n /\ u.err = w.err /\ u.r = w.r + 1 /\ u.mz = m
  BY <1>1 DEF Works
<1>3. /\ DOMAIN mem = DOMAIN w.mz /\ mem = [k \in DOMAIN w.mz |-> mem[k]]
      /\ \A i \in 0..(w.n-1) : mem[At(w.z, w.r, i)] = [v |-> Computed(w, w.r, i), ok |-> w.mz[At(w.z, w.r, i)].ok]
      /\ \A k \in DOMAIN w.mz : (\A i \in 0..(w.n-1) : k # At(w.z, w.r, i)) => mem[k] = w.mz[k]
  BY DeviceIs
<1>4. \A i \in 0..(w.n-1) : Computed(w, w.r, i) \in Int /\ At(w.z, w.r, i) \in DOMAIN w.mz
  BY <1>1, OpIs, ResultPlaces
<1>5. \A k \in DOMAIN mem : mem[k] \in Value
  <2> SUFFICES ASSUME NEW k \in DOMAIN mem PROVE mem[k] \in Value
    OBVIOUS
  <2>1. w.mz[k] \in Value /\ w.mz[k].ok \in BOOLEAN
    BY <1>3, WorkIs DEF Value
  <2>2. CASE \E i \in 0..(w.n-1) : k = At(w.z, w.r, i)
    <3>1. PICK i \in 0..(w.n-1) : k = At(w.z, w.r, i)
      BY <2>2
    <3>2. mem[k] = [v |-> Computed(w, w.r, i), ok |-> w.mz[k].ok] /\ Computed(w, w.r, i) \in Int
      BY <1>3, <1>4, <3>1
    <3>3. QED
      BY <2>1, <3>2 DEF Value
  <2>3. CASE ~ \E i \in 0..(w.n-1) : k = At(w.z, w.r, i)
    BY <1>3, <2>1, <2>3
  <2>4. QED
    BY <2>2, <2>3
<1>6. DOMAIN m = DOMAIN w.mz /\ m = [k \in DOMAIN w.mz |-> m[k]] /\ \A k \in DOMAIN m : m[k] \in Value
  <2>1. CASE w.name = "equaln"
    BY <1>3, <1>5, <2>1, BoolIs
  <2>2. CASE w.name # "equaln" /\ (w.opt[1] \/ w.opt[2])
    <3>1. m = binary_update_bitmap(w, mem)
      BY <2>2
    <3>2. /\ DOMAIN m = DOMAIN w.mz /\ m = [k \in DOMAIN w.mz |-> m[k]]
          /\ \A i \in 0..(w.n-1) : m[At(w.z, w.r, i)] = [v |-> mem[At(w.z, w.r, i)].v, ok |-> BothValid(w, w.r, i)]
          /\ \A k \in DOMAIN w.mz : (\A i \in 0..(w.n-1) : k # At(w.z, w.r, i)) => m[k] = mem[k]
      BY <1>3, <1>5, <3>1, BitmapIs
    <3>3. ASSUME NEW k \in DOMAIN m PROVE m[k] \in Value
      <4>1. k \in DOMAIN mem /\ mem[k] \in Value /\ mem[k].v \in Int
        BY <1>3, <1>5, <3>2 DEF Value
      <4>2. CASE \E i \in 0..(w.n-1) : k = At(w.z, w.r, i)
        <5>1. PICK i \in 0..(w.n-1) : k = At(w.z, w.r, i)
          BY <4>2
        <5>2. m[k] = [v |-> mem[k].v, ok |-> BothValid(w, w.r, i)]
          BY <3>2, <5>1
        <5>3. BothValid(w, w.r, i) \in BOOLEAN
          BY DEF BothValid
        <5>4. QED
          BY <4>1, <5>2, <5>3 DEF Value
      <4>3. CASE ~ \E i \in 0..(w.n-1) : k = At(w.z, w.r, i)
        BY <3>2, <4>1, <4>3
      <4>4. QED
        BY <4>2, <4>3
    <3>4. QED
      BY <3>2, <3>3
  <2>3. CASE w.name # "equaln" /\ ~(w.opt[1] \/ w.opt[2])
    <3>1. m = mem
      BY <2>3
    <3>2. QED
      BY <1>3, <1>5, <3>1
  <2>4. QED
    BY <2>1, <2>2, <2>3
<1>7. Sane(u)
  <2>1. m \in Memory
    <3>1. PICK k \in Int : DOMAIN w.mz = 0..k
      <4> DEFINE k == w.rows * w.n + (IF w.z.index = 0 THEN 0 ELSE 4) - 1
      <4>1. w.rows * w.n \in Nat
        BY WorkIs
      <4>2. k \in Int
        BY <4>1
      <4>3. DOMAIN w.mz = 0..k
        BY DEF Sane
      <4> HIDE DEF k
      <4>4. QED
        BY <4>2, <4>3
    <3>2. m \in [0..k -> Value]
      BY <1>6, <3>1
    <3>3. QED
      BY <3>2 DEF Memory
  <2>2. u \in Works
    <3>1. w.r + 1 \in Nat
      BY <1>1
    <3> HIDE DEF Memory
    <3>2. QED
      BY <1>1, <2>1, <3>1 DEF Works
  <2>3. u.r <= u.rows
    BY <1>1, <1>2
  <2>4. QED
    BY <1>2, <1>6, <2>2, <2>3 DEF Sane, Lies
<1>8. \A r, i : Computed(u, r, i) = Computed(w, r, i) /\ BothValid(u, r, i) = BothValid(w, r, i)
  BY <1>2 DEF Computed, BothValid
<1>9. CASE w.name = "equaln"
  <2>0. ASSUME w.z.index = 0, NEW i \in 0..(w.n-1)
        PROVE  (m[At(w.z, 0, i)].v = 1) <=> EqualTo(w.mx[At(w.x, 0, i)], w.my[At(w.y, 0, i)])
    <3> DEFINE k == At(w.z, 0, i)
    <3>1. 0 \in 0..(w.rows-1) /\ k \in DOMAIN w.mz
      <4>1. 0 \in 0..(w.rows-1)
        BY <1>1
      <4>2. QED
        BY <4>1, ResultPlaces
    <3>2. /\ w.r = 0 => m[k].v = IF w.opt[1] \/ w.opt[2] THEN EqualIfValid(w, i, mem[k].v) ELSE mem[k].v
          /\ w.r # 0 => m[k] = mem[k]
      BY <1>3, <1>5, <1>9, <2>0, BoolIs
    <3>3. CASE w.r = 0
      <4>1. mem[k].v = Computed(w, 0, i)
        <5>1. k = At(w.z, w.r, i) /\ mem[k] = [v |-> Computed(w, w.r, i), ok |-> w.mz[k].ok]
          BY <1>3, <3>3
        <5>2. QED
          BY <3>3, <5>1
      <4>2. w.rows > 0
        BY <1>1, <3>1
      <4>3. QED
        BY <1>9, <3>2, <3>3, <4>1, <4>2, EqualIs
    <3>4. CASE w.r # 0
      <4>1. \A j \in 0..(w.n-1) : k # At(w.z, w.r, j)
        BY <1>1, <3>1, <3>4, ResultPlaces
      <4>2. m[k] = w.mz[k]
        BY <1>3, <3>1, <3>2, <3>4, <4>1
      <4>3. QED
        BY <1>1, <1>9, <2>0, <3>4, <4>2 DEF Filled
    <3>5. QED
      BY <3>3, <3>4
  <2>1. Filled(u)
    BY <1>2, <1>9, <2>0 DEF Filled
  <2>2. QED
    BY <1>7, <2>1
<1>10. CASE w.name # "equaln"
  <2>1. /\ \A i \in 0..(w.n-1) : m[At(w.z, w.r, i)].v = Computed(w, w.r, i)
        /\ \A i \in 0..(w.n-1) : (w.opt[1] \/ w.opt[2]) => m[At(w.z, w.r, i)].ok = BothValid(w, w.r, i)
        /\ \A k \in DOMAIN w.mz : (\A i \in 0..(w.n-1) : k # At(w.z, w.r, i)) => m[k] = w.mz[k]
    <3>1. CASE w.opt[1] \/ w.opt[2]
      <4>1. m = binary_update_bitmap(w, mem)
        BY <1>10, <3>1
      <4>2. /\ \A i \in 0..(w.n-1) : m[At(w.z, w.r, i)] = [v |-> mem[At(w.z, w.r, i)].v, ok |-> BothValid(w, w.r, i)]
            /\ \A k \in DOMAIN w.mz : (\A i \in 0..(w.n-1) : k # At(w.z, w.r, i)) => m[k] = mem[k]
        BY <1>3, <1>5, <4>1, BitmapIs
      <4>3. ASSUME NEW i \in 0..(w.n-1)
            PROVE  m[At(w.z, w.r, i)].v = Computed(w, w.r, i) /\ m[At(w.z, w.r, i)].ok = BothValid(w, w.r, i)
        <5> DEFINE k == At(w.z, w.r, i)
        <5>1. m[k] = [v |-> mem[k].v, ok |-> BothValid(w, w.r, i)]
          BY <4>2
        <5>2. mem[k] = [v |-> Computed(w, w.r, i), ok |-> w.mz[k].ok]
          BY <1>3
        <5> HIDE DEF k
        <5>3. m[k].v = Computed(w, w.r, i) /\ m[k].ok = BothValid(w, w.r, i)
          BY <5>1, <5>2
        <5>4. QED
          BY <5>3 DEF k
      <4>4. \A k \in DOMAIN w.mz : (\A i \in 0..(w.n-1) : k # At(w.z, w.r, i)) => m[k] = w.mz[k]
        BY <1>3, <4>2
      <4>5. QED
        BY <4>3, <4>4
    <3>2. CASE ~(w.opt[1] \/ w.opt[2])
      <4>1. m = mem
        BY <1>10, <3>2
      <4>2. ASSUME NEW i \in 0..(w.n-1) PROVE m[At(w.z, w.r, i)].v = Computed(w, w.r, i)
        <5> DEFINE k == At(w.z, w.r, i)
        <5>1. mem[k] = [v |-> Computed(w, w.r, i), ok |-> w.mz[k].ok]
          BY <1>3
        <5> HIDE DEF k
        <5>2. m[k].v = Computed(w, w.r, i)
          BY <4>1, <5>1
        <5>3. QED
          BY <5>2 DEF k
      <4>3. QED
        BY <1>3, <3>2, <4>1, <4>2
    <3>3. QED
      BY <3>1, <3>2
  <2>2. ASSUME NEW r \in 0..(u.r-1), NEW i \in 0..(w.n-1)
        PROVE  /\ m[At(w.z, r, i)].v = Computed(w, r, i)
               /\ ((w.opt[1] \/ w.opt[2]) => m[At(w.z, r, i)].ok = BothValid(w, r, i))
    <3>1. CASE r = w.r
      BY <2>1, <3>1
    <3>2. CASE r # w.r
      <4>1. r \in 0..(w.r-1) /\ r \in 0..(w.rows-1)
        BY <1>1, <1>2, <3>2
      <4>2. At(w.z, r, i) \in DOMAIN w.mz /\ \A j \in 0..(w.n-1) : At(w.z, r, i) # At(w.z, w.r, j)
        BY <1>1, <3>2, <4>1, ResultPlaces
      <4>3. m[At(w.z, r, i)] = w.mz[At(w.z, r, i)]
        BY <2>1, <4>2
      <4>4. QED
        BY <1>10, <4>1, <4>3 DEF Filled
    <3>3. QED
      BY <3>1, <3>2
  <2>3. Ours(u) = Ours(w)
    BY <1>2 DEF Ours
  <2>4. ASSUME NEW k \in DOMAIN w.mz \ Ours(w) PROVE m[k] = Cell(9, TRUE)
    <3>1. \A i \in 0..(w.n-1) : k # At(w.z, w.r, i)
      BY <1>1 DEF Ours
    <3>2. m[k] = w.mz[k]
      BY <2>1, <3>1
    <3>3. QED
      BY <1>10, <3>2 DEF Filled
  <2>5. \A r \in 0..(u.r-1), i \in 0..(w.n-1) :
          /\ m[At(w.z, r, i)].v = Computed(u, r, i)
          /\ ((w.opt[1] \/ w.opt[2]) => m[At(w.z, r, i)].ok = BothValid(u, r, i))
    BY <1>8, <2>2
  <2>6. \A k \in DOMAIN u.mz \ Ours(u) : u.mz[k] = Cell(9, TRUE)
    BY <1>2, <1>6, <2>3, <2>4
  <2>7. Filled(u)
    <3>1. \A r \in 0..(u.r-1), i \in 0..(u.n-1) :
            /\ u.mz[At(u.z, r, i)].v = Computed(u, r, i)
            /\ ((u.opt[1] \/ u.opt[2]) => u.mz[At(u.z, r, i)].ok = BothValid(u, r, i))
      BY <1>2, <2>5
    <3>2. u.name # "equaln"
      BY <1>2, <1>10
    <3>3. QED
      BY <2>6, <3>1, <3>2 DEF Filled
  <2>8. QED
    BY <1>7, <2>7
<1>11. QED
  BY <1>7, <1>9, <1>10

-----------------------------------------------------------------------------
(* Beginning with new operands.                                            *)

\* An operand in C order has a place for each element.
LEMMA CViewIs ==
  ASSUME NEW sh \in Nat \X Nat, NEW r \in 0..(sh[1]-1), NEW i \in 0..(sh[2]-1)
  PROVE  At(CView(sh, 0), r, i) \in Cells(sh)
<1> DEFINE m == sh[1]
           n == sh[2]
<1>1. m \in Nat /\ n \in Nat
  OBVIOUS
<1>2. At(CView(sh, 0), r, i) = 0 + r * n + i * 1
  BY DEF At, CView, View
<1>3. Cells(sh) = 0..(m * n - 1)
  BY DEF Cells
<1> HIDE DEF m, n
<1>4. r \in 0..(m-1) /\ i \in 0..(n-1)
  BY DEF m, n
<1>5. m - 1 - r \in Nat
  BY <1>1, <1>4
<1> DEFINE d == m - 1 - r
<1>6. d * n \in Nat /\ r * n \in Nat /\ (d + r + 1) * n = d * n + r * n + n /\ m = d + r + 1
  BY <1>1, <1>4, <1>5
<1> HIDE DEF d
<1>7. m * n = d * n + r * n + n
  BY <1>6
<1> DEFINE t == r * n
           u == d * n
           p == m * n
<1>8. t \in Nat /\ u \in Nat /\ p = u + t + n /\ At(CView(sh, 0), r, i) = 0 + t + i * 1
  BY <1>2, <1>6, <1>7
<1> HIDE DEF t, u, p
<1>9. 0 + t + i * 1 \in 0..(p-1)
  BY <1>1, <1>4, <1>8
<1>10. QED
  BY <1>3, <1>8, <1>9 DEF p

\* All cells of a result in C order are elements of it.
LEMMA CellsCovered ==
  ASSUME NEW m \in Nat, NEW n \in Nat, NEW k \in 0..(m * n - 1)
  PROVE  k % n \in 0..(n-1) /\ k \div n \in 0..(m-1) /\ k = (k \div n) * n + (k % n)
<1>1. n # 0
  <2>1. CASE n = 0
    BY <2>1
  <2>2. QED
    BY <2>1
<1>2. m * n \in Nat /\ k \in Nat
  OBVIOUS
<1>3. /\ k \div n \in Nat /\ k % n \in 0..(n-1)
      /\ k = (k % n) + (k \div n) * n
  BY <1>1, <1>2, Division
<1> DEFINE q == k \div n
           o == k % n
<1> HIDE DEF q, o
<1>4. q \in Nat /\ o \in 0..(n-1) /\ k = o + q * n
  BY <1>3 DEF q, o
<1>5. q <= m - 1
  <2> SUFFICES ASSUME q >= m PROVE FALSE
    BY <1>4
  <2>1. (q - m) * n \in Nat /\ (q - m) * n = q * n - m * n
    <3>1. q - m \in Nat
      BY <1>4
    <3> DEFINE d == q - m
    <3>2. d * n \in Nat /\ (d + m) * n = d * n + m * n /\ q = d + m
      BY <1>4, <3>1
    <3> HIDE DEF d
    <3>3. q * n = d * n + m * n
      BY <3>2
    <3>4. d * n = q * n - m * n
      <4>1. q * n \in Int /\ m * n \in Int
        BY <1>4
      <4> DEFINE x == q * n
                 y == m * n
                 z == d * n
      <4>2. x \in Int /\ y \in Int /\ z \in Nat /\ x = z + y
        BY <3>2, <3>3, <4>1
      <4> HIDE DEF x, y, z
      <4>3. z = x - y
        BY <4>2
      <4>4. QED
        BY <4>3 DEF x, y, z
    <3>5. QED
      BY <3>2, <3>4 DEF d
  <2> DEFINE x == q * n
             y == m * n
             z == (q - m) * n
  <2>2. z \in Nat /\ z = x - y /\ y \in Nat /\ x \in Nat /\ k \in 0..(y-1) /\ k = o + x
    BY <1>2, <1>4, <2>1
  <2> HIDE DEF x, y, z
  <2>3. QED
    BY <1>4, <2>2
<1>6. q \in 0..(m-1)
  BY <1>4, <1>5
<1>7. k = q * n + o
  <2> DEFINE x == q * n
  <2>1. x \in Int /\ k = o + x
    BY <1>4
  <2> HIDE DEF x
  <2>2. k = x + o
    BY <1>4, <2>1
  <2>3. QED
    BY <2>2 DEF x
<1>8. QED
  BY <1>4, <1>6, <1>7 DEF q, o

\* The operands of a call.
LEMMA MemoryIs ==
  ASSUME NEW name \in OpNames, NEW sh \in Nat \X Nat, NEW opt \in BOOLEAN,
         name \in Bytewise => opt = FALSE,
         NEW values, values \subseteq Byte, NEW m \in Memories(name, sh, opt, values)
  PROVE  /\ m \in Memory /\ DOMAIN m = Cells(sh)
         /\ \A k \in Cells(sh) : (~opt => m[k].ok = TRUE) /\ (name \in Bytewise => m[k].v \in Byte)
<1>1. sh[1] * sh[2] \in Nat /\ \A k \in Cells(sh) : k \in Int
  BY DEF Cells
<1>2. DOMAIN m = Cells(sh) /\ m = [k \in Cells(sh) |-> m[k]]
      /\ \A k \in Cells(sh) : /\ m[k] \in Value
                              /\ ~opt => m[k].ok = TRUE
                              /\ name \in Bytewise => m[k].v \in Byte
  <2>1. CASE name \in Bytewise
    <3>1. PICK v \in [Cells(sh) -> values] : m = [k \in Cells(sh) |-> Cell(v[k], TRUE)]
      BY <2>1 DEF Memories
    <3>2. ASSUME NEW k \in Cells(sh) PROVE m[k] \in Value /\ m[k].ok = TRUE /\ m[k].v \in Byte
      <4>1. m[k] = [v |-> v[k], ok |-> TRUE] /\ v[k] \in Byte
        BY <3>1 DEF Cell
      <4>2. v[k] \in Int
        BY <4>1 DEF Byte
      <4>3. QED
        BY <4>1, <4>2 DEF Value
    <3>3. QED
      BY <3>1, <3>2
  <2>2. CASE name \notin Bytewise
    <3>1. PICK ok \in (IF opt /\ sh[1] * sh[2] < 8 THEN SUBSET Cells(sh) ELSE {Cells(sh)}) :
            m = [k \in Cells(sh) |-> Cell((k * 3) % 4, k \in ok)]
      BY <2>2 DEF Memories
    <3>2. ASSUME NEW k \in Cells(sh) PROVE m[k] \in Value /\ (~opt => m[k].ok = TRUE)
      <4>1. m[k] = [v |-> (k * 3) % 4, ok |-> (k \in ok)]
        BY <3>1 DEF Cell
      <4>2. (k * 3) % 4 \in Int
        BY <1>1
      <4>3. ~opt => k \in ok
        BY <3>1
      <4> DEFINE a == (k * 3) % 4
                 e == k \in ok
      <4>4. a \in Int /\ e \in BOOLEAN /\ (~opt => e = TRUE) /\ m[k] = [v |-> a, ok |-> e]
        BY <4>1, <4>2, <4>3
      <4> HIDE DEF a, e
      <4>5. m[k].ok = e /\ m[k] \in Value
        BY <4>4 DEF Value
      <4>6. QED
        BY <4>4, <4>5
    <3>3. QED
      BY <2>2, <3>1, <3>2
  <2>3. QED
    BY <2>1, <2>2
<1>3. m \in Memory
  <2> DEFINE s == sh[1] * sh[2] - 1
  <2>1. s \in Int /\ Cells(sh) = 0..s
    BY <1>1 DEF Cells
  <2> HIDE DEF s
  <2>2. m \in [0..s -> Value]
    BY <1>2, <2>1
  <2>3. QED
    BY <2>1, <2>2 DEF Memory
<1>4. QED
  BY <1>2, <1>3

LEMMA ViewIs ==
  ASSUME NEW sh \in Nat \X Nat, NEW x \in Views(sh)
  PROVE  /\ x \in Place
         /\ \A r \in 0..(sh[1]-1), i \in 0..(sh[2]-1) : At(x, r, i) \in Cells(sh)
<1>1. CASE sh = <<2, 2>>
  <2>1. x \in Layouts
    BY <1>1 DEF Views
  <2>2. x \in Place
    BY <2>1, OperandsAssumption DEF Place
  <2>3. sh[1] = 2 /\ sh[2] = 2 /\ Cells(sh) = 0..3
    BY <1>1 DEF Cells
  <2>4. \A r \in 0..1, i \in 0..1 : At(x, r, i) \in 0..3
    BY <2>1, OperandsAssumption
  <2>5. QED
    BY <2>2, <2>3, <2>4
<1>2. CASE sh # <<2, 2>>
  <2>1. x = CView(sh, 0)
    BY <1>2 DEF Views
  <2>2. x = [index |-> 0, steps |-> <<sh[2], 1>>] /\ sh[2] \in Int
    BY <2>1 DEF CView, View
  <2>3. x \in Place
    BY <2>2 DEF Place
  <2>4. QED
    BY <2>1, <2>3, CViewIs
<1>3. QED
  BY <1>1, <1>2

\* Calls have as many operands as bits that say which are optional.
CallInv ==
  call # NoCall => \E n \in 1..2 : /\ call.arg.in \in [1..n -> Dtypes]
                                   /\ call.arg.opt \in Optional /\ Len(call.arg.opt) = n
WorkInv == work = NoWork \/ (Sane(work) /\ Filled(work))
KernelInv == CallInv /\ WorkInv

LEMMA CallStep ==
  ASSUME CallInv, Next \/ UNCHANGED call PROVE CallInv'
<1>1. ASSUME UNCHANGED call PROVE CallInv'
  BY <1>1 DEF CallInv
<1>2. ASSUME NEW name \in Called \intersect module, NEW a \in Arguments(name), Call(a) PROVE CallInv'
  <2>1. call' # NoCall => call'.arg = a
    <3>1. PICK res : call' = [arg |-> a, name |-> a.name, res |-> res]
      BY <1>2 DEF Call, Reach
    <3>2. QED
      BY <3>1
  <2>2. PICK n \in 1..2 : a.in \in [1..n -> Dtypes] /\ a.opt \in Optional /\ Len(a.opt) = n
    <3> DEFINE n == IF Family(name) \in Binary THEN 2 ELSE 1
    <3>1. n \in 1..2
      OBVIOUS
    <3>2. \E dims : a \in [name : {name}, in : [1..n -> Dtypes], opt : {o \in Optional : Len(o) = n},
                          dims : dims, out : OutDtypes(name)]
      BY DEF Arguments
    <3> HIDE DEF n
    <3>3. a.in \in [1..n -> Dtypes] /\ a.opt \in Optional /\ Len(a.opt) = n
      BY <3>2
    <3>4. QED
      BY <3>1, <3>3
  <2>3. QED
    BY <2>1, <2>2 DEF CallInv
<1>3. CASE Import \/ (\E name \in UserNames, n \in Repeats : unsafe_add_kernel(name, n, NoFault))
           \/ (\E name \in UserNames : unsafe_add_kernel(name, 1, [kind |-> "sig", at |-> 1])) \/ Stopped
  BY <1>1, <1>3 DEF Import, unsafe_add_kernel, Stopped, vars
<1>4. CASE Return
  BY <1>4 DEF Return, CallInv
<1>5. QED
  BY <1>1, <1>2, <1>3, <1>4 DEF Next

\* A call begins with sane operands and none of the result done.
LEMMA StartIs ==
  ASSUME CallInv, Start
  PROVE  Sane(work') /\ Filled(work')
<1> DEFINE a == call.arg
           name == call.name
<1>1. /\ call # NoCall /\ name \in OpNames
      /\ name \in Bytewise => a.opt[1] = FALSE /\ a.opt[2] = FALSE
      /\ DOMAIN a.in = 1..2
  <2>1. call # NoCall /\ name \in Looped
    BY DEF Start
  <2>2. name \in OpNames
    BY <2>1, OperandsAssumption DEF OpNames
  <2>3. a.in = <<"i8", "i8">> \/ a.in = <<"f32", "f32">>
    BY DEF Start
  <2>4. name \in Bytewise => a.opt = <<FALSE, FALSE>>
    BY DEF Start
  <2>5. DOMAIN a.in = 1..2
    <3>1. \A s, t : DOMAIN <<s, t>> = 1..2
      OBVIOUS
    <3> HIDE DEF a
    <3>2. QED
      BY <2>3, <3>1
  <2>6. name \in Bytewise => (a.opt[1] = FALSE /\ a.opt[2] = FALSE)
    <3>1. <<FALSE, FALSE>>[1] = FALSE /\ <<FALSE, FALSE>>[2] = FALSE
      BY Zenon
    <3> HIDE DEF a, name
    <3>2. QED
      BY <2>4, <3>1, Zenon
  <2>7. QED
    BY <2>1, <2>2, <2>5, <2>6
<1>2. a.opt \in BOOLEAN \X BOOLEAN
  <2>1. PICK n \in 1..2 : a.in \in [1..n -> Dtypes] /\ a.opt \in Optional /\ Len(a.opt) = n
    BY <1>1 DEF CallInv
  <2>2. n = 2
    <3>1. DOMAIN a.in = 1..n
      BY <2>1
    <3>2. 1..n = 1..2
      BY <1>1, <3>1
    <3>3. 2 \in 1..2
      OBVIOUS
    <3>4. QED
      BY <2>1, <3>2, <3>3
  <2>3. a.opt \in Seq(BOOLEAN) /\ Len(a.opt) = 2
    BY <2>1, <2>2, OperandsAssumption
  <2> HIDE DEF a
  <2>4. a.opt = <<a.opt[1], a.opt[2]>> /\ a.opt[1] \in BOOLEAN /\ a.opt[2] \in BOOLEAN
    BY <2>3
  <2>5. QED
    BY <2>4
<1>3. PICK sh \in IF name \in Bytewise THEN {<<1, 2>>} ELSE Shapes : \E x \in Views(sh), y \in Views(sh) :
        \E mx \in Memories(name, sh, a.opt[1], Bases), my \in Memories(name, sh, a.opt[2], Exponents) :
          LET size == sh[1] * sh[2]
              new == a.out = None
          IN work' =
               [name |-> name, opt |-> a.opt, x |-> x, y |-> y, mx |-> mx, my |-> my,
                z |-> CView(sh, IF new THEN 0 ELSE 2),
                mz |-> [k \in 0..(IF new THEN size - 1 ELSE size + 3) |-> Cell(IF new THEN 0 ELSE 9, ~new)],
                slot |-> IF sh[2] = 1 \/ (x.steps[2] = 1 /\ y.steps[2] = 1) THEN "OptC" ELSE "OptS",
                rows |-> sh[1], n |-> sh[2], r |-> 0, err |-> FALSE]
  BY DEF Start
<1> HIDE DEF a, name
<1>4. sh \in Nat \X Nat /\ sh[1] \in Nat /\ sh[2] \in Nat
  <2>1. sh \in Nat \X Nat
    BY <1>3, OperandsAssumption
  <2>2. QED
    BY <2>1
<1> DEFINE m == sh[1]
           n == sh[2]
           new == a.out = None
           last == IF new THEN m * n - 1 ELSE m * n + 3
           mz == [k \in 0..last |-> Cell(IF new THEN 0 ELSE 9, ~new)]
<1>5. PICK x \in Views(sh), y \in Views(sh) :
        \E mx \in Memories(name, sh, a.opt[1], Bases), my \in Memories(name, sh, a.opt[2], Exponents) :
           work' = [name |-> name, opt |-> a.opt, x |-> x, y |-> y, mx |-> mx, my |-> my,
                    z |-> CView(sh, IF new THEN 0 ELSE 2), mz |-> mz,
                    slot |-> IF n = 1 \/ (x.steps[2] = 1 /\ y.steps[2] = 1) THEN "OptC" ELSE "OptS",
                    rows |-> m, n |-> n, r |-> 0, err |-> FALSE]
  BY <1>3
<1>6. PICK mx \in Memories(name, sh, a.opt[1], Bases), my \in Memories(name, sh, a.opt[2], Exponents) :
           work' = [name |-> name, opt |-> a.opt, x |-> x, y |-> y, mx |-> mx, my |-> my,
                    z |-> CView(sh, IF new THEN 0 ELSE 2), mz |-> mz,
                    slot |-> IF n = 1 \/ (x.steps[2] = 1 /\ y.steps[2] = 1) THEN "OptC" ELSE "OptS",
                    rows |-> m, n |-> n, r |-> 0, err |-> FALSE]
  BY <1>5
<1> DEFINE w == work'
<1>7. /\ mx \in Memory /\ DOMAIN mx = Cells(sh)
      /\ \A k \in Cells(sh) : (~a.opt[1] => mx[k].ok = TRUE) /\ (name \in Bytewise => mx[k].v \in Byte)
      /\ my \in Memory /\ DOMAIN my = Cells(sh)
      /\ \A k \in Cells(sh) : (~a.opt[2] => my[k].ok = TRUE) /\ (name \in Bytewise => my[k].v \in Byte)
  <2>1. a.opt[1] \in BOOLEAN /\ a.opt[2] \in BOOLEAN
    BY <1>2
  <2>2. Bases \subseteq Byte /\ Exponents \subseteq Byte
    BY OperandsAssumption DEF Byte
  <2>3. name \in OpNames /\ (name \in Bytewise => a.opt[1] = FALSE) /\ (name \in Bytewise => a.opt[2] = FALSE)
    BY <1>1 DEF a, name
  <2>4. /\ mx \in Memory /\ DOMAIN mx = Cells(sh)
        /\ \A k \in Cells(sh) : (~a.opt[1] => mx[k].ok = TRUE) /\ (name \in Bytewise => mx[k].v \in Byte)
    BY <1>4, <2>1, <2>2, <2>3, MemoryIs
  <2>5. /\ my \in Memory /\ DOMAIN my = Cells(sh)
        /\ \A k \in Cells(sh) : (~a.opt[2] => my[k].ok = TRUE) /\ (name \in Bytewise => my[k].v \in Byte)
    BY <1>4, <2>1, <2>2, <2>3, MemoryIs
  <2>6. QED
    BY <2>4, <2>5
<1>8. /\ x \in Place /\ y \in Place
      /\ \A r \in 0..(m-1), i \in 0..(n-1) : At(x, r, i) \in Cells(sh) /\ At(y, r, i) \in Cells(sh)
  BY <1>4, ViewIs
<1>9. /\ CView(sh, IF new THEN 0 ELSE 2) = [index |-> IF new THEN 0 ELSE 2, steps |-> <<n, 1>>]
      /\ CView(sh, IF new THEN 0 ELSE 2) \in Place
  <2>1. CView(sh, IF new THEN 0 ELSE 2) = [index |-> IF new THEN 0 ELSE 2, steps |-> <<n, 1>>]
    BY DEF CView, View
  <2>2. QED
    BY <1>4, <2>1 DEF Place
<1>10. m * n \in Nat /\ last \in Int
  BY <1>4
<1> HIDE DEF new, m, n, last
<1>11. mz \in Memory /\ DOMAIN mz = 0..last /\ \A k \in 0..last : mz[k] = Cell(IF new THEN 0 ELSE 9, ~new)
  <2>1. Cell(IF new THEN 0 ELSE 9, ~new) \in Value
    BY DEF Cell, Value
  <2>2. mz \in [0..last -> Value]
    BY <2>1
  <2>3. QED
    BY <1>10, <2>2 DEF Memory
<1> HIDE DEF mz
<1>12. /\ w.name = name /\ w.opt = a.opt /\ w.x = x /\ w.y = y /\ w.mx = mx /\ w.my = my
       /\ w.z = [index |-> IF new THEN 0 ELSE 2, steps |-> <<n, 1>>] /\ w.mz = mz
       /\ w.slot = (IF n = 1 \/ (x.steps[2] = 1 /\ y.steps[2] = 1) THEN "OptC" ELSE "OptS")
       /\ w.rows = m /\ w.n = n /\ w.r = 0 /\ w.err = FALSE
  BY <1>6, <1>9
<1>13. w \in Works
  <2>1. name \in OpNames
    BY <1>1 DEF name
  <2>2. m \in Nat /\ n \in Nat
    BY <1>4 DEF m, n
  <2>3. (IF n = 1 \/ (x.steps[2] = 1 /\ y.steps[2] = 1) THEN "OptC" ELSE "OptS") \in {"OptC", "OptS"}
    OBVIOUS
  <2> HIDE DEF Memory, Place, OpNames
  <2>4. QED
    BY <1>2, <1>6, <1>7, <1>8, <1>9, <1>11, <2>1, <2>2, <2>3 DEF Works
<1>14. Lies(w, w.x, w.mx, w.opt[1]) /\ Lies(w, w.y, w.my, w.opt[2])
  BY <1>7, <1>8, <1>12 DEF Lies, m, n
<1>15. /\ w.z.steps = <<w.n, 1>> /\ w.z.index = (IF new THEN 0 ELSE 2)
       /\ w.z.index \in {0, 2}
  BY <1>12
<1>16. DOMAIN w.mz = 0..(w.rows * w.n + (IF w.z.index = 0 THEN 0 ELSE 4) - 1)
  <2>1. last = m * n + (IF w.z.index = 0 THEN 0 ELSE 4) - 1
    <3> DEFINE p == m * n
    <3>1. p \in Nat /\ last = IF new THEN p - 1 ELSE p + 3
      BY <1>10 DEF last, m, n
    <3> HIDE DEF p
    <3>2. last = p + (IF w.z.index = 0 THEN 0 ELSE 4) - 1
      BY <1>15, <3>1
    <3>3. QED
      BY <3>2 DEF p
  <2>2. QED
    BY <1>11, <1>12, <2>1
<1>17. w.slot = "OptC" => w.n <= 1 \/ (w.x.steps[2] = 1 /\ w.y.steps[2] = 1)
  <2>1. n \in Nat
    BY <1>4 DEF n
  <2>2. QED
    BY <1>12, <2>1
<1>18. Sane(w)
  <2>1. w.r <= w.rows
    BY <1>4, <1>12 DEF m
  <2>2. QED
    BY <1>13, <1>14, <1>15, <1>16, <1>17, <2>1 DEF Sane
<1>19. Filled(w)
  <2>1. ASSUME NEW k \in DOMAIN w.mz \ Ours(w) PROVE w.mz[k] = Cell(9, TRUE)
    <3>1. CASE new
      <4>1. w.z.index = 0 /\ w.z.steps[1] = n /\ w.z.steps[2] = 1
        BY <1>12, <3>1
      <4>2. k \in 0..(m * n - 1) /\ m \in Nat /\ n \in Nat
        BY <1>4, <1>11, <1>12, <3>1 DEF last, m, n
      <4> DEFINE q == k \div n
                 o == k % n
      <4>3. q \in 0..(m-1) /\ o \in 0..(n-1) /\ k = q * n + o
        BY <4>2, CellsCovered
      <4> HIDE DEF q, o
      <4>4. At(w.z, q, o) = 0 + q * n + o * 1
        BY <4>1 DEF At
      <4> DEFINE t == q * n
      <4>5. t \in Int /\ k = t + o /\ At(w.z, q, o) = 0 + t + o * 1 /\ o \in Int
        BY <4>2, <4>3, <4>4
      <4> HIDE DEF t
      <4>6. At(w.z, q, o) = k
        BY <4>5
      <4>7. k \in Ours(w)
        BY <1>12, <4>3, <4>6 DEF Ours
      <4>8. QED
        BY <4>7
    <3>2. CASE ~new
      BY <1>11, <1>12, <3>2
    <3>3. QED
      BY <3>1, <3>2
  <2>2. w.r = 0 /\ ~(w.r > 0) /\ 0..(w.r-1) = {}
    BY <1>12
  <2>3. QED
    BY <2>1, <2>2 DEF Filled
<1>20. QED
  BY <1>18, <1>19

-----------------------------------------------------------------------------
(* Calls, row by row.                                                      *)

LEMMA RowStep ==
  ASSUME WorkInv, MapRow PROVE WorkInv'
<1> DEFINE w == work
<1>1. w # NoWork /\ Sane(w) /\ Filled(w) /\ w.r < w.rows
  BY DEF WorkInv, MapRow
<1>2. CASE ~check_power_exp(w)
  <2>1. w' = [w EXCEPT !.err = TRUE]
    BY <1>2 DEF MapRow
  <2>2. w \in Works
    BY <1>1 DEF Sane
  <2> DEFINE u == [w EXCEPT !.err = TRUE]
  <2>3. /\ u \in Works
        /\ u.name = w.name /\ u.opt = w.opt /\ u.x = w.x /\ u.y = w.y /\ u.mx = w.mx /\ u.my = w.my /\ u.z = w.z
        /\ u.mz = w.mz /\ u.slot = w.slot /\ u.rows = w.rows /\ u.n = w.n /\ u.r = w.r
    BY <2>2 DEF Works
  <2> HIDE DEF u, w
  <2>4. Sane(u)
    BY <1>1, <2>3 DEF Sane, Lies
  <2>5. Filled(u)
    <3>1. \A r, i : Computed(u, r, i) = Computed(w, r, i) /\ BothValid(u, r, i) = BothValid(w, r, i)
      BY <2>3 DEF Computed, BothValid
    <3>2. Ours(u) = Ours(w)
      BY <2>3 DEF Ours
    <3>3. CASE w.name = "equaln"
      BY <1>1, <2>3, <3>3 DEF Filled
    <3>4. CASE w.name # "equaln"
      <4>1. /\ \A r \in 0..(w.r-1), i \in 0..(w.n-1) :
                  /\ w.mz[At(w.z, r, i)].v = Computed(w, r, i)
                  /\ ((w.opt[1] \/ w.opt[2]) => w.mz[At(w.z, r, i)].ok = BothValid(w, r, i))
            /\ \A k \in DOMAIN w.mz \ Ours(w) : w.mz[k] = Cell(9, TRUE)
        BY <1>1, <3>4 DEF Filled
      <4>2. /\ \A r \in 0..(u.r-1), i \in 0..(u.n-1) :
                  /\ u.mz[At(u.z, r, i)].v = Computed(u, r, i)
                  /\ ((u.opt[1] \/ u.opt[2]) => u.mz[At(u.z, r, i)].ok = BothValid(u, r, i))
            /\ \A k \in DOMAIN u.mz \ Ours(u) : u.mz[k] = Cell(9, TRUE)
        <5>1. ASSUME NEW r \in 0..(u.r-1), NEW i \in 0..(u.n-1)
              PROVE  /\ u.mz[At(u.z, r, i)].v = Computed(u, r, i)
                     /\ ((u.opt[1] \/ u.opt[2]) => u.mz[At(u.z, r, i)].ok = BothValid(u, r, i))
          <6>1. u.r = w.r /\ u.n = w.n /\ u.mz = w.mz /\ u.z = w.z /\ u.opt = w.opt
            BY <2>3
          <6>2. r \in 0..(w.r-1) /\ i \in 0..(w.n-1)
            BY <6>1
          <6>3. /\ w.mz[At(w.z, r, i)].v = Computed(u, r, i)
                /\ ((w.opt[1] \/ w.opt[2]) => w.mz[At(w.z, r, i)].ok = BothValid(u, r, i))
            BY <3>1, <4>1, <6>2
          <6>4. QED
            BY <6>1, <6>3
        <5>2. \A k \in DOMAIN u.mz \ Ours(u) : u.mz[k] = Cell(9, TRUE)
          BY <2>3, <3>2, <4>1
        <5>3. QED
          BY <5>1, <5>2
      <4>3. QED
        BY <2>3, <3>4, <4>2 DEF Filled
    <3>5. QED
      BY <3>3, <3>4
  <2>6. QED
    BY <2>1, <2>4, <2>5 DEF WorkInv, u, w
<1>3. CASE check_power_exp(w)
  <2> DEFINE mem == Device(w, w.mz)
             m == IF w.name # "equaln" /\ (w.opt[1] \/ w.opt[2]) THEN binary_update_bitmap(w, mem)
                  ELSE IF w.name = "equaln" THEN binary_update_bitmap_bool(w, mem) ELSE mem
             u == [w EXCEPT !.r = @ + 1, !.mz = m]
  <2>1. work' = u
    BY <1>3 DEF MapRow
  <2> HIDE DEF w
  <2>2. Sane(u) /\ Filled(u)
    BY <1>1, RowDone
  <2>3. QED
    BY <2>1, <2>2 DEF WorkInv
<1>4. QED
  BY <1>2, <1>3

LEMMA KernelStep == KernelInv /\ [LoopNext]_loopVars => KernelInv'
<1> SUFFICES ASSUME KernelInv, [LoopNext]_loopVars PROVE KernelInv'
  OBVIOUS
<1>0. CallInv /\ WorkInv
  BY DEF KernelInv
<1>1. CASE work = NoWork /\ Next /\ UNCHANGED work
  <2>1. CallInv'
    BY <1>0, <1>1, CallStep
  <2>2. WorkInv'
    BY <1>0, <1>1 DEF WorkInv
  <2>3. QED
    BY <2>1, <2>2 DEF KernelInv
<1>2. CASE Start
  <2>1. UNCHANGED call
    BY <1>2 DEF Start, vars
  <2>2. Sane(work') /\ Filled(work')
    BY <1>0, <1>2, StartIs
  <2>3. QED
    BY <1>0, <2>1, <2>2, CallStep DEF KernelInv, WorkInv
<1>3. CASE MapRow
  <2>1. UNCHANGED call
    BY <1>3 DEF MapRow, vars
  <2>2. QED
    BY <1>0, <1>3, <2>1, RowStep, CallStep DEF KernelInv
<1>4. CASE Finish
  <2>1. work' = NoWork /\ call' = NoCall
    BY <1>4 DEF Finish
  <2>2. QED
    BY <2>1 DEF KernelInv, WorkInv, CallInv
<1>5. CASE UNCHANGED loopVars
  <2>1. UNCHANGED <<work, call>>
    BY <1>5 DEF loopVars, vars
  <2>2. QED
    BY <1>0, <2>1 DEF KernelInv, WorkInv, CallInv
<1>6. QED
  BY <1>1, <1>2, <1>3, <1>4, <1>5 DEF LoopNext

\* What has been written of a call that did not fail.
LEMMA WrittenIs ==
  ASSUME WorkInv, Done(work), work.name # "equaln",
         NEW r \in 0..(work.r-1), NEW i \in 0..(work.n-1)
  PROVE  LET z == work.mz[At(work.z, r, i)]
             x == work.mx[At(work.x, r, i)]
             y == work.my[At(work.y, r, i)]
         IN /\ Sane(work)
            /\ z.v = Op(work.name, x.v, y.v)
            /\ ((work.opt[1] \/ work.opt[2]) => z.ok = ((work.opt[1] => x.ok) /\ (work.opt[2] => y.ok)))
            /\ x \in Value /\ y \in Value
            /\ (work.name \in Bytewise => (x.v \in Byte /\ y.v \in Byte))
<1>1. Sane(work) /\ Filled(work)
  BY DEF WorkInv, Done, NoWork
<1>2. r \in 0..(work.rows-1)
  BY <1>1, WorkIs
<1>3. /\ work.mz[At(work.z, r, i)].v = Computed(work, r, i)
      /\ ((work.opt[1] \/ work.opt[2]) => work.mz[At(work.z, r, i)].ok = BothValid(work, r, i))
  BY <1>1 DEF Filled
<1>4. work.mx[At(work.x, r, i)] \in Value /\ work.my[At(work.y, r, i)] \in Value
  BY <1>1, <1>2, OpIs
<1>5. work.name \in Bytewise => (work.mx[At(work.x, r, i)].v \in Byte /\ work.my[At(work.y, r, i)].v \in Byte)
  BY <1>1, <1>2 DEF Sane, Lies
<1>6. QED
  BY <1>1, <1>3, <1>4, <1>5 DEF Computed, BothValid

LEMMA RowsSafe == WorkInv => RowsRight
<1> SUFFICES ASSUME WorkInv PROVE RowsRight
  OBVIOUS
<1>1. ResultFollowsOperands
  <2> SUFFICES ASSUME Done(work), work.name = "add"
               PROVE  /\ Written(work, LAMBDA z, x, y :
                           /\ z.v = x.v + y.v
                           /\ (work.opt[1] \/ work.opt[2]) => (z.ok <=> ((work.opt[1] => x.ok) /\ (work.opt[2] => y.ok))))
                      /\ \A k \in DOMAIN work.mz \ Ours(work) : work.mz[k] = Cell(9, TRUE)
    BY DEF ResultFollowsOperands
  <2>1. \A k \in DOMAIN work.mz \ Ours(work) : work.mz[k] = Cell(9, TRUE)
    <3>1. Filled(work)
      BY DEF WorkInv, Done, NoWork
    <3>2. QED
      BY <3>1 DEF Filled
  <2>2. ASSUME NEW r \in 0..(work.r-1), NEW i \in 0..(work.n-1)
        PROVE  LET z == work.mz[At(work.z, r, i)]
                   x == work.mx[At(work.x, r, i)]
                   y == work.my[At(work.y, r, i)]
               IN /\ z.v = x.v + y.v
                  /\ (work.opt[1] \/ work.opt[2]) => (z.ok <=> ((work.opt[1] => x.ok) /\ (work.opt[2] => y.ok)))
    BY WrittenIs DEF Op
  <2>3. QED
    BY <2>1, <2>2 DEF Written
<1>2. EqualnFirstRow
  <2> SUFFICES ASSUME Done(work), work.name = "equaln", work.r > 0, work.z.index = 0,
                      NEW i \in 0..(work.n-1)
               PROVE  (work.mz[At(work.z, 0, i)].v = 1)
                        <=> EqualTo(work.mx[At(work.x, 0, i)], work.my[At(work.y, 0, i)])
    BY DEF EqualnFirstRow
  <2>1. Filled(work)
    BY DEF WorkInv, Done, NoWork
  <2>2. QED
    BY <2>1 DEF Filled
<1>3. QED
  BY <1>1, <1>2 DEF RowsRight

LEMMA IntegersSafe == WorkInv => IntegersExact
<1> SUFFICES ASSUME WorkInv PROVE IntegersExact
  OBVIOUS
<1>1. PowerExact
  <2>1. ASSUME Done(work), work.name = "power", NEW r \in 0..(work.r-1), NEW i \in 0..(work.n-1)
        PROVE  LET z == work.mz[At(work.z, r, i)]
                   x == work.mx[At(work.x, r, i)]
                   y == work.my[At(work.y, r, i)]
               IN (y.v >= 0 /\ Exp(x.v, y.v) \in -128..127) => z.v = AsPower(Exp(x.v, y.v))
    <3> DEFINE z == work.mz[At(work.z, r, i)]
               x == work.mx[At(work.x, r, i)]
               y == work.my[At(work.y, r, i)]
    <3>1. z.v = Op("power", x.v, y.v) /\ x.v \in Byte /\ y.v \in Byte
      BY <2>1, WrittenIs DEF Bytewise
    <3> HIDE DEF x, y, z
    <3>2. z.v = pow_signed(x.v, y.v)
      BY <3>1 DEF Op
    <3>3. (y.v >= 0 /\ Exp(x.v, y.v) \in -128..127) => z.v = AsPower(Exp(x.v, y.v))
      BY <3>1, <3>2, PowIs DEF Byte
    <3>4. QED
      BY <3>3 DEF x, y, z
  <2>2. QED
    BY <2>1 DEF PowerExact, Written, AsPower
<1>2. DivisionFloors
  <2>1. ASSUME Done(work), work.name \in {"floor_divide", "remainder"},
               NEW q \in 0..(work.r-1), NEW i \in 0..(work.n-1)
        PROVE  LET z == work.mz[At(work.z, q, i)]
                   x == work.mx[At(work.x, q, i)]
                   y == work.my[At(work.y, q, i)]
                   r == IF work.name = "remainder" THEN z.v ELSE x.v - z.v * y.v
               IN IF y.v = 0 \/ (x.v = -128 /\ y.v = -1) THEN z.v = 0
                  ELSE /\ IF y.v > 0 THEN r \in 0..(y.v - 1) ELSE r \in (y.v + 1)..0
                       /\ Magnitude(x.v - r) % Magnitude(y.v) = 0
    <3> DEFINE z == work.mz[At(work.z, q, i)]
               x == work.mx[At(work.x, q, i)]
               y == work.my[At(work.y, q, i)]
               r == IF work.name = "remainder" THEN z.v ELSE x.v - z.v * y.v
               d == divmod_signed(x.v, y.v)
    <3>1. z.v = Op(work.name, x.v, y.v) /\ x.v \in Byte /\ y.v \in Byte
      BY <2>1, WrittenIs DEF Bytewise
    <3> HIDE DEF x, y, z
    <3>2. z.v = IF work.name = "remainder" THEN d[2] ELSE d[1]
      BY <2>1, <3>1 DEF Op
    <3>3. /\ d[1] \in Int /\ d[2] \in Int
          /\ IF y.v = 0 \/ (x.v = -128 /\ y.v = -1) THEN d[1] = 0 /\ d[2] = 0 ELSE Floors(x.v, y.v, d[1], d[2])
      BY <3>1, DivmodIs DEF Byte
    <3>4. CASE y.v = 0 \/ (x.v = -128 /\ y.v = -1)
      BY <3>2, <3>3, <3>4 DEF x, y, z
    <3>5. CASE ~(y.v = 0 \/ (x.v = -128 /\ y.v = -1))
      <4>1. x.v \in Int /\ y.v \in Int /\ y.v # 0
        BY <3>1, <3>5 DEF Byte
      <4> DEFINE a == x.v
                 c == y.v
                 e == d[1]
                 s == d[2]
                 v == z.v
      <4>2. /\ a \in Int /\ c \in Int /\ c # 0 /\ e \in Int /\ s \in Int
            /\ v = (IF work.name = "remainder" THEN s ELSE e)
            /\ s = a - e * c
            /\ IF c > 0 THEN s \in 0..(c-1) ELSE s \in (c+1)..0
        BY <3>2, <3>3, <3>5, <4>1 DEF Floors
      <4>3. r = IF work.name = "remainder" THEN v ELSE a - v * c
        OBVIOUS
      <4> HIDE DEF a, c, e, s, v, r
      <4>4. r = s
        BY <4>2, <4>3
      <4>5. a - s = e * c
        <5> DEFINE t == e * c
        <5>1. t \in Int /\ s = a - t
          BY <4>2
        <5> HIDE DEF t
        <5>2. a - s = t
          BY <4>2, <5>1
        <5>3. QED
          BY <5>2 DEF t
      <4>6. Magnitude(a - r) % Magnitude(c) = 0
        BY <4>2, <4>4, <4>5, MultipleIs
      <4>7. /\ IF c > 0 THEN r \in 0..(c - 1) ELSE r \in (c + 1)..0
            /\ Magnitude(a - r) % Magnitude(c) = 0
        BY <4>2, <4>4, <4>6
      <4>8. QED
        BY <3>5, <4>7 DEF a, c, r, x, y, z
    <3>6. QED
      BY <3>4, <3>5
  <2>2. QED
    BY <2>1 DEF DivisionFloors, Written
<1>3. QED
  BY <1>1, <1>2 DEF IntegersExact

\* After each row, the elements of a result of add and of the first row of
\* equaln are computed from, and valid with, the elements of the operands in
\* the same place (the loops of the kernels, binary_update_bitmap_1D_S() and
\* its siblings, gm_xnd_map()), and the rest of the output's memory is as
\* before: for operands with any number of rows and columns, any layouts of two
\* rows of two elements, any size of a block on a device.
THEOREM RowsFollowOperands == LoopSpec => []RowsRight
<1>1. LoopInit => KernelInv
  BY DEF LoopInit, Init, KernelInv, CallInv, WorkInv
<1>2. KernelInv => RowsRight
  BY RowsSafe DEF KernelInv
<1>3. QED
  BY <1>1, <1>2, KernelStep, PTL DEF LoopSpec

\* power, floor_divide and remainder of int8_t give the number of Python where
\* the dtype has it (pow_signed(), _divmod()), for all operands: the loop of
\* pow_unsigned() computes modulo 2^7, and the quotient is rounded down.
THEOREM IntegersAreExact == LoopSpec => []IntegersExact
<1>1. LoopInit => KernelInv
  BY DEF LoopInit, Init, KernelInv, CallInv, WorkInv
<1>2. KernelInv => IntegersExact
  BY IntegersSafe DEF KernelInv
<1>3. QED
  BY <1>1, <1>2, KernelStep, PTL DEF LoopSpec
=============================================================================
