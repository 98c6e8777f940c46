------------------------------ MODULE FuncTable ------------------------------
(***************************************************************************)
(* The table that maps the names of functions to their kernels: a tree     *)
(* with one node for each prefix of a name.  A name is a sequence of       *)
(* pieces, a piece a run of letters that no other name divides; a function *)
(* keeps the batches of kernels registered for it.                         *)
(***************************************************************************)
EXTENDS Integers, SequencesExt

CONSTANTS
  Path(_),     \* the pieces of a name
  BadChar,     \* the piece that is not made of letters of the alphabet
  MaxKernels   \* GM_MAX_KERNELS

ASSUME MaxKernelsAssumption == MaxKernels \in Nat

NoFunc == 0
None == "none"

\* value: the nodes of the tree; funcs: every function ever allocated, with
\* the number of times its memory was released.
\* Wrong: the root of the tree has a function.
gm_tbl_new_Unset == [value |-> [p \in {<<>>} |-> 1], funcs |-> <<>>]

gm_tbl_new == [value |-> [p \in {<<>>} |-> NoFunc], funcs |-> <<>>]

gm_func_new(name) == [name |-> name, check |-> None, batches |-> <<>>, freed |-> 0]

Release(tbl, f) == [tbl EXCEPT !.funcs[f].freed = @ + 1]

\* Names whose letters are in the alphabet up to a node that does not exist.
GoodLength(path) == IF BadChar \in ToSet(path) THEN IndexFirstSubSeq(<<BadChar>>, path) - 1 ELSE Len(path)

gm_tbl_find(tbl, name) ==
  IF Path(name) \in DOMAIN tbl.value THEN tbl.value[Path(name)] ELSE NoFunc

\* Wrong: the function is stored before the name has been checked.
gm_tbl_add_StoresFirst(tbl, name, f, room) ==
  LET path == SubSeq(Path(name), 1, GoodLength(Path(name)))
      grown == [tbl EXCEPT !.value = (path :> f) @@ @ @@ [p \in Prefixes(path) |-> NoFunc]]
  IN [ok |-> path = Path(name), tbl |-> IF path = Path(name) THEN grown ELSE Release(grown, f)]

\* The nodes that were made stay; the function is stored, or released.
Store(tbl, made, path, f, complete) ==
  LET grown == [tbl EXCEPT !.value = [p \in DOMAIN @ \union made |-> IF p \in DOMAIN @ THEN @[p] ELSE NoFunc]]
      ok == complete /\ grown.value[path] = NoFunc
  IN [ok |-> ok, tbl |-> IF ok THEN [grown EXCEPT !.value[path] = f] ELSE Release(grown, f)]

\* Fails on an invalid character, when there is no memory for a node
\* (room: the nodes that can be allocated) and when the name is taken.
gm_tbl_add(tbl, name, f, room) ==
  LET path == Path(name)
      First(nodes) == {p \in nodes : Cardinality({q \in nodes : Len(q) <= Len(p)}) <= room}
      Grow(missing) ==
        Store(tbl, First(missing), path, f, First(missing) = missing /\ GoodLength(path) = Len(path))
  IN Grow(Prefixes(SubSeq(path, 1, GoodLength(path))) \ DOMAIN tbl.value)

\* Releases the function a second time when it could not be added.
gm_add_func(tbl, name, room) ==
  LET f == Len(tbl.funcs) + 1
      Result(added) == IF added.ok THEN [ok |-> TRUE, tbl |-> added.tbl, f |-> f]
                       ELSE [ok |-> FALSE, tbl |-> Release(added.tbl, f), f |-> NoFunc]
  IN Result(gm_tbl_add([tbl EXCEPT !.funcs = Append(@, gm_func_new(name))], name, f, room))

\* The batch's kernels, one after the other.  "fault" says what fails: the
\* allocation of the function, of a node of the tree or of the signature of
\* the kernel with the given number.
NoFault == [kind |-> None, at |-> 0]
Count(tbl, f) == FoldLeft(LAMBDA n, batch : n + batch.n, 0, tbl.funcs[f].batches)

AddBatch(tbl, f, batch, fault) ==
  LET n == Min({batch.n, MaxKernels - Count(tbl, f)} \union (IF fault.kind = "sig" THEN {fault.at - 1} ELSE {}))
  IN [ok |-> n = batch.n,
      tbl |-> IF n = 0 THEN tbl ELSE [tbl EXCEPT !.funcs[f].batches = Append(@, [batch EXCEPT !.n = n])]]

\* The function of the name, a new one with this type check if there is none.
FindOrAdd(tbl, name, check, fault) ==
  LET Checked(added) == IF added.ok THEN [added EXCEPT !.tbl.funcs[added.f].check = check] ELSE added
  IN CASE gm_tbl_find(tbl, name) # NoFunc -> [ok |-> TRUE, tbl |-> tbl, f |-> gm_tbl_find(tbl, name)]
       [] gm_tbl_find(tbl, name) = NoFunc /\ fault.kind = "func" -> [ok |-> FALSE, tbl |-> tbl, f |-> NoFunc]
       [] OTHER -> Checked(gm_add_func(tbl, name, IF fault.kind = "node" THEN fault.at ELSE Len(Path(name))))

gm_add_kernels(tbl, name, batch, check, fault) ==
  LET Fill(added) == IF added.ok THEN AddBatch(added.tbl, added.f, batch, fault) ELSE [ok |-> FALSE, tbl |-> added.tbl]
  IN Fill(FindOrAdd(tbl, name, check, fault))

\* The functions in the tree.
gm_tbl_map(tbl) == {tbl.value[p] : p \in DOMAIN tbl.value} \ {NoFunc}

\* A function's memory was released while it is in the tree, or twice.
DoubleFree(tbl) == \E f \in DOMAIN tbl.funcs : tbl.funcs[f].freed > 1
=============================================================================
