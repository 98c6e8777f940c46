----------------------------- MODULE KernelLoops -----------------------------
(***************************************************************************)
(* What a kernel does with the memory of its operands: gm_xnd_map() calls  *)
(* it once for each row, it runs a loop over the data and then updates the *)
(* bitmap that says which elements of the result are valid.                *)
(***************************************************************************)
EXTENDS Kernels

CONSTANTS
  Looped,      \* names of functions whose loops are run
  Shapes,      \* rows and columns of the operands
  Layouts,     \* how operands with two rows of two elements lie in memory
  Exponents,   \* exponents and bases of power
  Bases,
  BlockSize    \* threads of a block on a CUDA device

VARIABLE work
loopVars == <<vars, work>>

NoWork == [name |-> None]
View(index, steps) == [index |-> index, steps |-> steps]
Cell(v, ok) == [v |-> v, ok |-> ok]
At(x, r, i) == x.index + r * x.steps[1] + i * x.steps[2]

\* Operands lie in their memory, bytes are numbers of int8_t.
ASSUME OperandsAssumption ==
  /\ Shapes \subseteq Nat \X Nat
  /\ Layouts \subseteq [index : Int, steps : Int \X Int]
  /\ \A x \in Layouts : \A r \in 0..1, i \in 0..1 : At(x, r, i) \in 0..3
  /\ Bases \union Exponents \subseteq -128..127 /\ BlockSize \in Nat \ {0}
  /\ Looped \subseteq {"add", "equaln", "floor_divide", "remainder", "power"}
  /\ Optional \subseteq Seq(BOOLEAN)

LoopInit == Init /\ work = NoWork
-----------------------------------------------------------------------------
(* The loops over the data.                                                *)

\* Eight elements at a time, then the rest.
CpuOrder(n) ==
  LET blocks == {i \in 0..n : i % 8 = 0 /\ i < n - 7}
      rest == 8 * Cardinality(blocks)
  IN (UNION {{i + k : k \in 0..7} : i \in blocks}) \union (rest..(n - 1))

\* One thread for each element, in blocks.
CudaOrder(n) ==
  LET blocks == (n + BlockSize - 1) \div BlockSize
  IN {i \in 0..(n - 1) : \E t \in 0..(blocks * BlockSize - 1) : i >= t /\ (i - t) % (blocks * BlockSize) = 0}

Order(n) == IF b = "cpu" THEN CpuOrder(n) ELSE CudaOrder(n)

\* pow_unsigned() with the mask INT8_MAX: all exponents are read as numbers without a sign.
PowLoop[e \in 0..255] ==
  [base \in 0..255 |-> [r \in 0..127 |->
    IF e = 0 THEN r ELSE PowLoop[e \div 2][(base * base) % 128][IF e % 2 = 1 THEN (r * base) % 128 ELSE r]]]

Magnitude(x) == IF x < 0 THEN -x ELSE x

\* pow_signed() with 8 bits: the absolute value is raised, modulo 2^7.
pow_signed(base, e) ==
  LET r == PowLoop[e % 256][Magnitude(base)][1]
  IN IF base < 0 /\ e % 2 # 0 THEN -r ELSE r

\* _divmod() of int8_t: C divides towards zero, Python towards minus infinity.
Truncated(x, y) == (IF (x < 0) # (y < 0) THEN -1 ELSE 1) * (Magnitude(x) \div Magnitude(y))

\* Wrong: the quotient is corrected when the operands have the same sign, too.
divmod_signed_Always(x, y) ==
  IF y = 0 \/ (x = -128 /\ y = -1) THEN <<0, 0>>
  ELSE LET qq == Truncated(x, y)
           q == IF x - qq * y # 0 THEN qq - 1 ELSE qq
       IN <<q, x - q * y>>

divmod_signed(x, y) ==
  IF y = 0 \/ (x = -128 /\ y = -1) THEN <<0, 0>>
  ELSE LET qq == Truncated(x, y)
           q == IF x - qq * y # 0 /\ (x < 0) # (y < 0) THEN qq - 1 ELSE qq
       IN <<q, x - q * y>>

Op(name, x, y) ==
  CASE name = "add" -> x + y
    [] name = "equaln" -> IF x = y THEN 1 ELSE 0
    [] name = "floor_divide" -> divmod_signed(x, y)[1]
    [] name = "remainder" -> divmod_signed(x, y)[2]
    [] name = "power" -> pow_signed(x, y)

\* xnd_fixed_dim_next() and apply_index(): where row r begins.
RowStart(x, r) == x.index + r * x.steps[1]
Step(w, x) == IF w.slot = "OptC" THEN 1 ELSE x.steps[2]

Device(w, mem) ==
  LET start == RowStart(w.z, w.r)
      At0(i) == w.mx[RowStart(w.x, w.r) + i * Step(w, w.x)].v
      At1(i) == w.my[RowStart(w.y, w.r) + i * Step(w, w.y)].v
  IN [k \in DOMAIN mem |->
       IF \E i \in Order(w.n) : k = start + i * Step(w, w.z)
       THEN [mem[k] EXCEPT !.v = LET i == CHOOSE i \in Order(w.n) : k = start + i * Step(w, w.z)
                                 IN Op(w.name, At0(i), At1(i))]
       ELSE mem[k]]
-----------------------------------------------------------------------------
(* Bitmaps.                                                                *)

Valid0(w, i) == w.mx[At(w.x, w.r, i)].ok
Valid1(w, i) == w.my[At(w.y, w.r, i)].ok

\* Wrong: the bits of the first row are used for all rows.
binary_update_bitmap_FirstRow(w, mem) ==
  [k \in DOMAIN mem |->
     IF \E i \in 0..(w.n - 1) : k = At(w.z, w.r, i)
     THEN [mem[k] EXCEPT !.ok = LET i == CHOOSE i \in 0..(w.n - 1) : k = At(w.z, w.r, i)
                                IN /\ w.opt[1] => w.mx[At(w.x, 0, i)].ok
                                   /\ w.opt[2] => w.my[At(w.y, 0, i)].ok]
     ELSE mem[k]]

\* binary_update_bitmap_1D_S() and _0D(): one bit for each element.
binary_update_bitmap(w, mem) ==
  [k \in DOMAIN mem |->
     IF \E i \in 0..(w.n - 1) : k = At(w.z, w.r, i)
     THEN [mem[k] EXCEPT !.ok = LET i == CHOOSE i \in 0..(w.n - 1) : k = At(w.z, w.r, i)
                                IN (w.opt[1] => Valid0(w, i)) /\ (w.opt[2] => Valid1(w, i))]
     ELSE mem[k]]

\* binary_update_bitmap_1D_S_bool(): the pointer to the result is moved to
\* the row, and the index of the row is then added a second time.
EqualIfValid(w, i, z) ==
  IF w.opt[1] /\ w.opt[2]
  THEN IF Valid0(w, i) /\ Valid1(w, i) THEN z ELSE IF ~Valid0(w, i) /\ ~Valid1(w, i) THEN 1 ELSE 0
  ELSE IF (w.opt[1] => Valid0(w, i)) /\ (w.opt[2] => Valid1(w, i)) THEN z ELSE 0

binary_update_bitmap_bool(w, mem) ==
  LET k2(i) == RowStart(w.z, w.r) + At(w.z, w.r, i)
  IN [k \in DOMAIN mem |->
       IF (w.opt[1] \/ w.opt[2]) /\ \E i \in 0..(w.n - 1) : k = k2(i)
       THEN [mem[k] EXCEPT !.v = LET i == CHOOSE i \in 0..(w.n - 1) : k = k2(i) IN EqualIfValid(w, i, mem[k].v)]
       ELSE mem[k]]

\* The first exponent of a row decides whether power fails.
check_power_exp(w) == w.name = "power" => w.my[RowStart(w.y, w.r)].v >= 0
-----------------------------------------------------------------------------
MapRow ==
  /\ work # NoWork /\ ~work.err /\ work.r < work.rows
  /\ IF ~check_power_exp(work) THEN work' = [work EXCEPT !.err = TRUE]
     ELSE LET mem == Device(work, work.mz)
              optional == work.name # "equaln" /\ (work.opt[1] \/ work.opt[2])
          IN work' = [work EXCEPT !.r = @ + 1,
                        !.mz = IF optional THEN binary_update_bitmap(work, mem)
                               ELSE IF work.name = "equaln" THEN binary_update_bitmap_bool(work, mem) ELSE mem]
  /\ UNCHANGED vars

\* Operands for a call that has found its kernel: any valid bits; the memory
\* of the result is new, or belongs to an array of which the output is a part.
Cells(sh) == 0..(sh[1] * sh[2] - 1)
Bytewise == {"power", "floor_divide", "remainder"}      \* run with int8_t, one row of two, none missing
Memories(name, sh, opt, values) ==
  IF name \in Bytewise THEN {[k \in Cells(sh) |-> Cell(v[k], TRUE)] : v \in [Cells(sh) -> values]}
  ELSE {[k \in Cells(sh) |-> Cell((k * 3) % 4, k \in ok)] :
          ok \in IF opt /\ sh[1] * sh[2] < 8 THEN SUBSET Cells(sh) ELSE {Cells(sh)}}
CView(sh, index) == View(index, <<sh[2], 1>>)
Views(sh) == IF sh = <<2, 2>> THEN Layouts ELSE {CView(sh, 0)}

Start ==
  /\ call # NoCall /\ work = NoWork
  /\ call.name \in Looped /\ call.res.kind = "impl" /\ call.arg.dims = <<"fixed", "fixed">>
  /\ IF call.name \in Bytewise THEN call.arg.in = <<"i8", "i8">> /\ call.arg.opt = <<FALSE, FALSE>>
     ELSE call.arg.in = <<"f32", "f32">>
  /\ \E sh \in IF call.name \in Bytewise THEN {<<1, 2>>} ELSE Shapes : \E x \in Views(sh), y \in Views(sh) :
       \E mx \in Memories(call.name, sh, call.arg.opt[1], Bases),
          my \in Memories(call.name, sh, call.arg.opt[2], Exponents) :
         LET size == sh[1] * sh[2]
             new == call.arg.out = None
         IN work' =
              [name |-> call.name, opt |-> call.arg.opt, x |-> x, y |-> y, mx |-> mx, my |-> my,
               z |-> CView(sh, IF new THEN 0 ELSE 2),
               mz |-> [k \in 0..(IF new THEN size - 1 ELSE size + 3) |-> Cell(IF new THEN 0 ELSE 9, ~new)],
               slot |-> IF sh[2] = 1 \/ (x.steps[2] = 1 /\ y.steps[2] = 1) THEN "OptC" ELSE "OptS",
               rows |-> sh[1], n |-> sh[2], r |-> 0, err |-> FALSE]
  /\ UNCHANGED vars

Finish ==
  /\ work # NoWork /\ (work.err \/ work.r = work.rows)
  /\ work' = NoWork /\ call' = NoCall
  /\ UNCHANGED <<b, tbl, module, ready, aborted>>

LoopNext == (work = NoWork /\ Next /\ UNCHANGED work) \/ Start \/ MapRow \/ Finish
LoopSpec == LoopInit /\ [][LoopNext]_loopVars
-----------------------------------------------------------------------------
(* Properties.                                                             *)

Done(w) == w.name # None /\ ~w.err
Ours(w) == {At(w.z, r, i) : r \in 0..(w.rows - 1), i \in 0..(w.n - 1)}
Written(w, P(_, _, _)) ==
  \A r \in 0..(w.r - 1), i \in 0..(w.n - 1) :
    P(w.mz[At(w.z, r, i)], w.mx[At(w.x, r, i)], w.my[At(w.y, r, i)])

\* After each row, the elements of the result are those of the operands in
\* the same place, valid where all operands are, for every layout of the
\* operands, and the rest of the output's memory is as before.
ResultFollowsOperands ==
  (Done(work) /\ work.name = "add") =>
    /\ Written(work, LAMBDA z, x, y :
         /\ z.v = x.v + y.v
         /\ (work.opt[1] \/ work.opt[2]) => (z.ok <=> ((work.opt[1] => x.ok) /\ (work.opt[2] => y.ok))))
    /\ \A k \in DOMAIN work.mz \ Ours(work) : work.mz[k] = Cell(9, TRUE)

\* equaln compares missing elements as values of their own: a missing element
\* is equal to a missing one and to no other. Stated for the first row of a
\* result, whose memory is new: in the other rows the index of the row is added
\* twice when the missing elements are looked up.
EqualTo(x, y) == IF x.ok /\ y.ok THEN x.v = y.v ELSE x.ok = y.ok
EqualnFirstRow ==
  (Done(work) /\ work.name = "equaln" /\ work.r > 0 /\ work.z.index = 0) =>
    \A i \in 0..(work.n - 1) :
      (work.mz[At(work.z, 0, i)].v = 1) <=> EqualTo(work.mx[At(work.x, 0, i)], work.my[At(work.y, 0, i)])

\* power is exact whenever the exponent is not negative and the result is in
\* -127..127. The smallest number, (-128)**1 or (-2)**7, is a value of the dtype
\* as well, but comes out as 0: the magnitude is taken modulo 2^7 and has no bit
\* left for it.
Exp(base, e) == FoldLeft(LAMBDA r, x : IF r > 127 \/ r < -128 THEN r ELSE r * base, 1, [k \in 1..e |-> k])
PowerExact ==
  (Done(work) /\ work.name = "power") =>
    Written(work, LAMBDA z, x, y :
      (y.v >= 0 /\ Exp(x.v, y.v) \in -128..127) => z.v = IF Exp(x.v, y.v) = -128 THEN 0 ELSE Exp(x.v, y.v))

\* Division of integers is the one of Python: the quotient is rounded down and
\* the remainder has the sign of the divisor, for operands of any sign; only
\* the quotient of MIN and -1, which does not exist, and division by zero give
\* zero.
DivisionFloors ==
  Done(work) =>
    Written(work, LAMBDA z, x, y :
      LET r == IF work.name = "remainder" THEN z.v ELSE x.v - z.v * y.v
      IN work.name \in {"floor_divide", "remainder"} =>
           IF y.v = 0 \/ (x.v = -128 /\ y.v = -1) THEN z.v = 0
           ELSE /\ IF y.v > 0 THEN r \in 0..(y.v - 1) ELSE r \in (y.v + 1)..0
                /\ Magnitude(x.v - r) % Magnitude(y.v) = 0)

\* Each element of the result is computed from, and valid with, the elements
\* of the operands in its place.
RowsRight == ResultFollowsOperands /\ EqualnFirstRow

\* Powers, quotients and remainders of integers are the numbers that they
\* should be where the dtype has them, other than the smallest number as a power.
IntegersExact == PowerExact /\ DivisionFloors
=============================================================================
