------------------------------- MODULE Kernels -------------------------------
(***************************************************************************)
(* The functions of gumath and the kernels they stand for: a module of     *)
(* Python fills a table when it is imported, and a call finds the function *)
(* by its name and its kernel by a position computed from the dtypes.      *)
(***************************************************************************)
EXTENDS BinaryKernels, FuncTable

CONSTANTS
  Backends,      \* which modules of Python: "cpu", "cuda", "user"
  Called,        \* names of functions that are called
  Faulty,        \* names of functions whose registration may fail
  FaultAt,       \* numbers of kernels whose signature may fail
  UserNames,     \* names given to unsafe_add_kernel
  MaxBatches,    \* how many functions and batches of kernels are added by the user
  Repeats,       \* how often a kernel is added under one name
  Optional,      \* which operands have an optional dtype, for one or two operands
  OutDtypes(_)   \* dtypes of explicit outputs of a function; None for no output

U == INSTANCE UnaryKernels

VARIABLES
  b,        \* the module
  tbl,      \* its table, NoTable before the first import
  module,   \* the names in the module object, {} until it is imported
  ready,    \* "initialized"
  aborted,  \* the process was stopped by the allocator
  call      \* the last call and its result

vars == <<b, tbl, module, ready, aborted, call>>
NoTable == [value |-> <<>>, funcs |-> <<>>]
NoCall == [name |-> None]
-----------------------------------------------------------------------------
(* What is registered, in order: families of functions with the same rows. *)

Fam(family, names) == [family |-> family, names |-> names]

CpuUnaryInit ==
  <<Fam("copy", <<"copy", "abs">>), Fam("invert", <<"invert">>), Fam("negative", <<"negative">>),
    Fam("math", <<"fabs", "exp", "exp2", "expm1", "log", "log2", "log10", "log1p", "logb", "sqrt", "cbrt",
                  "sin", "cos", "tan", "asin", "acos", "atan", "sinh", "cosh", "tanh", "asinh", "acosh", "atanh",
                  "erf", "erfc", "lgamma", "tgamma", "ceil", "floor", "trunc", "round", "nearbyint">>)>>

CpuBinaryInit ==
  <<Fam("arithmetic", <<"add", "subtract", "multiply">>), Fam("nocomplex", <<"floor_divide", "remainder">>),
    Fam("divide", <<"divide">>), Fam("arithmetic", <<"power">>),
    Fam("comparison", <<"less", "less_equal", "greater_equal", "greater", "equal", "not_equal">>),
    Fam("equaln", <<"equaln">>), Fam("bitwise", <<"bitwise_and", "bitwise_or", "bitwise_xor">>),
    Fam("mv", <<"divmod">>)>>

CudaUnaryInit ==
  <<CpuUnaryInit[1], Fam("reduce", <<"reduce_add", "reduce_multiply">>)>> \o Tail(CpuUnaryInit)
CudaBinaryInit == CpuBinaryInit

Registered == IF b = "cpu" THEN CpuUnaryInit \o CpuBinaryInit
              ELSE IF b = "cuda" THEN CudaUnaryInit \o CudaBinaryInit ELSE <<>>

NamesIn(inits) == UNION {ToSet(inits[i].names) : i \in DOMAIN inits}
Names == NamesIn(Registered)

\* Different names have different letters.
AllNames == UserNames \union NamesIn(CpuUnaryInit \o CpuBinaryInit) \union NamesIn(CudaUnaryInit \o CudaBinaryInit)
ASSUME PathAssumption ==
  /\ \A name \in AllNames : Path(name) \in Seq(STRING)
  /\ \A m, n \in AllNames : Path(m) = Path(n) => m = n
ASSUME RangesAssumption == FaultAt \subseteq Nat \ {0} /\ Repeats \subseteq Nat /\ Backends \subseteq {"cpu", "cuda", "user"}

FamilyOf(name) == (CHOOSE i \in DOMAIN Registered : name \in ToSet(Registered[i].names))
Family(name) == Registered[FamilyOf(name)].family

Binary == {"arithmetic", "nocomplex", "divide", "comparison", "equaln", "bitwise", "mv"}
Unchecked == {"mv", "reduce"}       \* registered without a type check of their own

\* The kernels of one row: the dimensions and the operands that are optional.
Kern(dims, opt) == [dims |-> dims, opt |-> opt]
BinaryOpt == <<<<FALSE, FALSE>>, <<TRUE, FALSE>>, <<FALSE, TRUE>>, <<TRUE, TRUE>>>>
CpuBinaryVariants == FlattenSeq([d \in 1..3 |-> [o \in 1..4 |-> Kern(<<"fixed", "var", "array">>[d], BinaryOpt[o])]])
CudaBinaryVariants == [o \in 1..4 |-> Kern("fixed", BinaryOpt[o])]
CpuUnaryVariants == FlattenSeq([d \in 1..3 |-> [o \in 1..2 |-> Kern(<<"fixed", "var", "array">>[d], <<o = 2>>)]])
CudaUnaryVariants == [o \in 1..2 |-> Kern("fixed", <<o = 2>>)]
ReduceVariants == [o \in 1..2 |-> Kern("vector", <<o = 2>>)]
MVRows == [i \in 1..11 |-> LET t == (IntegerTypes \o <<"bf16", "f32", "f64">>)[i] IN [in |-> <<t, t>>, out |-> t]]

Variants(family) ==
  CASE family = "mv" -> <<Kern("fixed", <<FALSE, FALSE>>)>>
    [] family = "reduce" -> ReduceVariants
    [] family \in Binary \ {"mv"} -> IF b = "cpu" THEN CpuBinaryVariants ELSE CudaBinaryVariants
    [] OTHER -> IF b = "cpu" THEN CpuUnaryVariants ELSE CudaUnaryVariants

InitRows(family) ==
  CASE family = "copy" -> IF b = "cpu" THEN U!CpuCopyInit ELSE U!CudaCopyInit
    [] family = "reduce" -> U!CudaReduceInit
    [] family = "invert" -> IF b = "cpu" THEN U!CpuInvertInit ELSE U!CudaInvertInit
    [] family = "negative" -> IF b = "cpu" THEN U!CpuNegativeInit ELSE U!CudaNegativeInit
    [] family = "math" -> IF b = "cpu" THEN U!CpuMathInit ELSE U!CudaMathInit
    [] family \in {"arithmetic", "nocomplex"} -> IF b = "cpu" THEN CpuArithmeticInit ELSE CudaArithmeticInit
    [] family = "divide" -> IF b = "cpu" THEN CpuFloatReturnInit ELSE CudaFloatReturnInit
    [] family = "comparison" -> IF b = "cpu" THEN CpuComparisonInit ELSE CudaComparisonInit
    [] family = "equaln" -> IF b = "cpu" THEN CpuEqualnInit ELSE CudaEqualnInit
    [] family = "bitwise" -> IF b = "cpu" THEN CpuBitwiseInit ELSE CudaBitwiseInit
    [] family = "mv" -> MVRows

Batch(family) == [rows |-> family, n |-> Len(InitRows(family)) * Len(Variants(family))]
Check(family) == IF family \in Unchecked THEN None ELSE family

Todo ==
  FlattenSeq([i \in DOMAIN Registered |->
    [j \in DOMAIN Registered[i].names |-> [name |-> Registered[i].names[j], family |-> Registered[i].family]]])

\* gm_init_*_kernels(): all functions, until one fails.
AddAll(fault) ==
  LET Add(t, e) ==
        IF ~t.ok THEN t
        ELSE gm_add_kernels(t.tbl, e.name, Batch(e.family), Check(e.family), IF e.name = fault.name THEN fault ELSE NoFault)
  IN FoldLeft(Add, [ok |-> TRUE, tbl |-> gm_tbl_new], Todo)

Faults ==
  {[name |-> None, kind |-> None, at |-> 0], [name |-> None, kind |-> "table", at |-> 0]}
    \union [name : Faulty, kind : {"func"}, at : {0}]
    \union {[name |-> n, kind |-> "node", at |-> k] : n \in Faulty, k \in 0..1}
    \union [name : Faulty, kind : {"sig"}, at : FaultAt]
-----------------------------------------------------------------------------
(* Importing a module and adding kernels.                                  *)

Init ==
  /\ b \in Backends
  /\ tbl = IF b = "user" THEN gm_tbl_new ELSE NoTable
  /\ module = {} /\ ready = (b = "user") /\ aborted = FALSE /\ call = NoCall

\* The import of functions or cuda: a failure leaves the table as it is, and
\* the next import starts with a new one.
Imported(done) ==
  /\ tbl' = done.tbl /\ ready' = done.ok
  /\ aborted' = DoubleFree(done.tbl)
  /\ module' = IF done.ok THEN {done.tbl.funcs[f].name : f \in gm_tbl_map(done.tbl)} ELSE {}

Import ==
  /\ b # "user" /\ module = {} /\ ~aborted
  /\ \E fault \in Faults :
       IF fault.kind = "table" THEN tbl' = NoTable /\ UNCHANGED <<module, ready, aborted>> ELSE Imported(AddAll(fault))
  /\ UNCHANGED <<b, call>>

Batches == FoldLeft(LAMBDA n, f : n + 1 + Len(f.batches), 0, tbl.funcs)

\* unsafe_add_kernel(), several times with the same name: its result is the
\* function found under the name.
Added(name, done) ==
  /\ tbl' = done.tbl
  /\ aborted' = DoubleFree(done.tbl)
  /\ module' = IF done.ok THEN module \union {done.tbl.funcs[gm_tbl_find(done.tbl, name)].name} ELSE module

unsafe_add_kernel(name, n, fault) ==
  /\ b = "user" /\ ~aborted /\ Batches < MaxBatches
  /\ Added(name, gm_add_kernels(tbl, name, [rows |-> "user", n |-> n], None, fault))
  /\ UNCHANGED <<b, ready, call>>
-----------------------------------------------------------------------------
(* A call.                                                                 *)

Location(family, p) ==
  CASE family = "copy" -> IF b = "cpu" THEN U!CpuCopyLocation(p) ELSE U!CudaCopyLocation(p)
    [] family = "invert" -> IF b = "cpu" THEN U!CpuInvertLocation(p) ELSE U!CudaInvertLocation(p)
    [] family = "negative" -> IF b = "cpu" THEN U!CpuNegativeLocation(p) ELSE U!CudaNegativeLocation(p)
    [] family = "math" -> IF b = "cpu" THEN U!CpuMathLocation(p) ELSE U!CudaMathLocation(p)
    [] family = "bitwise" -> IF b = "cpu" THEN CpuBitwiseLocation(p) ELSE CudaBitwiseLocation(p)
    [] OTHER -> IF b = "cpu" THEN CpuBinaryLocation(p) ELSE CudaBinaryLocation(p)

\* The kernel at a position of a function's array.
Nth(rows, variants, n) == [row |-> rows[(n \div Len(variants)) + 1], variant |-> variants[(n % Len(variants)) + 1]]
KernelAt(family, n) == Nth(InitRows(family), Variants(family), n)

\* cpu_unary_typecheck() and its siblings: the first dimension of an operand
\* chooses among the kernels of a row, and only on the CPU.
unary_offset(a) ==
  (IF a.opt[1] THEN 1 ELSE 0)
    + (IF b = "cuda" THEN 0 ELSE IF a.dims[1] = "var" THEN 2 ELSE IF a.dims[1] = "array" THEN 4 ELSE 0)

binary_offset(a) ==
  (IF a.opt[1] THEN (IF a.opt[2] THEN 3 ELSE 1) ELSE IF a.opt[2] THEN 2 ELSE 0)
    + (IF b = "cuda" THEN 0 ELSE IF "var" \in ToSet(a.dims) THEN 4 ELSE IF "array" \in ToSet(a.dims) THEN 8 ELSE 0)

\* Whether the dimensions agree with the kernel's, after the position was
\* computed: the fast check takes arrays with fixed dimensions and scalars, the
\* general one takes what the ellipsis of the signature stands for.  The
\* sequence of variable dimensions of a scalar is read but never set.
DimsAgree(a, k) ==
  CASE k.variant.dims = "fixed" -> {ToSet(a.dims) \subseteq {"fixed", "scalar"}}
    [] k.variant.dims = "vector" -> {a.dims = <<"fixed">>}
    [] k.variant.dims = "var" /\ "scalar" \in ToSet(a.dims) -> BOOLEAN
    [] OTHER -> {ToSet(a.dims) = {k.variant.dims}}

\* The dtype of an explicit output is the one of the signature; divmod has two
\* outputs of one dtype, and is given both of them or none.
OutAgrees(a, k) == a.out \in {None, k.row.out}

\* gm_select() of a function that has a type check.
Chosen(a) ==
  LET Agreeing(k) == {[k |-> k, ok |-> ok /\ OutAgrees(a, k)] : ok \in DimsAgree(a, k)}
      Select(family, n) ==
        IF n < 0 THEN {} ELSE Agreeing(KernelAt(family, n + IF Len(a.in) = 2 THEN binary_offset(a) ELSE unary_offset(a)))
  IN Select(Family(a.name),
            Location(Family(a.name),
                     IF Len(a.in) = 2 THEN a.in ELSE <<a.in[1], IF a.out = None THEN a.in[1] ELSE a.out>>))

\* gm_select() of a function without one: the first kernel that matches.
Matching(a) ==
  LET Fits(k) == k.row.in = a.in /\ k.variant.opt = a.opt /\ OutAgrees(a, k) /\ TRUE \in DimsAgree(a, k)
      First(family, fit) == IF fit = {} THEN {} ELSE {[k |-> KernelAt(family, Min(fit)), ok |-> TRUE]}
      Select(family, total) == First(family, {n \in 0..(total - 1) : Fits(KernelAt(family, n))})
  IN Select(Family(a.name), Count(tbl, gm_tbl_find(tbl, a.name)))

\* The wrapper on the host: what it calls, or the error that it raises.
Host(family, name) ==
  LET cpu == b = "cpu"
  IN CASE family = "copy" -> IF cpu THEN U!CpuHostCopy ELSE U!CudaHostCopy
       [] family = "reduce" -> U!CudaHostReduce
       [] family = "invert" -> IF cpu THEN U!CpuHostInvert ELSE U!CudaHostInvert
       [] family = "negative" -> IF cpu THEN U!CpuHostNegative ELSE U!CudaHostNegative
       [] family = "math" -> IF cpu THEN U!CpuHostMath(name) ELSE U!CudaHostMath(name)
       [] family = "arithmetic" -> IF cpu THEN CpuHostArithmetic ELSE CudaHostArithmetic
       [] family = "nocomplex" -> IF cpu THEN CpuHostNoComplex ELSE CudaHostNoComplex
       [] family = "divide" -> IF cpu THEN CpuHostFloatReturn ELSE CudaHostFloatReturn
       [] family \in {"comparison", "equaln"} -> IF cpu THEN CpuHostComparison ELSE CudaHostComparison
       [] family = "bitwise" -> IF cpu THEN CpuHostBitwise ELSE CudaHostBitwise
       [] family = "mv" -> [p \in {r.in : r \in ToSet(MVRows)} |-> [out |-> p[1], kind |-> "impl"]]

Key(family, row) == IF family \in Binary THEN row.in ELSE <<row.in[1], row.out>>

\* What the header declares and what the compiled files define; MSVC gets the
\* complex numbers from a file of its own.
Declared(family, name) ==
  LET cpu == b = "cpu"
  IN CASE family = "copy" -> IF cpu THEN U!CpuDeclCopy ELSE U!CudaDeclCopy
       [] family = "reduce" -> U!CudaDeclReduce
       [] family = "invert" -> IF cpu THEN U!CpuDeclInvert ELSE U!CudaDeclInvert
       [] family = "negative" -> IF cpu THEN U!CpuDeclNegative ELSE U!CudaDeclNegative
       [] family = "math" -> IF cpu THEN U!CpuDeclMath(name) ELSE U!CudaDeclMath(name)
       [] family = "arithmetic" -> IF cpu THEN CpuDeclArithmetic ELSE CudaDeclArithmetic
       [] family = "nocomplex" -> IF cpu THEN CpuDeclNoComplex ELSE CudaDeclNoComplex
       [] family = "divide" -> IF cpu THEN CpuDeclFloatReturn ELSE CudaDeclFloatReturn
       [] family \in {"comparison", "equaln"} -> IF cpu THEN CpuDeclComparison ELSE CudaDeclComparison
       [] family = "bitwise" -> IF cpu THEN CpuDeclBitwise ELSE CudaDeclBitwise
       [] family = "mv" -> Host(family, name)

Defined(family, name) ==
  LET cpu == b = "cpu"
  IN CASE family = "copy" -> IF cpu THEN U!CpuDeviceCopy ELSE U!CudaDeviceCopy
       [] family = "reduce" -> U!CudaDeviceReduce
       [] family = "invert" -> IF cpu THEN U!CpuDeviceInvert ELSE U!CudaDeviceInvert
       [] family = "negative" -> IF cpu THEN U!CpuDeviceNegative ELSE U!CudaDeviceNegative
       [] family = "math" -> IF cpu THEN U!CpuDeviceMath(name) ELSE U!CudaDeviceMath(name)
       [] family = "arithmetic" -> IF cpu THEN CpuDeviceArithmetic ELSE CudaDeviceArithmetic
       [] family = "nocomplex" -> IF cpu THEN CpuDeviceNoComplex ELSE CudaDeviceNoComplex
       [] family = "divide" -> IF cpu THEN CpuDeviceFloatReturn ELSE CudaDeviceFloatReturn
       [] family \in {"comparison", "equaln"} -> IF cpu THEN CpuDeviceComparison ELSE CudaDeviceComparison
       [] family = "bitwise" -> IF cpu THEN CpuDeviceBitwise ELSE CudaDeviceBitwise
       [] family = "mv" -> Host(family, name)

DefinedMsvc(family, name) ==
  CASE family = "copy" -> U!MsvcCopy
    [] family = "negative" -> U!MsvcNegative
    [] family = "math" -> U!MsvcMath(name)
    [] family = "arithmetic" -> MsvcArithmetic
    [] family = "divide" -> MsvcFloatReturn
    [] family \in {"comparison", "equaln"} -> MsvcComparison
    [] OTHER -> <<>>

Result(kind, k) == [kind |-> kind, kernel |-> k]
Reach(a, family, chosen) ==
  \/ /\ chosen = {} \/ \E c \in chosen : ~c.ok
     /\ call' = [arg |-> a, name |-> a.name, res |-> Result("error", None)]
  \/ \E c \in chosen :
       /\ c.ok
       /\ call' = [arg |-> a, name |-> a.name, res |-> Result(Host(family, a.name)[Key(family, c.k.row)].kind, c.k)]

Call(a) ==
  /\ b # "user" /\ a.name \in module
  /\ Reach(a, Family(a.name), IF tbl.funcs[gm_tbl_find(tbl, a.name)].check = None THEN Matching(a) ELSE Chosen(a))
  /\ UNCHANGED <<b, tbl, module, ready, aborted>>

Arguments(name) ==
  LET n == IF Family(name) \in Binary THEN 2 ELSE 1
      dims == IF Family(name) \in {"divide", "copy"} THEN {"scalar", "fixed", "var", "array"} ELSE {"fixed"}
  IN [name : {name}, in : [1..n -> Dtypes], opt : {o \in Optional : Len(o) = n}, dims : [1..n -> dims], out : OutDtypes(name)]

Return == call # NoCall /\ call' = NoCall /\ UNCHANGED <<b, tbl, module, ready, aborted>>

Stopped == (aborted \/ (b = "user" /\ Batches >= MaxBatches)) /\ UNCHANGED vars

Next ==
  \/ Import
  \/ \E name \in UserNames, n \in Repeats : unsafe_add_kernel(name, n, NoFault)
  \/ \E name \in UserNames : unsafe_add_kernel(name, 1, [kind |-> "sig", at |-> 1])
  \/ call = NoCall /\ \E name \in Called \intersect module : \E a \in Arguments(name) : Call(a)
  \/ Return
  \/ Stopped

Spec == Init /\ [][Next]_vars
-----------------------------------------------------------------------------
(* Properties.                                                             *)

TypeOK ==
  /\ b \in Backends /\ module \subseteq (Names \union UserNames)
  /\ ready \in BOOLEAN /\ aborted \in BOOLEAN
  /\ tbl = NoTable \/ ToSet([p \in DOMAIN tbl.value |-> tbl.value[p]]) \subseteq 0..Len(tbl.funcs)
  /\ call = NoCall \/ call.res.kind \in {"error", "noimpl", "nokern", "impl"}

\* No failure of an import and no sequence of calls of unsafe_add_kernel()
\* leaves a function in the tree whose memory was released, and the tree
\* leads each name to the function of that name (gm_tbl_add, gm_tbl_find).
LookupExact ==
  call = NoCall => \A p \in DOMAIN tbl.value :
    tbl.value[p] # NoFunc =>
      /\ tbl.funcs[tbl.value[p]].freed = 0
      /\ Path(tbl.funcs[tbl.value[p]].name) = p

\* A module that could be imported has all of its functions with all of
\* their kernels, after any number of failed imports.
ImportComplete ==
  (ready /\ b # "user" /\ call = NoCall) =>
    /\ module = Names
    /\ \A name \in Names :
         LET f == gm_tbl_find(tbl, name)
         IN Count(tbl, f) = Batch(Family(name)).n /\ tbl.funcs[f].check = Check(Family(name))

\* The position computed from the dtypes of a call is the one where the kernel
\* for these dtypes was registered: the order is written down twice, in the
\* switch of the type check and in the list of kernels.
Fits(c) ==
  c.res.kind # "error" =>
    LET k == c.res.kernel
        d == ToSet(c.arg.dims)
    IN /\ k.row.in = c.arg.in /\ k.variant.opt = c.arg.opt
       /\ c.arg.out \in {None, k.row.out}
       /\ k.variant.dims = "var" <=> "var" \in d
       /\ k.variant.dims = "array" <=> "array" \in d

\* All but the bitwise functions of an operand with 16 bits and no sign.
BitwiseU16(c) == Family(c.arg.name) = "bitwise" /\ c.arg.in[1] = "u16"
KernelFits == call # NoCall /\ ~BitwiseU16(call) => Fits(call)

\* What a wrapper calls is declared with the same result and defined, in the
\* file of the compiler that is used: a library with a wrapper whose kernel is
\* missing cannot be loaded.
Implements(table, key, out) == key \in DOMAIN table /\ table[key].out = out /\ table[key].kind \in {"impl", "implc"}
Linked(name, family, row) ==
  LET key == Key(family, row)
      InFile(table) == Implements(table, key, row.out)
                       /\ (b = "cpu" /\ table[key].kind = "implc" => Implements(DefinedMsvc(family, name), key, row.out))
  IN Implements(Declared(family, name), key, row.out) /\ InFile(Defined(family, name))
ImplementedIsLinked ==
  (call # NoCall /\ call.res.kind = "impl") => Linked(call.name, Family(call.name), call.res.kernel.row)

\* Arithmetic of two numbers is accepted exactly if a dtype holds all values of
\* both operands, and the result has the smallest such dtype, an integer one
\* for two integers; an explicit output must have that dtype, too. Booleans are
\* refused, although other dtypes hold their values. Accepted is a call that
\* finds a kernel, also one that only raises an error: NotImplementedError for
\* half precision, RuntimeError for the quotient of complex numbers.
ArithmeticDtypes(t0, t1) ==
  {v \in Dtypes : LeastCommon(v, t0, t1) /\ (IsInteger(v) <=> IsInteger(t0) /\ IsInteger(t1))}
ResultIsLeast ==
  (call # NoCall /\ Family(call.name) \in {"arithmetic", "nocomplex"}) =>
    LET least == ArithmeticDtypes(call.arg.in[1], call.arg.in[2])
        numbers == "b" \notin ToSet(call.arg.in)
    IN /\ call.res.kind # "error" <=> numbers /\ \E v \in least : call.arg.out \in {None, v}
       /\ call.res.kind # "error" => call.res.kernel.row.out \in least

\* copy and abs convert to exactly the dtypes that hold all values of the operand.
CopyIsExact ==
  (call # NoCall /\ Family(call.name) = "copy" /\ call.arg.out # None /\ call.arg.dims = <<"fixed">>) =>
    (call.res.kind # "error" <=> Exact(call.arg.in[1], call.arg.out))

\* The table of functions is complete and leads to what it should: a failed
\* import, a name that is taken or a letter that is not allowed leave nothing
\* behind that a later import or call could meet.
TableExact == LookupExact /\ ImportComplete

\* A call reaches the kernel of its dtypes, and that is one that was compiled.
KernelRight == KernelFits /\ ImplementedIsLinked

\* No value of an operand is lost to the dtype of the result, and no call is
\* refused that would lose none, other than arithmetic of booleans.
DtypesExact == ResultIsLeast /\ CopyIsExact
=============================================================================
