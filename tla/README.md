# Models of xnd, ndtypes and gumath in TLA+

`ndtypes` describes the layout of memory as types, `xnd` puts values into memory
laid out by a type, and `gumath` applies kernels to xnd arrays, in several
threads if they are large. Each is a C library with a Python extension module on
top (`mod/`). This directory holds models of the parts whose correctness depends
on the order in which things happen, on what fails half way, or on arithmetic at
boundaries. TLC checks the models on small instances, TLAPS checks the proofs.

To check a module: `tlc -config MCViews.cfg MCViews.tla`. To check a proof:
`tlapm ThreadedApply_proofs.tla`. `PROJECT.json` lists the runs, what each
definition models (file, lines, symbol), and the hazards, each with the
properties that watch it.

## 1. Inventory

| component | state | operations | what makes it hard | what makes it correct | module |
|---|---|---|---|---|---|
| splitting (`xnd/libxnd/split.c`) | a matrix of index ranges while a call runs | `xnd_split()` | `n` need not divide anything; recursion over dimensions; the matrix is allocated for `n` rows | slices tile the array, in order, exactly `min(n, size)` of them | `SplitArith`, `SplitSchedule`, `Split` |
| threaded apply (`gumath/libgumath/thread.c`, `apply.c`, `xndloops.c`) | slices per argument, `thread_info[]`, one error context per worker | `gm_apply_thread()` and its workers | threads without locks; errors of several workers; `pthread_create()` fails in the middle | same result and error as the sequential loop; nothing leaked or used after it is freed | `ThreadedApply`, `ApplyContract` |
| Python objects (`mod/xnd/_xnd.c`, `mod/ndtypes/_ndtypes.c`) | reference counts of blocks, xnd objects, type objects, types, buffer proxies | creation, views, split, buffers in and out, deallocation | hand-kept counts on every error path; chains of exported buffers; destructors that set off destructors | counts are the numbers of owners; views never outlive their memory; read-only memory stays so | `XndObjects` |
| containers (`xnd/libxnd/xnd.c`, `copy.c`, `mblock_init()` in `mod/xnd/_xnd.c`) | typed memory with pointers to more memory | `xnd_new()`, `xnd_init()`, assignment, copy, `xnd_clear()`, `xnd_del_buffer()` | untyped words that a union reinterprets; allocation fails anywhere in the tree | pointers are NULL or valid; one owner for each block; what was stored can be read | `Container` |
| type checks, broadcasting, kernel choice (`ndtypes/libndtypes/match.c`, `util.c`, `gumath/libgumath/apply.c`) | the `ndt_apply_spec_t` of a call | `ndt_typecheck()`, the two fast checks, `ndt_select_kernel_strategy()`, `select_kernel()` | extents 0 and 1, negative and zero steps, outputs, different numbers of dimensions | NumPy's shape; the same elements; the kernel's assumptions hold | `Broadcast` |
| indexing and slicing (`xnd/libxnd/xnd.c`, `contrib.h`, `ndtypes.c`) | views: type, pointer, linear index, path of bitmaps | `xnd_subscript()`, `xnd_subtree()`, `xnd_multikey()` | indices and slices of ragged dimensions are noted in the type and applied much later | a view has the elements Python's rules give on nested lists | `SliceArith`, `ArrayTypes`, `ViewOps`, `Views` |
| validity bitmaps (`bitmaps.c`) | tree of bitmaps beside the type tree | init, next, set, test | the path of bitmaps must move in step with the pointer | every element has a bit of its own | `ViewOps`, `KernelLoops` |
| bounds check of foreign buffers (`bounds.c`) | none | `_xnd_bounds_check()` | negative steps; only the ends are looked at | accepted exactly if all elements lie in the buffer | `ViewOps`, `Views` |
| reshape, transpose (`shape.c`, `contrib.h`, `util.c`) | none | `xnd_reshape()`, `ndt_transpose()` | steps that regroup without a copy | the same elements in C or Fortran order | `ViewOps`, `Views` |
| copy and equality (`copy.c`, `equal.c`) | none | `xnd_copy()`, `xnd_equal()`, `xnd_strict_equal()` | a test for each pair of 16 dtypes; failure half way | no number changes silently; equality agrees with the values | `Numbers`, `ViewOps`, `Views` |
| function tables (`func.c`, `tbl.c`) | tree of functions by name | add, find, list | ownership of a function when adding it fails | each name leads to its function and that is not released | `FuncTable`, `Kernels` |
| kernels (`gumath/libgumath/kernels/`) | tables per function and backend | registration, type check, declaration, definition; loops and bitmaps | the order of dtypes is written down twice, in cases and in macros, for two backends and two compilers | a call gets the kernel of its dtypes, and that is compiled; rows and validity are those of the operands | `Dtypes`, `BinaryKernels`, `UnaryKernels`, `Kernels`, `KernelLoops` |
| calls from Python (`mod/gumath/`) | argument stacks, results; module tables | import, `unsafe_add_kernel()`, `_gufunc_call()` | imports that fail half way; many error returns | functions are complete when they can be called | `Kernels`, in part |
| type construction (`ndtypes.c`, `primitive.c`) | reference-counted trees | constructors | steps, offsets, alignment | elements lie in the type's size | `ArrayTypes`, in part |
| loops over outer dimensions (`apply.c`, `xndloops.c`, `nploops.c`) | pointers and steps | `gm_apply()`, `gm_xnd_map()`, `gm_np_convert_xnd()`, `gm_np_map()` | the last dimension is walked by the caller or by the kernel; two representations of the arguments | each element once, in the same place of all arguments, whichever kernel was chosen | `ApplyLoops` |
| pattern matching, substitution (`match.c`, `symtable.c`, `substitute.c`) | symbol table of a match | match, resolve, substitute | symbols are bound by whatever is met first, also inside of tuples and ragged arrays with noted slices | accepted exactly if each symbol has one meaning; in the results it has that meaning | `TypeTrees`, `Typecheck`, `TypeQueries` |
| unification (`unify.c`) | none | `ndt_unify()`, `ndt_unify_replace_any()` | missing and unknown types at any depth | the least type that has a place for the values of both, in either order | `TypeTrees`, `Unification`, `TypeQueries` |
| type inference (`mod/xnd/_xnd.c`) | lengths of lists per level, data found so far | `typeof()` | `None` for a value or for a whole list, at any depth; the shortcut after the first complete type | the type has the dimensions, fields and missing values of the value | `TypeInference`, `TypeQueries` |
| typedefs, error contexts (`symtable.c`, `context.c`) | process-wide table; owned messages | add, find; format, clear | redefinition; memory runs out in the error path | types in use stay valid; messages freed once | not modelled |
| serialization, parser, printer, CUDA memory, Python packages | | | | | not modelled, see section 7 |

How they interact. A call of a gufunc from Python enters `_gufunc_call()`,
which has the type checker broadcast the argument types (`Broadcast`), makes xnd
objects for the results (`Container` for their memory, `XndObjects` for their
owners), and hands the stack of arguments to `gm_apply_thread()`
(`ThreadedApply`), which cuts each of them with `xnd_split()` (`Split`) and runs
the kernel that `Kernels` finds in the tables (`FuncTable`) for the order chosen by
`Broadcast` on the pieces, row by row (`ApplyLoops`, `KernelLoops`). A result keeps the memory
block alive through references that `XndObjects` counts. What a program sees of an
array, whole or through views, is in `Views`. Signatures with symbols take another path
through the type check than the `...` of most functions; it is in `Typecheck`, and both paths
are asked in one run. An xnd object that is made from a Python value without a type gets the one
that `TypeInference` finds, which unifies the types of the items.

There is one source of real concurrency, the worker threads. Everything else
runs under the interpreter lock, so that an operation is one step there; its
inside is modelled where it may fail at several places.

## 2. Plan

1. Done: the core of a call. `Split` and `ThreadedApply` with their contract and
   its proof, `XndObjects`, `Broadcast`, `Container`.
2. Done: `FuncTable` and the kernels with their composition (`Kernels`,
   `KernelLoops`); `Views` with all operations on views, bitmaps, bounds, copies
   and comparisons; `Typecheck`, `Unification` and `TypeInference`, asked through
   `TypeQueries`.
3. Proofs. Done: `ThreadedApply`, its refinement, `SplitArith`; `SliceArith` (an
   adjusted slice stays in its dimension, slices of slices stay in their list, for all
   extents); `Split` for arrays of any number of dimensions, whose schedules satisfy
   `TileAssumption`; `XndObjects` for any number of objects and any set of failing
   calls; `Broadcast` and `ApplyLoops`, from a call to the elements on which its kernel
   works, for any number of arguments and dimensions; `FuncTable` with the imports of
   `Kernels`; the loops of `KernelLoops`. Perhaps later: the order of rows in `BinaryKernels`, and `Numbers`
   (copies without loss, equality agrees with the values, from `NumberAssumption`).
4. Perhaps later: `_gufunc_call()` with the counts of its arguments.

## 3. Modules and code

**`SplitArith`, `SplitSchedule`, `Split`** (`split.c`). `start`, `stop` and `step` are
the functions `start()`, `stop()`, `step()`. `Schedule(shape, n)` is
`schedule()`, as a recursive function over the last `k` dimensions; `Column` and
`LastColumn` are `column()` and `last_column()`, and a row of the matrix is a
sequence of ranges. What a row stands for is an interval of the row-major order
(`Interval`, from `Volume`, `RowFirst` and `RowSize`), so that the slices of an array are its
`Tiles`. `Split` is one call of `xnd_split()`: `Refuse` for the
checks, `OutOfMemory` for the error returns, `SplitShape` for the result with
`*nparts` updated. What `xnd_subscript()` does with a row is not part of it.

**`ThreadedApply`** (`thread.c`, `apply.c`, `xndloops.c`). The caller's
control is `pc`, its loop counter `i`. One action per step that another thread can
observe or that can fail: `Enter` (the test of `GM_THREAD_CUTOFF` and
`nthreads`), `SplitArg` (one `xnd_split()`), `CheckSubdivision`,
`AllocThreadInfo`, `CreateWorker`, `AllCreated`, `JoinWorker`, `AllJoined`; the
sequential path is `SequentialRow` and `SequentialReturn`. Workers have
`StartWorker`, `WorkerRow`, `WorkerError`, `WorkerDone`. A row is one element of the outer
dimensions. `WorkerCrash` is what a worker may do that runs on after the caller
has freed the slices and `tinfo`, as happens when `pthread_create()` fails.

**`ApplyContract`** is what a caller may rely on: every row at most once, all of
them on success, the error of the first bad row with every row before it
computed. `ThreadedApply` implements it under the mapping `Contract`.

**`XndObjects`** (`_xnd.c`, `_ndtypes.c`). A heap of five kinds of objects with counts
and the references that each owns. One action per Python-level operation with an
outcome for each step that may fail (`Failing` names the sites). The destructor
calls that an operation sets off are pending in `todo` and run one at a time in
the order of the code: `Decref` and `XndDel`.

**`Broadcast`** (`match.c`, `ndtypes.c`, `util.c`, `apply.c`). An array is its
shape and steps. `MatchArg` handles one argument of `ndt_typecheck()` (check of
contiguity, folding of the shape), `BroadcastAll` and `Finish` stretch all of
them, `FastTypecheck` is the fast unary or binary check, `SelectKernel` computes
the flags and picks the kernel.

**`ApplyLoops`** (`apply.c`, `xndloops.c`, `nploops.c`) extends it by `Apply`, which is
`gm_apply()`: the kernel is called through `gm_xnd_map` or, with pointers and steps, through
`gm_np_map`, and `ran` has the elements that it works on, one tuple for each step of its loop.
Both maps recurse over the outer dimensions as the code does, written as recursive functions on the
number of dimensions that are left, so that they can be proved about: `NextOf` is the stack of
the next element, `UntilError` the loop that stops at the first error, `Inside` the pointers to dimensions
and steps moved on.

**`Container`** (`xnd.c`, `inline.h`, `copy.c`, `mblock_init()` of `_xnd.c`,
`alloc.c`). Memory is a set of blocks of words, and a word may be a number or a
pointer; the type decides. `xnd_new`, `xnd_init`, `xnd_clear`,
`xnd_del_buffer`, `mblock_init` and `xnd_copy` recurse over the type as the code
does; `fail` counts allocations down to the one that returns NULL; following or
freeing what is no pointer sets `fault`. The actions are `Empty`, `Assign`,
`Copy` and `Delete`. Records, nominal types and constructors take the same path
as tuples, var dimensions as fixed ones.

**`Dtypes`, `BinaryKernels`, `UnaryKernels`** (`kernels/`). A table of kernels is a
sequence of rows with the dtypes of operands and result. The macros that write the
tables down are sets and sequences of pairs: what each file registers
(`..._init`), declares (`Decl`), wraps (`Host`) and defines (`Device`, `Msvc`), per
backend; `...Location` are the nested cases of the type checks, which compute a
place in the table from the dtypes. Both sides are translated as they are
written, so that the comparison of the two says something.

**`FuncTable`** (`func.c`, `tbl.c`). The tree of names as a function from paths to
functions; functions have kernels, a type check and a count of how often they were
released.

**`Kernels`** composes these: `Import` adds the functions of a backend one after
another and may fail at any of the places in `FaultAt`, after which it can be
repeated; `unsafe_add_kernel` adds to tables from Python; `Call` goes through the
type check, finds the kernel and its wrapper.

**`KernelLoops`** continues a call: rows of two operands of any layout are
computed with the loop of the kernel and then the bitmaps of the row
(`MapRow`; what may be passed is stated in `OperandsAssumption`). Integers have 8 bits and wrap around.

**`SliceArith`, `ArrayTypes`, `ViewOps`** (`xnd.c`, `contrib.h`, `ndtypes.c`,
`bitmaps.c`, `bounds.c`, `shape.c`, `copy.c`, `equal.c`). A type is a sequence of
dimensions (fixed, ragged, ragged with a noted index) around an item; a view is a
type, an address, a linear index and the path of its bitmap. The operators have the
names of the functions and the same recursion.

**`Numbers`** (`copy.c`, `equal.c`, `contrib.h`). Numbers are pairs of integers that
count halves. A dtype is an interval of integers or a number of binary digits and a
bound, with fewer digits than in reality but with the same inclusions: 64-bit integers
have numbers that doubles have not, doubles have all integers up to `Limit`,
bfloat16 has the range of single precision. One operator for each of the functions
that copy from, or compare with, one of the four widest types.

**`TypeTrees`, `Typecheck`** (`match.c`, `symtable.c`, `substitute.c`, `copy.c`). Types and
patterns are trees of nodes with the same fields, so that equal types are equal trees.
`match_datashape` walks a pattern and a type together and returns the table of symbols or
`Fail`; `Resolve` and `resolve_fixed` bind a symbol or compare it, `resolve_var` and `match_concrete_var_dim`
compare ragged arrays by their lists, `ndt_substitute` builds a result from the table,
`resolve_constraint` computes symbols like the extent of `pdist`. Signatures with the unnamed
ellipsis are those of `Broadcast`.

**`Unification`** (`unify.c`): `unify` with the ranks of the tags. **`TypeInference`**
(`_xnd.c`): `search` collects data and lengths of lists, `require_var` decides between fixed
and ragged dimensions, `unify_dtypes` folds the types of the items, with the shortcut or
without. A Python value is its kind, its items and its keys.

**`TypeQueries`** asks: `MatchArgument` matches one argument after the other, `Conclude` applies
the constraint and makes the results, `Unify` and `Infer` answer at once. The answers are
compared with definitions of another form: `Asks` collects all that the arguments say of a symbol
as a relation, which must be a function; `Nest` lists a ragged array as the paths of nested
lists; `HoldsAll` compares the bits of formats; `Exact` reads a type against the value, level by
level. `MCBroadcast` starts with either a call of `Broadcast` or a question.

**`Views`** is a program with one array: each action is a method of xnd objects
(subscript, reshape, transpose, copy, serialize, tobytes, assign, compare). `mem`
maps the address of each number to its value, `bits` the validity bits. The result
of a step is compared with the value before it, as nested lists, by operators of
their own (`PyGet`, `FlatC`, `FlatF`, `NearestNumber`), which know nothing of
addresses.

The wrong variants `<definition>_<Fault>` beside some definitions are used to show
that a property fails when the code has that bug. They are part of no
specification.

## 4. Runs

| run | states | bounds, and why they are enough |
|---|---|---|
| `threaded_apply` | 78 352 | two calls side by side, one of them with all its inputs and the other with fixed ones. `gm_apply_thread()`: outer shape 2 x 2, two arguments, three threads, all sets of bad rows and of large arguments, all subdivisions. The tiles are those that `Schedule` computes (an `ASSUME` of `MCThreadedApply`), one of them with two rows. Three workers are the least for an error before and after the one reported. `xnd_split()`: shapes of up to 3 dimensions with extents 0 to 4, `n` up to 13. Both branches of `schedule()`, at every level of the recursion, with and without remainder, more parts than elements included: 13 is more than 3 x 4, so that the third level is reached with a remainder for those and all smaller extents. A call ends: `CHECK_DEADLOCK FALSE`. |
| `xnd_objects` | 1 176 303 | two blocks, three xnd objects, one proxy: a chain block - proxy - block with views at both ends. A type is shared by up to three references (`MaxRefs`), as many as there are views. Clean error paths. |
| `xnd_objects_errors` | 3 434 016 | one block, three xnd objects (the least for `split(2)`), four types. The error paths that forget a type; a type is shared by at most two references (`MaxRefs`), or the leaks would accumulate without end. `CHECK_DEADLOCK FALSE`: leaked types can fill all slots, and after the fault in `mblock_from_xnd()` nothing is defined. |
| `broadcast` | 296 778 | 27 609 calls: one and two inputs, with output, fold, an inner dimension and contiguity in the signature; arrays of up to two dimensions with extents 0 to 3 and steps that are contiguous (C and Fortran), reversed, with gaps or zero. Three arguments are all that the gufuncs of the repository have. 84 676 questions: 31 signatures with one or two inputs, in which symbols, dtype variables and ellipses occur two or three times, in nested positions and in different orders, with pairs of 50 types (ragged arrays of two dimensions with reversed, shortened and indexed lists; arrays of one to three dimensions; tuples, records, constructors, references); 62 types of every kind, each with each; 2 670 Python values with lists in lists up to one level more than `NDT_MAX_DIM`, which is 3 here, and `None`, tuples and dicts in any place. A call ends: `CHECK_DEADLOCK FALSE`. |
| `container` | 44 231 | two containers, each of one of eight types that cover every kind of type, alone and in one another, values of all their members and values that are refused at each place, any of the first three allocations failing (no operation on these types makes more). Two containers of strings, bytes and references are copied to each other and to themselves; the others are alone. Symmetry: the containers. |
| `kernels` | 394 426 | both backends, all pairs of dtypes for 16 functions that cover every family and both type checks; explicit outputs of every dtype for one operand, of four for two; imports that fail at the first, an early and a late kernel; a function whose table is one short of full. Arrays of up to two rows with C, transposed, reversed and repeated layouts in `KernelLoops`, with and without missing elements for `add` and `equaln`, without for the other functions on bytes, which take their bits in the same way. Bytes and exponents at and around zero, the largest and the smallest number. |
| `views` | 184 260 | every type of array and item in section 3; two operations in a row (`MaxSteps`), so that an index or slice meets one that is noted, or a regrouped or transposed array. All slices with start, stop and step left out, inside, at and beyond the ends, in one dimension; a selection in two and three. Buffers of 0, 8 and 16 bytes around arrays of 0 to 3 elements. Single numbers of 16 dtypes, at and around every bound of every dtype, are copied and compared to each other. Nothing follows an operation that changed nothing. `CHECK_DEADLOCK FALSE`: a program may end. |

What they show:

- `threaded_apply`, of `xnd_split()`: `SlicesTile` (each element in exactly one slice, and
  slices follow each other in row-major order), `AsManyAsPossible` (their
  number depends on the shape and `n` only, so that arguments of the same outer shape
  are cut alike, and never exceeds the matrix).
- `threaded_apply`, of `gm_apply_thread()`: `WrittenOnce`, `FirstErrorReported`, `NothingLeaked`,
  `NoUseAfterFree` (unless a thread cannot be created), `ImplementsContract`
  (refinement), and the liveness property `CallEnds` (the caller returns, and every worker
  that was started ends).
- `xnd_objects`: `NothingKept` (each count is the number of owners at every point
  of every cascade, and everything goes with the last reference of the program),
  `ViewsValid`, `NoUseAfterFree`.
  `xnd_objects_errors`: `RefsSuffice`: the faulty error paths leave types
  behind, and nothing else, and never free too early.
- `broadcast`: `RefusedForCause` (`NumpyShape` and outputs), `ElementsKept`,
  `OutputsDisjoint`, `KernelApplied` (the kernel may rely on the layout, is the best that
  may, and works on the elements that the arguments have at each index, in row-major order,
  with all kernels and both ways of calling them). `TypecheckExact`: a call is accepted exactly if the arguments give each symbol one
  meaning, and the results are compact arrays in which the symbols have it. `TypesInferred`:
  unification answers with the least type for both, and refuses only if there is none; the type
  of a value has its dimensions, fields and missing values; with the shortcut it may miss that
  later values are missing, and nothing else.
- `container`: `PointersValid`, `NothingLeaked`, `ValueStored`.
- `kernels`: `TableExact` (imports that failed and names that were refused leave
  nothing behind that is met later; a module that was imported has everything),
  `KernelRight` (the place computed from the dtypes is the place of their kernel,
  which is declared and defined), `DtypesExact` (the dtype of a result holds the
  values of both operands; arithmetic is accepted exactly if both operands are numbers, not
  booleans, and a least such dtype exists that an explicit output also has, where
  accepted includes the kernels that only raise an error; `copy` and `abs` convert to
  exactly the dtypes that hold all values), `RowsRight`,
  `IntegersExact` (division, remainders; powers between -127 and 127 are exact, and
  the smallest number -128 comes out as 0).
- `views`: `InBlock` (no view reaches outside of the block or a bit that does not
  exist), `SubscriptAsPython`, `LayoutKeepsElements` (reshape and transpose),
  `CopiesArrive` (new blocks, bytes, assignments; numbers in another dtype are the same or,
  in a format with fewer digits than doubles, the nearest one, and are refused only for
  cause; that the latter are not exact either is the finding of `views_casts`), `BoundsExact`, `ComparedByValue` (equal exactly if the values are,
  whatever the dtypes and layouts; strictly equal implies equal).

**Fairness.** Only `ThreadedApply` states any: weak fairness of the caller and of each
worker, which says that the operating system goes on scheduling a thread that
can run. It is a weak assumption because the code takes no lock; the
only blocking call is `pthread_join()`, which is enabled for good once the worker has
ended. `WorkerCrash` makes no promise that a stray worker survives, and
`CallEnds` counts a crash as an end. `MCSpec` of `MCThreadedApply`, which has a call of `xnd_split()`
beside, states the same fairness and none of that call.

## 5. Findings

Runs that TLC finds violated, each of one property that a line of the repository
states:

- `xnd_objects_readonly`: a buffer exported from an xnd object on read-only
  memory is writable (`_xnd.c:3014`).
- `broadcast_order`: contiguity that a signature asks for is checked before
  broadcasting, where the tests say after (`match.c:1113`).
- `container_union`: assigning a string to a union in which a number is stored frees the
  number (`_xnd.c:796`).
- `views_equality`: a complex number is equal to an unsigned 64-bit integer if its
  real part is (`equal.c:936`), under the heading "Equality with exact casts".
- `views_casts`: a number that a narrower float format does not have is rounded and not
  refused (`copy.c:192`), under the heading "Copying with exact casts" (`copy.c:48`).

Others, of which no line of the repository says that they should not be so, or which
need memory to run out at one place, are among the hazards in `PROJECT.json` with a note:
workers that outlive a failed `pthread_create()`, references that
`xnd_init()` loses or `xnd_clear()` follows when memory runs out, copies to arrays
and unions that lose what these own, folding with the general type check, the type of a
view that nobody owns after a failure (`_xnd.c:2102`), a type that is released before the
memory it describes (`_xnd.c:255`), functions that are released twice, bitwise
functions of u16 that reach other kernels, `equaln()` from the second row on,
reshaping of scalars, buffers that are too small in the middle, an output whose
extent is not the one that the constraint computes (`match.c:920`), a symbol that is used
for an ellipsis and for something else (`match.c:161`), ragged arguments whose items
have different sizes and so never match (`match.c:320`), the two half-precision formats
(`unify.c:58`), strided kernels that have an inner dimension and of which only the first column is
computed (`nploops.c:200`). The
bounds or the properties of the passing runs leave these cases out by name (`Failing`, `MCTypes`,
`MCCopiedTypes`, `ctx # "create"`, `BitwiseU16`, `EqualnFirstRow`, `ReshapesScalars`,
`LooksAway`, `Beyond`, `ComplexUint`, `SameForm`, `Resolved`, `Mixed`, `LosesInner`).

## 6. Proofs

All theorems hold for every value of the constants that satisfies the
assumptions named in the modules.

**`Recursion_proofs`.** What the other modules need of recursive functions and folds.
Induction over a number needs no operator as a parameter: `UpTo` says it of a set of numbers and
follows from the well-foundedness of `Nat`. `RecursionExists` finds the function that a recursive
definition asks for; `FoldExists` and `FoldFollows` do the same for `FoldLeft`, which the
community modules define by a `CHOOSE` of a function on sets of indices. `FlattenRec` is that
definition for `FlattenSeq`.

**`Split_proofs`.** `xnd_split()` for arrays of any number of dimensions and any number of
parts. `PartsTile`: for all `m` and `n` the `n` parts that `start` and `stop` describe tile
`0..m-1`. `Schedule`, `Volume`, `RowFirst`, `RowSize` and `FlattenSeq` satisfy their
recursive definitions (`ScheduleRec`, `VolumeRec`, ...). The claim that is proved by induction is
`BlockOK(vol, k, n, B)`: the block `B` for `n` parts of the last `k` dimensions has rows of at most
`k` ranges, as many of them as there are parts or elements, whichever is less, and as
intervals they are consecutive, not empty, and end at the volume of these dimensions
(`ScheduleOK`). One lemma goes with each function of the code: `LastColumnTiles`, `PrependTiles` (a
block is shifted by a multiple of its volume), `ConcatTiles` (and so is what follows
it), `ColumnOK`. `ScheduleCells` is the same induction for cells instead of
intervals: each index of the outer dimensions is in exactly one row. `IInv` says of a call that what it
returns is the schedule for a valid shape; `SlicesTileTheArray`, `AsManySlicesAsPossible` and
`TypeCorrect` follow. `ScheduleSuitsThreads` derives from it the assumption under which
`ThreadedApply` is proved, `TileAssumption`: together they say that a call
with threads computes each row once for every array.

**`ThreadedApply_proofs`.** Assumptions: `ApplyAssumption` (positive numbers of
threads, arguments and rows; not more slices than threads) and `TileAssumption`
(the slices tile the rows in order: `ScheduleSuitsThreads` of `Split_proofs`). The properties are
not inductive: that the first error is reported depends on what the joined
workers have done, that nothing is used after it is freed on who is still running. `IInv` adds
what is needed, one part per idea:

- `WorkersInv`: which workers exist at each point of the call; the joined ones have ended;
- `MemoryInv`: which arguments are split at each point of the call;
- `SequentialInv`: without threads the rows before `i` are computed;
- `RowsInv`: a worker has computed its slice up to `row[w]`, all of it good; it
  stops at the end or at a bad row, kept in `wctx` until it is joined;
- `ErrorInv`: `errRow` is where the first failing worker among the joined ones stopped.

The run checks `IInv` as an invariant. The proof has one lemma per part
(`WorkersStep`, `MemoryStep`, `SequentialStep`, `RowsStep`, `ErrorStep`) with one step per action. `Invariance` is `Spec => []IInv`;
`TypeCorrect`, `MemorySafety`, `ReturnsReleased` (every return has freed the slices and
`tinfo`), `EachRowOnce` and `FirstError` follow from it.
The step to `EachRowOnce` is that tiles are disjoint, so that a row in
the slice of one worker is in no other's.

The refinement is at the end of the module. `Implementation`: every behaviour of `ThreadedApply`
is one of `ApplyContract`. Rows computed by the caller or a worker are `Compute`;
the return is `Succeed`, `FailInKernel`, `FailBeforeStart` or `FailToCreateThread`,
depending on the error; all other steps stutter. It rests on `IInv` before and after the
step.

**`XndObjects_proofs`.** The objects of `_xnd.c`, for every number of slots and
of blocks and every set of calls that may fail. The only assumption is `SlotsAssumption` (numbers
of slots are natural numbers). What a count must be is stated with `Outside`: the references
that the program holds and the calls that are pending in `todo`. `Good(heap, masters, Outside)` is the heart
of `IInv`:

- `Counted`: each count is at least the number of owners and outside references, and exactly
  that for everything but types, and for these too without the calls that forget a type;
- `Sound`: what a live object owns has the kinds and the order that its struct
  has (`Shaped`), and a dead one owns nothing;
- `Acyclic`: each set of objects has one that no other of the set owns, and one that owns
  no other; the first gives that nothing is left when the program has no reference
  (`AllReleased`), the second that a chain of buffers has an end.

`BlocksOK` follows the chain of a block that was imported from the buffer of an xnd object to the block
that has the memory (`origin`); `CallsInv` says that a pending `xnd_del()` is the
first of the calls and followed by the release of the object that has its type. The first half of
the module has one lemma for each way in which a heap changes (`IncrefGood`, `NewGood`, `DropGood`,
`FreeGood`, `LeakGood`) and the sums of `Outside`; the second has a step for each action.
`CountsSuffice` (nothing is freed too early) and `ViewsKeptAlive` hold whatever fails;
`Exactness` leaves out the two calls that forget a type when memory runs out (`NoLeak`: `pyxnd_view_move_type`,
`deserialize`), and `DestructorsSafe` the one that releases a type before the memory
it describes (`mblock_from_xnd`): the run `xnd_objects_errors` has these.

**`Broadcast_proofs`.** Both type checks, for any number of arguments and dimensions, any
extents and steps. The assumption is `CallsAssumption`: a call has an input, at most one output,
and signatures with a fast type check have no inner dimensions. The idea is `Joins(s, W)`: every shape of `W`
fits into `s`, and each extent of `s` is one of theirs. `JoinStep` shows that one call of
`_resolve_broadcast()` either joins one more shape or finds two that conflict, so that
neither the order of the arguments nor an extent of 1 or 0 that comes first matters;
`JoinMeans` and `ConflictMeans` turn this into NumPy's rule as `Compatible` and `Common` state it.
`IInv` says of the matching loop that `acc` joins the arguments that were seen (`Seen`), and
afterwards that the inputs are the broadcasts of the arguments to `acc` and what the output is
(`Ready`). `FastJoin` shows the same shape for the fold of the fast type checks. From it follow:

- `TypeCorrect` and `ShapesAsNumPy` (`RefusedForCause`);
- `ArgumentsKept`: `ElementKept` compares the sums over the dimensions that `Offset` takes, in which new
  and stretched dimensions count for nothing. Its hypothesis `FoldsFast` says
  that only functions with a fast type check fold: the general one gives an accumulator with
  fewer dimensions than its operand new ones (`match.c:824`), and the theorem is false without it;
- `OutputsApart`: an inferred output is built dimension by dimension around the inner ones, each with
  the span of what it surrounds as its step, so that no two indices meet (`FixedDimPacked`, by
  the uniqueness of a quotient and remainder); its Fortran order has the products of the extents as steps
  (`FortranType`). An output that is given is not changed.

**`ApplyLoops_proofs`.** What a kernel may assume and what it works on, for any number of
arguments and dimensions, any extents and steps. `BestKernel`: the kernel that
`select_kernel()` takes is one of those that the function has and the layout of the arguments
allows, and none before it in the order of preference is. `check_c()` and its
companions look at steps, `KernelRight` at where elements are; `PlacedIfLinedUp` and
`LinedUpIfPlaced` connect the two: an array has its elements where the
products of the extents put them exactly if each step that is ever taken is such a product.

`KernelsApplied`: whichever kernel it is, and through whichever of the two maps it
is called, its loop visits each element of the common shape once, in row-major order, with the elements of the
arguments as they were passed. The invariant is `LoopInv`: `IInv` of
`Broadcast_proofs`, `KInv` (the kernel is the selected one) and `InnerInv` (the inner dimensions
of the arguments agree) before the kernel is applied, `LoopsAgree` after it. The argument has three parts:

- the walks. `MapMeans`: `gm_xnd_map()` over the first dimensions of a stack that has them in common
  meets no error and calls the kernel with the rows in row-major order (`Rows`), by induction
  over the number of dimensions (`RowsBlocks`: the rows are those of the first element,
  then those of the second, ...; `IndexSplit` and `Division` for the indices). `NpMapMeans` says the
  same of `gm_np_map()` on pointers and steps, and `ConvertOuter` and `ConvertInner` that `gm_np_convert_xnd()`
  refuses nothing and lays out what `gm_np_map()` takes off again, with and without inner dimensions;
- the kernel's own loop. `RunRows`, `RunLoops`, `RunStrided` and `RunOne` join it to the walks
  for the four kinds of kernels. For `OptC` the loop assumes elements one after the
  other: `SelectedSteps` gets this from the selection. Together they are `ApplyRuns`;
- the elements. `PlaceOf`: what a broadcast argument has at an index is what the index names
  in the argument that was passed (`ElementReached`).

Like `ArgumentsKept` the theorem has the hypothesis `FoldsFast`. `LosesInner` in `LoopsAgree` excludes the strided
kernels with inner dimensions that `gm_np_map()` calls for an outer one.

**`SliceArith_proofs`.** What keeps a view inside of its array, for every extent and
every slice. `IndexInDimension`: `adjust_index()` accepts exactly the indices that
Python does. `SliceInDimension`: each position that an adjusted slice visits is one of
the dimension, for both signs of the step; it rests on `ClipInRange` (where start and
stop end up) and `StepsWithin` (`k` steps of `s` lead no further than `d` if `k` is at most
`d \div s`). `SliceOfSlice`: a slice noted on top of others visits only
positions that were visited before, from which `SliceStaysInList` follows by definition, and
`WholeInList` starts the induction over the noted slices, which is left to the run
`views` (`InBlock`).

**`Kernels_proofs`.** `TableOfFunctions`: `TableExact` after any sequence of imports that fail at any
place where they can, of either backend, and of calls of `unsafe_add_kernel()`. The names and families that
are registered are those of the code; what is general are the letters of the names (`PathAssumption`: the names
differ in their letters, which may be of any kind, also outside of those that the tree
takes), the size of a function's table (`MaxKernelsAssumption`) and the faults and
batches that are tried (`RangesAssumption`). The invariant is `TableInv`:

- the table is one of `Tables`, in which each node with a function leads to one that was not
  released and has the name on the path to the node (`Leads`);
- a module that is ready has the registered names, and each of them is found with the type check and
  all kernels of its family (`Has`).

One lemma goes with each function of the code: `StoreIs` and `AddIs` (`gm_tbl_add()`: a name that is refused half
way leaves nodes without functions behind, never one with the wrong function), `AddFuncIs`, `FindIs`,
`FindOrAddIs`, `KernelsAdded` (`gm_add_kernel()` for a batch that fails or not).
The import is a fold over the list `Todo`. `AddAllRec` gives its recursion; `AllAdded` is the induction over
the entries that were added. Each new entry must neither meet a name that is there
already nor be left out: no name is registered twice, in one family or two
(`NameNr` numbers the names, `IsFam` says that a family has the numbers of an interval, `RegisteredOnce`), and
`Todo` has each once (`TodoIs`, `NamesListed`). The batch of a family has a number of kernels
(`BatchIs`), which goes through every list of dtypes in `BinaryKernels` and `UnaryKernels` (`RowsListed`).

`RowsFollowOperands` and `IntegersAreExact`: `RowsRight` and `IntegersExact` at each point of a call that a kernel works
on, from `OperandsAssumption`: operands with any number of rows and columns in C order, two rows of two
elements in any layout within their memory, any of the bytes as values and exponents, any size of a block
of CUDA threads. The invariant `KernelInv` says of a call that has begun that its operands
lie in their memories and its result has a place of its own for each element (`Sane`), and that the
rows that were mapped hold what they should (`Filled`); `StartIs` and `RowDone` are the steps.

- the loop: `OrderIs`, the elements of a row are visited once whether they are counted in
  eights and a rest or by threads in blocks; `DeviceIs`, a kernel for `OptC` may ignore the steps;
- the bits: `BitmapIs` for most functions, `BoolIs` and `EqualIs` for `equaln`, where the index of the row is added twice
  and which is therefore right for the first row only: later rows do not reach back to it;
- powers (right from -127 to 127, and 0 for -128, as the code has it): `PowLoopIs` for the loop that halves the exponent and squares the base (`SquarePowers`, `Halves`,
  by induction over the bits of the exponent), modulo `2^7` (`CongPowers`), and `ExpIs` for the
  definition it is compared with, which stops growing once out of range; together `PowIs`;
- division: `DivmodIs` and `MultipleIs`.

**With TLC only:** liveness (`CallEnds`); the rest of the invariants on kernels, `KernelRight` and
`DtypesExact`, which compare tables without a parameter, each entry of which the run `kernels` looks at;
`Numbers`; and `Container`, `Views` and
`TypeQueries`, whose operators are RECURSIVE over types, so that
the provers cannot reach them.

## 7. Assumptions and what is not modelled

- `pthread_join()` of a valid thread does not fail; kernels that fail set the error
  context, as those of the repository do.
- An operation of the Python modules is atomic: it runs under the interpreter lock.
- In `XndObjects` types made for buffers and by `deserialize()` are
  scalars, with no element type to count.
- In `Container` optional values and bitmaps, flags other than
  `XND_OWN_EMBEDDED`, and copies between different types are left out; sizes are
  words, so that alignment and overflow are not there.
- In `Numbers` there are no numbers that are too small for a format (underflow), no signed
  zeros, and all NaNs are one. Bool, characters and categorical values are left out. `llabs()` of the
  smallest integer, which is undefined, has either outcome (`wraps`).
- In `Views` addresses do not overflow, and the tests for it in `bounds.c` are left out; unions, references and flexible arrays are left out
  (`Container` has them), and a record is a tuple.
- In `KernelLoops` a call has two operands of up to two dimensions; the tables say nothing
  of what a kernel computes except for the functions in `Looped`.
- In `Broadcast` and `ApplyLoops` dtypes always match, dimensions are fixed, steps are in elements, and
  a function has an input.
- In `Typecheck` a symbol is used in one way: as an extent, a dtype or the extents of an
  ellipsis (`resolve_fixed()` does not test which). There are no fixed strings, unions, categorical, nominal, function and module types,
  no patterns of ragged dimensions in results, no optional results with symbols, and no failing allocations.
  Ragged patterns are given arguments that have dimensions (`Suitable`): for a scalar the code
  compares with an entry that was not set. A result that a dtype variable gives an array with steps of
  its own keeps these (`ItemsCompact`).
- In `Unification` types of tuples and records with different lengths are refused like others;
  the code returns no error message for these. `Special` names the types that are never
  unified: references, ragged arrays with noted slices or indices, flexible arrays whose items have
  different sizes.
- In `TypeInference` lists without data get `float64` where they are in a tuple or dict, so that they may
  not agree with others (`HasVoidList`); numbers and texts are one value each, and objects of other
  classes are one kind that is refused.
- CUDA memory: calls into the CUDA runtime, nothing to check without a device.
  Of the kernels, what floating point functions compute. Parser and printer: generated
  by flex and bison, and formatting; the round-trip tests of the repository serve them
  better. Serialization: bytes of a type tree. Python packages: constructors and
  pretty printing on top of the bindings.
