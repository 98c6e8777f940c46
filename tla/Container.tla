----------------------------- MODULE Container -----------------------------
(***************************************************************************)
(* The memory of xnd containers: xnd_new() and xnd_init() allocate the     *)
(* memory of a type and of everything that it refers to, mblock_init()     *)
(* stores a Python value in it, xnd_copy() another container, and          *)
(* xnd_clear() and xnd_del_buffer() release it.                            *)
(*                                                                         *)
(* Memory is a set of blocks of words.  A word is a number or a pointer to *)
(* a block, and nothing in memory says which: the type does.  An int, a    *)
(* string and a ref are one word; bytes (size, pointer) and flexible       *)
(* arrays (shape, pointer) are two; a union is its tag and then any of its *)
(* members.  Types are records [tag, n, types], values are records         *)
(* [kind, n, items].  Records, nominal types and constructors behave as    *)
(* tuples here, var dimensions as fixed ones.  Containers own what they    *)
(* point to (XND_OWN_EMBEDDED), as those of the Python bindings do.        *)
(*                                                                         *)
(* An operation is one step: it runs under the interpreter lock.  It may   *)
(* find at any allocation that there is no memory left.                    *)
(***************************************************************************)
EXTENDS Integers, FiniteSets, SequencesExt

CONSTANTS
  Containers,   \* names of containers
  Types,        \* their types
  Inputs(_),    \* values that are stored in containers of a type
  Copied,       \* the types whose containers are copied; bound: others are alone in memory
  MaxFail       \* an operation fails at one of its first MaxFail allocations, if any

VARIABLES
  mem,    \* the allocated blocks: sequences of words
  cont,   \* cont[c]: type and memory of a container, or None
  last,   \* last[c]: the value that was stored in it, or Unknown
  fault   \* an operation used a pointer to no block

vars == <<mem, cont, last, fault>>

None == [type |-> [tag |-> "none", n |-> 0, types |-> <<>>], ptr |-> 0]
Unknown == [kind |-> "unknown", n |-> 0, items |-> <<>>]
-----------------------------------------------------------------------------
(* Layout. *)

RECURSIVE Size(_)
Size(t) ==
  CASE t.tag \in {"int", "string", "ref"} -> 1
    [] t.tag \in {"bytes", "array"} -> 2
    [] t.tag = "fixed" -> t.n * Size(t.types[1])
    [] t.tag = "tuple" -> FoldLeft(LAMBDA sum, u : sum + Size(u), 0, t.types)
    [] t.tag = "union" ->
         1 + FoldLeft(LAMBDA max, u : IF Size(u) > max THEN Size(u) ELSE max, 0, t.types)

\* A place in memory: a word of a block.
Place(block) == <<block, 1>>
At(p, offset) == <<p[1], p[2] + offset>>
Element(t, block, i) == At(Place(block), (i-1) * Size(t))

\* The parts of an aggregate and where they are.
Parts(t) ==
  IF t.tag = "fixed"
  THEN [i \in 1..t.n |-> [type |-> t.types[1], offset |-> (i-1) * Size(t.types[1])]]
  ELSE [i \in DOMAIN t.types |->
         [type |-> t.types[i],
          offset |-> FoldLeft(LAMBDA sum, u : sum + Size(u), 0, SubSeq(t.types, 1, i-1))]]
-----------------------------------------------------------------------------
(* Memory: what an operation works on, with the number of the allocation   *)
(* that is going to fail (0 if none).                                      *)

Heap(n) == [mem |-> mem, fail |-> n, error |-> FALSE, fault |-> FALSE, new |-> 0]

\* The operation goes on.
Ok(h) == ~h.error /\ ~h.fault
Error(h) == [h EXCEPT !.error = TRUE]
Fault(h) == [h EXCEPT !.fault = TRUE]

Valid(h, p) == p[1] \in DOMAIN h.mem
Load(h, p) == h.mem[p[1]][p[2]]
Store(h, p, word) ==
  IF h.fault THEN h
  ELSE IF ~Valid(h, p) THEN Fault(h)
  ELSE [h EXCEPT !.mem[p[1]][p[2]] = word]

\* Pointers are numbers that no value of the model has.
FirstBlock == 101
ndt_calloc(h, words) ==
  IF h.fail = 1 THEN Error([h EXCEPT !.fail = 0])
  ELSE LET b == CHOOSE b \in FirstBlock..FirstBlock + Cardinality(DOMAIN h.mem) :
                  /\ b \notin DOMAIN h.mem
                  /\ \A a \in FirstBlock..b-1 : a \in DOMAIN h.mem
       IN  [h EXCEPT !.mem = [x \in DOMAIN @ \union {b} |->
                                IF x = b THEN [i \in 1..words |-> 0] ELSE @[x]],
                     !.fail = IF @ = 0 THEN 0 ELSE @ - 1,
                     !.new = b]

ndt_free(h, word) ==
  IF h.fault \/ word = 0 THEN h
  ELSE IF word \notin DOMAIN h.mem THEN Fault(h)
  ELSE [h EXCEPT !.mem = [x \in DOMAIN @ \ {word} |-> @[x]]]

\* One step for each part of an aggregate or element, until one fails.
Each(h, Op(_, _), parts) == FoldLeft(LAMBDA g, p : IF Ok(g) THEN Op(g, p) ELSE g, h, parts)
Elements(n) == [i \in 1..n |-> i]
-----------------------------------------------------------------------------
(* xnd.c *)

\* Memory that owns nothing: xnd_clear_string() and the other three.
Reset(h, p, words) == FoldLeft(LAMBDA g, i : Store(g, At(p, i-1), 0), h, Elements(words))

RECURSIVE xnd_clear(_, _, _)

\* Wrong: an array is released, what its elements own is not.
xnd_clear_array_Flat(h, t, p) == Reset(ndt_free(h, Load(h, At(p, 1))), p, 2)

xnd_clear_array(h, t, p) ==
  LET data == Load(h, At(p, 1))
      g == FoldLeft(LAMBDA g, i : xnd_clear(g, t.types[1], Element(t.types[1], data, i)),
                    h, Elements(Load(h, p)))
  IN  Reset(ndt_free(g, data), p, 2)

\* xnd_clear(): also what is left of a container whose initialization failed.
xnd_clear(h, t, p) ==
  CASE h.fault \/ t.tag = "int" -> h
    [] t.tag \in {"fixed", "tuple"} ->
         FoldLeft(LAMBDA g, f : xnd_clear(g, f.type, At(p, f.offset)), h, Parts(t))
    [] ~Valid(h, p) -> Fault(h)
    [] t.tag = "union" -> xnd_clear(h, t.types[Load(h, p) + 1], At(p, 1))
    [] t.tag = "string" -> Reset(ndt_free(h, Load(h, p)), p, 1)
    [] t.tag = "bytes" -> Reset(ndt_free(h, Load(h, At(p, 1))), p, 2)
    [] t.tag = "array" -> xnd_clear_array(h, t, p)
    [] t.tag = "ref" ->
         Reset(ndt_free(xnd_clear(h, t.types[1], Place(Load(h, p))), Load(h, p)), p, 1)

RECURSIVE xnd_init(_, _, _)

\* A part that cannot be initialized is cleared by most of its parents.
InitPart(h, t, p) ==
  LET g == xnd_init(h, t, p) IN IF g.error THEN xnd_clear(g, t, p) ELSE g

xnd_init(h, t, p) ==
  CASE t.tag = "fixed" -> Each(h, LAMBDA g, f : xnd_init(g, f.type, At(p, f.offset)), Parts(t))
    [] t.tag = "tuple" -> Each(h, LAMBDA g, f : InitPart(g, f.type, At(p, f.offset)), Parts(t))
    [] t.tag = "union" -> InitPart(h, t.types[1], At(p, 1))
    [] t.tag = "ref" ->
         LET a == ndt_calloc(h, Size(t.types[1]))
         IN  IF a.error THEN a
             ELSE InitPart(Store(a, p, a.new), t.types[1], Place(a.new))
    [] OTHER -> h

\* Wrong: the container gets the block that was allocated last.
xnd_new_Last(h, t) ==
  LET a == ndt_calloc(h, Size(t))
      g == xnd_init(a, t, Place(a.new))
  IN  IF a.error THEN a ELSE IF g.error THEN ndt_free(g, a.new) ELSE g

\* xnd_new()
xnd_new(h, t) ==
  LET a == ndt_calloc(h, Size(t))
      g == xnd_init(a, t, Place(a.new))
  IN  IF a.error THEN a
      ELSE IF g.error THEN ndt_free(g, a.new)
      ELSE [g EXCEPT !.new = a.new]

\* xnd_del_buffer() of a container that owns its data.
xnd_del_buffer(h, x) == ndt_free(xnd_clear(h, x.type, Place(x.ptr)), x.ptr)
-----------------------------------------------------------------------------
(* mblock_init() of _xnd.c. *)

\* A new block with the characters n in place of the one at p.
Replace(h, p, n) ==
  LET a == ndt_calloc(h, 1)
  IN  IF a.error THEN a
      ELSE Store(Store(ndt_free(a, Load(a, p)), Place(a.new), n), p, a.new)

RECURSIVE mblock_init(_, _, _, _)

InitArray(h, t, p, v) ==
  LET a == ndt_calloc(h, v.n * Size(t.types[1]))
      g == Store(Store(xnd_clear(a, t, p), p, v.n), At(p, 1), a.new)
  IN  IF a.error THEN a
      ELSE Each(g, LAMBDA f, i : mblock_init(f, t.types[1], Element(t.types[1], a.new, i), v.items[i]),
                Elements(v.n))

\* Wrong: the tag stays what it was.
InitUnion_NoTag(h, t, p, v) ==
  mblock_init(xnd_clear(h, t, p), t.types[v.n + 1], At(p, 1), v.items[1])

InitUnion(h, t, p, v) ==
  mblock_init(Store(xnd_clear(h, t, p), p, v.n), t.types[v.n + 1], At(p, 1), v.items[1])

mblock_init(h, t, p, v) ==
  CASE h.fault -> h
    [] t.tag = "ref" ->
         IF Load(h, p) = 0 THEN Error(h) ELSE mblock_init(h, t.types[1], Place(Load(h, p)), v)
    [] t.tag # "ref" /\ v.kind # t.tag -> Error(h)
    [] t.tag = "int" -> Store(h, p, v.n)
    [] t.tag = "string" -> Replace(h, p, v.n)
    [] t.tag = "bytes" ->
         LET g == Replace(h, At(p, 1), v.n) IN IF g.error THEN g ELSE Store(g, p, 1)
    [] t.tag \in {"fixed", "tuple"} ->
         IF Len(v.items) # Len(Parts(t)) THEN Error(h)
         ELSE Each(h, LAMBDA g, i : mblock_init(g, Parts(t)[i].type, At(p, Parts(t)[i].offset),
                                                v.items[i]),
                   Elements(Len(v.items)))
    [] t.tag = "union" -> InitUnion(h, t, p, v)
    [] t.tag = "array" -> InitArray(h, t, p, v)
-----------------------------------------------------------------------------
(* xnd_copy() of copy.c, between containers of one type. *)

Characters(h, word) == IF word = 0 THEN 0 ELSE Load(h, Place(word))

RECURSIVE xnd_copy(_, _, _, _)

\* A flexible array is replaced by a new one; both may be the same container.
CopyArray(h, t, y, x) ==
  LET n == Load(h, x)
      a == ndt_calloc(h, n * Size(t.types[1]))
      g == Store(Store(ndt_free(a, Load(a, At(y, 1))), y, n), At(y, 1), a.new)
      Item(f, p, i) == Element(t.types[1], Load(f, At(p, 1)), i)
  IN  IF a.error THEN a
      ELSE Each(g, LAMBDA f, i : xnd_copy(f, t.types[1], Item(f, y, i), Item(f, x, i)), Elements(n))

\* Wrong: the words are copied, pointers too.
xnd_copy_Shallow(h, t, y, x) ==
  FoldLeft(LAMBDA g, i : Store(g, At(y, i-1), Load(g, At(x, i-1))), h, Elements(Size(t)))

xnd_copy(h, t, y, x) ==
  CASE h.fault -> h
    [] t.tag = "ref" ->
         IF Load(h, x) = 0 \/ Load(h, y) = 0 THEN Error(h)
         ELSE xnd_copy(h, t.types[1], Place(Load(h, y)), Place(Load(h, x)))
    [] t.tag = "int" -> Store(h, y, Load(h, x))
    [] t.tag = "string" -> Replace(h, y, Characters(h, Load(h, x)))
    [] t.tag = "bytes" ->
         LET size == Load(h, x)
             g == Replace(h, At(y, 1), Characters(h, Load(h, At(x, 1))))
         IN  IF g.error THEN g ELSE Store(g, y, size)
    [] t.tag \in {"fixed", "tuple"} ->
         Each(h, LAMBDA g, f : xnd_copy(g, f.type, At(y, f.offset), At(x, f.offset)), Parts(t))
    [] t.tag = "union" ->
         xnd_copy(Store(h, y, Load(h, x)), t.types[Load(h, x) + 1], At(y, 1), At(x, 1))
    [] t.tag = "array" -> CopyArray(h, t, y, x)
-----------------------------------------------------------------------------
(* What a container holds. *)

RECURSIVE Value(_, _, _)
Value(h, t, p) ==
  LET Made(n, items) == [kind |-> t.tag, n |-> n, items |-> items]
      w == Load(h, p)
  IN  CASE t.tag = "ref" -> IF w = 0 THEN Unknown ELSE Value(h, t.types[1], Place(w))
        [] t.tag = "int" -> Made(w, <<>>)
        [] t.tag = "string" -> Made(Characters(h, w), <<>>)
        [] t.tag = "bytes" -> Made(Characters(h, Load(h, At(p, 1))), <<>>)
        [] t.tag \in {"fixed", "tuple"} ->
             Made(Len(Parts(t)), [i \in DOMAIN Parts(t) |->
                                   Value(h, Parts(t)[i].type, At(p, Parts(t)[i].offset))])
        [] t.tag = "union" -> Made(w, <<Value(h, t.types[w + 1], At(p, 1))>>)
        [] t.tag = "array" ->
             Made(w, [i \in 1..w |-> Value(h, t.types[1], Element(t.types[1], Load(h, At(p, 1)), i))])

\* The blocks that memory at p points to, each as often as it is pointed to.
RECURSIVE Owned(_, _, _)
Owned(h, t, p) ==
  LET w == Load(h, p)
      Pointer(word) == IF word = 0 THEN <<>> ELSE <<word>>
      Known(word) == word \in DOMAIN h.mem
  IN  CASE t.tag = "int" -> <<>>
        [] t.tag = "string" -> Pointer(w)
        [] t.tag = "bytes" -> Pointer(Load(h, At(p, 1)))
        [] t.tag = "ref" ->
             Pointer(w) \o (IF Known(w) THEN Owned(h, t.types[1], Place(w)) ELSE <<>>)
        [] t.tag \in {"fixed", "tuple"} ->
             FlattenSeq([i \in DOMAIN Parts(t) |->
                          Owned(h, Parts(t)[i].type, At(p, Parts(t)[i].offset))])
        [] t.tag = "union" -> Owned(h, t.types[w + 1], At(p, 1))
        [] t.tag = "array" ->
             LET data == Load(h, At(p, 1))
             IN  Pointer(data) \o
                 (IF Known(data)
                  THEN FlattenSeq([i \in 1..w |-> Owned(h, t.types[1], Element(t.types[1], data, i))])
                  ELSE <<>>)

Live == {c \in Containers : cont[c] # None}
Read(c) == Value(Heap(0), cont[c].type, Place(cont[c].ptr))
Blocks(c) == <<cont[c].ptr>> \o Owned(Heap(0), cont[c].type, Place(cont[c].ptr))
-----------------------------------------------------------------------------
(* Operations. *)

Init ==
  /\ mem = [b \in {} |-> <<>>]
  /\ cont = [c \in Containers |-> None]
  /\ last = [c \in Containers |-> Unknown]
  /\ fault = FALSE

\* xnd_empty_from_type()
Empty(c, t, n) ==
  /\ ~fault /\ cont[c] = None
  /\ \A d \in Live : {t, cont[d].type} \subseteq Copied
  /\ LET h == xnd_new(Heap(n), t)
     IN  /\ mem' = h.mem
         /\ fault' = h.fault
         /\ cont' = IF Ok(h) THEN [cont EXCEPT ![c] = [type |-> t, ptr |-> h.new]] ELSE cont
  /\ UNCHANGED last

\* pyxnd_assign() with a Python value.
Assign(c, v, n) ==
  /\ ~fault
  /\ LET h == mblock_init(Heap(n), cont[c].type, Place(cont[c].ptr), v)
     IN  /\ mem' = h.mem
         /\ fault' = h.fault
         /\ last' = [last EXCEPT ![c] = IF Ok(h) THEN v ELSE Unknown]
  /\ UNCHANGED cont

\* pyxnd_assign() with a container, possibly itself.
Copy(c, d, n) ==
  /\ ~fault /\ cont[c] # None /\ cont[d] # None
  /\ cont[c].type = cont[d].type /\ cont[c].type \in Copied
  /\ LET h == xnd_copy(Heap(n), cont[c].type, Place(cont[c].ptr), Place(cont[d].ptr))
     IN  /\ mem' = h.mem
         /\ fault' = h.fault
         /\ last' = [last EXCEPT ![c] = IF Ok(h) THEN last[d] ELSE Unknown]
  /\ UNCHANGED cont

\* The last reference to the memory of a container is dropped.
Delete(c) ==
  /\ ~fault /\ cont[c] # None
  /\ LET h == xnd_del_buffer(Heap(0), cont[c])
     IN  mem' = h.mem /\ fault' = h.fault
  /\ cont' = [cont EXCEPT ![c] = None]
  /\ last' = [last EXCEPT ![c] = Unknown]

Next ==
  \E c \in Containers :
    \/ \E t \in Types, n \in 0..MaxFail : Empty(c, t, n)
    \/ cont[c] # None /\ \E v \in Inputs(cont[c].type), n \in 0..MaxFail : Assign(c, v, n)
    \/ \E d \in Containers, n \in 0..MaxFail : Copy(c, d, n)
    \/ Delete(c)

Spec == Init /\ [][Next]_vars
-----------------------------------------------------------------------------
(* Properties. *)

\* Containers have one of the types and their memory has its size.
TypeOK ==
  /\ fault \in BOOLEAN
  /\ \A c \in Live : cont[c].type \in Types /\ Len(mem[cont[c].ptr]) = Size(cont[c].type)

\* The comment on xnd_init(): "At all times the data pointers must be NULL or
\* pointers to valid memory."  No operation, of those that fail half way too,
\* leaves a pointer to a released block or follows or frees one that is not a
\* pointer, and no two pointers own the same block.
PointersValid ==
  LET live == SetToSeq(Live)
      all == FlattenSeq([i \in DOMAIN live |-> Blocks(live[i])])
  IN  ~fault /\ (\A b \in Range(all) : b \in DOMAIN mem) /\ Cardinality(Range(all)) = Len(all)

\* Every block belongs to a container: operations release what they replace,
\* and what they had allocated when they fail.
NothingLeaked == DOMAIN mem \subseteq UNION {Range(Blocks(c)) : c \in Live}

\* A container holds the value that was stored in it last, whatever has been
\* done to other containers since.
ValueStored == ~fault => \A c \in Live : last[c] # Unknown => Read(c) = last[c]
=============================================================================
