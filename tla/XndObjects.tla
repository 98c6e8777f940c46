----------------------------- MODULE XndObjects -----------------------------
(***************************************************************************)
(* Who keeps what alive in the Python bindings (mod/xnd/_xnd.c).           *)
(*                                                                         *)
(*   "ndt"   a type of libndtypes with its own reference count; a          *)
(*           dimension owns a reference to its element type                *)
(*   "tobj"  an NdtObject, which owns one reference to an ndt              *)
(*   "mb"    a MemoryBlockObject: a type object, a master buffer           *)
(*           (xnd_master_t) and, for imported memory, a Py_buffer          *)
(*   "xo"    an XndObject: a view of a memory block with a type of its own *)
(*   "px"    a BufferProxyObject: an exported buffer that pins an xnd      *)
(*                                                                         *)
(* All counts are kept by hand.  An operation runs under the GIL and is    *)
(* one action, with an outcome for each step that may fail.  The           *)
(* destructors it sets off are the steps of `todo`, the pending            *)
(* ndt_decref(), Py_DECREF() and xnd_del() calls in the order in which the *)
(* code makes them; no operation starts before they have run.              *)
(***************************************************************************)
EXTENDS Naturals, Sequences, FiniteSets, Functions

CONSTANTS Slots,     \* Slots[kind]: how many objects may be alive at a time
          MaxRefs,   \* bound on the count of a type that a view may share
          Failing    \* the places where an operation may fail

Kinds == {"ndt", "tobj", "mb", "xo", "px"}
Objects == UNION {{k} \X (1..Slots[k]) : k \in Kinds}

\* Named for the call that fails, or for the function that fails to clean up.
Sites == {"Ndt_FromType", "mblock_empty", "mblock_init", "pyxnd_alloc", "PyList_New",
          "fill_buffer", "type_from_buffer", "calloc",
          "pyxnd_view_move_type", "mblock_from_xnd", "deserialize"}

\* Exporters of memory that are not xnd objects: bytes, an array, ...
External == {"readonly", "writable"}

ASSUME SlotsAssumption ==
  /\ Slots \in [Kinds -> Nat]
  /\ Slots["ndt"] >= 2 /\ Slots["tobj"] >= 1
  /\ MaxRefs \in Nat
  /\ Failing \subseteq Sites

VARIABLES
  heap,     \* heap[o].rc is the count of o and heap[o].owns the references
            \* it owns, in the order in which its destructor drops them
  block,    \* block[m]: the master buffer and the Py_buffer of block m
  held,     \* the objects that the Python program refers to
  todo,     \* the pending destructor calls: an object to decref, or
            \* <<"xnd_del", t>> for a master buffer of type t
  fault     \* the calls that used an object already freed

vars == <<heap, block, held, todo, fault>>

Blocks == {o \in Objects : o[1] = "mb"}
Xnds == {o \in Objects : o[1] = "xo"}
Live(o) == heap[o].rc > 0
Dead(h, kind) == {o \in Objects : o[1] = kind /\ h[o].rc = 0}
Fresh(h, kind) == CHOOSE o \in Dead(h, kind) : \A p \in Dead(h, kind) : o[2] <= p[2]
Room(kind, n) == Cardinality(Dead(heap, kind)) >= n

Incref(h, o) == [h EXCEPT ![o].rc = @ + 1]

\* A new object with one reference, which takes over those in `refs`.
New(h, o, refs) == [h EXCEPT ![o] = [rc |-> 1, owns |-> refs]]

\* NDT(): the type in a type object, in a view and in a block with a type.
NDT(o) == heap[o].owns[1]
XndType(x) == NDT(heap[x].owns[2])
Mblock(x) == heap[x].owns[1]
BlockType(m) == NDT(heap[m].owns[1])

Unused == [rc |-> 0, owns |-> << >>]

\* A reference to o goes, and with the last one o goes.
Unref(h, o) == [h EXCEPT ![o].rc = @ - 1]
Free(h, o) == [h EXCEPT ![o] = Unused]

\* origin is the block that obtained the memory: the block itself, or for the
\* memory of another xnd object the origin of that object's block.
Master(kind, origin, view) == [master |-> kind, origin |-> origin, view |-> view]
NoMaster(m) == Master("none", m, "none")

Idle == todo = << >> /\ fault = {}

\* The program starts with one type object for a dimension type.
Init ==
  /\ heap = [o \in Objects |->
               CASE o = <<"ndt", 2>> -> [rc |-> 1, owns |-> << >>]
                 [] o = <<"ndt", 1>> -> [rc |-> 1, owns |-> << <<"ndt", 2>> >>]
                 [] o = <<"tobj", 1>> -> [rc |-> 1, owns |-> << <<"ndt", 1>> >>]
                 [] OTHER -> Unused]
  /\ block = [m \in Blocks |-> NoMaster(m)]
  /\ held = {<<"tobj", 1>>}
  /\ todo = << >>
  /\ fault = {}

-----------------------------------------------------------------------------
(* New blocks.  In each operator `h` is the heap so far.                   *)

\* pyxnd_from_mblock(): block m with type object o becomes the memory of a new
\* xnd object, or is released again.
FromMblock(h, m, o) ==
  \/ /\ Room("xo", 1)
     /\ LET x == Fresh(h, "xo")
        IN  /\ heap' = New(Incref(h, o), x, <<m, o>>)
            /\ held' = held \union {x}
     /\ todo' = << >>
  \/ /\ "pyxnd_alloc" \in Failing
     /\ heap' = h
     /\ todo' = <<m>>
     /\ UNCHANGED held

\* An operation fails with `calls` still to make.
Fail(site, h, calls) ==
  /\ site \in Failing
  /\ heap' = h
  /\ todo' = calls
  /\ UNCHANGED held

\* xnd.empty(type) and xnd(type, value): mblock_empty() and
\* mblock_from_typed_value(), where the value may not fit the type.
NewXnd(o) ==
  /\ Idle
  /\ o \in held /\ o[1] = "tobj"
  /\ Room("mb", 1)
  /\ LET m == Fresh(heap, "mb")
         h == New(Incref(heap, o), m, <<o>>)
     IN  /\ block' = [block EXCEPT ![m] = Master("owned", m, "none")]
         /\ \/ FromMblock(h, m, o)
            \/ Fail("mblock_init", h, <<m>>)
  /\ UNCHANGED fault

\* Xnd_EmptyFromType(), copy_contiguous(), deserialize(): a block for a new type
\* t.  deserialize() drops t when it does not fit the data.
NewXndFromType ==
  /\ Idle
  /\ Room("ndt", 1) /\ Room("tobj", 1) /\ Room("mb", 1)
  /\ LET t == Fresh(heap, "ndt")
         o == Fresh(heap, "tobj")
         m == Fresh(heap, "mb")
         h == New(heap, t, << >>)
     IN  \/ /\ FromMblock(New(New(h, o, <<t>>), m, <<o>>), m, o)
            /\ block' = [block EXCEPT ![m] = Master("owned", m, "none")]
         \/ Fail("Ndt_FromType", h, <<t>>) /\ UNCHANGED block
         \/ Fail("mblock_empty", New(h, o, <<t>>), <<o>>) /\ UNCHANGED block
         \/ Fail("deserialize", h, << >>) /\ UNCHANGED block
  /\ UNCHANGED fault

\* Xnd_FromXnd(): mblock_from_xnd() takes over an xnd_t that owns its memory
\* and its type t, and frees both if it fails.
FromXnd ==
  /\ Idle
  /\ Room("ndt", 1) /\ Room("tobj", 1) /\ Room("mb", 1)
  /\ LET t == Fresh(heap, "ndt")
         o == Fresh(heap, "tobj")
         m == Fresh(heap, "mb")
         h == New(heap, t, << >>)
     IN  \/ /\ FromMblock(New(New(h, o, <<t>>), m, <<o>>), m, o)
            /\ block' = [block EXCEPT ![m] = Master("owned", m, "none")]
         \/ Fail("mblock_from_xnd", h, <<t, <<"xnd_del", t>> >>) /\ UNCHANGED block
         \/ Fail("mblock_from_xnd", New(h, o, <<t>>), <<o, <<"xnd_del", t>> >>)
              /\ UNCHANGED block
  /\ UNCHANGED fault

-----------------------------------------------------------------------------
(* Views.                                                                  *)

\* Wrong: the element type is borrowed.
Slice_Borrows(h, t) == New(h, Fresh(h, "ndt"), h[t].owns)

IsDimension(t) == heap[t].owns # << >>

\* A slice or a transposition: a new dimension over the element type of t.
Slice(h, t) == New(Incref(h, h[t].owns[1]), Fresh(h, "ndt"), h[t].owns)

\* pyxnd_view_move_type(): a view in block m whose type is t; the caller's
\* reference to t moves to the type object.
MoveType(h, t) == New(h, Fresh(h, "tobj"), <<t>>)

\* Wrong: the view does not keep the block alive.
ViewMoveType_Borrows(h, m, t) ==
  New(MoveType(h, t), Fresh(h, "xo"), <<m, Fresh(h, "tobj")>>)

\* Wrong: block and type are swapped.
ViewMoveType_Swaps(h, m, t) ==
  New(Incref(MoveType(h, t), m), Fresh(h, "xo"), <<Fresh(h, "tobj"), m>>)

ViewMoveType(h, m, t) ==
  New(Incref(MoveType(h, t), m), Fresh(h, "xo"), <<m, Fresh(h, "tobj")>>)

\* Wrong: the subtree's type is borrowed.
Subtrees_Borrows(u) == {[h |-> heap, t |-> t] : t \in {u} \union Range(heap[u].owns)}

\* The heap and the type t that xnd_subscript(), xnd_transpose() or
\* xnd_reshape() return for a view of type u: u itself or its element type with
\* a reference more, or a new type.
Subtrees(u) ==
  {[h |-> Incref(heap, t), t |-> t] :
     t \in {v \in {u} \union Range(heap[u].owns) : heap[v].rc < MaxRefs}}

Slices(u) ==
  IF IsDimension(u) /\ Room("ndt", 1)
  THEN {[h |-> Slice(heap, u), t |-> Fresh(heap, "ndt")]}
  ELSE {}

\* x[key], x.transpose(), x.reshape().
Subscript(x) ==
  /\ Idle
  /\ x \in held /\ x[1] = "xo"
  /\ Room("tobj", 1)
  /\ \E res \in Subtrees(XndType(x)) \union Slices(XndType(x)) :
       \/ /\ Room("xo", 1)
          /\ heap' = ViewMoveType(res.h, Mblock(x), res.t)
          /\ held' = held \union {Fresh(heap, "xo")}
          /\ UNCHANGED todo
       \/ Fail("pyxnd_alloc", MoveType(res.h, res.t), << Fresh(heap, "tobj") >>)
       \/ Fail("pyxnd_view_move_type", res.h, << >>)
  /\ UNCHANGED <<block, fault>>

\* x.split(2).  On failure free_slices() gives back the slices that have not
\* been moved, and the list goes with the views in it.
SplitXnd(x) ==
  /\ Idle
  /\ x \in held /\ x[1] = "xo"
  /\ IsDimension(XndType(x))
  /\ Room("ndt", 2) /\ Room("tobj", 2) /\ Room("xo", 2)
  /\ LET m == Mblock(x)
         s1 == Fresh(heap, "ndt")
         h1 == Slice(heap, XndType(x))
         s2 == Fresh(h1, "ndt")
         h2 == Slice(h1, XndType(x))
         v1 == Fresh(h2, "xo")
         h3 == ViewMoveType(h2, m, s1)                   \* the first view
         v2 == Fresh(h3, "xo")
     IN  \/ /\ heap' = ViewMoveType(h3, m, s2)
            /\ held' = held \union {v1, v2}
            /\ UNCHANGED todo
         \/ Fail("PyList_New", h2, <<s1, s2>>)
         \/ Fail("pyxnd_view_move_type", h2, <<s2>>)             \* for the first view
         \/ Fail("pyxnd_alloc", MoveType(h2, s1), <<Fresh(h2, "tobj"), s2>>)
         \/ Fail("pyxnd_view_move_type", h3, <<v1>>)             \* for the second one
         \/ Fail("pyxnd_alloc", MoveType(h3, s2), <<Fresh(h3, "tobj"), v1>>)
  /\ UNCHANGED <<block, fault>>

\* x.type
GetType(x) ==
  /\ Idle
  /\ x \in held /\ x[1] = "xo"
  /\ LET o == heap[x].owns[2]
     IN  /\ o \notin held
         /\ heap' = Incref(heap, o)
         /\ held' = held \union {o}
  /\ UNCHANGED <<block, todo, fault>>

\* x.dtype, from Ndt_FromType() on the innermost type.
GetDtype(x) ==
  /\ Idle
  /\ x \in held /\ x[1] = "xo"
  /\ Room("tobj", 1)
  /\ LET u == XndType(x)
         t == IF IsDimension(u) THEN heap[u].owns[1] ELSE u
     IN  /\ heap' = New(Incref(heap, t), Fresh(heap, "tobj"), <<t>>)
         /\ held' = held \union {Fresh(heap, "tobj")}
  /\ UNCHANGED <<block, todo, fault>>

-----------------------------------------------------------------------------
(* Buffers.                                                                *)

\* buffer_alloc(): a proxy that pins x.
Proxy(h, x) == New(Incref(h, x), Fresh(h, "px"), <<x>>)

\* pyxnd_getbuf() for a consumer outside: memoryview(x), numpy.array(x).
GetBuf(x) ==
  /\ Idle
  /\ x \in held /\ x[1] = "xo"
  /\ Room("px", 1)
  /\ LET p == Fresh(heap, "px")
     IN  \/ /\ heap' = Proxy(heap, x)
            /\ held' = held \union {p}
            /\ UNCHANGED todo
         \/ Fail("fill_buffer", Proxy(heap, x), <<p>>)
  /\ UNCHANGED <<block, fault>>

\* mblock_from_buffer() with a Py_buffer that owns `pin`: a type is made for the
\* buffer, then a master buffer; the new block m releases what it has on failure.
FromBuffer(h, m, pin, mstr) ==
  /\ Room("ndt", 1) /\ Room("tobj", 1)
  /\ LET t == Fresh(h, "ndt")
         o == Fresh(h, "tobj")
         h1 == New(New(h, t, << >>), o, <<t>>)
         h2 == New(h1, m, <<o>> \o pin)
     IN  \/ FromMblock(h2, m, o) /\ block' = [block EXCEPT ![m] = mstr]
         \/ /\ Fail("type_from_buffer", New(h, m, pin), <<m>>)
            /\ block' = [block EXCEPT ![m] = [mstr EXCEPT !.master = "none"]]
         \/ /\ Fail("calloc", h2, <<m>>)
            /\ block' = [block EXCEPT ![m] = [mstr EXCEPT !.master = "none"]]

\* xnd.from_buffer(obj) for memory of another library.
FromExternal(view) ==
  /\ Idle
  /\ Room("mb", 1)
  /\ LET m == Fresh(heap, "mb")
     IN  FromBuffer(heap, m, << >>, Master("borrowed", m, view))
  /\ UNCHANGED fault

\* xnd.from_buffer(x) for an xnd object: the new block holds a proxy of x.
FromXndBuffer(x) ==
  /\ Idle
  /\ x \in held /\ x[1] = "xo"
  /\ Room("mb", 1) /\ Room("px", 1)
  /\ FromBuffer(Proxy(heap, x), Fresh(heap, "mb"), << Fresh(heap, "px") >>,
                Master("borrowed", block[Mblock(x)].origin, "proxy"))
  /\ UNCHANGED fault

\* xnd.from_buffer_and_type(obj, type): refuses read-only memory, and xnd
\* objects, which do not export a PyBUF_SIMPLE buffer.
FromBufferAndType(o) ==
  /\ Idle
  /\ o \in held /\ o[1] = "tobj"
  /\ Room("mb", 1)
  /\ LET m == Fresh(heap, "mb")
         h == New(Incref(heap, o), m, <<o>>)
     IN  \/ /\ FromMblock(h, m, o)
            /\ block' = [block EXCEPT ![m] = Master("borrowed", m, "writable")]
         \/ /\ Fail("calloc", h, <<m>>)
            /\ block' = [block EXCEPT ![m] = Master("none", m, "writable")]
  /\ UNCHANGED fault

\* The check with which assignment to x starts.
IsReadonly(x) == block[Mblock(x)].view = "readonly"

-----------------------------------------------------------------------------
(* The end of references.                                                  *)

\* The program lets go of an object.
Drop(o) ==
  /\ Idle
  /\ o \in held
  /\ held' = held \ {o}
  /\ todo' = <<o>>
  /\ UNCHANGED <<heap, block, fault>>

\* Wrong: the type goes before the memory.
Destructor_TypeFirst(o) ==
  heap[o].owns \o (IF o \in Blocks /\ block[o].master = "owned"
                   THEN << <<"xnd_del", BlockType(o)>> >>
                   ELSE << >>)

\* What ndt_del(), ndtype_dealloc(), pyxnd_dealloc(), buffer_dealloc() and
\* mblock_dealloc(), where xnd_del() comes first, call.
Destructor(o) ==
  (IF o \in Blocks /\ block[o].master = "owned"
   THEN << <<"xnd_del", BlockType(o)>> >>
   ELSE << >>) \o heap[o].owns

\* ndt_decref() and Py_DECREF(), with the destructor at zero, whose calls come
\* before the rest.
Decref ==
  /\ todo # << >>
  /\ Head(todo) \in Objects
  /\ LET o == Head(todo)
         ends == heap[o].rc = 1
     IN  IF ~Live(o)
         THEN /\ fault' = fault \union {o}
              /\ todo' = Tail(todo)
              /\ UNCHANGED <<heap, block>>
         ELSE /\ heap' = IF ends THEN Free(heap, o) ELSE Unref(heap, o)
              /\ todo' = (IF ends THEN Destructor(o) ELSE << >>) \o Tail(todo)
              /\ block' = IF ends /\ o \in Blocks
                          THEN [block EXCEPT ![o] = NoMaster(o)]
                          ELSE block
              /\ UNCHANGED fault
  /\ UNCHANGED held

\* xnd_del() on a buffer that owns its memory walks the type to find what else
\* to free.
XndDel ==
  /\ todo # << >>
  /\ Head(todo) \notin Objects
  /\ fault' = IF Live(Head(todo)[2]) THEN fault ELSE fault \union {Head(todo)}
  /\ todo' = Tail(todo)
  /\ UNCHANGED <<heap, block, held>>

-----------------------------------------------------------------------------
Operation(o) ==
  \/ NewXnd(o) \/ FromBufferAndType(o)
  \/ Subscript(o) \/ SplitXnd(o) \/ GetType(o) \/ GetDtype(o)
  \/ GetBuf(o) \/ FromXndBuffer(o)
  \/ Drop(o)

Next ==
  \/ \E o \in Objects : Operation(o)
  \/ NewXndFromType \/ FromXnd
  \/ \E view \in External : FromExternal(view)
  \/ Decref \/ XndDel

Spec == Init /\ [][Next]_vars
-----------------------------------------------------------------------------
(* Properties.                                                             *)

TypeOK ==
  /\ DOMAIN heap = Objects
  /\ \A o \in Objects :
       /\ heap[o].rc \in Nat
       /\ Range(heap[o].owns) \subseteq Objects
       /\ Live(o) => CASE o[1] = "tobj" -> NDT(o)[1] = "ndt"
                       [] o[1] = "xo" -> Mblock(o)[1] = "mb" /\ XndType(o)[1] = "ndt"
                       [] OTHER -> TRUE
  /\ DOMAIN block = Blocks
  /\ \A m \in Blocks :
       /\ block[m].master \in {"none", "owned", "borrowed"}
       /\ block[m].origin \in Blocks
       /\ block[m].view \in External \union {"none", "proxy"}
  /\ held \subseteq Objects
  /\ \A k \in DOMAIN todo : todo[k] \in Objects \/ todo[k][1] = "xnd_del"

\* The references to o: those of objects, of the program and of pending calls.
CountIn(s, o) == Cardinality({k \in DOMAIN s : s[k] = o})
Owned(o) == {p \in Objects : \E k \in DOMAIN heap[p].owns : heap[p].owns[k] = o}
Owners(o) == Cardinality(Owned(o)) + (IF o \in held THEN 1 ELSE 0) + CountIn(todo, o)

(***************************************************************************)
(* No count is too low, on any path and at any point of a cascade of       *)
(* destructors, whatever has failed before: an object goes only when       *)
(* nothing refers to it any more.  What error paths leave behind is types  *)
(* of libndtypes, never an object that pins memory or a buffer.            *)
(***************************************************************************)
RefsSuffice ==
  \A o \in Objects :
    LET n == Owners(o)
    IN  heap[o].rc >= n /\ (o[1] # "ndt" => heap[o].rc = n)

(***************************************************************************)
(* No count is too high: every object goes when its last owner does.       *)
(* pyxnd_view_move_type() and deserialize() break this when they fail, see *)
(* the hazards; the run xnd_objects leaves these failures out.             *)
(***************************************************************************)
RefsExact == \A o \in Objects : heap[o].rc = Owners(o)

(***************************************************************************)
(* The memory and the type that a view points into, with no reference of   *)
(* its own to either, are there as long as the view is: the block that     *)
(* obtained the memory is kept alive along the chain of proxies and        *)
(* blocks, and a view's type does not depend on the view it was made from. *)
(***************************************************************************)
ViewsValid ==
  \A x \in Xnds : Live(x) =>
    LET m == Mblock(x)
    IN  /\ Live(m) /\ block[m].master # "none"
        /\ Live(block[m].origin) /\ block[block[m].origin].view # "proxy"
        /\ Live(XndType(x)) /\ Live(BlockType(m))

(***************************************************************************)
(* Destructors use nothing that has been freed: mblock_dealloc() needs the *)
(* type after the views are gone, and drops it only after xnd_del().       *)
(***************************************************************************)
NoUseAfterFree == fault = {}

\* When the program has let go of everything, everything has been freed, cycles too.
AllReleased == Idle /\ held = {} => \A o \in Objects : ~Live(o)

\* Nothing is freed too late: each object with its last owner, all of them in the end.
NothingKept == RefsExact /\ AllReleased

(***************************************************************************)
(* Memory that its exporter declared read-only is read-only in every xnd   *)
(* object (test_readonly in mod/tests/test_xnd.py).                        *)
(***************************************************************************)
ReadonlyKept ==
  \A x \in held \cap Xnds :
    block[block[Mblock(x)].origin].view = "readonly" => IsReadonly(x)
=============================================================================
