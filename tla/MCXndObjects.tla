---------------------------- MODULE MCXndObjects ----------------------------
(* Three xnd objects over two blocks, linked by an exported buffer. *)
EXTENDS XndObjects

MCSlots == [ndt |-> 3, tobj |-> 2, mb |-> 2, xo |-> 3, px |-> 1]
=============================================================================
