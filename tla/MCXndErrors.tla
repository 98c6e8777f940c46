----------------------------- MODULE MCXndErrors -----------------------------
(* Three xnd objects over one block, and error paths that leave types behind. *)
EXTENDS XndObjects

MCSlots == [ndt |-> 4, tobj |-> 3, mb |-> 1, xo |-> 3, px |-> 0]
=============================================================================
