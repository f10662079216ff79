------------------------------- MODULE MCNand -------------------------------
(***************************************************************************)
(* Nand for TLC: an even and an odd block of two pages, two pieces to a    *)
(* page, one bit to a piece, and calls enough for an attach, an operation  *)
(* that goes wrong and two that follow it.                                 *)
(***************************************************************************)
EXTENDS Nand

const_Bits == {"x"}
const_Data == {<<{"x"}, {"x"}>>}
const_BadPages == {0}
=============================================================================
