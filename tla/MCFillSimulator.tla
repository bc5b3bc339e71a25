-------------------------- MODULE MCFillSimulator ---------------------------
(***************************************************************************)
(* FillSimulator for TLC.  The specification bounds itself: an order that  *)
(* rests has seen less volume than its queue and its size.                 *)
(***************************************************************************)
EXTENDS FillSimulator, TLC

CONSTANTS o1, o2

MCOrders == {o1, o2}
MCSymmetry == Permutations(MCOrders)
=============================================================================
