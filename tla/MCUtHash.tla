------------------------------- MODULE MCUtHash -------------------------------
(* UtHash on a few elements; which is which does not matter.               *)
EXTENDS UtHashInv, TLC

Symmetry == Permutations(Elem)
=============================================================================
