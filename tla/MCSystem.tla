------------------------------- MODULE MCSystem -------------------------------
(* YPSystem with a few callers; callers and ids are interchangeable.       *)
EXTENDS YPSystemInv, FiniteSets, TLC

Symmetry == Permutations(Id) \cup Permutations(Caller)
=============================================================================
