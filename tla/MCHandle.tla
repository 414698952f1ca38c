------------------------------ MODULE MCHandle ------------------------------
(* Small instances of YPHandle for TLC.                                    *)
EXTENDS YPHandleInv, TLC

Symmetry == Permutations(Thread) \cup Permutations(Handle)
              \cup Permutations(Ref)
=============================================================================
