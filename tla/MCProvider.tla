----------------------------- MODULE MCProvider ------------------------------
(***************************************************************************)
(* YPProvider on small sets.  A configuration chooses the scheduling       *)
(* regime by giving YieldLabels one of BaseYields, BlockingYields and      *)
(* AllLabels; everything else is a handful of model values.                *)
(***************************************************************************)
EXTENDS YPProviderInv, FiniteSets, TLC

(* uuid_generate never fails: there is an id for every request and every   *)
(* phonebook of the configuration.                                         *)
ASSUME EnoughIds == Cardinality(Id) >= Cardinality(ULT) + MaxConfigured

Symmetry == Permutations(Id) \cup Permutations(ULT)
=============================================================================
