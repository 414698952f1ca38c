----------------------------- MODULE OrderedTable -----------------------------
(***************************************************************************)
(* What the provider takes the hash of phonebooks for: a table that keeps  *)
(* its elements in the order in which they were added.                     *)
(***************************************************************************)
EXTENDS SequencesExt

CONSTANT Elem
VARIABLE table

Init == table = <<>>
Enter(e) == ~Contains(table, e) /\ table' = Append(table, e)
Leave(k) == table' = RemoveAt(table, k)
Next == \/ \E e \in Elem : Enter(e)
        \/ \E k \in 1..Len(table) : Leave(k)
Spec == Init /\ [][Next]_table
=============================================================================
