------------------------------ MODULE UtHashInv -------------------------------
(***************************************************************************)
(* The inductive invariant of UtHash: the two lists of every element, and  *)
(* the bucket that its chain belongs to.                                   *)
(***************************************************************************)
EXTENDS UtHash

At(s, k) == IF k \in 1..Len(s) THEN s[k] ELSE Null
Chains(t, h) == [b \in 0..(t.num_buckets - 1) |-> Chain(t, h, b)]

(* s is a list from its first element to its end, linked both ways.       *)
DoublyLinked(first, prev, next, s) ==
  /\ s \in Seq(Elem) /\ IsInjective(s)
  /\ first = At(s, 1)
  /\ \A k \in 1..Len(s) : prev[s[k]] = At(s, k - 1) /\ next[s[k]] = At(s, k + 1)

(* o is the list of the application, and c the chain of a bucket.          *)
ListLinked(first, h, o) ==
  DoublyLinked(first, [e \in Elem |-> h[e].prev], [e \in Elem |-> h[e].next], o)

ChainLinked(bucket, h, c) ==
  /\ DoublyLinked(bucket.hh_head, [e \in Elem |-> h[e].hh_prev],
                  [e \in Elem |-> h[e].hh_next], c)
  /\ bucket.count = Len(c)

(* The chains hold what the list holds, each element where its hash value  *)
(* says.                                                                   *)
Placed(n, h, o, chain) ==
  \A b \in 0..(n - 1), e \in Elem :
    Contains(chain[b], e)
      <=> Contains(o, e) /\ HASH_TO_BKT(h[e].hashv, n) = b

Woven(first, t, h, o, chain) ==
  /\ h \in [Elem -> UT_hash_handle]
  /\ t.num_buckets \in Nat \ {0} /\ t \in UT_hash_table(t.num_buckets)
  /\ t.num_items = Len(o)
  /\ o # <<>> => t.tail = Last(o)
  /\ ListLinked(first, h, o)
  /\ \A b \in 0..(t.num_buckets - 1) : ChainLinked(t.buckets[b], h, chain[b])
  /\ Placed(t.num_buckets, h, o, chain)

(* Every operation on a hash leaves both lists of every element whole.     *)
HashInv ==
  /\ TypeOK
  /\ head # Null => Woven(head, tbl, hh, Order, Chains(tbl, hh))
=============================================================================
