----------------------------- MODULE YPHandleInv ------------------------------
(***************************************************************************)
(* The inductive invariant of YPHandle for an application of one execution *)
(* stream, whenever it finalizes its client.                               *)
(***************************************************************************)
EXTENDS YPHandle

SingleStream == YieldLabels \cap Labels = OneStream

At(labels, h) == \E t \in Thread : pc[t] \in labels /\ hd[t] = h

(* One thread at most is inside an operation.                              *)
Alone ==
  \A s, t \in Thread : s = t \/ pc[s] \in OneStream \/ pc[t] \in OneStream

(* A handle that is alive has a reference, or one that is being given or   *)
(* released; meanwhile its counter is not the number of references.        *)
Referenced ==
  \A h \in Handle :
    /\ h \notin Alive => References(h) = {}
    /\ (h \in Alive /\ ~At({"count", "count_store", "decr_store"}, h)) =>
         refcount[h] = Cardinality(References(h))
    /\ (h \in Alive /\ ~At(Labels \ {"idle", "call"}, h)) => References(h) # {}

NeedsClient == {"count", "count_store", "uncount", "uncount_store", "free"}

(* What the label of a thread says of its handle and of what it loaded.    *)
Working ==
  \A t \in Thread :
    /\ pc[t] \notin OneStream => hd[t] \in Alive
    /\ pc[t] \in NeedsClient => client = "open"
    /\ pc[t] \in {"count", "count_store"} =>
         /\ References(hd[t]) = {} /\ refcount[hd[t]] = 1
         /\ num_phonebook_handles + 1 = Cardinality(Alive)
    /\ pc[t] = "incr_store" => References(hd[t]) # {}
    /\ pc[t] \in {"count_store", "uncount_store"} => val[t] = num_phonebook_handles
    /\ pc[t] \in {"incr_store", "decr_store"} => val[t] = refcount[hd[t]]
    /\ pc[t] = "decr_store" =>
         refcount[hd[t]] = Cardinality(References(hd[t])) + 1
    /\ pc[t] = "test" => refcount[hd[t]] = Minus(val[t])
    /\ pc[t] \in {"uncount", "uncount_store", "free"} => References(hd[t]) = {}
    /\ pc[t] = "free" => num_phonebook_handles + 1 = Cardinality(Alive)

Counting == {"count", "count_store", "free"}

Counted ==
  (client = "open" /\ \A t \in Thread : pc[t] \notin Counting)
    => num_phonebook_handles = Cardinality(Alive)

(* The client goes silently when no handle is left.                        *)
Finalized == (client = "freed" /\ ~warned) => Quiet /\ References(Null) = Ref

HInv ==
  /\ TypeOK /\ NoUseAfterFree /\ Alone /\ Referenced /\ Working /\ Counted
  /\ Finalized
=============================================================================
