-------------------------------- MODULE UtHash --------------------------------
(***************************************************************************)
(* The part of src/uthash.h that the provider uses: HASH_FIND, HASH_ADD    *)
(* and HASH_DEL, compiled without bloom filter, without HASH_DEBUG and     *)
(* with the default treatment of a failed malloc, which ends the program.  *)
(*                                                                         *)
(* An element carries a UT_hash_handle with two doubly linked lists, the   *)
(* order of the application and the chain of its bucket.  Keys are those   *)
(* of their elements, and all have one length: what a key is does not      *)
(* matter but for its hash value, any of HashValue, chosen when the        *)
(* element is added.  The program frees an element when it has deleted it, *)
(* so that nothing is left in its handle.                                  *)
(***************************************************************************)
EXTENDS Naturals, SequencesExt

CONSTANTS
  Elem, Null,
  HashValue,                  \* results of HASH_JEN, 32 bits in the code
  HASH_INITIAL_NUM_BUCKETS,   \* 32 in the code
  HASH_BKT_CAPACITY_THRESH,   \* 10 in the code
  MaxBuckets                  \* bound of the model: no expansion beyond

ASSUME HashAssumption ==
  /\ Null \notin Elem /\ IsFiniteSet(Elem)
  /\ HashValue \subseteq Nat
  /\ {HASH_INITIAL_NUM_BUCKETS, HASH_BKT_CAPACITY_THRESH, MaxBuckets}
       \subseteq Nat \ {0}
  /\ \E k \in 0..HASH_INITIAL_NUM_BUCKETS : HASH_INITIAL_NUM_BUCKETS = 2^k

VARIABLES
  head,   \* the oldest element, or Null
  tbl,    \* its UT_hash_table, or Null
  hh      \* the UT_hash_handle of each element

vars == <<head, tbl, hh>>

UT_hash_handle ==
  [prev : Elem \cup {Null}, next : Elem \cup {Null},
   hh_prev : Elem \cup {Null}, hh_next : Elem \cup {Null},
   hashv : Nat]
UT_hash_bucket == [hh_head : Elem \cup {Null}, count : Nat, expand_mult : Nat]
UT_hash_table(n) ==
  [buckets : [0..(n - 1) -> UT_hash_bucket], num_buckets : {n},
   num_items : Nat, tail : Elem, ineff_expands : Nat, noexpand : BOOLEAN]

Freed == [prev |-> Null, next |-> Null, hh_prev |-> Null, hh_next |-> Null,
          hashv |-> 0]
EmptyBucket == [hh_head |-> Null, count |-> 0, expand_mult |-> 0]

HASH_MAKE_TABLE(e) ==
  [buckets |-> [b \in 0..(HASH_INITIAL_NUM_BUCKETS - 1) |-> EmptyBucket],
   num_buckets |-> HASH_INITIAL_NUM_BUCKETS, num_items |-> 0, tail |-> e,
   ineff_expands |-> 0, noexpand |-> FALSE]

(* hashv & (num_buckets - 1): the number of buckets is a power of two.     *)
HASH_TO_BKT(hashv, num_buckets) == hashv % num_buckets

(* The elements met from a first one by following links.  A list that does *)
(* not end is cut after one element too many.                              *)
Follow(first, link) ==
  LET bound == Cardinality(Elem) + 1
      at[k \in 1..bound] ==
        IF k = 1 THEN first
        ELSE IF at[k - 1] = Null THEN Null ELSE link[at[k - 1]]
  IN  [k \in 1..Cardinality({k \in 1..bound : at[k] # Null}) |-> at[k]]

Chain(t, h, b) ==
  Follow(t.buckets[b].hh_head, [e \in Elem |-> h[e].hh_next])

(* HASH_ITER visits them in this order.                                    *)
Order == Follow(head, [e \in Elem |-> hh[e].next])

(* Mutant: keys are not compared.                                          *)
HASH_FINDMutant(e, v) ==
  IF head = Null THEN Null
  ELSE LET c == Chain(tbl, hh, HASH_TO_BKT(v, tbl.num_buckets))
           found == {k \in DOMAIN c : hh[c[k]].hashv = v}
       IN  IF found = {} THEN Null ELSE c[Min(found)]

(* HASH_FIND of the key of element e, whose hash value is v.               *)
HASH_FIND(e, v) ==
  IF head = Null THEN Null
  ELSE LET c == Chain(tbl, hh, HASH_TO_BKT(v, tbl.num_buckets))
           found == {k \in DOMAIN c : hh[c[k]].hashv = v /\ c[k] = e}
       IN  IF found = {} THEN Null ELSE c[Min(found)]
-----------------------------------------------------------------------------
(* HASH_EXPAND_BUCKETS: the items, in the order of the old chains, are each*)
(* put in front of one of twice as many chains.                            *)
PutInFront(items, S) ==
  FoldLeft(LAMBDA chain, e : IF e \in S THEN <<e>> \o chain ELSE chain,
           <<>>, items)

(* Mutant: items are placed by the number of buckets there was.            *)
NewChainsMutant(t, h) ==
  LET items == FlattenSeq([k \in 1..t.num_buckets |-> Chain(t, h, k - 1)])
  IN  [b \in 0..(2 * t.num_buckets - 1) |->
        PutInFront(items,
                   {e \in Elem : HASH_TO_BKT(h[e].hashv, t.num_buckets) = b})]

NewChains(t, h) ==
  LET twice == 2 * t.num_buckets
      items == FlattenSeq([k \in 1..t.num_buckets |-> Chain(t, h, k - 1)])
  IN  [b \in 0..(twice - 1) |->
        PutInFront(items, {e \in Elem : HASH_TO_BKT(h[e].hashv, twice) = b})]

ideal_chain_maxlen(t) ==
  (t.num_items \div (2 * t.num_buckets))
    + (IF t.num_items % (2 * t.num_buckets) # 0 THEN 1 ELSE 0)

(* The multiplier of a chain that grew to n items, one after another.      *)
Multiplier(n, ideal) ==
  LET mult[k \in 0..n] ==
        IF k = 0 THEN 0
        ELSE IF k > ideal /\ k > mult[k - 1] * ideal THEN mult[k - 1] + 1
        ELSE mult[k - 1]
  IN  mult[n]

nonideal_items(t, chain) ==
  LET Over(n) == IF n > ideal_chain_maxlen(t)
                 THEN n - ideal_chain_maxlen(t) ELSE 0
  IN  SumFunction([b \in DOMAIN chain |-> Over(Len(chain[b]))])

Ineffective(t, chain) ==
  IF nonideal_items(t, chain) > t.num_items \div 2
  THEN t.ineff_expands + 1 ELSE 0

HASH_EXPAND_BUCKETS(t, chain) ==
  [t EXCEPT
     !.buckets = [b \in DOMAIN chain |->
       [hh_head |-> IF chain[b] = <<>> THEN Null ELSE chain[b][1],
        count |-> Len(chain[b]),
        expand_mult |-> Multiplier(Len(chain[b]), ideal_chain_maxlen(t))]],
     !.num_buckets = 2 * @,
     !.ineff_expands = Ineffective(t, chain),
     !.noexpand = @ \/ Ineffective(t, chain) > 1]

Relinked(h, chain) ==
  LET At(b, k) == IF k \in DOMAIN chain[b] THEN chain[b][k] ELSE Null
  IN  [e \in Elem |->
        IF \E b \in DOMAIN chain : Contains(chain[b], e)
        THEN LET b == CHOOSE b \in DOMAIN chain : Contains(chain[b], e)
                 k == CHOOSE k \in DOMAIN chain[b] : chain[b][k] = e
             IN  [h[e] EXCEPT !.hh_prev = At(b, k - 1), !.hh_next = At(b, k + 1)]
        ELSE h[e]]
-----------------------------------------------------------------------------
Init == /\ head = Null /\ tbl = Null
        /\ hh = [e \in Elem |-> Freed]

InTable(e) == Contains(Order, e)

(* HASH_APPEND_LIST and HASH_ADD_TO_BKT: e goes to the end of the list and *)
(* to the front of its chain.                                              *)
Linked(t, e, v) ==
  LET last == IF head = Null THEN Null ELSE t.tail
      first == t.buckets[HASH_TO_BKT(v, t.num_buckets)].hh_head
  IN  [x \in Elem |->
        IF x = e THEN [prev |-> last, next |-> Null, hh_prev |-> Null,
                       hh_next |-> first, hashv |-> v]
        ELSE [hh[x] EXCEPT !.next = IF x = last THEN e ELSE @,
                           !.hh_prev = IF x = first THEN e ELSE @]]

(* Mutant: the table forgets its tail.                                     *)
CountedMutant(t, e, b) ==
  LET bucket == t.buckets[b]
  IN  [t EXCEPT !.num_items = @ + 1,
                !.buckets = [t.buckets EXCEPT ![b] =
                  [hh_head |-> e, count |-> bucket.count + 1,
                   expand_mult |-> bucket.expand_mult]]]

Counted(t, e, b) ==
  LET bucket == t.buckets[b]
  IN  [t EXCEPT !.num_items = @ + 1, !.tail = e,
                !.buckets = [t.buckets EXCEPT ![b] =
                  [hh_head |-> e, count |-> bucket.count + 1,
                   expand_mult |-> bucket.expand_mult]]]

Full(b) == b.count >= (b.expand_mult + 1) * HASH_BKT_CAPACITY_THRESH

HASH_ADD(e, v) ==
  LET old == IF head = Null THEN HASH_MAKE_TABLE(e) ELSE tbl
      b == HASH_TO_BKT(v, old.num_buckets)
      new == Counted(old, e, b)
      chain == NewChains(new, Linked(old, e, v))
  IN  /\ ~InTable(e)
      /\ head' = IF head = Null THEN e ELSE head
      /\ IF Full(new.buckets[b]) /\ ~new.noexpand
         THEN /\ 2 * new.num_buckets <= MaxBuckets
              /\ tbl' = HASH_EXPAND_BUCKETS(new, chain)
              /\ hh' = Relinked(Linked(old, e, v), chain)
         ELSE tbl' = new /\ hh' = Linked(old, e, v)

(* Mutant: the neighbours keep their links to e.                           *)
UnlinkedMutant(e) == [hh EXCEPT ![e] = Freed]

(* HASH_DEL_IN_BKT and the same for the list of the application.           *)
Unlinked(e) ==
  [x \in Elem |->
    IF x = e THEN Freed
    ELSE [next |-> IF x = hh[e].prev THEN hh[e].next ELSE hh[x].next,
          prev |-> IF x = hh[e].next THEN hh[e].prev ELSE hh[x].prev,
          hh_next |-> IF x = hh[e].hh_prev THEN hh[e].hh_next ELSE hh[x].hh_next,
          hh_prev |-> IF x = hh[e].hh_next THEN hh[e].hh_prev ELSE hh[x].hh_prev,
          hashv |-> hh[x].hashv]]

(* Mutant: the last element does not take the table with it.               *)
HASH_DELMutant(e) ==
  /\ head # Null /\ InTable(e)
  /\ hh' = Unlinked(e)
  /\ head' = IF hh[e].prev = Null THEN hh[e].next ELSE head
  /\ UNCHANGED tbl

HASH_DEL(e) ==
  LET b == HASH_TO_BKT(hh[e].hashv, tbl.num_buckets)
      bucket == tbl.buckets[b]
  IN  /\ head # Null /\ InTable(e)
      /\ hh' = Unlinked(e)
      /\ IF hh[e].prev = Null /\ hh[e].next = Null
         THEN head' = Null /\ tbl' = Null
         ELSE /\ head' = IF hh[e].prev = Null THEN hh[e].next ELSE head
              /\ tbl' = [tbl EXCEPT
                   !.num_items = @ - 1,
                   !.tail = IF @ = e THEN hh[e].prev ELSE @,
                   !.buckets = [tbl.buckets EXCEPT ![b] =
                     [hh_head |-> IF bucket.hh_head = e THEN hh[e].hh_next
                                  ELSE bucket.hh_head,
                      count |-> bucket.count - 1,
                      expand_mult |-> bucket.expand_mult]]]

Next == \E e \in Elem : \/ HASH_DEL(e)
                        \/ \E v \in HashValue : HASH_ADD(e, v)

Spec == Init /\ [][Next]_vars
-----------------------------------------------------------------------------
(* The pointers are to elements or to nothing, and a table is there exactly*)
(* while it has a head.                                                    *)
TypeOK ==
  /\ head \in Elem \cup {Null}
  /\ hh \in [Elem -> UT_hash_handle]
  /\ IF head = Null THEN tbl = Null ELSE tbl \in UT_hash_table(tbl.num_buckets)

(* What HASH_FSCK tests of the buckets: every chain is linked both ways,   *)
(* its count is its length, and the counts add up to the number of items.  *)
ChainsSound ==
  head # Null =>
    /\ \A b \in 0..(tbl.num_buckets - 1) :
         LET c == Chain(tbl, hh, b)
         IN  /\ tbl.buckets[b].count = Len(c)
             /\ \A k \in DOMAIN c :
                  hh[c[k]].hh_prev = IF k = 1 THEN Null ELSE c[k - 1]
    /\ tbl.num_items
         = SumFunction([b \in DOMAIN tbl.buckets |-> tbl.buckets[b].count])

(* What HASH_FSCK tests of the order of the application, and that its tail *)
(* is the element the next one will be appended to.                        *)
ListSound ==
  head # Null =>
    /\ Len(Order) = tbl.num_items
    /\ tbl.tail = Last(Order)
    /\ \A k \in DOMAIN Order :
         hh[Order[k]].prev = IF k = 1 THEN Null ELSE Order[k - 1]

(* HASH_FIND finds the element of a key, whatever collides with it, and    *)
(* nothing when the key is not there.                                      *)
FindExact ==
  \A e \in Elem, v \in HashValue :
    (InTable(e) => v = hh[e].hashv) =>
      HASH_FIND(e, v) = IF InTable(e) THEN e ELSE Null

(* Whatever happens to the buckets, the hash is a table in the order of the*)
(* additions, as the provider's model takes it to be.                      *)
Table == INSTANCE OrderedTable WITH table <- Order
ImplementsTable == Table!Spec
=============================================================================
