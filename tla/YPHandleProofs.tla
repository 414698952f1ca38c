---------------------------- MODULE YPHandleProofs ----------------------------
(***************************************************************************)
(* Safety of the client's handles for an application of one execution      *)
(* stream that may finalize its client at any time, with any number of     *)
(* threads, handles and references.                                        *)
(***************************************************************************)
EXTENDS YPHandleInv, FiniteSetTheorems, TLAPS

(* What HInv says when t is the only thread inside an operation.           *)
Local(t) ==
  /\ \A h \in Handle : h \notin Alive => References(h) = {}
  /\ \A h \in Alive :
       ~(pc[t] \in {"count", "count_store", "decr_store"} /\ hd[t] = h) =>
         refcount[h] = Cardinality(References(h))
  /\ \A h \in Alive : ~(pc[t] \notin OneStream /\ hd[t] = h) =>
       References(h) # {}
  /\ pc[t] \notin OneStream => hd[t] \in Alive
  /\ pc[t] \in NeedsClient => client = "open"
  /\ pc[t] \in {"count", "count_store"} =>
       /\ References(hd[t]) = {} /\ refcount[hd[t]] = 1
       /\ num_phonebook_handles + 1 = Cardinality(Alive)
  /\ pc[t] = "incr_store" => References(hd[t]) # {}
  /\ pc[t] \in {"count_store", "uncount_store"} => val[t] = num_phonebook_handles
  /\ pc[t] \in {"incr_store", "decr_store"} => val[t] = refcount[hd[t]]
  /\ pc[t] = "decr_store" =>
       refcount[hd[t]] = Cardinality(References(hd[t])) + 1
  /\ pc[t] = "test" => refcount[hd[t]] = Minus(val[t])
  /\ pc[t] \in {"uncount", "uncount_store", "free"} => References(hd[t]) = {}
  /\ pc[t] = "free" => num_phonebook_handles + 1 = Cardinality(Alive)
  /\ (client = "open" /\ pc[t] \notin Counting) =>
       num_phonebook_handles = Cardinality(Alive)
  /\ (client = "freed" /\ ~warned) =>
       pc[t] \in OneStream /\ References(Null) = Ref

OthersRest(t) == \A s \in Thread \ {t} : pc[s] \in OneStream

LEMMA Localize ==
  ASSUME HInv, NEW t \in Thread, OthersRest(t)
  PROVE  Local(t)
<1>1. \A h \in Handle :
        /\ h \notin Alive => References(h) = {}
        /\ (h \in Alive
            /\ ~(pc[t] \in {"count", "count_store", "decr_store"} /\ hd[t] = h)) =>
             refcount[h] = Cardinality(References(h))
        /\ (h \in Alive /\ ~(pc[t] \notin OneStream /\ hd[t] = h)) =>
             References(h) # {}
  BY DEF HInv, Referenced, At, OthersRest, OneStream, Labels
<1>2. (client = "open" /\ pc[t] \notin Counting) =>
        num_phonebook_handles = Cardinality(Alive)
  BY DEF HInv, Counted, OthersRest, OneStream, Counting
<1>3. (client = "freed" /\ ~warned) =>
        pc[t] \in OneStream /\ References(Null) = Ref
  BY DEF HInv, Finalized, Quiet
<1>4. Alive \subseteq Handle
  BY DEF Alive
<1> QED BY <1>1, <1>2, <1>3, <1>4 DEF HInv, Working, Local

LEMMA Globalize ==
  ASSUME TypeOK', NoUseAfterFree', NEW t \in Thread, OthersRest(t)', Local(t)'
  PROVE  HInv'
<1>1. Alone'
  BY DEF Alone, OthersRest
<1>2. Referenced'
  BY DEF Referenced, Local, At, OthersRest, OneStream, Labels, TypeOK
<1>3. Working'
  BY DEF Working, Local, OthersRest, OneStream, NeedsClient
<1>4. Counted'
  BY DEF Counted, Local
<1>5. Finalized'
  BY DEF Finalized, Local, Quiet, OthersRest
<1> QED BY <1>1, <1>2, <1>3, <1>4, <1>5 DEF HInv
-----------------------------------------------------------------------------
(* How the sets that the counters count change.                            *)
LEMMA SameReferences ==
  ASSUME target' = target
  PROVE  \A h : References(h)' = References(h)
BY DEF References

LEMMA SameAlive ==
  ASSUME memory' = memory
  PROVE  Alive' = Alive
BY DEF Alive

LEMMA ReferencesFinite ==
  ASSUME NEW h
  PROVE  /\ IsFiniteSet(References(h))
         /\ Cardinality(References(h)) \in Nat
         /\ Cardinality(References(h)) < CountMax
<1>1. References(h) \subseteq Ref
  BY DEF References
<1>2. Cardinality(Ref) \in Nat /\ Cardinality(References(h)) <= Cardinality(Ref)
       /\ IsFiniteSet(References(h))
  BY <1>1, FS_Subset, FS_CardinalityType, HandleAssumption
<1>3. Cardinality(References(h)) \in Nat
  BY <1>2, FS_CardinalityType
<1> QED BY <1>2, <1>3, HandleAssumption

LEMMA AliveFinite ==
  /\ IsFiniteSet(Alive)
  /\ Cardinality(Alive) \in Nat
  /\ Cardinality(Alive) < CountMax
<1>1. Alive \subseteq Handle
  BY DEF Alive
<1>2. Cardinality(Handle) \in Nat /\ Cardinality(Alive) <= Cardinality(Handle)
       /\ IsFiniteSet(Alive)
  BY <1>1, FS_Subset, FS_CardinalityType, HandleAssumption
<1>3. Cardinality(Alive) \in Nat
  BY <1>2, FS_CardinalityType
<1> QED BY <1>2, <1>3, HandleAssumption

LEMMA ReferenceTaken ==
  ASSUME TypeOK, NEW h \in Handle, NEW r \in References(Null),
         target' = [target EXCEPT ![r] = h]
  PROVE  /\ References(h)' # {}
         /\ Cardinality(References(h)') = Cardinality(References(h)) + 1
         /\ \A g \in Handle \ {h} : References(g)' = References(g)
<1>1. References(h)' = References(h) \cup {r} /\ r \notin References(h)
  BY HandleAssumption DEF References, TypeOK
<1>2. Cardinality(References(h)') = Cardinality(References(h)) + 1
  BY <1>1, ReferencesFinite, FS_AddElement
<1>3. \A g \in Handle \ {h} : References(g)' = References(g)
  BY HandleAssumption DEF References, TypeOK
<1> QED BY <1>1, <1>2, <1>3

LEMMA ReferenceDropped ==
  ASSUME TypeOK, NEW h \in Handle, NEW r \in References(h),
         target' = [target EXCEPT ![r] = Null]
  PROVE  /\ Cardinality(References(h)) = Cardinality(References(h)') + 1
         /\ \A g \in Handle \ {h} : References(g)' = References(g)
<1>1. References(h)' = References(h) \ {r}
  BY HandleAssumption DEF References, TypeOK
<1>2. Cardinality(References(h)') = Cardinality(References(h)) - 1
  BY <1>1, ReferencesFinite, FS_RemoveElement
<1>3. \A g \in Handle \ {h} : References(g)' = References(g)
  BY HandleAssumption DEF References, TypeOK
<1> QED BY <1>2, <1>3, ReferencesFinite

LEMMA HandleBorn ==
  ASSUME TypeOK, NEW h \in Handle, memory[h] = "none",
         memory' = [memory EXCEPT ![h] = "allocated"]
  PROVE  /\ h \notin Alive
         /\ Alive' = Alive \cup {h}
         /\ Cardinality(Alive') = Cardinality(Alive) + 1
<1>1. h \notin Alive /\ Alive' = Alive \cup {h}
  BY DEF Alive, TypeOK
<1> QED BY <1>1, AliveFinite, FS_AddElement

LEMMA HandleFreed ==
  ASSUME TypeOK, NEW h \in Alive, memory' = [memory EXCEPT ![h] = "freed"]
  PROVE  /\ Alive' = Alive \ {h}
         /\ Cardinality(Alive') = Cardinality(Alive) - 1
<1>1. Alive' = Alive \ {h}
  BY DEF Alive, TypeOK
<1>2. Cardinality(Alive') = Cardinality(Alive) - 1
  BY <1>1, AliveFinite, FS_RemoveElement
<1> QED BY <1>1, <1>2, AliveFinite

(* A reference is to a handle that is alive, and whose client is unless    *)
(* finalization warned.                                                    *)
LEMMA ReferenceValid ==
  ASSUME HInv, NEW t \in Thread, Local(t), NEW r \in Ref \ References(Null)
  PROVE  /\ target[r] \in Handle /\ r \in References(target[r])
         /\ HandleOk(target[r]) /\ target[r] \in Alive
         /\ ClientOk \/ warned
<1>1. target[r] \in Handle /\ r \in References(target[r])
  BY DEF HInv, TypeOK, References
<1>2. target[r] \in Alive
  BY <1>1 DEF Local
<1>3. ClientOk \/ warned
  BY DEF Local, HInv, TypeOK, ClientOk
<1> QED BY <1>1, <1>2, <1>3 DEF Alive, HandleOk
-----------------------------------------------------------------------------
(* One lemma per operation: a step of t, which runs alone.                 *)
LEMMA Pointers ==
  ASSUME HInv, NEW t \in Thread, Local(t), pc[t] \notin OneStream
  PROVE  /\ hd[t] \in Alive /\ hd[t] \in Handle /\ HandleOk(hd[t])
         /\ ClientOk \/ warned
         /\ pc[t] \in NeedsClient => ClientOk
<1>1. hd[t] \in Alive
  BY DEF Local, HInv, TypeOK, Labels, OneStream
<1>2. (ClientOk \/ warned) /\ (pc[t] \in NeedsClient => ClientOk)
  BY DEF Local, HInv, TypeOK, ClientOk
<1> QED BY <1>1, <1>2 DEF Alive, HandleOk

LEMMA CreateStep ==
  ASSUME HInv, NEW t \in Thread, Local(t),
         HandleCreate(t) \/ CountLoad(t) \/ CountStore(t)
  PROVE  TypeOK' /\ NoUseAfterFree' /\ Local(t)'
<1>1. CASE HandleCreate(t)
  <2>1. PICK h \in Handle :
          /\ memory[h] = "none"
          /\ memory' = [memory EXCEPT ![h] = "allocated"]
          /\ refcount' = [refcount EXCEPT ![h] = 1]
          /\ hd' = [hd EXCEPT ![t] = h]
          /\ pc' = [pc EXCEPT ![t] = "count"]
    BY <1>1 DEF HandleCreate, Goto
  <2>2. /\ pc[t] = "idle" /\ client = "open"
        /\ UNCHANGED <<client, num_phonebook_handles, warned, target, val,
                       fault>>
    BY <1>1 DEF HandleCreate
  <2>3. TypeOK' /\ NoUseAfterFree'
    <3>1. 1 \in 0..CountMax
      BY AliveFinite, HandleAssumption
    <3> QED BY <2>1, <2>2, <3>1 DEF HInv, TypeOK, NoUseAfterFree, Labels
  <2>4. h \notin Alive /\ Alive' = Alive \cup {h}
         /\ Cardinality(Alive') = Cardinality(Alive) + 1
    BY <2>1, HandleBorn DEF HInv
  <2>5. /\ num_phonebook_handles = Cardinality(Alive)
        /\ References(h) = {}
    BY <2>2, <2>4 DEF Local, Counting
  <2>6. /\ pc'[t] = "count" /\ hd'[t] = h /\ refcount'[h] = 1
        /\ \A g \in Handle \ {h} : refcount'[g] = refcount[g]
    BY <2>1 DEF HInv, TypeOK
  <2>7. References(hd[t])' = {}
    BY <2>2, <2>5, <2>6 DEF References
  <2>8. Alive \subseteq Handle
    BY DEF Alive
  <2> QED BY <2>2, <2>3, <2>4, <2>5, <2>6, <2>7, <2>8, SameReferences
          DEF Local, OneStream, Counting, NeedsClient
<1>2. CASE CountLoad(t)
  <2>1. /\ pc[t] = "count" /\ ClientOk
        /\ pc' = [pc EXCEPT ![t] = "count_store"]
        /\ hd' = [hd EXCEPT ![t] = hd[t]]
        /\ val' = [val EXCEPT ![t] = num_phonebook_handles]
        /\ UNCHANGED <<client, num_phonebook_handles, warned, memory,
                       refcount, target, fault>>
    BY <1>2, Pointers DEF CountLoad, Load, Goto, OneStream, NeedsClient
  <2>2. TypeOK' /\ NoUseAfterFree'
    BY <2>1 DEF HInv, TypeOK, NoUseAfterFree, Labels
  <2>3. pc'[t] = "count_store" /\ val'[t] = num_phonebook_handles
         /\ hd' = hd
    BY <2>1 DEF HInv, TypeOK
  <2> QED BY <2>1, <2>2, <2>3, SameReferences, SameAlive
          DEF Local, OneStream, Counting, NeedsClient
<1>3. CASE CountStore(t)
  <2> DEFINE h == hd[t]
  <2>1. PICK r \in References(Null) :
          /\ num_phonebook_handles' = Plus(val[t])
          /\ target' = [target EXCEPT ![r] = h]
          /\ pc' = [pc EXCEPT ![t] = "idle"]
          /\ UNCHANGED <<client, warned, memory, refcount, hd, val, fault>>
    BY <1>3, Pointers DEF CountStore, Goto, OneStream, NeedsClient
  <2>2. /\ pc[t] = "count_store" /\ h \in Handle /\ h \in Alive
        /\ References(h) = {} /\ refcount[h] = 1 /\ client = "open"
    BY <1>3, Pointers DEF CountStore, OneStream, NeedsClient, Local, ClientOk
  <2>3. /\ num_phonebook_handles' = Cardinality(Alive)
        /\ num_phonebook_handles' \in 0..CountMax
    BY <2>1, <2>2, AliveFinite, HandleAssumption DEF Local, Plus, HInv, TypeOK
  <2>4. TypeOK' /\ NoUseAfterFree'
    BY <2>1, <2>2, <2>3 DEF HInv, TypeOK, NoUseAfterFree, Labels
  <2>5. pc'[t] = "idle"
    BY <2>1 DEF HInv, TypeOK
  <2> HIDE DEF h
  <2>6. /\ References(h)' # {}
        /\ Cardinality(References(h)') = Cardinality(References(h)) + 1
        /\ \A g \in Handle \ {h} : References(g)' = References(g)
    <3>1. /\ {x \in Ref : target'[x] = h} # {}
          /\ Cardinality({x \in Ref : target'[x] = h})
                = Cardinality(References(h)) + 1
          /\ \A g \in Handle \ {h} : References(g)' = References(g)
      BY <2>1, <2>2, ReferenceTaken DEF HInv, References
    <3>2. h' = h
      BY <2>1 DEF h
    <3> QED BY <3>1, <3>2 DEF References
  <2>7. Cardinality(References(h)) = 0
    BY <2>2, FS_EmptySet
  <2>8. Alive \subseteq Handle /\ hd'[t] = h /\ h' = h
    BY <2>1 DEF Alive, h
  <2>9. \A g \in Alive : References(g)' # {} /\ refcount'[g] = Cardinality(References(g)')
    <3>1. \A g \in Alive \ {h} : References(g)' = References(g) /\ References(g) # {}
                              /\ refcount[g] = Cardinality(References(g))
      BY <2>2, <2>6, <2>8 DEF Local, h
    <3>2. References(h)' = {x \in Ref : target'[x] = h}
      BY <2>8 DEF References
    <3>3. \A g : g = h => References(g)' # {} /\ refcount'[g] = Cardinality(References(g)')
      BY <2>1, <2>2, <2>6, <2>7, <3>2 DEF References
    <3> QED BY <2>1, <3>1, <3>3
  <2>10. \A g \in Handle : g \notin Alive => References(g)' = {}
    BY <2>2, <2>6 DEF Local
  <2> QED BY <2>1, <2>2, <2>3, <2>4, <2>5, <2>9, <2>10, SameAlive
          DEF Local, OneStream, Counting, NeedsClient
<1> QED BY <1>1, <1>2, <1>3

LEMMA RefIncrStep ==
  ASSUME HInv, NEW t \in Thread, Local(t), RefIncrLoad(t) \/ RefIncrStore(t)
  PROVE  TypeOK' /\ NoUseAfterFree' /\ Local(t)'
<1>1. CASE RefIncrLoad(t)
  <2>1. PICK r \in Ref \ References(Null) :
          /\ pc' = [pc EXCEPT ![t] = "incr_store"]
          /\ hd' = [hd EXCEPT ![t] = target[r]]
          /\ val' = [val EXCEPT ![t] = refcount[target[r]]]
    BY <1>1, ReferenceValid DEF RefIncrLoad, Load, Goto
  <2>2. /\ pc[t] = "idle"
        /\ UNCHANGED <<client, num_phonebook_handles, warned, memory,
                       refcount, target, fault>>
    BY <1>1, ReferenceValid DEF RefIncrLoad
  <2>3. /\ target[r] \in Handle /\ target[r] \in Alive
        /\ References(target[r]) # {} /\ (client = "open" \/ warned)
    BY ReferenceValid DEF ClientOk
  <2>4. TypeOK' /\ NoUseAfterFree'
    BY <2>1, <2>2, <2>3 DEF HInv, TypeOK, NoUseAfterFree, Labels
  <2>5. /\ pc'[t] = "incr_store" /\ hd'[t] = target[r]
        /\ val'[t] = refcount[target[r]]
    BY <2>1 DEF HInv, TypeOK
  <2> QED BY <2>2, <2>3, <2>4, <2>5, SameReferences, SameAlive
          DEF Local, OneStream, Counting, NeedsClient
<1>2. CASE RefIncrStore(t)
  <2>1. PICK r \in References(Null) :
          /\ refcount' = [refcount EXCEPT ![hd[t]] = Plus(val[t])]
          /\ target' = [target EXCEPT ![r] = hd[t]]
          /\ pc' = [pc EXCEPT ![t] = "idle"]
          /\ UNCHANGED <<client, num_phonebook_handles, warned, memory, hd,
                         val, fault>>
    BY <1>2, Pointers DEF RefIncrStore, Goto, OneStream
  <2>2. pc[t] = "incr_store" /\ hd[t] \in Alive /\ hd[t] \in Handle
    BY <1>2, Pointers DEF RefIncrStore, OneStream
  <2>3. /\ References(hd[t])' # {}
        /\ Cardinality(References(hd[t])') = Cardinality(References(hd[t])) + 1
        /\ \A g \in Handle \ {hd[t]} : References(g)' = References(g)
    <3> DEFINE h == hd[t]
    <3>1. /\ {x \in Ref : target'[x] = h} # {}
          /\ Cardinality({x \in Ref : target'[x] = h})
                = Cardinality(References(h)) + 1
          /\ \A g \in Handle \ {h} : References(g)' = References(g)
      BY <2>1, <2>2, ReferenceTaken DEF HInv, References
    <3> QED BY <2>1, <3>1 DEF References
  <2>4. /\ refcount'[hd[t]] = Cardinality(References(hd[t])) + 1
        /\ refcount'[hd[t]] \in 0..CountMax
        /\ \A g \in Handle \ {hd[t]} : refcount'[g] = refcount[g]
    BY <2>1, <2>2, ReferencesFinite, HandleAssumption
    DEF Local, Plus, HInv, TypeOK
  <2>5. TypeOK' /\ NoUseAfterFree'
    BY <2>1, <2>2, <2>4 DEF HInv, TypeOK, NoUseAfterFree, Labels
  <2>6. pc'[t] = "idle"
    BY <2>1 DEF HInv, TypeOK
  <2>7. Alive \subseteq Handle /\ (client = "open" \/ warned)
    BY <2>2, Pointers DEF Alive, ClientOk, OneStream
  <2> QED BY <2>1, <2>2, <2>3, <2>4, <2>5, <2>6, <2>7, SameAlive
          DEF Local, OneStream, Counting, NeedsClient
<1> QED BY <1>1, <1>2
LEMMA ReleaseStep ==
  ASSUME HInv, NEW t \in Thread, Local(t),
         ReleaseLoad(t) \/ ReleaseStore(t) \/ ReleaseTest(t)
  PROVE  TypeOK' /\ NoUseAfterFree' /\ Local(t)'
<1>1. CASE ReleaseLoad(t)
  <2>1. PICK r \in Ref \ References(Null) :
          /\ pc' = [pc EXCEPT ![t] = "decr_store"]
          /\ hd' = [hd EXCEPT ![t] = target[r]]
          /\ val' = [val EXCEPT ![t] = refcount[target[r]]]
          /\ target' = [target EXCEPT ![r] = Null]
    BY <1>1, ReferenceValid DEF ReleaseLoad, Load, Goto
  <2>2. /\ pc[t] = "idle"
        /\ UNCHANGED <<client, num_phonebook_handles, warned, memory,
                       refcount, fault>>
    BY <1>1, ReferenceValid DEF ReleaseLoad
  <2> DEFINE h == target[r]
  <2>3. /\ h \in Handle /\ h \in Alive /\ r \in References(h)
        /\ client = "open" \/ warned
    BY ReferenceValid DEF ClientOk
  <2>4. TypeOK' /\ NoUseAfterFree'
    BY <2>1, <2>2, <2>3 DEF HInv, TypeOK, NoUseAfterFree, Labels
  <2>5. /\ pc'[t] = "decr_store" /\ hd'[t] = h /\ val'[t] = refcount[h]
    BY <2>1 DEF HInv, TypeOK
  <2> HIDE DEF h
  <2>6. /\ Cardinality(References(h)) = Cardinality({x \in Ref : target'[x] = h}) + 1
        /\ \A g \in Handle \ {h} : References(g)' = References(g)
    <3>1. target' = [target EXCEPT ![r] = Null]
      BY <2>1
    <3>2. /\ Cardinality(References(h)) = Cardinality({x \in Ref : target'[x] = h}) + 1
          /\ \A g \in Handle \ {h} :
               {x \in Ref : target'[x] = g} = References(g)
      BY <2>3, <3>1, ReferenceDropped DEF HInv, References
    <3> QED BY <3>2 DEF References
  <2>7. {x \in Ref : target'[x] = h} = References(hd[t])'
    BY <2>5 DEF References
  <2>8. Alive \subseteq Handle /\ refcount[h] = Cardinality(References(h))
    BY <2>2, <2>3 DEF Local, Alive
  <2>9. Alive' = Alive
    BY <2>2, SameAlive
  <2>10. /\ \A g \in Handle : g \notin Alive => References(g)' = {}
         /\ \A g \in Alive \ {h} :
              /\ refcount'[g] = Cardinality(References(g)')
              /\ References(g)' # {}
    BY <2>2, <2>3, <2>6, <2>8 DEF Local, OneStream
  <2>11. /\ refcount'[h] = Cardinality(References(hd[t])') + 1
         /\ val'[t] = refcount'[h]
    BY <2>2, <2>5, <2>6, <2>7, <2>8
  <2>12. client = "open" => num_phonebook_handles = Cardinality(Alive)
    BY <2>2 DEF Local, Counting
  <2> QED BY <2>2, <2>3, <2>4, <2>5, <2>9, <2>10, <2>11, <2>12
          DEF Local, OneStream, Counting, NeedsClient
<1>2. CASE ReleaseStore(t)
  <2>1. /\ pc[t] = "decr_store"
        /\ refcount' = [refcount EXCEPT ![hd[t]] = Minus(val[t])]
        /\ pc' = [pc EXCEPT ![t] = "test"]
        /\ UNCHANGED <<client, num_phonebook_handles, warned, memory, target,
                       hd, val, fault>>
    BY <1>2, Pointers DEF ReleaseStore, Goto, OneStream
  <2>2. hd[t] \in Alive /\ hd[t] \in Handle /\ (client = "open" \/ warned)
    BY <2>1, Pointers DEF OneStream, ClientOk
  <2>3. /\ refcount'[hd[t]] = Minus(val[t])
        /\ refcount'[hd[t]] = Cardinality(References(hd[t]))
        /\ refcount'[hd[t]] \in 0..CountMax
        /\ \A g \in Handle \ {hd[t]} : refcount'[g] = refcount[g]
    <3>1. val[t] = Cardinality(References(hd[t])) + 1
      BY <2>1 DEF Local
    <3>2. Minus(val[t]) = Cardinality(References(hd[t]))
      BY <3>1, ReferencesFinite DEF Minus
    <3>3. Minus(val[t]) \in 0..CountMax
      BY <3>2, ReferencesFinite, HandleAssumption
    <3> QED BY <2>1, <2>2, <3>2, <3>3 DEF HInv, TypeOK
  <2>4. TypeOK' /\ NoUseAfterFree'
    BY <2>1, <2>2, <2>3 DEF HInv, TypeOK, NoUseAfterFree, Labels
  <2>5. pc'[t] = "test"
    BY <2>1 DEF HInv, TypeOK
  <2>6. Alive \subseteq Handle
    BY DEF Alive
  <2> QED BY <2>1, <2>2, <2>3, <2>4, <2>5, <2>6, SameReferences, SameAlive
          DEF Local, OneStream, Counting, NeedsClient
<1>3. CASE ReleaseTest(t)
  <2>1. /\ pc[t] = "test" /\ HandleOk(hd[t]) /\ hd[t] \in Alive
        /\ ClientOk \/ warned
        /\ refcount[hd[t]] = Minus(val[t])
    BY <1>3, Pointers DEF ReleaseTest, OneStream, Local
  <2>2. References(hd[t])' = References(hd[t])
    BY <1>3 DEF ReleaseTest, Crash, References
  <2>3. CASE Crash("freed_client")
    <3>1. CASE ClientOk
      BY <1>3, <2>1, <2>3, <3>1 DEF ReleaseTest, Goto, Crash, HInv, TypeOK
    <3>2. CASE warned
      <4>1. TypeOK' /\ NoUseAfterFree'
        BY <2>3, <3>2 DEF Crash, HInv, TypeOK, NoUseAfterFree
      <4>2. UNCHANGED <<client, num_phonebook_handles, warned, memory,
                        refcount, target, pc, hd, val>>
        BY <2>3 DEF Crash
      <4> QED BY <2>1, <2>2, <3>2, <4>1, <4>2, SameReferences, SameAlive
              DEF Local, OneStream, Counting, NeedsClient, Minus
    <3> QED BY <2>1, <3>1, <3>2
  <2>4. CASE ~Crash("freed_client")
    <3>1. \/ /\ refcount[hd[t]] = 0 /\ ClientOk
             /\ pc' = [pc EXCEPT ![t] = "uncount"]
          \/ /\ refcount[hd[t]] # 0
             /\ pc' = [pc EXCEPT ![t] = "idle"]
      BY <1>3, <2>1, <2>4 DEF ReleaseTest, Goto
    <3>2. UNCHANGED <<client, num_phonebook_handles, warned, memory, refcount,
                      target, hd, val, fault>>
      BY <1>3, <2>1, <2>4 DEF ReleaseTest
    <3>3. TypeOK' /\ NoUseAfterFree'
      BY <3>1, <3>2 DEF HInv, TypeOK, NoUseAfterFree, Labels
    <3>4. refcount[hd[t]] = Cardinality(References(hd[t]))
      BY <2>1 DEF Local
    <3>5. refcount[hd[t]] = 0 <=> References(hd[t]) = {}
      BY <3>4, ReferencesFinite, FS_EmptySet
    <3>6. /\ pc'[t] = IF refcount[hd[t]] = 0 THEN "uncount" ELSE "idle"
          /\ refcount[hd[t]] = 0 => client = "open"
      BY <3>1 DEF HInv, TypeOK, ClientOk
    <3> QED BY <2>1, <2>2, <3>2, <3>3, <3>4, <3>5, <3>6, SameReferences,
               SameAlive
            DEF Local, OneStream, Counting, NeedsClient, ClientOk
  <2> QED BY <2>3, <2>4
<1> QED BY <1>1, <1>2, <1>3

LEMMA FreeStep ==
  ASSUME HInv, NEW t \in Thread, Local(t),
         UncountLoad(t) \/ UncountStore(t) \/ ReleaseFree(t)
  PROVE  TypeOK' /\ NoUseAfterFree' /\ Local(t)'
<1>1. CASE UncountLoad(t)
  <2>1. /\ pc[t] = "uncount" /\ ClientOk
        /\ pc' = [pc EXCEPT ![t] = "uncount_store"]
        /\ hd' = [hd EXCEPT ![t] = hd[t]]
        /\ val' = [val EXCEPT ![t] = num_phonebook_handles]
        /\ UNCHANGED <<client, num_phonebook_handles, warned, memory,
                       refcount, target, fault>>
    BY <1>1, Pointers DEF UncountLoad, Load, Goto, OneStream, NeedsClient
  <2>2. TypeOK' /\ NoUseAfterFree'
    BY <2>1 DEF HInv, TypeOK, NoUseAfterFree, Labels
  <2>3. pc'[t] = "uncount_store" /\ val'[t] = num_phonebook_handles
         /\ hd' = hd
    BY <2>1 DEF HInv, TypeOK
  <2>4. References(hd[t])' = References(hd[t])
    BY <2>1, <2>3 DEF References
  <2> QED BY <2>1, <2>2, <2>3, <2>4, SameReferences, SameAlive
          DEF Local, OneStream, Counting, NeedsClient
<1>2. CASE UncountStore(t)
  <2>1. /\ pc[t] = "uncount_store" /\ ClientOk /\ hd[t] \in Alive
        /\ num_phonebook_handles' = Minus(val[t])
        /\ pc' = [pc EXCEPT ![t] = "free"]
        /\ UNCHANGED <<client, warned, memory, refcount, target, hd, val,
                       fault>>
    BY <1>2, Pointers DEF UncountStore, Goto, OneStream, NeedsClient
  <2>2. Cardinality(Alive) > 0
    BY <2>1, AliveFinite, FS_EmptySet
  <2>3. /\ num_phonebook_handles' + 1 = Cardinality(Alive)
        /\ num_phonebook_handles' \in 0..CountMax
    <3>1. val[t] = Cardinality(Alive)
      BY <2>1 DEF Local, Counting, ClientOk
    <3>2. num_phonebook_handles' = Cardinality(Alive) - 1
      BY <2>1, <2>2, <3>1, AliveFinite DEF Minus
    <3> QED BY <2>2, <3>2, AliveFinite, HandleAssumption
  <2>4. TypeOK' /\ NoUseAfterFree'
    BY <2>1, <2>3 DEF HInv, TypeOK, NoUseAfterFree, Labels
  <2>5. pc'[t] = "free"
    BY <2>1 DEF HInv, TypeOK
  <2>6. References(hd[t])' = References(hd[t])
    BY <2>1 DEF References
  <2> QED BY <2>1, <2>3, <2>4, <2>5, <2>6, SameReferences, SameAlive
          DEF Local, OneStream, Counting, NeedsClient, ClientOk
<1>3. CASE ReleaseFree(t)
  <2>1. /\ pc[t] = "free" /\ ClientOk /\ hd[t] \in Alive /\ hd[t] \in Handle
        /\ memory' = [memory EXCEPT ![hd[t]] = "freed"]
        /\ pc' = [pc EXCEPT ![t] = "idle"]
        /\ UNCHANGED <<client, num_phonebook_handles, warned, refcount,
                       target, hd, val, fault>>
    BY <1>3, Pointers DEF ReleaseFree, Goto, OneStream, NeedsClient
  <2>2. TypeOK' /\ NoUseAfterFree'
    BY <2>1 DEF HInv, TypeOK, NoUseAfterFree, Labels
  <2>3. /\ Alive' = Alive \ {hd[t]}
        /\ Cardinality(Alive') = Cardinality(Alive) - 1
    BY <2>1, HandleFreed DEF HInv
  <2>4. num_phonebook_handles = Cardinality(Alive')
    BY <2>1, <2>3, AliveFinite DEF Local, HInv, TypeOK
  <2>5. pc'[t] = "idle"
    BY <2>1 DEF HInv, TypeOK
  <2> QED BY <2>1, <2>2, <2>3, <2>4, <2>5, SameReferences
          DEF Local, OneStream, Counting, NeedsClient, ClientOk
<1> QED BY <1>1, <1>2, <1>3

LEMMA CallStep ==
  ASSUME HInv, fault = "none", NEW t \in Thread, Local(t),
         CallStart(t) \/ CallEnd(t) \/ ClientFinalize(t)
  PROVE  TypeOK' /\ NoUseAfterFree' /\ Local(t)'
<1>1. CASE CallStart(t)
  <2>1. PICK r \in Ref \ References(Null) :
          IF ClientOk
          THEN /\ hd' = [hd EXCEPT ![t] = target[r]]
               /\ pc' = [pc EXCEPT ![t] = "call"]
               /\ UNCHANGED <<client, num_phonebook_handles, warned, memory,
                              refcount, target, val, fault>>
          ELSE Crash("freed_client")
    BY <1>1, ReferenceValid DEF CallStart, Goto
  <2>2. pc[t] = "idle" /\ target[r] \in Handle /\ (ClientOk \/ warned)
    BY <1>1, ReferenceValid DEF CallStart
  <2>3. CASE ClientOk
    <3>1. TypeOK' /\ NoUseAfterFree'
      BY <2>1, <2>2, <2>3 DEF HInv, TypeOK, NoUseAfterFree, Labels
    <3>2. pc'[t] = "call"
      BY <2>1, <2>3 DEF HInv, TypeOK
    <3> QED BY <2>1, <2>2, <2>3, <3>1, <3>2, SameReferences, SameAlive
            DEF Local, OneStream, Counting, NeedsClient, ClientOk
  <2>4. CASE ~ClientOk
    <3>1. TypeOK' /\ NoUseAfterFree'
      BY <2>1, <2>2, <2>4 DEF Crash, HInv, TypeOK, NoUseAfterFree
    <3> QED BY <2>1, <2>2, <2>4, <3>1, SameReferences, SameAlive
            DEF Crash, Local, OneStream, Counting, NeedsClient
  <2> QED BY <2>3, <2>4
<1>2. CASE CallEnd(t)
  <2>1. /\ pc[t] = "call" /\ pc' = [pc EXCEPT ![t] = "idle"]
        /\ UNCHANGED <<client, num_phonebook_handles, warned, memory,
                       refcount, target, hd, val, fault>>
    BY <1>2 DEF CallEnd, Goto
  <2>2. TypeOK' /\ NoUseAfterFree'
    BY <2>1 DEF HInv, TypeOK, NoUseAfterFree, Labels
  <2>3. pc'[t] = "idle"
    BY <2>1 DEF HInv, TypeOK
  <2> QED BY <2>1, <2>2, <2>3, SameReferences, SameAlive
          DEF Local, OneStream, Counting, NeedsClient
<1>3. CASE ClientFinalize(t)
  <2>1. /\ pc[t] = "idle" /\ client = "open"
        /\ client' = "freed" /\ warned' = (num_phonebook_handles # 0)
        /\ UNCHANGED <<num_phonebook_handles, memory, refcount, target, pc,
                       hd, val, fault>>
    BY <1>3 DEF ClientFinalize
  <2>2. TypeOK' /\ NoUseAfterFree'
    BY <2>1 DEF HInv, TypeOK, NoUseAfterFree
  <2>3. ~warned' => References(Null) = Ref
    <3> SUFFICES ASSUME ~warned' PROVE References(Null) = Ref
      OBVIOUS
    <3>1. Cardinality(Alive) = 0
      BY <2>1 DEF Local, Counting
    <3>2. Alive = {}
      BY <3>1, AliveFinite, FS_EmptySet
    <3> QED BY <3>2 DEF Local, References, HInv, TypeOK
  <2>4. References(Null)' = References(Null)
    BY <2>1 DEF References
  <2> QED BY <2>1, <2>2, <2>3, <2>4, SameReferences, SameAlive
          DEF Local, OneStream, Counting, NeedsClient
<1> QED BY <1>1, <1>2, <1>3
-----------------------------------------------------------------------------
LEMMA InitHInv == Init => HInv
<1> SUFFICES ASSUME Init PROVE HInv
  OBVIOUS
<1>1. TypeOK /\ NoUseAfterFree
  <2>1. 0 \in 0..CountMax
    BY HandleAssumption
  <2> QED BY <2>1 DEF Init, TypeOK, NoUseAfterFree, Labels
<1>2. Alive = {} /\ \A h \in Handle : References(h) = {}
  BY HandleAssumption DEF Init, Alive, References
<1>3. Cardinality(Alive) = 0
  BY <1>2, FS_EmptySet
<1>4. Alone /\ Working /\ Finalized
  BY DEF Init, Alone, Working, Finalized, OneStream
<1>5. Referenced /\ Counted
  BY <1>2, <1>3 DEF Init, Referenced, Counted, Alive
<1> QED BY <1>1, <1>4, <1>5 DEF HInv

LEMMA NextHInv ==
  ASSUME SingleStream, HInv, [Next]_vars
  PROVE  HInv'
<1>1. ASSUME NEW t \in Thread, fault = "none", Runs(t), Step(t)
      PROVE  HInv'
  <2>1. OthersRest(t)
    BY <1>1 DEF SingleStream, Runs, OthersRest, HInv, TypeOK
  <2>2. Local(t)
    BY <2>1, Localize
  <2>3. TypeOK' /\ NoUseAfterFree' /\ Local(t)'
    BY <1>1, <2>2, CreateStep, RefIncrStep, ReleaseStep, FreeStep, CallStep
    DEF Step
  <2>4. \A s \in Thread \ {t} : pc'[s] = pc[s]
    <3>1. \/ UNCHANGED pc
          \/ \E label \in Labels : pc' = [pc EXCEPT ![t] = label]
      BY <1>1 DEF Step, HandleCreate, CountLoad, CountStore, RefIncrLoad,
         RefIncrStore, ReleaseLoad, ReleaseStore, ReleaseTest, UncountLoad,
         UncountStore, ReleaseFree, CallStart, CallEnd, ClientFinalize,
         Load, Goto, Crash, Labels
    <3> QED BY <3>1 DEF HInv, TypeOK
  <2>5. OthersRest(t)'
    BY <2>1, <2>4 DEF OthersRest
  <2> QED BY <2>3, <2>5, Globalize
<1>2. CASE UNCHANGED vars
  <2>1. Alive' = Alive /\ \A h : References(h)' = References(h)
    BY <1>2, SameAlive, SameReferences DEF vars
  <2>2. TypeOK' /\ NoUseAfterFree' /\ Alone'
    BY <1>2 DEF vars, HInv, TypeOK, NoUseAfterFree, Alone
  <2>3. Counted' /\ Finalized'
    BY <1>2, <2>1 DEF vars, HInv, Counted, Finalized, Quiet, References
  <2>4. Referenced'
    BY <1>2, <2>1 DEF vars, HInv, Referenced, At
  <2>5. Working'
    <3>1. \A t \in Thread : References(hd[t])' = References(hd[t])
      BY <1>2 DEF vars, References
    <3> QED BY <1>2, <2>1, <3>1 DEF vars, HInv, Working, Minus
  <2> QED BY <2>2, <2>3, <2>4, <2>5 DEF HInv
<1> QED BY <1>1, <1>2 DEF Next, Ended, Halted

(* With one execution stream HInv always holds, for any number of threads, *)
(* handles and references, whenever the client is finalized.               *)
THEOREM HandleInvariant ==
  ASSUME SingleStream
  PROVE  Spec => []HInv
<1>1. HInv /\ [Next]_vars => HInv'
  BY NextHInv
<1> QED BY <1>1, InitHInv, PTL DEF Spec

(* No thread follows a pointer to a freed handle, and none to the freed    *)
(* client unless YP_client_finalize warned that handles were left.         *)
THEOREM HandleSafe ==
  ASSUME SingleStream
  PROVE  Spec => []NoUseAfterFree
<1>1. HInv => NoUseAfterFree
  BY DEF HInv
<1> QED BY <1>1, HandleInvariant, PTL

(* Between operations a handle is alive exactly while it is referenced,    *)
(* and its counter is the number of references.                            *)
THEOREM HandleCounts ==
  ASSUME SingleStream
  PROVE  Spec => []CountsReferences
<1>1. HInv => CountsReferences
  <2> SUFFICES ASSUME HInv, Quiet, NEW h \in Handle
               PROVE  /\ h \in Alive <=> References(h) # {}
                      /\ h \in Alive => refcount[h] = Cardinality(References(h))
    BY DEF CountsReferences
  <2>1. ~At({"count", "count_store", "decr_store"}, h) /\ ~At(Labels \ {"idle", "call"}, h)
    BY DEF Quiet, At, OneStream
  <2> QED BY <2>1 DEF HInv, Referenced
<1> QED BY <1>1, HandleInvariant, PTL

(* Between operations the client knows how many handles were not released. *)
THEOREM ClientCounts ==
  ASSUME SingleStream
  PROVE  Spec => []CountsHandles
<1>1. HInv => CountsHandles
  BY DEF HInv, Counted, CountsHandles, Quiet, OneStream, Counting
<1> QED BY <1>1, HandleInvariant, PTL
=============================================================================
