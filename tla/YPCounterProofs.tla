--------------------------- MODULE YPCounterProofs ----------------------------
(***************************************************************************)
(* The counter and the lists of the provider whenever the load and the     *)
(* store of num_phonebooks are not separated: with one execution stream,   *)
(* whether or not backends block, drained or not, and even after some      *)
(* other undefined behaviour was met.                                      *)
(***************************************************************************)
EXTENDS YPProviderProofs, FiniteSetTheorems

(* There are no more phonebooks than a size_t counts.                      *)
Countable == IsFiniteSet(Id) /\ Cardinality(Id) <= SizeMax

LEMMA EverCardinality ==
  ASSUME Countable
  PROVE  Cardinality(Ever) \in Nat /\ Cardinality(Ever) <= SizeMax
<1>1. Ever \subseteq Id
  BY DEF Ever
<1>2. IsFiniteSet(Ever) /\ Cardinality(Ever) <= Cardinality(Id)
  BY <1>1, FS_Subset DEF Countable
<1>3. Cardinality(Ever) \in Nat /\ Cardinality(Id) \in Nat
  BY <1>2, FS_CardinalityType DEF Countable
<1> QED BY <1>2, <1>3, ProviderAssumption DEF Countable

LEMMA EverGrows ==
  ASSUME Countable, struct \in [Id -> {"none", "allocated", "freed"}],
         NEW id \in Id, struct[id] = "none",
         struct' = [struct EXCEPT ![id] = "allocated"]
  PROVE  Cardinality(Ever') = Cardinality(Ever) + 1
<1>1. Ever \subseteq Id /\ id \notin Ever /\ Ever' = Ever \cup {id}
  BY DEF Ever
<1>2. IsFiniteSet(Ever)
  BY <1>1, FS_Subset DEF Countable
<1> QED BY <1>1, <1>2, FS_AddElement

LEMMA EverKept ==
  ASSUME struct \in [Id -> {"none", "allocated", "freed"}],
         NEW id, struct[id] # "none",
         struct' = [struct EXCEPT ![id] = "freed"]
  PROVE  Ever' = Ever
BY DEF Ever

LEMMA SameTally ==
  ASSUME UNCHANGED <<app, phonebooks, struct, num_phonebooks>>,
         NEW p, NEW m, Tally(p, m)
  PROVE  Tally(p, m)'
BY DEF Tally, Ever, Registered

(* What CInv says of the counter and of the list when u is at work.        *)
LocalC(u) ==
  /\ pc[u] \notin Counting => Tally(0, 0)
  /\ pc[u] \in {"incr", "incr_store"} => Tally(1, 0)
  /\ pc[u] \in {"decr", "decr_store"} => Tally(0, 1)
  /\ pc[u] \in {"incr_store", "decr_store", "fill"} => cnt[u] = num_phonebooks
  /\ pc[u] = "fill" => Registered
  /\ pc[u] \in Working \ {"fill"} => req[u].op # "list"
  /\ pc[u] = "respond" /\ req[u].op = "list" /\ out[u].ret = "YP_SUCCESS"
       => ~Contains(out[u].val, Null)

Unbusy(u) == \A v \in ULT \ {u} : pc[v] \notin Busy

LEMMA LocalizeC ==
  ASSUME CInv, NEW u \in ULT, Unbusy(u)
  PROVE  LocalC(u)
BY DEF CInv, Tallied, Steady, Listing, LocalC, Unbusy, Busy, Counting

LEMMA GlobalizeC ==
  ASSUME CInv, TInv', fault' # "overflow", NEW u \in ULT, Unbusy(u),
         OthersKept(u), req' = req, LocalC(u)', Newborn'
  PROVE  CInv'
<1>1. \A v \in ULT \ {u} : pc'[v] = pc[v] /\ pc'[v] \notin Busy /\ out'[v] = out[v]
  BY DEF OthersKept, Unbusy
<1>2. Tallied'
  BY <1>1 DEF Tallied, LocalC, Busy, Counting
<1>3. Steady'
  BY <1>1 DEF Steady, LocalC, Busy, Counting
<1>4. Listing'
  BY <1>1 DEF CInv, Listing, LocalC
<1> QED BY <1>2, <1>3, <1>4 DEF CInv

LEMMA CrashC ==
  ASSUME CInv, NEW kind \in Faults \ {"overflow"}, Crash(kind)
  PROVE  CInv'
<1>1. TInv'
  BY CrashTInv DEF CInv
<1>2. Tallied' /\ Steady' /\ Newborn' /\ Listing'
  BY DEF CInv, Tallied, Tally, Ever, Registered, Steady, Newborn, Unborn, Listing,
         find_phonebook, Crash, server, thread, handler
<1> QED BY <1>1, <1>2 DEF CInv, Crash

LEMMA SameNewborn ==
  ASSUME CInv, NEW u \in ULT, OthersKept(u),
         UNCHANGED <<app, cur, phonebooks, struct>>,
         pc'[u] \in {"backend_new", "add"} =>
           pc[u] \in {"backend_new", "add"} /\ pb'[u] = pb[u]
  PROVE  Newborn'
BY DEF CInv, Newborn, Unborn, OthersKept, find_phonebook

(* The steps that leave the hash, its counter and its list alone.          *)
LEMMA QuietC ==
  ASSUME CInv, TInv', NEW u \in ULT, Unbusy(u), OthersKept(u), req' = req,
         UNCHANGED <<app, cur, phonebooks, struct, num_phonebooks, fault>>,
         pc[u] \notin Busy, pc'[u] \notin Busy,
         pc'[u] \in {"backend_new", "add"} =>
           pc[u] \in {"backend_new", "add"} /\ pb'[u] = pb[u],
         pc'[u] \in Working => req[u].op # "list",
         pc'[u] = "respond" /\ req[u].op = "list" =>
           out'[u].ret # "YP_SUCCESS"
  PROVE  CInv'
<1>1. Newborn'
  BY SameNewborn
<1>2. LocalC(u)
  BY LocalizeC
<1>3. Tally(0, 0)'
  BY <1>2, SameTally DEF LocalC, Busy
<1>4. LocalC(u)'
  BY <1>3 DEF LocalC, Busy, Counting, Registered
<1>5. fault' # "overflow"
  BY DEF CInv
<1> QED BY <1>1, <1>4, <1>5, GlobalizeC

LEMMA BeginC ==
  ASSUME CInv, TInv', NEW u \in ULT, Unbusy(u), OthersKept(u), req' = req,
         \/ Undecodable(u) \/ BadToken(u) \/ CloseBegin(u) \/ DestroyBegin(u)
         \/ UseBegin(u)
  PROVE  CInv'
<1> USE DEF CInv, TInv, TypeOK, Goto, Set, Finish, Answer, server, thread,
            Busy, Counting, Working, HandlerLabels
<1>a. ASSUME pc[u] = "queued", pb' = pb, UNCHANGED <<server, thread, fault>>,
             NEW label, NEW answer, Goto(u, label), Set(u, answer),
             \/ label = "done"
             \/ label = "respond" /\ answer.ret # "YP_SUCCESS"
      PROVE  CInv'
  <2>1. pc'[u] = label /\ out'[u] = answer
    BY <1>a
  <2>2. UNCHANGED <<app, cur, phonebooks, struct, num_phonebooks, fault>>
    BY <1>a
  <2> QED BY <1>a, <2>1, <2>2, QuietC
<1>1. CASE Undecodable(u) \/ BadToken(u)
  BY <1>1, <1>a DEF Undecodable, BadToken, Starts
<1>2. ASSUME NEW found \in {"backend_close", "backend_destroy", "use"},
             pc[u] = "queued", Lookup(u, found), req[u].op # "list"
      PROVE  CInv'
  <2>1. CASE find_phonebook(req[u].id)
    <3>1. pc'[u] = found
      BY <1>2, <2>1 DEF Lookup
    <3>2. UNCHANGED <<app, cur, phonebooks, struct, num_phonebooks, fault>>
      BY <1>2, <2>1 DEF Lookup
    <3> QED BY <1>2, <3>1, <3>2, QuietC
  <2>2. CASE ~find_phonebook(req[u].id)
    BY <1>2, <2>2, <1>a DEF Lookup
  <2> QED BY <2>1, <2>2
<1>3. CASE CloseBegin(u)
  BY <1>3, <1>2 DEF CloseBegin, Starts
<1>4. CASE DestroyBegin(u)
  BY <1>4, <1>2 DEF DestroyBegin, Starts
<1>5. CASE UseBegin(u)
  BY <1>5, <1>2 DEF UseBegin, Starts
<1> QED BY <1>1, <1>3, <1>4, <1>5

LEMMA CreateBeginC ==
  ASSUME CInv, TInv', NEW u \in ULT, Unbusy(u), OthersKept(u), req' = req,
         CreateBegin(u)
  PROVE  CInv'
<1> USE DEF CreateBegin, Starts, Goto, Set, Finish, Answer, server, thread
<1>0. TypeOK
  BY DEF CInv, TInv
<1>1. CASE ~find_backend_impl(req[u].type)
  <2>1. pc'[u] = "respond" /\ out'[u].ret = "YP_ERR_INVALID_BACKEND"
    BY <1>0, <1>1 DEF TypeOK
  <2>2. UNCHANGED <<app, cur, phonebooks, struct, num_phonebooks, fault>>
    OBVIOUS
  <2> QED BY <2>1, <2>2, QuietC DEF Busy, Counting, Working
<1>2. CASE find_backend_impl(req[u].type)
  <2>1. PICK id \in Id : Fresh(id) /\ pb' = [pb EXCEPT ![u] = id]
    BY <1>2
  <2>2. pc'[u] = "backend_new" /\ pb'[u] = id
    BY <1>0, <1>2, <2>1 DEF TypeOK
  <2>3. Newborn'
    BY <2>1, <2>2 DEF CInv, Newborn, Unborn, OthersKept, Fresh, find_phonebook
  <2>4. LocalC(u)
    BY LocalizeC
  <2>5. Tally(0, 0)'
    BY <2>4, SameTally DEF LocalC, Counting
  <2>6. LocalC(u)'
    BY <2>2, <2>5 DEF LocalC, Counting, Working
  <2>7. fault' # "overflow"
    BY DEF CInv
  <2> QED BY <2>3, <2>6, <2>7, GlobalizeC
<1> QED BY <1>1, <1>2

LEMMA ListBeginC ==
  ASSUME CInv, TInv', NEW u \in ULT, Unbusy(u), OthersKept(u), req' = req,
         ListBegin(u)
  PROVE  CInv'
<1> USE DEF ListBegin, Starts, Goto, server, thread
<1>1. pc'[u] = "fill" /\ cnt'[u] = num_phonebooks' /\ Registered'
  BY DEF CInv, TInv, TypeOK, Registered
<1>2. LocalC(u)
  BY LocalizeC
<1>3. Tally(0, 0)'
  BY <1>2, SameTally DEF LocalC, Counting
<1>4. LocalC(u)'
  BY <1>1, <1>3 DEF LocalC, Counting, Working
<1>5. Newborn' /\ fault' # "overflow"
  BY <1>1, SameNewborn DEF CInv
<1> QED BY <1>4, <1>5, GlobalizeC

(* The steps that reach a backend, and the end of a handler.               *)
LEMMA BackendC ==
  ASSUME CInv, TInv', NEW u \in ULT, Unbusy(u), OthersKept(u), req' = req,
         \/ BackendNew(u) \/ BackendNewFails(u) \/ CloseBackend(u)
         \/ DestroyBackend(u) \/ RemoveDestroyed(u) \/ Use(u) \/ Respond(u)
  PROVE  CInv'
<1> USE DEF Goto, Set, Finish, server, thread, Faults
<1>0. TypeOK
  BY DEF CInv, TInv
<1>a. ASSUME pc[u] \in {"backend_new", "backend_close", "backend_destroy",
                        "remove", "use", "respond"},
             NEW label, Goto(u, label), pb' = pb,
             UNCHANGED <<app, cur, phonebooks, struct, num_phonebooks, fault>>,
             \/ label \in {"done", "unlink", "remove", "unlink_destroyed"}
             \/ label = "add" /\ pc[u] = "backend_new"
             \/ label = "respond" /\ pc[u] # "respond",
             pc[u] = "respond" => label = "done"
      PROVE  CInv'
  <2>1. pc'[u] = label
    BY <1>0, <1>a DEF TypeOK
  <2>2. pc[u] # "respond" => req[u].op # "list"
    BY <1>a DEF CInv, Listing, Working, HandlerLabels
  <2>3. pc[u] \notin Busy /\ pc'[u] \notin Busy
    BY <1>a, <2>1 DEF Busy, Counting
  <2> QED BY <1>a, <2>1, <2>2, <2>3, QuietC DEF Working
<1>1. CASE BackendNew(u)
  BY <1>1, <1>a DEF BackendNew
<1>2. CASE CloseBackend(u)
  <2>1. CASE Usable(pb[u])
    BY <1>2, <2>1, <1>a DEF CloseBackend
  <2>2. CASE ~Usable(pb[u])
    BY <1>2, <2>2, CrashC DEF CloseBackend
  <2> QED BY <2>1, <2>2
<1>3. CASE DestroyBackend(u)
  <2>1. CASE Usable(pb[u])
    BY <1>3, <2>1, <1>a DEF DestroyBackend
  <2>2. CASE ~Usable(pb[u])
    BY <1>3, <2>2, CrashC DEF DestroyBackend
  <2> QED BY <2>1, <2>2
<1>4. CASE RemoveDestroyed(u)
  <2>1. CASE Allocated
    BY <1>4, <2>1, <1>a DEF RemoveDestroyed
  <2>2. CASE ~Allocated
    BY <1>4, <2>2, CrashC DEF RemoveDestroyed
  <2> QED BY <2>1, <2>2
<1>5. CASE Use(u)
  <2>1. CASE Usable(pb[u])
    BY <1>5, <2>1, <1>a DEF Use
  <2>2. CASE ~Usable(pb[u])
    BY <1>5, <2>2, CrashC DEF Use
  <2> QED BY <2>1, <2>2
<1>6. CASE Respond(u)
  BY <1>6, <1>a DEF Respond
<1>7. CASE BackendNewFails(u)
  <2>1. CASE Allocated \/ req[u].op = "open"
    BY <1>7, <2>1, <1>a DEF BackendNewFails
  <2>2. CASE ~(Allocated \/ req[u].op = "open")
    BY <1>7, <2>2, CrashC DEF BackendNewFails
  <2> QED BY <2>1, <2>2
<1> QED BY <1>1, <1>2, <1>3, <1>4, <1>5, <1>6, <1>7

LEMMA AddC ==
  ASSUME Countable, CInv, TInv', NEW u \in ULT, Unbusy(u), OthersKept(u),
         req' = req, AddPhonebook(u)
  PROVE  CInv'
<1> USE DEF AddPhonebook, Goto, server, thread
<1>0. TypeOK /\ pb[u] \in Id /\ struct[pb[u]] = "none"
  BY DEF CInv, TInv, Bound, Newborn, Unborn
<1>1. CASE ~Allocated
  BY <1>1, CrashC DEF Faults
<1>2. CASE Allocated
  <2>1. /\ phonebooks' = Append(phonebooks, pb[u])
        /\ struct' = [struct EXCEPT ![pb[u]] = "allocated"]
        /\ pc'[u] = "incr" /\ pb' = pb /\ fault' = fault
        /\ UNCHANGED <<app, cur, num_phonebooks>>
    BY <1>0, <1>2 DEF TypeOK
  <2>2. Len(phonebooks) \in Nat /\ Len(phonebooks') = Len(phonebooks) + 1
    BY <1>0, <2>1, LenProperties, AppendProperties DEF TypeOK
  <2>3. Cardinality(Ever') = Cardinality(Ever) + 1 /\ Cardinality(Ever) \in Nat
    BY <1>0, <2>1, EverGrows, EverCardinality DEF TypeOK
  <2>4. Tally(0, 0)
    BY LocalizeC DEF LocalC, Counting
  <2>5. num_phonebooks \in Nat
    BY <1>0 DEF TypeOK
  <2>6. Tally(1, 0)'
    BY <2>1, <2>2, <2>3, <2>4, <2>5 DEF Tally, Registered
  <2>7. LocalC(u)'
    <3>1. req[u].op # "list"
      BY DEF CInv, Listing, Working, HandlerLabels
    <3> QED BY <2>1, <2>6, <3>1 DEF LocalC, Counting
  <2>8. Newborn'
    <3>1. ASSUME NEW id \in Id, Contains(phonebooks, id)'
          PROVE  Contains(phonebooks, id) \/ id = pb[u]
      BY <1>0, <2>1, <3>1, AppendContains DEF TypeOK
    <3>2. \A id \in Id : find_phonebook(id)' => struct'[id] # "none"
      BY <1>0, <2>1, <3>1 DEF CInv, Newborn, Unborn, find_phonebook, TypeOK
    <3>3. \A v \in ULT : pc'[v] \in {"backend_new", "add"} =>
            v # u /\ pc[v] = pc'[v] /\ pb[v] # pb[u]
      BY <2>1 DEF CInv, Newborn, Unborn, OthersKept
    <3> QED BY <1>0, <2>1, <3>2, <3>3 DEF CInv, TInv, Bound, Newborn, Unborn, TypeOK
  <2> QED BY <2>1, <2>7, <2>8, GlobalizeC DEF CInv
<1> QED BY <1>1, <1>2

(* The loads and the stores of the counter.                                *)
LEMMA LoadC ==
  ASSUME CInv, TInv', NEW u \in ULT, Unbusy(u), OthersKept(u), req' = req,
         IncrLoad(u) \/ DecrLoad(u)
  PROVE  CInv'
<1> USE DEF IncrLoad, DecrLoad, LoadCount, Goto, server, thread
<1>0. TypeOK
  BY DEF CInv, TInv
<1>1. CASE ~Allocated
  BY <1>1, CrashC DEF Faults
<1>2. CASE Allocated
  <2>1. /\ cnt'[u] = num_phonebooks
        /\ UNCHANGED <<app, cur, phonebooks, struct, num_phonebooks, fault, pb>>
        /\ \/ pc[u] = "incr" /\ pc'[u] = "incr_store"
           \/ pc[u] = "decr" /\ pc'[u] = "decr_store"
    BY <1>0, <1>2 DEF TypeOK
  <2>2. LocalC(u)
    BY LocalizeC
  <2>3. /\ pc[u] = "incr" => Tally(1, 0)'
        /\ pc[u] = "decr" => Tally(0, 1)'
    BY <2>1, <2>2, SameTally DEF LocalC
  <2>4. LocalC(u)'
    BY <2>1, <2>2, <2>3 DEF LocalC, Counting, Working, HandlerLabels
  <2>5. Newborn'
    BY <2>1, SameNewborn
  <2> QED BY <2>1, <2>4, <2>5, GlobalizeC DEF CInv
<1> QED BY <1>1, <1>2

LEMMA StoreC ==
  ASSUME Countable, CInv, TInv', NEW u \in ULT, Unbusy(u), OthersKept(u),
         req' = req, IncrStore(u) \/ DecrStore(u)
  PROVE  CInv'
<1> USE DEF IncrStore, DecrStore, StoreCount, Goto, Set, Finish, server, thread
<1>0. TypeOK /\ LocalC(u)
  BY LocalizeC DEF CInv, TInv
<1>1. CASE ~Allocated
  BY <1>1, CrashC DEF Faults
<1>2. CASE Allocated
  <2>1. /\ UNCHANGED <<app, cur, phonebooks, struct, fault, pb>>
        /\ pc'[u] = "respond"
        /\ Ever' = Ever
    BY <1>0, <1>2 DEF TypeOK, Ever
  <2>2. /\ Len(phonebooks) \in Nat /\ num_phonebooks \in 0..SizeMax
        /\ SizeMax \in Nat
        /\ Cardinality(Ever) \in Nat /\ Cardinality(Ever) <= SizeMax
    BY <1>0, EverCardinality, LenProperties, ProviderAssumption DEF TypeOK
  <2>3. app # "end"
    BY <1>2 DEF Allocated
  <2>4. Tally(0, 0)'
    <3>1. CASE IncrStore(u)
      <4>1. Tally(1, 0) /\ cnt[u] = num_phonebooks
        BY <1>0, <3>1 DEF LocalC
      <4>2. num_phonebooks + 1 <= Cardinality(Ever)
        BY <4>1 DEF Tally
      <4>3. num_phonebooks' = num_phonebooks + 1
        BY <1>2, <2>2, <3>1, <4>1, <4>2
      <4> QED BY <2>1, <2>2, <4>1, <4>3 DEF Tally, Registered
    <3>2. CASE DecrStore(u)
      <4>1. Tally(0, 1) /\ cnt[u] = num_phonebooks
        BY <1>0, <3>2 DEF LocalC
      <4>2. num_phonebooks >= Len(phonebooks) + 1
        BY <2>2, <2>3, <4>1 DEF Tally
      <4>3. num_phonebooks' = num_phonebooks - 1
        BY <1>2, <2>2, <3>2, <4>1, <4>2
      <4> QED BY <2>1, <2>2, <4>1, <4>3 DEF Tally, Registered
    <3> QED BY <3>1, <3>2
  <2>5. req[u].op # "list"
    BY DEF CInv, Listing, Working, HandlerLabels
  <2>6. LocalC(u)'
    BY <2>1, <2>4, <2>5 DEF LocalC, Counting, Working
  <2>7. Newborn'
    BY <2>1, SameNewborn
  <2> QED BY <2>1, <2>6, <2>7, GlobalizeC DEF CInv
<1> QED BY <1>1, <1>2

LEMMA UnlinkedContains ==
  ASSUME phonebooks \in Seq(Id), NEW id, Unlinked(id)
  PROVE  /\ Len(phonebooks) \in Nat /\ Len(phonebooks') \in Nat
         /\ Len(phonebooks') = Len(phonebooks) - 1
         /\ find_phonebook(id) /\ id \in Id
         /\ \A x : find_phonebook(x)' => find_phonebook(x)
<1>1. Len(phonebooks) \in Nat
  BY LenProperties
<1>2. /\ phonebooks' \in Seq(Id)
      /\ Len(phonebooks') = Len(phonebooks) - 1
  BY UnlinkedProperties
<1>3. PICK k \in 1..Len(phonebooks) :
        /\ phonebooks[k] = id
        /\ \A j \in 1..(Len(phonebooks) - 1) :
             phonebooks'[j] = IF j < k THEN phonebooks[j] ELSE phonebooks[j + 1]
  BY UnlinkedProperties
<1>4. find_phonebook(id)
  BY <1>3 DEF find_phonebook, Contains
<1>5. id \in Id
  BY <1>4, FoundIsId
<1>6. ASSUME NEW x, find_phonebook(x)'
      PROVE  find_phonebook(x)
  <2>1. PICK j \in 1..(Len(phonebooks) - 1) : phonebooks'[j] = x
    BY <1>2, <1>6 DEF find_phonebook, Contains
  <2>2. j \in 1..Len(phonebooks) /\ j + 1 \in 1..Len(phonebooks)
    BY <1>1, <2>1
  <2> QED BY <1>3, <2>1, <2>2 DEF find_phonebook, Contains
<1> QED BY <1>1, <1>2, <1>4, <1>5, <1>6, LenProperties

LEMMA UnlinkC ==
  ASSUME CInv, TInv', NEW u \in ULT, Unbusy(u), OthersKept(u), req' = req,
         Unlink(u)
  PROVE  CInv'
<1> USE DEF Unlink, Goto, server, thread
<1>0. TypeOK /\ LocalC(u)
  BY LocalizeC DEF CInv, TInv
<1>1. CASE ~(Allocated /\ find_phonebook(pb[u]))
  BY <1>1, CrashC DEF Faults
<1>2. CASE Allocated /\ find_phonebook(pb[u])
  <2>1. /\ Unlinked(pb[u])
        /\ struct' = [struct EXCEPT ![pb[u]] = "freed"]
        /\ pc'[u] = "decr"
        /\ UNCHANGED <<app, cur, num_phonebooks, fault, pb>>
    BY <1>0, <1>2 DEF TypeOK
  <2>2. /\ Len(phonebooks) \in Nat /\ Len(phonebooks') \in Nat
        /\ Len(phonebooks') = Len(phonebooks) - 1
        /\ pb[u] \in Id
        /\ \A x : find_phonebook(x)' => find_phonebook(x)
    BY <1>0, <2>1, UnlinkedContains DEF TypeOK
  <2>3. struct[pb[u]] # "none"
    BY <1>2, <2>2 DEF CInv, Newborn, Unborn
  <2>4. Ever' = Ever
    BY <1>0, <2>1, <2>3, EverKept DEF TypeOK
  <2>5. Tally(0, 0)
    BY <1>0 DEF LocalC, Counting
  <2>6. num_phonebooks \in Nat
    BY <1>0 DEF TypeOK
  <2>7. Tally(0, 1)'
    BY <2>1, <2>2, <2>4, <2>5, <2>6 DEF Tally, Registered
  <2>8. req[u].op # "list"
    BY DEF CInv, Listing, Working, HandlerLabels
  <2>9. LocalC(u)'
    BY <2>1, <2>7, <2>8 DEF LocalC, Counting
  <2>10. Newborn'
    <3>1. \A id \in Id : struct'[id] = "none" <=> struct[id] = "none"
      BY <1>0, <2>1, <2>3 DEF TypeOK
    <3>2. \A v \in ULT : pc'[v] \in {"backend_new", "add"} =>
            pc[v] = pc'[v] /\ pb[v] \in Id
      BY <2>1 DEF CInv, TInv, Bound, OthersKept
    <3> QED BY <2>1, <2>2, <3>1, <3>2 DEF CInv, Newborn, Unborn
  <2> QED BY <2>1, <2>9, <2>10, GlobalizeC DEF CInv
<1> QED BY <1>1, <1>2

LEMMA FillC ==
  ASSUME CInv, TInv', NEW u \in ULT, Unbusy(u), OthersKept(u), req' = req,
         Fill(u)
  PROVE  CInv'
<1> USE DEF Goto, Set, Finish, Answer, server, thread
<1>0. TypeOK /\ LocalC(u) /\ pc[u] = "fill" /\ req[u] \in list_phonebooks_in_t
  BY LocalizeC DEF CInv, TInv, Bound, Fill
<1>1. Registered /\ Tally(0, 0) /\ cnt[u] = num_phonebooks
  BY <1>0 DEF LocalC, Counting
<1>2. Allocated /\ Len(phonebooks) = cnt[u] /\ cnt[u] \in Nat
  BY <1>0, <1>1, LenProperties DEF Tally, Registered, Allocated, TypeOK
<1> DEFINE count == IF cnt[u] < req[u].max_ids THEN cnt[u] ELSE req[u].max_ids
           ids == [i \in 1..count |->
                     IF i <= Len(phonebooks) THEN phonebooks[i] ELSE Null]
<1>3. /\ pc' = [pc EXCEPT ![u] = "respond"]
      /\ out' = [out EXCEPT ![u] = [ret |-> "YP_SUCCESS", val |-> ids]]
      /\ UNCHANGED <<app, cur, phonebooks, struct, num_phonebooks, fault, pb>>
  BY <1>2 DEF Fill
<1>4. count \in Nat /\ count <= Len(phonebooks)
  BY <1>0, <1>2, VocabularyAssumption DEF list_phonebooks_in_t
<1>5. ~Contains(ids, Null)
  <2> HIDE DEF count
  <2>1. Len(ids) = count
    BY <1>4
  <2>2. \A i \in 1..count : ids[i] = phonebooks[i] /\ phonebooks[i] \in Id
    BY <1>0, <1>2, <1>4, ElementOfSeq DEF TypeOK
  <2> HIDE DEF ids
  <2> QED BY <2>1, <2>2, VocabularyAssumption DEF Contains
<1> HIDE DEF ids
<1>6. pc'[u] = "respond" /\ out'[u].val = ids
  BY <1>0, <1>3 DEF TypeOK
<1>7. Tally(0, 0)'
  BY <1>1, <1>3, SameTally
<1>8. LocalC(u)'
  BY <1>5, <1>6, <1>7 DEF LocalC, Counting, Working
<1>9. Newborn'
  BY <1>3, <1>6, SameNewborn
<1> QED BY <1>3, <1>8, <1>9, GlobalizeC DEF CInv

(* A step of a handler, when no other handler is busy.                     *)
LEMMA HandlerC ==
  ASSUME Uninterrupted, Countable, CInv, fault = "none",
         NEW u \in ULT, HandlerRuns(u), Handle(u)
  PROVE  CInv'
<1>1. Unbusy(u)
  BY DEF HandlerRuns, Uninterrupted, Unbusy
<1>2. TInv'
  BY HandlerTInv DEF CInv
<1>3. OthersKept(u) /\ req' = req
  BY HandlerFrame DEF CInv, TInv
<1>4. CASE Orphaned(u) \/ NullCompared(u)
  BY <1>4, CrashC DEF Orphaned, NullCompared, Faults
<1>5. CASE \/ Undecodable(u) \/ BadToken(u) \/ CloseBegin(u) \/ DestroyBegin(u)
           \/ UseBegin(u)
  BY <1>1, <1>2, <1>3, <1>5, BeginC
<1>6. CASE CreateBegin(u)
  BY <1>1, <1>2, <1>3, <1>6, CreateBeginC
<1>7. CASE ListBegin(u)
  BY <1>1, <1>2, <1>3, <1>7, ListBeginC
<1>8. CASE \/ BackendNew(u) \/ BackendNewFails(u) \/ CloseBackend(u)
           \/ DestroyBackend(u) \/ RemoveDestroyed(u) \/ Use(u) \/ Respond(u)
  BY <1>1, <1>2, <1>3, <1>8, BackendC
<1>9. CASE AddPhonebook(u)
  BY <1>1, <1>2, <1>3, <1>9, AddC
<1>10. CASE IncrLoad(u) \/ DecrLoad(u)
  BY <1>1, <1>2, <1>3, <1>10, LoadC
<1>11. CASE IncrStore(u) \/ DecrStore(u)
  BY <1>1, <1>2, <1>3, <1>11, StoreC
<1>12. CASE Unlink(u)
  BY <1>1, <1>2, <1>3, <1>12, UnlinkC
<1>13. CASE Fill(u)
  BY <1>1, <1>2, <1>3, <1>13, FillC
<1> QED
  BY <1>4, <1>5, <1>6, <1>7, <1>8, <1>9, <1>10, <1>11, <1>12, <1>13 DEF Handle
-----------------------------------------------------------------------------
(* The application's steps, which run when no handler is busy.             *)
LEMMA RestC ==
  ASSUME Uninterrupted, ApplicationRuns, CInv, TInv', fault' = fault,
         UNCHANGED handler, Tally(0, 0)', Newborn'
  PROVE  CInv'
<1>1. \A u \in ULT : pc[u] \notin Busy
  BY DEF ApplicationRuns, Uninterrupted
<1>2. Tallied'
  BY <1>1 DEF Tallied, handler, Busy, Counting
<1>3. Steady'
  BY <1>1 DEF Steady, handler, Busy, Counting
<1>4. Listing'
  BY DEF CInv, Listing, handler
<1> QED BY <1>2, <1>3, <1>4 DEF CInv

LEMMA CalmTally ==
  ASSUME Uninterrupted, ApplicationRuns, CInv
  PROVE  Tally(0, 0)
BY DEF ApplicationRuns, Uninterrupted, CInv, Tallied, Busy

LEMMA RegistrationC ==
  ASSUME Uninterrupted, ApplicationRuns, Countable, CInv, TInv',
         \/ RegisterStart \/ RegisterEntry \/ RegisterDone \/ RegisterBackend
  PROVE  CInv'
<1> USE DEF server, thread, handler
<1>0. TypeOK /\ Tally(0, 0) /\ Newborn
  BY CalmTally DEF CInv, TInv
<1>a. ASSUME UNCHANGED <<phonebooks, num_phonebooks, struct, handler, fault>>,
             app \in {"start", "registering", "serving"},
             app' \in {"registering", "serving"}
      PROVE  CInv'
  <2>1. Tally(0, 0)'
    BY <1>0, <1>a DEF Tally, Ever, Registered
  <2>2. Newborn'
    BY <1>0, <1>a DEF Newborn, Unborn, find_phonebook
  <2> QED BY <1>a, <2>1, <2>2, RestC
<1>1. CASE RegisterStart \/ RegisterDone \/ RegisterBackend
  BY <1>1, <1>a DEF RegisterStart, RegisterDone, RegisterBackend
<1>2. CASE RegisterEntry
  <2>1. CASE UNCHANGED server
    BY <1>2, <2>1, <1>a DEF RegisterEntry
  <2>2. CASE ~UNCHANGED server
    <3>1. PICK id \in Id :
            /\ Fresh(id)
            /\ struct' = [struct EXCEPT ![id] = "allocated"]
            /\ phonebooks' = Append(phonebooks, id)
            /\ num_phonebooks' = num_phonebooks + 1
      BY <1>2, <2>2 DEF RegisterEntry
    <3>2. app = "registering" /\ UNCHANGED <<app, cur, handler, fault>>
      BY <1>2 DEF RegisterEntry
    <3>3. Len(phonebooks) \in Nat /\ Len(phonebooks') = Len(phonebooks) + 1
      BY <1>0, <3>1, LenProperties, AppendProperties DEF TypeOK
    <3>4. Cardinality(Ever') = Cardinality(Ever) + 1 /\ Cardinality(Ever) \in Nat
      BY <1>0, <3>1, EverGrows, EverCardinality DEF TypeOK, Fresh
    <3>5. Tally(0, 0)'
      BY <1>0, <3>1, <3>2, <3>3, <3>4 DEF Tally, Registered, TypeOK
    <3>6. Newborn'
      <4>1. ASSUME NEW x \in Id, Contains(phonebooks, x)'
            PROVE  Contains(phonebooks, x) \/ x = id
        BY <1>0, <3>1, <4>1, AppendContains DEF TypeOK
      <4>2. \A x \in Id : find_phonebook(x)' => struct'[x] # "none"
        BY <1>0, <3>1, <4>1 DEF Newborn, Unborn, find_phonebook, TypeOK
      <4>3. \A u \in ULT : pc'[u] \in {"backend_new", "add"} =>
              struct'[pb'[u]] = "none"
        BY <1>0, <3>1, <3>2 DEF Newborn, Unborn, Fresh, TypeOK, CInv, TInv, Bound
      <4> QED BY <1>0, <3>2, <4>2, <4>3 DEF Newborn, Unborn
    <3> QED BY <3>2, <3>5, <3>6, RestC
  <2> QED BY <2>1, <2>2
<1> QED BY <1>1, <1>2

LEMMA FinalizationC ==
  ASSUME Uninterrupted, ApplicationRuns, Countable, CInv, TInv',
         FinBegin \/ FinUnlink \/ FinClose \/ FinFree \/ FinEnd
  PROVE  CInv'
<1> USE DEF server, thread, handler, Faults
<1>0. /\ TypeOK /\ Tally(0, 0) /\ Newborn
      /\ Len(phonebooks) \in Nat /\ num_phonebooks \in Nat
  BY CalmTally, LenProperties DEF CInv, TInv, TypeOK
<1>1. CASE FinBegin
  <2>1. UNCHANGED <<phonebooks, num_phonebooks, struct, handler, fault>>
    BY <1>1 DEF FinBegin
  <2>2. app = "serving" /\ app' \in {"fin_end", "fin_unlink"}
    BY <1>1 DEF FinBegin
  <2>3. Tally(0, 0)'
    BY <1>0, <2>1, <2>2 DEF Tally, Ever, Registered
  <2>4. app' = "fin_unlink" => phonebooks # <<>> /\ cur' = phonebooks[1]
    BY <1>1 DEF FinBegin
  <2>5. app' = "fin_unlink" => cur' \in Id /\ find_phonebook(cur')
    <3>1. phonebooks # <<>> => 1 \in 1..Len(phonebooks)
      BY <1>0, EmptySeq, LenProperties DEF TypeOK
    <3> QED BY <1>0, <2>4, <3>1, ElementOfSeq
            DEF find_phonebook, Contains, TypeOK
  <2>6. Newborn'
    BY <1>0, <2>1, <2>2, <2>5 DEF Newborn, Unborn, find_phonebook
  <2> QED BY <2>1, <2>3, <2>6, RestC
<1>2. CASE FinUnlink
  <2>1. CASE find_phonebook(cur)
    <3>1. /\ Unlinked(cur) /\ app = "fin_unlink" /\ app' = "fin_close"
          /\ UNCHANGED <<num_phonebooks, struct, cur, handler, fault>>
      BY <1>2, <2>1 DEF FinUnlink
    <3>2. /\ Len(phonebooks') \in Nat /\ Len(phonebooks') = Len(phonebooks) - 1
          /\ \A x : find_phonebook(x)' => find_phonebook(x)
      BY <1>0, <3>1, UnlinkedContains DEF TypeOK
    <3>3. Tally(0, 0)'
      BY <1>0, <3>1, <3>2 DEF Tally, Ever, Registered
    <3>4. Newborn'
      BY <1>0, <3>1, <3>2 DEF Newborn, Unborn
    <3> QED BY <3>1, <3>3, <3>4, RestC
  <2>2. CASE ~find_phonebook(cur)
    BY <1>2, <2>2, CrashC DEF FinUnlink
  <2> QED BY <2>1, <2>2
<1>3. CASE FinClose
  <2>1. CASE Usable(cur)
    <3>1. /\ app = "fin_close" /\ app' = "fin_free"
          /\ UNCHANGED <<phonebooks, num_phonebooks, struct, cur, handler, fault>>
      BY <1>3, <2>1 DEF FinClose
    <3>2. Tally(0, 0)'
      BY <1>0, <3>1 DEF Tally, Ever, Registered
    <3>3. Newborn'
      BY <1>0, <3>1 DEF Newborn, Unborn, find_phonebook
    <3> QED BY <3>1, <3>2, <3>3, RestC
  <2>2. CASE ~Usable(cur)
    BY <1>3, <2>2, CrashC DEF FinClose
  <2> QED BY <2>1, <2>2
<1>4. CASE FinFree
  <2>1. CASE nxt # Null /\ ~find_phonebook(nxt)
    BY <1>4, <2>1, CrashC DEF FinFree
  <2>2. CASE ~(nxt # Null /\ ~find_phonebook(nxt))
    <3>1. /\ app = "fin_free" /\ struct' = [struct EXCEPT ![cur] = "freed"]
          /\ UNCHANGED <<phonebooks, num_phonebooks, handler, fault>>
          /\ cur' = nxt
          /\ app' = IF nxt = Null THEN "fin_end" ELSE "fin_unlink"
      BY <1>4, <2>2 DEF FinFree
    <3>2. cur \in Id /\ struct[cur] # "none"
      BY <1>0, <3>1 DEF Newborn, Unborn
    <3>3. Ever' = Ever
      BY <1>0, <3>1, <3>2, EverKept DEF TypeOK
    <3>4. Tally(0, 0)'
      BY <1>0, <3>1, <3>3 DEF Tally, Registered
    <3>5. \A id \in Id : struct'[id] = "none" <=> struct[id] = "none"
      BY <1>0, <3>1, <3>2 DEF TypeOK
    <3>6. \A u \in ULT : pc[u] \in {"backend_new", "add"} => pb[u] \in Id
      BY DEF CInv, TInv, Bound
    <3>7. nxt # Null => nxt \in Id /\ struct[nxt] # "none"
      BY <1>0, <2>2 DEF TypeOK, Newborn, Unborn
    <3>8. Newborn'
      BY <1>0, <3>1, <3>5, <3>6, <3>7 DEF Newborn, Unborn, find_phonebook
    <3> QED BY <3>1, <3>4, <3>8, RestC
  <2> QED BY <2>1, <2>2
<1>5. CASE FinEnd
  <2>1. /\ app' = "end" /\ num_phonebooks' = 0
        /\ UNCHANGED <<phonebooks, struct, handler, fault>>
    BY <1>5 DEF FinEnd
  <2>2. Cardinality(Ever) \in Nat
    BY EverCardinality
  <2>3. Ever' = Ever
    BY <2>1 DEF Ever
  <2>4. Tally(0, 0)'
    BY <2>1, <2>2, <2>3 DEF Tally, Registered
  <2>5. Newborn'
    BY <1>0, <2>1 DEF Newborn, Unborn, find_phonebook
  <2> QED BY <2>1, <2>4, <2>5, RestC
<1> QED BY <1>1, <1>2, <1>3, <1>4, <1>5
-----------------------------------------------------------------------------
LEMMA InitC == Countable /\ Init => CInv
<1> SUFFICES ASSUME Countable, Init PROVE CInv
  OBVIOUS
<1>1. Cardinality(Ever) \in Nat
  BY EverCardinality
<1>2. Tally(0, 0)
  BY <1>1 DEF Init, Tally
<1>3. Tallied /\ Steady /\ Newborn /\ Listing
  BY <1>2 DEF Init, Tallied, Steady, Newborn, Unborn, Listing, Busy, Counting, Working,
              find_phonebook, Contains
<1> QED BY <1>3, InitTInv DEF CInv, Init

LEMMA ArriveC ==
  ASSUME CInv, TInv', NEW u \in ULT, Arrive(u)
  PROVE  CInv'
<1> USE DEF Arrive, Goto, server, thread
<1>0. TypeOK
  BY DEF CInv, TInv
<1>1. /\ pc[u] = "idle" /\ pc'[u] = "queued"
      /\ \A v \in ULT \ {u} : pc'[v] = pc[v] /\ req'[v] = req[v]
      /\ UNCHANGED <<app, cur, phonebooks, num_phonebooks, struct, pb, cnt, out,
                     fault>>
  BY <1>0 DEF TypeOK
<1>2. \A p, m : Tally(p, m)' <=> Tally(p, m)
  BY <1>1 DEF Tally, Ever, Registered
<1>3. Tallied'
  BY <1>1, <1>2 DEF CInv, Tallied, Counting
<1>4. Steady'
  BY <1>1 DEF CInv, Steady, Busy, Counting, Registered
<1>5. Newborn'
  BY <1>1 DEF CInv, Newborn, Unborn, find_phonebook
<1>6. Listing'
  BY <1>1 DEF CInv, Listing, Working
<1> QED BY <1>1, <1>3, <1>4, <1>5, <1>6 DEF CInv

LEMMA NextC ==
  ASSUME Uninterrupted, Countable
  PROVE  CInv /\ [Next]_vars => CInv'
<1> SUFFICES ASSUME CInv, [Next]_vars PROVE CInv'
  OBVIOUS
<1>0. TInv'
  BY NextTInv DEF CInv
<1>1. ASSUME NEW u \in ULT, Arrive(u) PROVE CInv'
  BY <1>0, <1>1, ArriveC
<1>2. ASSUME NEW u \in ULT, HandlerStep(u) PROVE CInv'
  BY <1>2, HandlerC DEF HandlerStep
<1>3. CASE ApplicationStep
  <2>1. CASE \/ RegisterStart \/ RegisterEntry \/ RegisterDone
             \/ RegisterBackend
    BY <1>0, <1>3, <2>1, RegistrationC DEF ApplicationStep
  <2>2. CASE FinBegin \/ FinUnlink \/ FinClose \/ FinFree \/ FinEnd
    BY <1>0, <1>3, <2>2, FinalizationC DEF ApplicationStep
  <2> QED BY <1>3, <2>1, <2>2 DEF ApplicationStep, Application
<1>4. CASE UNCHANGED vars
  BY <1>0, <1>4
     DEF CInv, Tallied, Tally, Ever, Registered, Steady, Newborn, Unborn, Listing,
         find_phonebook, vars, server, thread, handler
<1> QED BY <1>1, <1>2, <1>3, <1>4 DEF Next, Ended, Halted

(* Whether or not backends block and whatever finalization races with, the *)
(* counter, the hash and the lists stay in step.                           *)
THEOREM CounterInvariant ==
  ASSUME Uninterrupted, Countable
  PROVE  Spec => []CInv
<1>1. Init => CInv
  BY InitC
<1>2. CInv /\ [Next]_vars => CInv'
  BY NextC
<1> QED BY <1>1, <1>2, PTL DEF Spec

(* The unsigned counter never wraps: it is never below the number of       *)
(* phonebooks while the provider's memory exists.                          *)
THEOREM CountNeverShortThm ==
  ASSUME Uninterrupted, Countable
  PROVE  Spec => []CountNeverShort
<1>1. CInv => CountNeverShort
  <2> SUFFICES ASSUME CInv, Allocated, \A u \in ULT : pc[u] \notin Counting
               PROVE  num_phonebooks >= Len(phonebooks)
    BY DEF CountNeverShort
  <2>1. Tally(0, 0) /\ app # "end"
    BY DEF CInv, Tallied, Allocated
  <2>2. Len(phonebooks) \in Nat /\ num_phonebooks \in Nat
    BY LenProperties DEF CInv, TInv, TypeOK
  <2> QED BY <2>1, <2>2 DEF Tally
<1> QED BY <1>1, CounterInvariant, PTL

(* The array list allocates holds every phonebook, and every id it reports *)
(* was written.                                                            *)
THEOREM ListExactThm ==
  ASSUME Uninterrupted, Countable
  PROVE  Spec => []ListExact
<1>1. CInv => ListExact
  BY DEF CInv, Listing, ListExact
<1> QED BY <1>1, CounterInvariant, PTL

(* Until finalization begins, the counter is the number of phonebooks,     *)
(* backends that block included.                                           *)
THEOREM BlockingCountExact ==
  ASSUME Uninterrupted, Countable
  PROVE  Spec => []CountExact
<1>1. CInv => CountExact
  <2> SUFFICES ASSUME CInv, Registered, \A u \in ULT : pc[u] \notin Counting
               PROVE  num_phonebooks = Len(phonebooks)
    BY DEF CountExact
  <2>1. Tally(0, 0)
    BY DEF CInv, Tallied
  <2>2. Len(phonebooks) \in Nat /\ num_phonebooks \in Nat
    BY LenProperties DEF CInv, TInv, TypeOK
  <2> QED BY <2>1, <2>2 DEF Tally
<1> QED BY <1>1, CounterInvariant, PTL
=============================================================================
