-------------------------- MODULE YPProviderProofs ---------------------------
(***************************************************************************)
(* Theorems about YPProvider, for every value of its constants.            *)
(***************************************************************************)
EXTENDS YPProviderInv, SequenceLemmas

Faults == {"none", "null_string", "no_provider", "freed_provider",
           "dead_phonebook", "overflow"}

(* HASH_DEL leaves every other phonebook where iterators meet it.          *)
LEMMA UnlinkedProperties ==
  ASSUME phonebooks \in Seq(Id), NEW id, Unlinked(id)
  PROVE  /\ phonebooks' \in Seq(Id)
         /\ Len(phonebooks') = Len(phonebooks) - 1
         /\ \E k \in 1..Len(phonebooks) :
              /\ phonebooks[k] = id
              /\ \A j \in 1..(Len(phonebooks) - 1) :
                   phonebooks'[j] = IF j < k THEN phonebooks[j]
                                             ELSE phonebooks[j + 1]
<1>1. PICK k \in 1..Len(phonebooks) :
        phonebooks[k] = id /\ phonebooks' = RemoveAt(phonebooks, k)
  BY DEF Unlinked
<1> QED BY <1>1, RemoveAtProperties

(* What can be found is an id, and a phonebook's successor is one or NULL. *)
LEMMA FoundIsId ==
  ASSUME phonebooks \in Seq(Id), NEW id, find_phonebook(id)
  PROVE  id \in Id
<1>1. PICK i \in 1..Len(phonebooks) : phonebooks[i] = id
  BY DEF find_phonebook, Contains
<1> QED BY <1>1, ElementOfSeq

LEMMA SuccType ==
  ASSUME phonebooks \in Seq(Id), NEW id
  PROVE  Succ(id) \in Id \cup {Null}
<1> DEFINE after == {k \in 2..Len(phonebooks) : phonebooks[k - 1] = id}
<1>1. CASE after = {}
  BY <1>1 DEF Succ
<1>2. CASE after # {}
  <2> DEFINE k == CHOOSE k \in after : TRUE
  <2>1. k \in after
    BY <1>2
  <2>2. Len(phonebooks) \in Nat
    BY LenProperties
  <2>3. k \in 1..Len(phonebooks)
    BY <2>1, <2>2
  <2>4. Succ(id) = phonebooks[k]
    BY <1>2 DEF Succ
  <2> HIDE DEF k
  <2> QED BY <2>3, <2>4, ElementOfSeq
<1> QED BY <1>1, <1>2
-----------------------------------------------------------------------------
(* Requests and responses.                                                 *)
LEMMA RequestFields ==
  ASSUME NEW r \in Request
  PROVE  /\ r.op \in {"create", "open", "close", "destroy", "list", "hello", "sum"}
         /\ r.op = "list" => r \in list_phonebooks_in_t
         /\ r.op = "sum" => r.id \in Id
BY DEF Request, create_phonebook_in_t, open_phonebook_in_t,
       close_phonebook_in_t, destroy_phonebook_in_t, list_phonebooks_in_t,
       hello_in_t, sum_in_t

LEMMA AnswerType ==
  ASSUME NEW ret \in YP_return_t \cup {"no response"},
         NEW val \in Id \cup {Null} \cup Seq(Id \cup {Null})
  PROVE  Answer(ret, val) \in Response
BY DEF Answer, Response

LEMMA NoResponseType == NoResponse \in Response
BY AnswerType DEF NoResponse
-----------------------------------------------------------------------------
(* Type correctness.  The steps that stop the model come first.            *)
LEMMA CrashTInv ==
  ASSUME TInv, NEW kind \in Faults, Crash(kind)
  PROVE  TInv'
BY DEF TInv, TypeOK, Bound, Crash, server, thread, handler, Faults

LEMMA InitTInv == Init => TInv
BY ProviderAssumption
   DEF Init, TInv, TypeOK, Bound, AppLabels, HandlerLabels

(* A function that releases a context leaves it released, or kept.         *)
LEMMA Released ==
  ASSUME TypeOK, NEW id, NEW ret, NEW released \in {"closed", "destroyed"},
         \E left \in Release(ret, released) : ctx' = [ctx EXCEPT ![id] = left]
  PROVE  /\ ctx' \in [Id -> {"none", "open", "closed", "destroyed", "kept"}]
         /\ id \in Id => ctx'[id] \in {released, "kept"}
         /\ id \in Id => (ret = "YP_SUCCESS" => ctx'[id] = released)
         /\ \A other \in Id \ {id} : ctx'[other] = ctx[other]
BY DEF Release, TypeOK

LEMMA ApplicationTInv ==
  ASSUME TInv, Application
  PROVE  TInv'
<1> USE DEF TInv, TypeOK, Bound, server, thread, handler, AppLabels
<1>1. CASE RegisterStart
  BY <1>1, ProviderAssumption DEF RegisterStart
<1>2. CASE RegisterEntry
  <2>1. todo - 1 \in 0..MaxConfigured
    BY <1>2, ProviderAssumption DEF RegisterEntry
  <2>2. CASE UNCHANGED server
    BY <1>2, <2>1, <2>2 DEF RegisterEntry
  <2>3. CASE ~UNCHANGED server
    <3>1. PICK id \in Id :
            /\ num_phonebooks < SizeMax
            /\ ctx' = [ctx EXCEPT ![id] = "open"]
            /\ struct' = [struct EXCEPT ![id] = "allocated"]
            /\ phonebooks' = Append(phonebooks, id)
            /\ num_phonebooks' = num_phonebooks + 1
            /\ UNCHANGED backend_types
      BY <1>2, <2>3 DEF RegisterEntry
    <3>2. phonebooks' \in Seq(Id)
      BY <3>1, AppendProperties
    <3>3. num_phonebooks' \in 0..SizeMax
      BY <3>1, ProviderAssumption
    <3> QED BY <1>2, <2>1, <3>1, <3>2, <3>3 DEF RegisterEntry
  <2> QED BY <2>2, <2>3
<1>3. CASE RegisterDone
  BY <1>3 DEF RegisterDone
<1>4. CASE RegisterBackend
  BY <1>4 DEF RegisterBackend
<1>5. CASE FinBegin
  <2>1. CASE phonebooks = <<>>
    BY <1>5, <2>1 DEF FinBegin
  <2>2. CASE phonebooks # <<>>
    <3>1. phonebooks[1] \in Id
      BY <2>2, EmptySeq, ElementOfSeq, LenProperties
    <3>2. Succ(phonebooks[1]) \in Id \cup {Null}
      BY SuccType
    <3> QED BY <1>5, <2>2, <3>1, <3>2 DEF FinBegin
  <2> QED BY <2>1, <2>2
<1>6. CASE FinUnlink
  <2>1. CASE find_phonebook(cur)
    <3>1. phonebooks' \in Seq(Id)
      BY <1>6, <2>1, UnlinkedProperties DEF FinUnlink
    <3> QED BY <1>6, <2>1, <3>1 DEF FinUnlink
  <2>2. CASE ~find_phonebook(cur)
    BY <1>6, <2>2, CrashTInv DEF FinUnlink, Faults
  <2> QED BY <2>1, <2>2
<1>7. CASE FinClose
  <2>1. CASE Usable(cur)
    <3>1. ctx' \in [Id -> {"none", "open", "closed", "destroyed", "kept"}]
      BY <1>7, <2>1, Released DEF FinClose
    <3> QED BY <1>7, <2>1, <3>1 DEF FinClose
  <2>2. CASE ~Usable(cur)
    BY <1>7, <2>2, CrashTInv DEF FinClose, Faults
  <2> QED BY <2>1, <2>2
<1>8. CASE FinFree
  <2>1. CASE nxt # Null /\ ~find_phonebook(nxt)
    BY <1>8, <2>1, CrashTInv DEF FinFree, Faults
  <2>2. CASE ~(nxt # Null /\ ~find_phonebook(nxt))
    <3>1. Succ(nxt) \in Id \cup {Null}
      BY SuccType
    <3> QED BY <1>8, <2>2, <3>1 DEF FinFree
  <2> QED BY <2>1, <2>2
<1>9. CASE FinEnd
  BY <1>9, ProviderAssumption DEF FinEnd
<1> QED
  BY <1>1, <1>2, <1>3, <1>4, <1>5, <1>6, <1>7, <1>8, <1>9 DEF Application

(* The steps that count: a counter of SizeMax wraps, and so does 0.        *)
LEMMA StoreType ==
  ASSUME NEW n \in 0..SizeMax
  PROVE  /\ (IF n = SizeMax THEN 0 ELSE n + 1) \in 0..SizeMax
         /\ (IF n = 0 THEN SizeMax ELSE n - 1) \in 0..SizeMax
BY ProviderAssumption

(* What list answers is a sequence of ids, padded with Null.               *)
LEMMA FillType ==
  ASSUME TypeOK, NEW u \in ULT, req[u] \in list_phonebooks_in_t,
         NEW ids, ids = LET count == IF cnt[u] < req[u].max_ids
                                     THEN cnt[u] ELSE req[u].max_ids
                        IN  [i \in 1..count |->
                               IF i <= Len(phonebooks) THEN phonebooks[i]
                                                       ELSE Null]
  PROVE  Answer("YP_SUCCESS", ids) \in Response
<1> DEFINE count == IF cnt[u] < req[u].max_ids THEN cnt[u] ELSE req[u].max_ids
<1>1. count \in Nat
  BY VocabularyAssumption, ProviderAssumption DEF TypeOK, list_phonebooks_in_t
<1>2. \A i \in 1..count :
        (IF i <= Len(phonebooks) THEN phonebooks[i] ELSE Null) \in Id \cup {Null}
  BY <1>1, ElementOfSeq, LenProperties DEF TypeOK
<1>3. ids \in [1..count -> Id \cup {Null}]
  BY <1>2
<1> HIDE DEF count
<1>4. ids \in Seq(Id \cup {Null})
  BY <1>1, <1>3, SeqDef
<1> QED BY <1>4, AnswerType DEF YP_return_t

(* A step that ends a request, or answers it, keeps the types.             *)
LEMMA EndsTInv ==
  ASSUME TInv, NEW u \in ULT, NEW label \in {"respond", "done"},
         NEW answer \in Response, Goto(u, label), Set(u, answer),
         UNCHANGED <<server, thread, req, pb, cnt, fault>>
  PROVE  TInv'
BY DEF TInv, TypeOK, Bound, server, thread, HandlerLabels, Goto, Set

LEMMA FinishTInv ==
  ASSUME TInv, NEW u \in ULT, NEW ret \in YP_return_t, Finish(u, ret, Null),
         UNCHANGED <<server, thread, req, pb, cnt, fault>>
  PROVE  TInv'
<1>1. Answer(ret, Null) \in Response
  BY AnswerType
<1> QED BY <1>1, EndsTInv DEF Finish

LEMMA SilentTInv ==
  ASSUME TInv, NEW u \in ULT, Goto(u, "done"), Set(u, NoResponse),
         UNCHANGED <<server, thread, req, pb, cnt, fault>>
  PROVE  TInv'
BY EndsTInv, NoResponseType

LEMMA HandlerEnds ==
  ASSUME TInv, NEW u \in ULT,
         \/ Undecodable(u) \/ BadToken(u)
         \/ CreateBegin(u) /\ ~find_backend_impl(req[u].type)
         \/ \E found : Lookup(u, found) /\ ~find_phonebook(req[u].id)
         \/ BackendNewFails(u) /\ (Allocated \/ req[u].op = "open")
         \/ RemoveDestroyed(u) /\ Allocated /\ ~find_phonebook(pb[u])
         \/ Use(u) /\ Usable(pb[u])
  PROVE  TInv'
<1>1. {"YP_ERR_FROM_MERCURY", "YP_ERR_INVALID_TOKEN", "YP_ERR_INVALID_BACKEND",
       "YP_ERR_INVALID_PHONEBOOK", "YP_ERR_INVALID_CONFIG", "YP_SUCCESS"}
        \subseteq YP_return_t
  BY DEF YP_return_t
<1>2. CASE Undecodable(u) \/ BadToken(u)
  BY <1>1, <1>2, FinishTInv, SilentTInv DEF Undecodable, BadToken
<1>3. CASE CreateBegin(u) /\ ~find_backend_impl(req[u].type)
  BY <1>1, <1>3, FinishTInv DEF CreateBegin
<1>4. CASE \E found : Lookup(u, found) /\ ~find_phonebook(req[u].id)
  BY <1>1, <1>4, FinishTInv, SilentTInv DEF Lookup
<1>5. CASE BackendNewFails(u) /\ (Allocated \/ req[u].op = "open")
  BY <1>1, <1>5, FinishTInv DEF BackendNewFails
<1>6. CASE RemoveDestroyed(u) /\ Allocated /\ ~find_phonebook(pb[u])
  BY <1>1, <1>6, FinishTInv DEF RemoveDestroyed
<1>7. CASE Use(u) /\ Usable(pb[u])
  BY <1>1, <1>7, FinishTInv, SilentTInv DEF Use
<1> QED BY <1>2, <1>3, <1>4, <1>5, <1>6, <1>7

LEMMA HandlerTInv ==
  ASSUME TInv, NEW u \in ULT, Handle(u)
  PROVE  TInv'
<1>2. CASE Undecodable(u)
  BY <1>2, HandlerEnds
<1>3. CASE BadToken(u)
  BY <1>3, HandlerEnds
<1>22. ASSUME CreateBegin(u), ~find_backend_impl(req[u].type) PROVE TInv'
  BY <1>22, HandlerEnds
<1>23. ASSUME NEW found, Lookup(u, found), ~find_phonebook(req[u].id) PROVE TInv'
  BY <1>23, HandlerEnds
<1>24. CASE BackendNewFails(u)
  <2>1. CASE Allocated \/ req[u].op = "open"
    BY <1>24, <2>1, HandlerEnds
  <2>2. CASE ~(Allocated \/ req[u].op = "open")
    BY <1>24, <2>2, CrashTInv DEF BackendNewFails, Faults
  <2> QED BY <2>1, <2>2
<1>25. ASSUME RemoveDestroyed(u), Allocated, ~find_phonebook(pb[u]) PROVE TInv'
  BY <1>25, HandlerEnds
<1>20. CASE Use(u)
  <2>1. CASE Usable(pb[u])
    BY <1>20, <2>1, HandlerEnds
  <2>2. CASE ~Usable(pb[u])
    BY <1>20, <2>2, CrashTInv DEF Use, Faults
  <2> QED BY <2>1, <2>2
<1> USE DEF TInv, TypeOK, Bound, server, thread, handler, HandlerLabels, Goto,
            Set
<1>1. CASE Orphaned(u) \/ NullCompared(u)
  BY <1>1, CrashTInv DEF Orphaned, NullCompared, Faults
<1>4. CASE CreateBegin(u)
  BY <1>4, <1>22 DEF CreateBegin, Starts
<1>5. ASSUME NEW found \in {"backend_close", "backend_destroy", "use"},
             pc[u] = "queued", Lookup(u, found)
      PROVE  TInv'
  <2>1. CASE find_phonebook(req[u].id)
    <3>1. req[u].id \in Id
      BY <2>1, FoundIsId
    <3> QED BY <1>5, <2>1, <3>1 DEF Lookup
  <2>2. CASE ~find_phonebook(req[u].id)
    BY <1>5, <2>2, <1>23
  <2> QED BY <2>1, <2>2
<1>6. CASE CloseBegin(u)
  BY <1>6, <1>5 DEF CloseBegin, Starts
<1>7. CASE DestroyBegin(u)
  BY <1>7, <1>5 DEF DestroyBegin, Starts
<1>8. CASE UseBegin(u)
  BY <1>8, <1>5 DEF UseBegin, Starts
<1>9. CASE ListBegin(u)
  <2>1. req[u] \in list_phonebooks_in_t
    BY <1>9, RequestFields DEF ListBegin, Starts
  <2> QED BY <1>9, <2>1 DEF ListBegin, Starts
<1>10. CASE BackendNew(u)
  <2>1. pb[u] \in Id
    BY <1>10 DEF BackendNew
  <2> QED BY <1>10, <2>1 DEF BackendNew
<1>11. CASE AddPhonebook(u)
  <2>1. CASE Allocated
    <3>1. pb[u] \in Id /\ phonebooks' = Append(phonebooks, pb[u])
      BY <1>11, <2>1 DEF AddPhonebook
    <3>2. phonebooks' \in Seq(Id)
      BY <3>1, AppendProperties
    <3> QED BY <1>11, <2>1, <3>1, <3>2 DEF AddPhonebook
  <2>2. CASE ~Allocated
    BY <1>11, <2>2, CrashTInv DEF AddPhonebook, Faults
  <2> QED BY <2>1, <2>2
<1>12. CASE IncrLoad(u) \/ DecrLoad(u)
  <2>1. CASE Allocated
    BY <1>12, <2>1 DEF IncrLoad, DecrLoad, LoadCount
  <2>2. CASE ~Allocated
    BY <1>12, <2>2, CrashTInv DEF IncrLoad, DecrLoad, LoadCount, Faults
  <2> QED BY <2>1, <2>2
<1>13. CASE IncrStore(u)
  <2>1. CASE Allocated
    <3>1. num_phonebooks' \in 0..SizeMax
      BY <1>13, <2>1, StoreType DEF IncrStore, StoreCount
    <3>2. Answer("YP_SUCCESS", pb[u]) \in Response
      BY AnswerType DEF YP_return_t
    <3>3. /\ pc' = [pc EXCEPT ![u] = "respond"]
          /\ out' = [out EXCEPT ![u] = Answer("YP_SUCCESS", pb[u])]
          /\ UNCHANGED <<backend_types, phonebooks, struct, ctx, thread, req, pb,
                         cnt, fault>>
      BY <1>13, <2>1 DEF IncrStore, StoreCount, Finish
    <3> QED BY <3>1, <3>2, <3>3
  <2>2. CASE ~Allocated
    BY <1>13, <2>2, CrashTInv DEF IncrStore, StoreCount, Faults
  <2> QED BY <2>1, <2>2
<1>14. CASE CloseBackend(u)
  <2>1. CASE Usable(pb[u])
    <3>1. PICK ret \in {"YP_SUCCESS", "YP_ERR_OTHER"} :
            /\ Set(u, Answer(ret, Null))
            /\ \E left \in Release(ret, "closed") :
                 ctx' = [ctx EXCEPT ![pb[u]] = left]
      BY <1>14, <2>1 DEF CloseBackend
    <3>2. Answer(ret, Null) \in Response
      BY AnswerType DEF YP_return_t
    <3>3. ctx' \in [Id -> {"none", "open", "closed", "destroyed", "kept"}]
      BY <3>1, Released
    <3> QED BY <1>14, <2>1, <3>1, <3>2, <3>3 DEF CloseBackend
  <2>2. CASE ~Usable(pb[u])
    BY <1>14, <2>2, CrashTInv DEF CloseBackend, Faults
  <2> QED BY <2>1, <2>2
<1>15. CASE Unlink(u)
  <2>1. CASE Allocated /\ find_phonebook(pb[u])
    <3>1. phonebooks' \in Seq(Id)
      BY <1>15, <2>1, UnlinkedProperties DEF Unlink
    <3> QED BY <1>15, <2>1, <3>1 DEF Unlink
  <2>2. CASE ~(Allocated /\ find_phonebook(pb[u]))
    BY <1>15, <2>2, CrashTInv DEF Unlink, Faults
  <2> QED BY <2>1, <2>2
<1>16. CASE DecrStore(u)
  <2>1. CASE Allocated
    <3>1. num_phonebooks' \in 0..SizeMax
      BY <1>16, <2>1, StoreType DEF DecrStore, StoreCount
    <3> QED BY <1>16, <2>1, <3>1 DEF DecrStore, StoreCount
  <2>2. CASE ~Allocated
    BY <1>16, <2>2, CrashTInv DEF DecrStore, StoreCount, Faults
  <2> QED BY <2>1, <2>2
<1>17. CASE DestroyBackend(u)
  <2>1. CASE Usable(pb[u])
    <3>1. ctx' \in [Id -> {"none", "open", "closed", "destroyed", "kept"}]
      BY <1>17, <2>1, Released DEF DestroyBackend
    <3> QED BY <1>17, <2>1, <3>1 DEF DestroyBackend
  <2>2. CASE ~Usable(pb[u])
    BY <1>17, <2>2, CrashTInv DEF DestroyBackend, Faults
  <2> QED BY <2>1, <2>2
<1>18. CASE RemoveDestroyed(u)
  <2>1. CASE Allocated /\ ~find_phonebook(pb[u])
    BY <1>18, <2>1, <1>25
  <2>2. CASE Allocated /\ find_phonebook(pb[u])
    <3>1. Answer("YP_SUCCESS", Null) \in Response
      BY AnswerType DEF YP_return_t
    <3> QED BY <1>18, <2>2, <3>1 DEF RemoveDestroyed
  <2>3. CASE ~Allocated
    BY <1>18, <2>3, CrashTInv DEF RemoveDestroyed, Faults
  <2> QED BY <2>1, <2>2, <2>3
<1>19. CASE Fill(u)
  <2>1. CASE Allocated /\ ~(Len(phonebooks) > cnt[u])
    <3>1. PICK ids :
            /\ ids = LET count == IF cnt[u] < req[u].max_ids
                                  THEN cnt[u] ELSE req[u].max_ids
                     IN  [i \in 1..count |->
                            IF i <= Len(phonebooks) THEN phonebooks[i] ELSE Null]
            /\ Finish(u, "YP_SUCCESS", ids)
            /\ UNCHANGED <<server, thread, req, pb, cnt, fault>>
      BY <1>19, <2>1 DEF Fill
    <3>2. Answer("YP_SUCCESS", ids) \in Response
      BY <1>19, <3>1, FillType DEF Fill
    <3> QED BY <3>1, <3>2, EndsTInv DEF Finish
  <2>2. CASE ~Allocated \/ Len(phonebooks) > cnt[u]
    BY <1>19, <2>2, CrashTInv DEF Fill, Faults
  <2> QED BY <2>1, <2>2
<1>21. CASE Respond(u)
  BY <1>21 DEF Respond
<1> QED
  BY <1>1, <1>2, <1>3, <1>4, <1>6, <1>7, <1>8, <1>9, <1>10, <1>11, <1>12, <1>13,
     <1>14, <1>15, <1>16, <1>17, <1>18, <1>19, <1>20, <1>21, <1>24 DEF Handle

(* A handler changes its own label, phonebook and response only.           *)
OthersKept(u) ==
  \A w \in ULT \ {u} : pc'[w] = pc[w] /\ pb'[w] = pb[w] /\ out'[w] = out[w]

LEMMA HandlerFrame ==
  ASSUME TypeOK, NEW u \in ULT, Handle(u)
  PROVE  OthersKept(u) /\ req' = req /\ app' = app /\ UNCHANGED thread
<1> USE DEF TypeOK, OthersKept, Crash, Goto, Set, Finish, server,
            thread, handler
<1>1. CASE \/ Orphaned(u) \/ Undecodable(u) \/ NullCompared(u) \/ BadToken(u)
           \/ CreateBegin(u)
  BY <1>1 DEF Orphaned, Undecodable, NullCompared, BadToken, CreateBegin
<1>2. CASE CloseBegin(u) \/ DestroyBegin(u) \/ UseBegin(u) \/ ListBegin(u)
  BY <1>2 DEF CloseBegin, DestroyBegin, UseBegin, ListBegin, Lookup
<1>3. CASE BackendNew(u) \/ BackendNewFails(u) \/ AddPhonebook(u)
  BY <1>3 DEF BackendNew, BackendNewFails, AddPhonebook
<1>4. CASE IncrLoad(u) \/ IncrStore(u) \/ DecrLoad(u) \/ DecrStore(u)
  BY <1>4 DEF IncrLoad, IncrStore, DecrLoad, DecrStore, LoadCount, StoreCount
<1>5. CASE CloseBackend(u) \/ Unlink(u)
  BY <1>5 DEF CloseBackend, Unlink
<1>6. CASE DestroyBackend(u) \/ RemoveDestroyed(u)
  BY <1>6 DEF DestroyBackend, RemoveDestroyed
<1>7. CASE Fill(u)
  BY <1>7 DEF Fill
<1>8. CASE Use(u) \/ Respond(u)
  BY <1>8 DEF Use, Respond
<1> QED BY <1>1, <1>2, <1>3, <1>4, <1>5, <1>6, <1>7, <1>8 DEF Handle

(* Only a handler that has a request takes a step.                         *)
LEMMA HandlerAwake ==
  ASSUME NEW u \in ULT, Handle(u)
  PROVE  pc[u] \notin {"idle", "done"}
BY DEF Handle, Orphaned, Undecodable, NullCompared, BadToken, CreateBegin,
       CloseBegin, DestroyBegin, UseBegin, ListBegin, Starts, BackendNew,
       BackendNewFails, AddPhonebook,
       IncrLoad, IncrStore, LoadCount, CloseBackend, Unlink, DecrLoad, DecrStore,
       DestroyBackend, RemoveDestroyed, Fill, Use, Respond

(* What a handler can fault on while the provider is in service; a step    *)
(* that faults does nothing else.                                          *)
LEMMA HandlerFault ==
  ASSUME Registered, Allocated, fault = "none", NEW u \in ULT, Handle(u),
         fault' # "none"
  PROVE  /\ fault' \in {"null_string", "dead_phonebook", "overflow"}
         /\ fault' = "null_string" => pc[u] = "queued" /\ NullString(req[u])
         /\ UNCHANGED <<server, thread, handler>>
BY DEF Handle, Orphaned, Undecodable, NullCompared, BadToken, CreateBegin,
       CloseBegin, DestroyBegin, UseBegin, ListBegin, Lookup, BackendNew,
       BackendNewFails, AddPhonebook,
       IncrLoad, IncrStore, LoadCount, StoreCount, CloseBackend, Unlink, DecrLoad,
       DecrStore, DestroyBackend, RemoveDestroyed, Fill, Use, Respond, Crash

LEMMA NextTInv == TInv /\ [Next]_vars => TInv'
<1> SUFFICES ASSUME TInv, [Next]_vars PROVE TInv'
  OBVIOUS
<1>1. ASSUME NEW u \in ULT, Arrive(u) PROVE TInv'
  BY <1>1 DEF Arrive, Goto, TInv, TypeOK, Bound, server, thread, HandlerLabels
<1>2. CASE UNCHANGED vars
  BY <1>2 DEF vars, server, thread, handler, TInv, TypeOK, Bound
<1> QED
  BY <1>1, <1>2, HandlerTInv, ApplicationTInv
     DEF Next, HandlerStep, ApplicationStep, Ended, Halted

(* Whatever the scheduler does and however the provider is finalized, every *)
(* variable keeps a value of its type; the counter stays a size_t.         *)
THEOREM TypeCorrect == Spec => []TypeOK
<1>1. TInv => TypeOK
  BY DEF TInv
<1> QED BY <1>1, InitTInv, NextTInv, PTL DEF Spec
=============================================================================
