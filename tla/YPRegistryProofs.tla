--------------------------- MODULE YPRegistryProofs ---------------------------
(***************************************************************************)
(* YPProvider once it is drained before it goes, for any number of         *)
(* requests, phonebooks, backends and tokens: memory, contexts and hash    *)
(* agree, and it implements PhonebookRegistry.  Every step of a handler or *)
(* of the application is a step of the registry, or changes nothing that   *)
(* the registry shows.                                                     *)
(***************************************************************************)
EXTENDS YPCoopProofs, YPCounterProofs

(* Labelled is preserved.  A label that ends a request has its response.   *)
LEMMA HandlerLInv ==
  ASSUME TInv, TInv', LInv, NEW u \in ULT, Handle(u), fault = "none"
  PROVE  LInv'
<1>1. OthersKept(u) /\ req' = req
  BY HandlerFrame DEF TInv
<1>2. ASSUME NEW w \in ULT \ {u} PROVE Labelled(w)'
  BY <1>1, <1>2 DEF LInv, Labelled, OthersKept
<1>3. Labelled(u) /\ pc[u] \in HandlerLabels
  BY DEF LInv, TInv, TypeOK
<1>4. Null \notin Response
  BY NullAssumption
<1>5. /\ pc' \in [ULT -> HandlerLabels]
      /\ pc \in [ULT -> HandlerLabels] /\ pb \in [ULT -> Id \cup {Null}]
      /\ out \in [ULT -> Response \cup {Null}]
      /\ out'[u] \in Response \cup {Null}
  BY DEF TInv, TypeOK
<1>6. /\ Answer("YP_SUCCESS", Null) \in Response
      /\ Answer("YP_ERR_OTHER", Null) \in Response
      /\ Answer("YP_ERR_FROM_MERCURY", Null) \in Response
      /\ Answer("YP_ERR_INVALID_TOKEN", Null) \in Response
      /\ Answer("YP_ERR_INVALID_BACKEND", Null) \in Response
      /\ Answer("YP_ERR_INVALID_CONFIG", Null) \in Response
      /\ Answer("YP_ERR_INVALID_PHONEBOOK", Null) \in Response
      /\ NoResponse \in Response
  BY AnswerType, NoResponseType DEF YP_return_t
<1> SUFFICES Labelled(u)'
  BY <1>2 DEF LInv
<1>0. CASE fault' # "none"
  <2>1. UNCHANGED handler
    BY <1>0 DEF Handle, Orphaned, Undecodable, NullCompared, BadToken,
       CreateBegin, CloseBegin, DestroyBegin, UseBegin, ListBegin, Lookup,
       BackendNew, BackendNewFails, AddPhonebook, IncrLoad, IncrStore, LoadCount, StoreCount, CloseBackend, Unlink, DecrLoad,
       DecrStore, DestroyBackend, RemoveDestroyed, Fill, Use, Respond, Crash
  <2> QED BY <2>1 DEF LInv, Labelled, handler
<1> SUFFICES ASSUME fault' = "none" PROVE Labelled(u)'
  BY <1>0
<1> USE <1>1, <1>3, <1>5, <1>6 DEF Labelled, Crash, Goto, Set, Finish
<1>7. CASE \/ Orphaned(u) \/ Undecodable(u) \/ NullCompared(u) \/ BadToken(u)
           \/ CreateBegin(u)
  BY <1>7 DEF Orphaned, Undecodable, NullCompared, BadToken, CreateBegin, Starts,
              Authorized
<1>8. CASE CloseBegin(u) \/ DestroyBegin(u) \/ UseBegin(u) \/ ListBegin(u)
  BY <1>8 DEF CloseBegin, DestroyBegin, UseBegin, ListBegin, Lookup, Starts,
              Authorized
<1>9. CASE BackendNew(u) \/ BackendNewFails(u) \/ AddPhonebook(u)
  BY <1>9 DEF BackendNew, BackendNewFails, AddPhonebook
<1>10. CASE IncrLoad(u) \/ DecrLoad(u) \/ DecrStore(u)
  BY <1>10 DEF IncrLoad, DecrLoad, DecrStore, LoadCount, StoreCount, handler
<1>11. CASE IncrStore(u)
  <2>1. Answer("YP_SUCCESS", pb[u]) \in Response
    BY AnswerType DEF YP_return_t
  <2> QED BY <1>11, <2>1 DEF IncrStore, StoreCount, handler
<1>12. CASE CloseBackend(u) \/ Unlink(u)
  BY <1>12 DEF CloseBackend, Unlink
<1>13. CASE DestroyBackend(u) \/ RemoveDestroyed(u)
  BY <1>13 DEF DestroyBackend, RemoveDestroyed
<1>14. CASE Fill(u)
  <2>1. PICK ids :
          /\ ids = LET count == IF cnt[u] < req[u].max_ids
                                THEN cnt[u] ELSE req[u].max_ids
                   IN  [i \in 1..count |->
                          IF i <= Len(phonebooks) THEN phonebooks[i] ELSE Null]
          /\ Finish(u, "YP_SUCCESS", ids)
    BY <1>14 DEF Fill
  <2>2. pc[u] = "fill" /\ Answer("YP_SUCCESS", ids) \in Response
    BY <1>14, <2>1, FillType DEF Fill, TInv, TypeOK, Bound
  <2> QED BY <2>1, <2>2
<1>15. CASE Use(u) \/ Respond(u)
  BY <1>15 DEF Use, Respond
<1> QED
  BY <1>7, <1>8, <1>9, <1>10, <1>11, <1>12, <1>13, <1>14, <1>15
     DEF Handle

LEMMA InitLInv == Init => LInv
BY DEF Init, LInv, Labelled

LEMMA ArriveLInv ==
  ASSUME TInv, LInv, NEW u \in ULT, Arrive(u)
  PROVE  LInv'
<1>1. PICK r \in Request : req' = [req EXCEPT ![u] = r]
  BY DEF Arrive
<1>2. TypeOK
  BY DEF TInv
<1>3. pc[u] = "idle" /\ pc'[u] = "queued" /\ req'[u] \in Request
  BY <1>1, <1>2 DEF Arrive, Goto, TypeOK
<1>4. \A w \in ULT \ {u} : pc'[w] = pc[w] /\ req'[w] = req[w]
  BY <1>1, <1>2 DEF Arrive, Goto, TypeOK
<1>5. pb' = pb /\ out' = out
  BY DEF Arrive
<1> QED BY <1>3, <1>4, <1>5 DEF LInv, Labelled
-----------------------------------------------------------------------------
(* What draining gives: DInv is inductive.                                 *)

(* A handler at work finds the provider in service.                        *)
LEMMA HandlerServed ==
  ASSUME Drained, NEW u \in ULT, Handle(u)
  PROVE  Registered /\ Allocated
<1>1. Registered
  BY HandlerAwake DEF Drained, Idle
<1> QED BY <1>1 DEF Registered, Allocated

(* The steps of a handler that change the hash, or choose an id.           *)
LEMMA HandlerStored ==
  ASSUME DInv, fault = "none", NEW u \in ULT, Handle(u)
  PROVE  Stored' /\ Unborn'
<1>1. Registered /\ Allocated
  BY HandlerServed DEF DInv
<1>2. TypeOK /\ Bound /\ Stored /\ Distinct /\ Unborn /\ phonebooks \in Seq(Id)
  BY DEF DInv, TInv, TypeOK, Stored
<1>3. OthersKept(u) /\ UNCHANGED <<app, cur, nxt>>
  BY <1>2, HandlerFrame DEF thread
<1>4. /\ \A id \in Id : ~Expiring(id) /\ ~Expiring(id)'
      /\ \A id \in Id : struct[id] = "allocated" <=> find_phonebook(id)
  BY <1>1, <1>2, <1>3 DEF Expiring, Registered, Stored
<1>5. ASSUME UNCHANGED <<phonebooks, struct>> PROVE Stored'
  BY <1>2, <1>3, <1>5 DEF Stored, Distinct, find_phonebook, Expiring
<1>6. ASSUME UNCHANGED <<phonebooks, struct>>,
             pc'[u] \in {"backend_new", "add"} =>
               pc[u] \in {"backend_new", "add"} /\ pb'[u] = pb[u]
      PROVE  Stored' /\ Unborn'
  BY <1>2, <1>3, <1>5, <1>6 DEF Unborn, OthersKept
<1>7. pc \in [ULT -> HandlerLabels] /\ pb \in [ULT -> Id \cup {Null}]
      /\ struct \in [Id -> {"none", "allocated", "freed"}]
  BY <1>2 DEF TypeOK
<1> USE DEF Goto, Set, Finish, Crash, server, handler
<1>8. CASE \/ Orphaned(u) \/ Undecodable(u) \/ NullCompared(u) \/ BadToken(u)
           \/ CloseBegin(u) \/ DestroyBegin(u) \/ UseBegin(u) \/ ListBegin(u)
  BY <1>6, <1>7, <1>8
     DEF Orphaned, Undecodable, NullCompared, BadToken, CloseBegin, DestroyBegin, UseBegin,
         ListBegin, Lookup, Starts
<1>9. CASE CreateBegin(u)
  <2>1. CASE ~find_backend_impl(req[u].type)
    BY <1>6, <1>7, <1>9, <2>1 DEF CreateBegin
  <2>2. CASE find_backend_impl(req[u].type)
    <3>1. PICK id \in Id : Fresh(id) /\ pb' = [pb EXCEPT ![u] = id]
      BY <1>9, <2>2 DEF CreateBegin
    <3>2. UNCHANGED <<phonebooks, struct>>
      BY <1>9 DEF CreateBegin
    <3>3. pb'[u] = id
      BY <1>7, <3>1
    <3>4. Unborn'
      BY <1>2, <1>3, <3>1, <3>2, <3>3 DEF Unborn, OthersKept, Fresh
    <3> QED BY <1>5, <3>2, <3>4
  <2> QED BY <2>1, <2>2
<1>10. CASE \/ BackendNew(u) \/ BackendNewFails(u) \/ IncrLoad(u)
            \/ IncrStore(u) \/ CloseBackend(u) \/ DecrLoad(u) \/ DecrStore(u)
  BY <1>1, <1>6, <1>7, <1>10
     DEF BackendNew, BackendNewFails, IncrLoad, IncrStore, CloseBackend, DecrLoad, DecrStore,
         LoadCount, StoreCount
<1>11. CASE DestroyBackend(u) \/ RemoveDestroyed(u) \/ Use(u) \/ Respond(u)
  BY <1>6, <1>7, <1>11 DEF DestroyBackend, RemoveDestroyed, Use, Respond
<1>12. CASE Fill(u)
  BY <1>6, <1>7, <1>12 DEF Fill
<1>13. CASE AddPhonebook(u)
  <2>1. /\ pb[u] \in Id /\ struct[pb[u]] = "none"
        /\ struct' = [struct EXCEPT ![pb[u]] = "allocated"]
        /\ phonebooks' = Append(phonebooks, pb[u])
        /\ pc'[u] = "incr" /\ pb' = pb /\ pc[u] = "add"
    BY <1>1, <1>2, <1>7, <1>13 DEF AddPhonebook, Bound, Unborn
  <2>2. ~find_phonebook(pb[u])
    BY <1>4, <2>1
  <2>3. /\ \A x : find_phonebook(x)' <=> find_phonebook(x) \/ x = pb[u]
        /\ Distinct'
    BY <1>2, <2>1, <2>2, FindAppended
  <2>4. Stored'
    BY <1>4, <1>7, <2>1, <2>3 DEF Stored
  <2>5. \A v \in ULT \ {u} : pc[v] \in {"backend_new", "add"} =>
          pb[v] # pb[u] /\ pb[v] \in Id
    BY <1>2, <2>1 DEF Unborn, Bound
  <2>6. Unborn'
    BY <1>2, <1>3, <1>7, <2>1, <2>5 DEF Unborn, OthersKept
  <2> QED BY <2>4, <2>6
<1>14. CASE Unlink(u)
  <2>1. CASE find_phonebook(pb[u])
    <3>1. /\ Unlinked(pb[u]) /\ struct' = [struct EXCEPT ![pb[u]] = "freed"]
          /\ pc'[u] = "decr" /\ pb' = pb
      BY <1>1, <1>7, <1>14, <2>1 DEF Unlink
    <3>2. pb[u] \in Id /\ struct[pb[u]] = "allocated"
      BY <1>2, <1>4, <2>1, FoundIsId
    <3>3. /\ \A x : find_phonebook(x)' <=> find_phonebook(x) /\ x # pb[u]
          /\ Distinct'
      BY <1>2, <3>1, FindUnlinked
    <3>4. Stored'
      BY <1>4, <1>7, <3>1, <3>3 DEF Stored
    <3>5. \A id \in Id : struct'[id] = "none" <=> struct[id] = "none"
      BY <1>7, <3>1, <3>2
    <3>6. Unborn'
      BY <1>2, <1>3, <3>1, <3>5 DEF Unborn, OthersKept, Bound
    <3> QED BY <3>4, <3>6
  <2>2. CASE ~find_phonebook(pb[u])
    BY <1>6, <1>14, <2>2 DEF Unlink
  <2> QED BY <2>1, <2>2
<1> QED
  BY <1>8, <1>9, <1>10, <1>11, <1>12, <1>13, <1>14 DEF Handle

(* The steps of a handler that make, use or release a context.             *)
Owning == Releasing \cup {"backend_close", "backend_destroy"}

LEMMA HoldsId ==
  ASSUME LInv, NEW u \in ULT, pc[u] \in Owning
  PROVE  pb[u] \in Id
<1>1. /\ req[u] \in Request /\ pb[u] = req[u].id
      /\ req[u].op \in {"close", "destroy"}
  BY DEF LInv, Labelled, Owning, Releasing
<1> QED BY <1>1 DEF Request, create_phonebook_in_t, open_phonebook_in_t,
       close_phonebook_in_t, destroy_phonebook_in_t, list_phonebooks_in_t,
       hello_in_t, sum_in_t

LEMMA HandlerContexts ==
  ASSUME DInv, fault = "none", NEW u \in ULT, Handle(u)
  PROVE  Contexts' /\ Held' /\ Losses'
<1>1. Registered /\ Allocated
  BY HandlerServed DEF DInv
<1>2. /\ TypeOK /\ Bound /\ LInv /\ Unborn /\ Distinct
      /\ Contexts /\ Held /\ Losses /\ phonebooks \in Seq(Id)
  BY DEF DInv, TInv, TypeOK, Stored
<1>3. OthersKept(u) /\ req' = req /\ UNCHANGED <<app, cur, nxt>> /\ Registered'
  BY <1>1, <1>2, HandlerFrame DEF thread, Registered
<1>4. \A id \in Id : struct[id] = "allocated" <=> find_phonebook(id)
  BY <1>1 DEF DInv, Stored, Expiring, Registered
<1>5. /\ pc \in [ULT -> HandlerLabels] /\ pb \in [ULT -> Id \cup {Null}]
      /\ struct \in [Id -> {"none", "allocated", "freed"}]
      /\ ctx \in [Id -> {"none", "open", "closed", "destroyed", "kept"}]
      /\ out \in [ULT -> Response \cup {Null}]
  BY <1>2 DEF TypeOK
<1>6. /\ \A v \in ULT : pc[v] \in Owning => pb[v] \in Id
      /\ \A v \in ULT : pc[v] \in {"backend_new", "add"} => pb[v] \in Id
  BY <1>2, HoldsId DEF Bound
<1>7. \A v \in ULT \ {u} : Blamed(v) => Blamed(v)' /\ pb'[v] = pb[v]
  BY <1>3 DEF Blamed, OthersKept
<1>8. app # "start" /\ app \notin {"fin_close"}
  BY <1>1 DEF Registered
(* A step of u that leaves the contexts and the hash alone. *)
<1>9. ASSUME UNCHANGED <<phonebooks, struct, ctx>>,
             pc[u] \notin Releasing \cup {"add"},
             pc'[u] \notin Releasing \cup {"add"},
             pc'[u] \in {"backend_close", "backend_destroy"} =>
               find_phonebook(pb'[u]),
             Blamed(u) => Blamed(u)' /\ pb'[u] = pb[u]
      PROVE  Contexts' /\ Held' /\ Losses'
  <2>1. Contexts'
    BY <1>2, <1>3, <1>9 DEF Contexts, OthersKept, find_phonebook, Releasing
  <2>2. pc'[u] \in {"backend_close", "backend_destroy"} => struct[pb'[u]] # "none"
    BY <1>2, <1>4, <1>9, FoundIsId
  <2>3. Held'
    BY <1>2, <1>3, <1>9, <2>2 DEF Held, OthersKept
  <2>4. Losses'
    BY <1>1, <1>2, <1>7, <1>9 DEF Losses
  <2> QED BY <2>1, <2>3, <2>4
<1>0. CASE fault' # "none"
  <2>1. UNCHANGED <<phonebooks, struct, ctx, pc, pb, req, out, app, cur>>
    BY <1>0, <1>1, <1>3, HandlerFault DEF server, handler
  <2> QED BY <1>2, <2>1
    DEF Contexts, Held, Losses, Blamed, Registered, find_phonebook
<1> SUFFICES ASSUME fault' = "none" PROVE Contexts' /\ Held' /\ Losses'
  BY <1>0
<1> USE DEF Goto, Set, Finish, Crash, server, handler
<1>10. CASE \/ Undecodable(u) \/ BadToken(u) \/ CreateBegin(u) \/ ListBegin(u)
            \/ BackendNewFails(u)
  BY <1>1, <1>5, <1>9, <1>10
     DEF Undecodable, BadToken, CreateBegin, ListBegin, BackendNewFails, Starts,
         Releasing, Blamed
<1>11. CASE CloseBegin(u) \/ DestroyBegin(u) \/ UseBegin(u)
  <2>1. find_phonebook(req[u].id) => req[u].id \in Id
    BY <1>2, FoundIsId
  <2> QED BY <1>5, <1>9, <1>11, <2>1
    DEF CloseBegin, DestroyBegin, UseBegin, Starts, Lookup, Releasing, Blamed
<1>12. CASE IncrLoad(u) \/ IncrStore(u) \/ DecrLoad(u) \/ DecrStore(u)
  BY <1>1, <1>3, <1>5, <1>9, <1>12
     DEF IncrLoad, IncrStore, DecrLoad, DecrStore, LoadCount, StoreCount,
         Releasing, Blamed
<1>13. CASE Fill(u) \/ Use(u)
  <2>1. /\ pc[u] \in {"fill", "use"} /\ pc'[u] \in {"respond", "done"}
        /\ UNCHANGED <<phonebooks, struct, ctx, pb>>
    BY <1>5, <1>13 DEF Fill, Use
  <2> QED BY <1>9, <2>1 DEF Releasing, Blamed
<1>14. CASE Respond(u)
  BY <1>3, <1>5, <1>9, <1>14 DEF Respond, Releasing, Blamed
<1>15. CASE BackendNew(u)
  <2>1. /\ pc[u] = "backend_new" /\ pc'[u] = "add" /\ pb[u] \in Id
        /\ struct[pb[u]] = "none"
        /\ ctx' = [ctx EXCEPT ![pb[u]] = "open"]
        /\ UNCHANGED <<phonebooks, struct, pb, out>>
    BY <1>2, <1>5, <1>15 DEF BackendNew, Bound, Unborn
  <2>2. ~find_phonebook(pb[u])
    BY <1>4, <2>1
  <2>3. /\ ctx'[pb[u]] = "open"
        /\ \A id \in Id \ {pb[u]} : ctx'[id] = ctx[id]
    BY <1>5, <2>1
  <2>4. Contexts'
    BY <1>2, <1>3, <2>1, <2>2, <2>3
       DEF Contexts, OthersKept, find_phonebook, Releasing
  <2>5. Held'
    BY <1>2, <1>3, <1>6, <2>1, <2>3 DEF Held, OthersKept, Owning, Releasing
  <2>6. Losses'
    BY <1>1, <1>2, <1>7, <2>1, <2>3 DEF Losses, Blamed
  <2> QED BY <2>4, <2>5, <2>6
<1>16. CASE AddPhonebook(u)
  <2>1. /\ pc[u] = "add" /\ pc'[u] = "incr" /\ pb[u] \in Id
        /\ struct' = [struct EXCEPT ![pb[u]] = "allocated"]
        /\ phonebooks' = Append(phonebooks, pb[u])
        /\ UNCHANGED <<ctx, pb, out>>
    BY <1>1, <1>2, <1>5, <1>16 DEF AddPhonebook, Bound
  <2>2. ctx[pb[u]] = "open"
    BY <1>2, <2>1 DEF Held
  <2>3. \A x : find_phonebook(x)' <=> find_phonebook(x) \/ x = pb[u]
    BY <1>2, <2>1, FindAppended
  <2>4. Contexts'
    BY <1>2, <1>3, <2>1, <2>2, <2>3 DEF Contexts, OthersKept, Releasing
  <2>5. Held'
    BY <1>2, <1>3, <1>5, <1>6, <2>1 DEF Held, OthersKept, Owning, Releasing
  <2>6. Losses'
    BY <1>1, <1>2, <1>7, <2>1 DEF Losses, Blamed
  <2> QED BY <2>4, <2>5, <2>6
<1>17. CASE CloseBackend(u) \/ DestroyBackend(u)
  <2>1. /\ pc[u] \in {"backend_close", "backend_destroy"} /\ pb[u] \in Id
        /\ Usable(pb[u]) /\ struct[pb[u]] = "allocated"
        /\ UNCHANGED <<phonebooks, struct, pb>>
    BY <1>6, <1>17 DEF CloseBackend, DestroyBackend, Owning, Usable
  <2>2. \E ret, released :
          /\ released \in {"closed", "destroyed"}
          /\ \E left \in Release(ret, released) :
               ctx' = [ctx EXCEPT ![pb[u]] = left]
          /\ \/ /\ pc[u] = "backend_close" /\ pc'[u] = "unlink"
                /\ ret \in {"YP_SUCCESS", "YP_ERR_OTHER"} /\ released = "closed"
                /\ out'[u] = Answer(ret, Null)
             \/ pc[u] = "backend_destroy" /\ pc'[u] = "remove"
    BY <1>5, <1>17, <2>1 DEF CloseBackend, DestroyBackend
  <2>3. PICK ret, released :
          /\ released \in {"closed", "destroyed"}
          /\ \E left \in Release(ret, released) :
               ctx' = [ctx EXCEPT ![pb[u]] = left]
          /\ \/ /\ pc[u] = "backend_close" /\ pc'[u] = "unlink"
                /\ ret \in {"YP_SUCCESS", "YP_ERR_OTHER"} /\ released = "closed"
                /\ out'[u] = Answer(ret, Null)
             \/ pc[u] = "backend_destroy" /\ pc'[u] = "remove"
    BY <2>2
  <2>4. /\ ctx'[pb[u]] \in {released, "kept"}
        /\ ret = "YP_SUCCESS" => ctx'[pb[u]] = released
        /\ \A id \in Id \ {pb[u]} : ctx'[id] = ctx[id]
    BY <1>5, <2>1, <2>3 DEF Release
  <2>5. ctx'[pb[u]] # "open" /\ pc'[u] \in {"unlink", "remove"}
    BY <2>3, <2>4
  <2>6. find_phonebook(pb[u])
    BY <1>4, <2>1
  <2>7. Contexts'
    BY <1>2, <1>3, <2>1, <2>4, <2>5
       DEF Contexts, OthersKept, find_phonebook, Releasing
  <2>8. \A v \in ULT \ {u} : pc[v] = "add" => pb[v] # pb[u]
    BY <1>2, <2>1 DEF Unborn
  <2>9. Held'
    BY <1>2, <1>3, <1>6, <2>1, <2>4, <2>5, <2>8
       DEF Held, OthersKept, Owning, Releasing
  <2>10. ctx'[pb[u]] = "kept" => Blamed(u)'
    BY <1>2, <1>3, <2>1, <2>3, <2>4 DEF Blamed, LInv, Labelled
  <2>11. ~Blamed(u)
    BY <2>1 DEF Blamed
  <2>12. Losses'
    BY <1>1, <1>2, <1>7, <2>1, <2>4, <2>10, <2>11 DEF Losses
  <2> QED BY <2>7, <2>9, <2>12
<1>18. CASE Unlink(u)
  <2>1. /\ pc[u] \in {"unlink", "unlink_destroyed"} /\ pc'[u] = "decr"
        /\ Unlinked(pb[u]) /\ pb[u] \in Id
        /\ struct' = [struct EXCEPT ![pb[u]] = "freed"]
        /\ UNCHANGED <<ctx, pb, out>>
    BY <1>5, <1>6, <1>18 DEF Unlink, Owning, Releasing
  <2>2. \A x : find_phonebook(x)' <=> find_phonebook(x) /\ x # pb[u]
    BY <1>2, <2>1, FindUnlinked
  <2>3. ctx[pb[u]] # "open"
    BY <1>2, <2>1 DEF Held, Releasing
  <2>4. Contexts'
    BY <1>2, <1>3, <2>1, <2>2, <2>3 DEF Contexts, OthersKept, Releasing
  <2>5. Held'
    BY <1>2, <1>3, <1>5, <1>6, <2>1 DEF Held, OthersKept, Owning, Releasing
  <2>6. Blamed(u) => Blamed(u)'
    BY <1>3, <2>1 DEF Blamed
  <2>7. Losses'
    BY <1>1, <1>2, <1>7, <2>1, <2>6 DEF Losses
  <2> QED BY <2>4, <2>5, <2>7
<1>19. CASE RemoveDestroyed(u)
  <2>1. /\ pc[u] = "remove" /\ UNCHANGED <<phonebooks, struct, ctx, pb>>
        /\ find_phonebook(pb[u]) => pc'[u] = "unlink_destroyed"
        /\ ~find_phonebook(pb[u]) => pc'[u] = "respond"
    BY <1>1, <1>5, <1>19 DEF RemoveDestroyed
  <2>2. req[u].op = "destroy"
    BY <1>2, <2>1 DEF LInv, Labelled
  <2>3. Contexts'
    BY <1>2, <1>3, <2>1 DEF Contexts, OthersKept, find_phonebook, Releasing
  <2>4. Held'
    BY <1>2, <1>3, <2>1 DEF Held, OthersKept, Releasing
  <2>5. Blamed(u)'
    BY <1>3, <2>1, <2>2 DEF Blamed
  <2>6. Losses'
    BY <1>1, <1>2, <1>7, <2>1, <2>5 DEF Losses
  <2> QED BY <2>3, <2>4, <2>6
<1>20. ~Orphaned(u) /\ ~NullCompared(u)
  BY <1>1 DEF Orphaned, NullCompared
<1> QED
  BY <1>10, <1>11, <1>12, <1>13, <1>14, <1>15, <1>16, <1>17, <1>18, <1>19, <1>20
     DEF Handle

LEMMA HandlerD ==
  ASSUME DInv, fault = "none", NEW u \in ULT, Handle(u)
  PROVE  DInv'
<1>1. TInv' /\ OthersKept(u) /\ req' = req /\ UNCHANGED <<app, cur, nxt>>
  BY HandlerTInv, HandlerFrame DEF DInv, TInv, thread
<1>2. Registered /\ Registered'
  BY <1>1, HandlerServed DEF DInv, Registered
<1>3. fault' \notin {"no_provider", "freed_provider"}
  BY <1>2, HandlerServed, HandlerFault DEF DInv
<1>4. Drained' /\ AtFront'
  BY <1>2 DEF Drained, AtFront, Registered
<1>5. LInv'
  BY <1>1, HandlerLInv DEF DInv
<1> QED
  BY <1>1, <1>3, <1>4, <1>5, HandlerStored, HandlerContexts DEF DInv

(* The application opens the contexts it registers, and releases them with *)
(* nobody to report to: while the provider is in service it loses none.    *)
LEMMA ApplicationContexts ==
  ASSUME DInv, fault = "none", Application
  PROVE  Contexts' /\ Held' /\ Losses'
<1>1. /\ TypeOK /\ Bound /\ LInv /\ Unborn /\ Distinct /\ AtFront
      /\ Contexts /\ Held /\ Losses /\ phonebooks \in Seq(Id)
      /\ struct \in [Id -> {"none", "allocated", "freed"}]
      /\ ctx \in [Id -> {"none", "open", "closed", "destroyed", "kept"}]
  BY DEF DInv, TInv, TypeOK, Stored
<1>2. UNCHANGED <<pc, req, pb, out>>
  BY DEF Application, RegisterStart, RegisterEntry, RegisterDone, RegisterBackend,
         FinBegin, FinUnlink, FinClose, FinFree, FinEnd, Crash, handler
<1>3. \A u \in ULT : Blamed(u) <=> Blamed(u)'
  BY <1>2 DEF Blamed
<1>4. /\ \A v \in ULT : pc[v] \in Owning => pb[v] \in Id
      /\ \A v \in ULT : pc[v] \in {"backend_new", "add"} => pb[v] \in Id
  BY <1>1, HoldsId DEF Bound
<1>5. (app = "start" \/ Registered)' => app = "start" \/ Registered
  BY DEF Application, RegisterStart, RegisterEntry, RegisterDone, RegisterBackend,
         FinBegin, FinUnlink, FinClose, FinFree, FinEnd, Crash, Registered, thread
<1>6. ASSUME UNCHANGED ctx,
             \A id \in Id : struct[id] # "none" => struct'[id] # "none"
      PROVE  Held' /\ Losses'
  <2>1. Held'
    BY <1>1, <1>2, <1>4, <1>6 DEF Held, Owning, Releasing
  <2>2. Losses'
    BY <1>1, <1>2, <1>3, <1>5, <1>6 DEF Losses
  <2> QED BY <2>1, <2>2
<1>0. CASE fault' # "none"
  <2>1. UNCHANGED <<phonebooks, struct, ctx, app, cur>>
    BY <1>0 DEF Application, RegisterStart, RegisterEntry, RegisterDone,
       RegisterBackend, FinBegin, FinUnlink, FinClose, FinFree, FinEnd, Crash,
       server, thread
  <2>2. Contexts'
    BY <1>1, <1>2, <2>1 DEF Contexts, find_phonebook
  <2> QED BY <1>6, <2>1, <2>2
<1> SUFFICES ASSUME fault' = "none" PROVE Contexts' /\ Held' /\ Losses'
  BY <1>0
<1> USE DEF server, Crash
<1>7. CASE RegisterEntry
  <2>1. CASE UNCHANGED server
    <3>1. app' = app /\ app # "fin_close"
      BY <1>7 DEF RegisterEntry
    <3>2. Contexts'
      BY <1>1, <1>2, <2>1, <3>1 DEF Contexts, find_phonebook
    <3> QED BY <1>6, <2>1, <3>2
  <2>2. CASE ~UNCHANGED server
    <3>1. PICK id \in Id :
            /\ Fresh(id) /\ ctx' = [ctx EXCEPT ![id] = "open"]
            /\ struct' = [struct EXCEPT ![id] = "allocated"]
            /\ phonebooks' = Append(phonebooks, id)
      BY <1>7, <2>2 DEF RegisterEntry
    <3>2. app' = app /\ app # "fin_close"
      BY <1>7 DEF RegisterEntry
    <3>3. \A x : find_phonebook(x)' <=> find_phonebook(x) \/ x = id
      BY <1>1, <3>1, FindAppended
    <3>4. Contexts'
      BY <1>1, <1>2, <3>1, <3>2, <3>3 DEF Contexts
    <3>5. Held'
      BY <1>1, <1>2, <1>4, <3>1 DEF Held, Fresh, Owning, Releasing
    <3>6. Losses'
      BY <1>1, <1>2, <1>3, <1>5, <3>1 DEF Losses
    <3> QED BY <3>4, <3>5, <3>6
  <2> QED BY <2>1, <2>2
<1>8. CASE FinUnlink
  <2>1. /\ Unlinked(cur) /\ app' = "fin_close" /\ cur' = cur
        /\ app = "fin_unlink" /\ UNCHANGED <<struct, ctx>>
    BY <1>8 DEF FinUnlink
  <2>2. \A x : find_phonebook(x)' <=> find_phonebook(x) /\ x # cur
    BY <1>1, <2>1, FindUnlinked
  <2>3. Contexts'
    BY <1>1, <1>2, <2>1, <2>2 DEF Contexts
  <2> QED BY <1>6, <2>1, <2>3
<1>9. CASE FinClose
  <2>1. /\ app = "fin_close" /\ app' = "fin_free" /\ cur \in Id
        /\ \E left \in Release("YP_ERR_OTHER", "closed") :
             ctx' = [ctx EXCEPT ![cur] = left]
        /\ UNCHANGED <<phonebooks, struct, cur>>
    BY <1>1, <1>9 DEF FinClose, AtFront
  <2>2. /\ ctx'[cur] \in {"closed", "kept"}
        /\ \A id \in Id \ {cur} : ctx'[id] = ctx[id]
    BY <1>1, <2>1, Released
  <2>3. ~find_phonebook(cur) /\ struct[cur] = "allocated"
    BY <2>1 DEF DInv, Stored, Expiring
  <2>4. Contexts'
    BY <1>1, <1>2, <2>1, <2>2, <2>3 DEF Contexts, find_phonebook
  <2>5. Held'
    BY <1>1, <1>2, <1>4, <2>1, <2>2, <2>3
       DEF Held, Unborn, Owning, Releasing
  <2>6. Losses'
    BY <2>1 DEF Losses, Registered
  <2> QED BY <2>4, <2>5, <2>6
<1>10. CASE FinFree
  <2>1. /\ UNCHANGED <<phonebooks, ctx>> /\ app = "fin_free"
        /\ app' \in {"fin_end", "fin_unlink"}
        /\ struct' = [struct EXCEPT ![cur] = "freed"]
    BY <1>10 DEF FinFree
  <2>2. Contexts'
    BY <1>1, <1>2, <2>1 DEF Contexts, find_phonebook
  <2> QED BY <1>1, <1>6, <2>1, <2>2
<1>11. CASE \/ RegisterStart \/ RegisterDone \/ RegisterBackend \/ FinBegin
            \/ FinEnd
  <2>1. /\ UNCHANGED <<phonebooks, struct, ctx>>
        /\ app # "fin_close" /\ app' # "fin_close"
    BY <1>11 DEF RegisterStart, RegisterDone, RegisterBackend, FinBegin, FinEnd,
                 thread
  <2>2. Contexts'
    BY <1>1, <1>2, <2>1 DEF Contexts, find_phonebook
  <2> QED BY <1>6, <2>1, <2>2
<1> QED BY <1>7, <1>8, <1>9, <1>10, <1>11 DEF Application

LEMMA ApplicationD ==
  ASSUME DrainFirst, DInv, fault = "none", Application
  PROVE  DInv'
<1>1. /\ TypeOK /\ Bound /\ Stored /\ AtFront /\ Unborn
      /\ struct \in [Id -> {"none", "allocated", "freed"}]
  BY DEF DInv, TInv, TypeOK
<1>2. TInv'
  BY ApplicationTInv DEF DInv
<1>3. Drained' /\ Stored' /\ AtFront' /\ fault' \in {"none", "dead_phonebook"}
  BY <1>1, ApplicationStored DEF DInv
<1>4. UNCHANGED handler
  BY DEF Application, RegisterStart, RegisterEntry, RegisterDone, RegisterBackend,
         FinBegin, FinUnlink, FinClose, FinFree, FinEnd, Crash
<1>5. LInv'
  BY <1>4 DEF DInv, LInv, Labelled, handler
<1> SUFFICES Unborn'
  BY <1>2, <1>3, <1>5, ApplicationContexts DEF DInv
<1>6. ASSUME \A u \in ULT : pc[u] \in {"backend_new", "add"} =>
               struct'[pb[u]] = struct[pb[u]]
      PROVE  Unborn'
  BY <1>1, <1>4, <1>6 DEF Unborn, handler
<1>7. CASE RegisterEntry
  <2>1. CASE UNCHANGED server
    BY <1>6, <2>1 DEF server
  <2>2. CASE ~UNCHANGED server
    <3>1. PICK id \in Id :
            Fresh(id) /\ struct' = [struct EXCEPT ![id] = "allocated"]
      BY <1>7, <2>2 DEF RegisterEntry
    <3> QED BY <1>1, <1>6, <3>1 DEF Fresh, Bound
  <2> QED BY <2>1, <2>2
<1>8. CASE FinFree
  <2>1. cur \in Id /\ struct[cur] = "allocated"
    BY <1>1, <1>8 DEF FinFree, AtFront, Stored, Expiring
  <2>2. struct' = struct \/ struct' = [struct EXCEPT ![cur] = "freed"]
    BY <1>8 DEF FinFree, Crash, server
  <2> QED BY <1>1, <1>6, <2>1, <2>2 DEF Unborn, Bound
<1>9. CASE ~RegisterEntry /\ ~FinFree
  <2>1. struct' = struct
    BY <1>9 DEF Application, RegisterStart, RegisterDone, RegisterBackend,
       FinBegin, FinUnlink, FinClose, FinEnd, Crash, server
  <2> QED BY <1>6, <2>1
<1> QED BY <1>7, <1>8, <1>9

LEMMA ArriveD ==
  ASSUME DInv, NEW u \in ULT, Arrive(u), TInv'
  PROVE  DInv'
<1>1. TypeOK
  BY DEF DInv, TInv
<1>2. /\ Registered /\ pc[u] = "idle" /\ pc'[u] = "queued"
      /\ \A v \in ULT \ {u} : pc'[v] = pc[v]
      /\ UNCHANGED <<app, cur, nxt, phonebooks, struct, pb, fault>>
  BY <1>1 DEF Arrive, Goto, server, thread, TypeOK
<1>3. LInv'
  BY ArriveLInv DEF DInv
<1>4. Drained' /\ Unborn'
  BY <1>2 DEF DInv, Drained, Unborn, Registered
<1>5. Stored' /\ AtFront'
  BY <1>2 DEF DInv, Stored, Distinct, Expiring, AtFront, First, find_phonebook
<1>6. \A v \in ULT : Blamed(v) => Blamed(v)'
  BY <1>1, <1>2 DEF Arrive, Blamed
<1>7. Contexts' /\ Held' /\ Losses'
  <2>1. ctx' = ctx
    BY DEF Arrive, server
  <2> QED BY <1>2, <1>6, <2>1
    DEF DInv, Contexts, Held, Losses, Releasing, Registered, find_phonebook
<1> QED BY <1>2, <1>3, <1>4, <1>5, <1>7 DEF DInv

LEMMA InitD == Init => DInv
<1> SUFFICES ASSUME Init PROVE DInv
  OBVIOUS
<1>1. TInv /\ LInv
  BY InitTInv, InitLInv
<1>2. Len(phonebooks) = 0 /\ \A id \in Id : ~find_phonebook(id)
  BY DEF Init, find_phonebook, Contains
<1> QED BY <1>1, <1>2
  DEF Init, DInv, Drained, Stored, Distinct, Expiring, AtFront, Unborn, Idle,
      Contexts, Held, Losses, Releasing

LEMMA NextD == DrainFirst /\ DInv /\ [Next]_vars => DInv'
<1> SUFFICES ASSUME DrainFirst, DInv, [Next]_vars PROVE DInv'
  OBVIOUS
<1>1. TInv'
  BY NextTInv DEF DInv
<1>2. CASE UNCHANGED vars
  <2>1. /\ UNCHANGED <<app, cur, nxt, phonebooks, struct, ctx, fault>>
        /\ UNCHANGED <<pc, req, pb, out>>
    BY <1>2 DEF vars, server, thread, handler
  <2> QED BY <1>1, <2>1
    DEF DInv, Drained, Stored, Distinct, Expiring, AtFront, First, LInv, Labelled,
        Unborn, Idle, Registered, find_phonebook, Contexts, Held, Losses, Blamed
<1> QED BY <1>1, <1>2, ArriveD, HandlerD, ApplicationD
  DEF Next, HandlerStep, ApplicationStep, Ended, Halted

LEMMA DrainedInv ==
  ASSUME DrainFirst
  PROVE  Spec => []DInv
<1>1. DInv /\ [Next]_vars => DInv'
  BY NextD
<1> QED BY <1>1, InitD, PTL DEF Spec

(* Finalized by margo_finalize, on one execution stream whose backends may *)
(* block, the provider outlives its handlers, its memory and its contexts  *)
(* agree with its hash, and remove_all_phonebooks stays at the front.  The *)
(* proof does not use OneStream, the reader does: with several streams the *)
(* macros of the hash are not the single steps that the model has.         *)
THEOREM DrainedInvariant ==
  ASSUME DrainFirst, OneStream
  PROVE  Spec => []DInv
BY DrainedInv

(* Between requests, and once the provider is gone, the open contexts and  *)
(* the allocated structures are those of the registered phonebooks,        *)
(* however handlers raced while their backends blocked.                    *)
THEOREM DrainedContextsOwned ==
  ASSUME DrainFirst, OneStream
  PROVE  Spec => []ContextsOwned
<1>1. DInv => ContextsOwned
  <2> SUFFICES ASSUME DInv, app \in {"start", "serving", "end"},
                      \A u \in ULT : pc[u] \notin Working, NEW id \in Id
               PROVE  /\ ctx[id] = "open" <=> find_phonebook(id)
                      /\ struct[id] = "allocated" <=> find_phonebook(id)
    BY DEF ContextsOwned
  <2>1. \A u \in ULT : pc[u] \notin Releasing \cup {"add"}
    BY DEF Working, HandlerLabels, Releasing
  <2>2. ~Expiring(id) /\ app # "fin_close"
    BY DEF Expiring
  <2> QED BY <2>1, <2>2 DEF DInv, Stored, Contexts, Releasing
<1> QED BY <1>1, DrainedInv, PTL

(* While the provider is in service, a context that its backend kept was   *)
(* lost by a close that returns the backend's error, or by a destroy.      *)
THEOREM DrainedLossesExplained ==
  ASSUME DrainFirst, OneStream
  PROVE  Spec => []LossesExplained
<1>1. DInv => LossesExplained
  <2> SUFFICES ASSUME DInv, Registered, NEW id \in Id, ctx[id] = "kept"
               PROVE  \E u \in ULT :
                        /\ pb[u] = id /\ req[u] # Null
                        /\ \/ req[u].op = "destroy"
                           \/ /\ req[u].op = "close"
                              /\ out[u] = Answer("YP_ERR_OTHER", Null)
    BY DEF LossesExplained
  <2>1. PICK u \in ULT : pb[u] = id /\ Blamed(u)
    BY DEF DInv, Losses
  <2>2. req[u] # Null
    BY <2>1, NullAssumption DEF DInv, LInv, Labelled, Blamed
  <2> QED BY <2>1, <2>2 DEF Blamed
<1> QED BY <1>1, DrainedInv, PTL
-----------------------------------------------------------------------------
(* The refinement mapping, as Registry has it.                             *)
Phase == CASE app = "start" -> "down"
           [] app = "registering" -> "loading"
           [] app = "serving" -> "open"
           [] app = "end" -> "closed"
           [] OTHER -> "closing"
Taken(u) ==
  CASE pc[u] \in {"decr", "decr_store", "respond", "done"} -> out[u]
    [] pc[u] \in {"incr", "incr_store"} -> Answer("YP_SUCCESS", pb[u])
    [] OTHER -> Null

Answering == {"incr", "incr_store", "decr", "decr_store", "respond", "done"}

LEMMA Unanswered ==
  ASSUME NEW u \in ULT, pc[u] \notin Answering
  PROVE  Taken(u) = Null
BY DEF Taken, Answering

(* The vocabulary is the same on both sides.                               *)
LEMMA SameRequests == Registry!Request = Request
BY DEF Registry!Request, Request, Registry!TokenArg, TokenArg,
       Registry!TypeArg, TypeArg,
       Registry!create_phonebook_in_t, create_phonebook_in_t,
       Registry!open_phonebook_in_t, open_phonebook_in_t,
       Registry!close_phonebook_in_t, close_phonebook_in_t,
       Registry!destroy_phonebook_in_t, destroy_phonebook_in_t,
       Registry!list_phonebooks_in_t, list_phonebooks_in_t,
       Registry!hello_in_t, hello_in_t, Registry!sum_in_t, sum_in_t

LEMMA SameWords ==
  /\ \A r, v : Registry!Answer(r, v) = Answer(r, v)
  /\ \A r : Registry!Authorized(r) <=> Authorized(r)
  /\ \A r : Registry!NullString(r) <=> NullString(r)
  /\ Registry!NoResponse = NoResponse
  /\ \A s, e : Registry!Contains(s, e) <=> Contains(s, e)
  /\ \A s, i : Registry!RemoveAt(s, i) = RemoveAt(s, i)
BY DEF Registry!Answer, Answer, Registry!Authorized, Authorized,
       Registry!check_token, check_token, Registry!NullString, NullString,
       Registry!NoResponse, NoResponse,
       Registry!Contains, Contains, Registry!RemoveAt, RemoveAt

(* A step that the registry does not show.                                 *)
LEMMA Hidden ==
  ASSUME UNCHANGED <<phonebooks, Ever, Phase, req>>,
         \A w \in ULT : Taken(w)' = Taken(w)
  PROVE  UNCHANGED Registry!vars
BY DEF Registry!vars, Ever, Phase, Taken

LEMMA Answers ==
  ASSUME NEW u \in ULT, OthersKept(u), NEW r, NEW v, Taken(u)' = Answer(r, v)
  PROVE  Registry!Reply(u, r, v)
<1>1. \A w \in ULT \ {u} : Taken(w)' = Taken(w)
  BY DEF OthersKept, Taken
<1>2. [w \in ULT |-> Taken(w)]'
        = [[w \in ULT |-> Taken(w)] EXCEPT ![u] = Answer(r, v)]
  BY <1>1
<1> QED BY <1>2, SameWords DEF Registry!Reply, Taken

LEMMA Asked ==
  ASSUME NEW u \in ULT, Labelled(u), pc[u] \notin Answering, pc[u] # "idle"
  PROVE  Registry!Pending(u)
<1>1. req[u] # Null /\ Taken(u) = Null
  BY NullAssumption, Unanswered DEF Labelled
<1> QED BY <1>1 DEF Registry!Pending, Taken

LEMMA HandlerHidden ==
  ASSUME NEW u \in ULT, OthersKept(u), Taken(u)' = Taken(u),
         UNCHANGED <<phonebooks, struct, app, req>>
  PROVE  UNCHANGED Registry!vars
<1>1. \A w \in ULT : Taken(w)' = Taken(w)
  BY DEF OthersKept, Taken
<1>2. UNCHANGED <<phonebooks, Ever, Phase, req>>
  BY DEF Ever, Phase
<1> QED BY <1>1, <1>2, Hidden

(* The registry's steps, each from what the handler's step does.           *)
Midway(u) ==
  /\ OthersKept(u) /\ Labelled(u)
  /\ pc[u] \notin Answering /\ pc[u] # "idle"
  /\ UNCHANGED <<app, req>>

LEMMA Refuses ==
  ASSUME NEW u \in ULT, Midway(u), UNCHANGED <<phonebooks, struct>>,
         req[u].op # "hello",
         NEW r, Taken(u)' = Answer(r, Null),
         \/ r = "YP_ERR_FROM_MERCURY"
         \/ /\ r = "YP_ERR_INVALID_TOKEN"
            /\ ~Authorized(req[u]) /\ ~NullString(req[u])
         \/ /\ r \in {"YP_ERR_INVALID_BACKEND", "YP_ERR_INVALID_CONFIG"}
            /\ Authorized(req[u]) /\ ~NullString(req[u]) /\ req[u].op \in {"create", "open"}
  PROVE  Registry!Refuse(u)
<1>1. r \in Registry!Refusals(req[u])
  BY SameWords DEF Registry!Refusals
<1>2. Registry!Reply(u, r, Null) /\ Registry!Pending(u)
  BY Answers, Asked DEF Midway
<1>3. UNCHANGED <<phonebooks, Ever, Phase, req>>
  BY DEF Ever, Phase, Midway
<1> QED BY <1>1, <1>2, <1>3 DEF Registry!Refuse, Ever, Phase

LEMMA Misses ==
  ASSUME NEW u \in ULT, Midway(u), UNCHANGED <<phonebooks, struct>>,
         req[u].op \in {"close", "destroy", "sum"}, Authorized(req[u]),
         ~find_phonebook(req[u].id),
         Taken(u)' = Answer("YP_ERR_INVALID_PHONEBOOK", Null)
  PROVE  Registry!NotFound(u)
<1>1. Registry!Reply(u, "YP_ERR_INVALID_PHONEBOOK", Null) /\ Registry!Pending(u)
  BY Answers, Asked DEF Midway
<1>2. UNCHANGED <<phonebooks, Ever, Phase, req>>
  BY DEF Ever, Phase, Midway
<1> QED BY <1>1, <1>2, SameWords
  DEF Registry!NotFound, Ever, Phase, find_phonebook

LEMMA Greets ==
  ASSUME NEW u \in ULT, Midway(u), UNCHANGED <<phonebooks, struct>>,
         req[u].op = "hello", Taken(u)' = NoResponse
  PROVE  Registry!Serve(u)
<1>1. Registry!Reply(u, "no response", Null) /\ Registry!Pending(u)
  BY Answers, Asked DEF NoResponse, Midway
<1>2. UNCHANGED <<phonebooks, Ever, Phase, req>>
  BY DEF Ever, Phase, Midway
<1> QED BY <1>1, <1>2
  DEF Registry!Serve, Registry!Reply, Registry!NoResponse, Ever, Phase

LEMMA Sums ==
  ASSUME NEW u \in ULT, Midway(u), UNCHANGED <<phonebooks, struct>>,
         req[u].op = "sum", find_phonebook(req[u].id),
         Taken(u)' = Answer("YP_SUCCESS", Null)
  PROVE  Registry!Serve(u)
<1>1. Registry!Reply(u, "YP_SUCCESS", Null) /\ Registry!Pending(u)
  BY Answers, Asked DEF Midway
<1>2. UNCHANGED <<phonebooks, Ever, Phase, req>>
  BY DEF Ever, Phase, Midway
<1> QED BY <1>1, <1>2, SameWords DEF Registry!Serve, Ever, Phase, find_phonebook

LEMMA Admits ==
  ASSUME NEW u \in ULT, Midway(u), struct \in [Id -> {"none", "allocated", "freed"}],
         req[u].op \in {"create", "open"}, Authorized(req[u]),
         ~NullString(req[u]), NEW id \in Id, struct[id] = "none",
         struct' = [struct EXCEPT ![id] = "allocated"],
         phonebooks' = Append(phonebooks, id),
         Taken(u)' = Answer("YP_SUCCESS", id)
  PROVE  Registry!Admit(u)
<1>1. Registry!Reply(u, "YP_SUCCESS", id) /\ Registry!Pending(u)
  BY Answers, Asked DEF Midway
<1>2. id \notin Ever /\ Ever' = Ever \cup {id}
  BY DEF Ever
<1>3. Registry!Enter(id)
  BY <1>2 DEF Registry!Enter, Ever
<1>4. UNCHANGED <<Phase, req>>
  BY DEF Phase, Midway
<1> QED BY <1>1, <1>3, <1>4, SameWords DEF Registry!Admit, Phase

LEMMA Drops ==
  ASSUME NEW u \in ULT, Midway(u), struct \in [Id -> {"none", "allocated", "freed"}],
         req[u].op \in {"close", "destroy"}, Authorized(req[u]),
         NEW id \in Id, id = req[u].id, struct[id] = "allocated",
         struct' = [struct EXCEPT ![id] = "freed"], Unlinked(id),
         \/ Taken(u)' = Answer("YP_SUCCESS", Null)
         \/ req[u].op = "close" /\ Taken(u)' = Answer("YP_ERR_OTHER", Null)
  PROVE  Registry!Drop(u)
<1>1. Registry!Pending(u)
  BY Asked DEF Midway
<1>2. \/ Registry!Reply(u, "YP_SUCCESS", Null)
      \/ req[u].op = "close" /\ Registry!Reply(u, "YP_ERR_OTHER", Null)
  BY Answers DEF Midway
<1>3. UNCHANGED <<Ever, Phase, req>>
  BY DEF Ever, Phase, Midway
<1>4. \E k \in 1..Len(phonebooks) : /\ phonebooks[k] = req[u].id
                                    /\ phonebooks' = RemoveAt(phonebooks, k)
  BY DEF Unlinked
<1> QED BY <1>1, <1>2, <1>3, <1>4, SameWords DEF Registry!Drop, Ever, Phase

LEMMA Lists ==
  ASSUME NEW u \in ULT, Midway(u), UNCHANGED <<phonebooks, struct>>,
         req[u].op = "list", Authorized(req[u]),
         NEW ids, Taken(u)' = Answer("YP_SUCCESS", ids),
         ids = SubSeq(phonebooks, 1,
                      Registry!Smaller(Len(phonebooks), req[u].max_ids))
  PROVE  Registry!Enumerate(u)
<1>1. Registry!Pending(u) /\ Registry!Reply(u, "YP_SUCCESS", ids)
  BY Answers, Asked DEF Midway
<1>2. UNCHANGED <<phonebooks, Ever, Phase, req>>
  BY DEF Ever, Phase, Midway
<1> QED BY <1>1, <1>2, SameWords
  DEF Registry!Enumerate, Registry!Reply, Ever, Phase
-----------------------------------------------------------------------------
(* What list puts in its response is the prefix that the registry lists.   *)
LEMMA FilledIsPrefix ==
  ASSUME TypeOK, NEW u \in ULT, req[u] \in list_phonebooks_in_t,
         cnt[u] = Len(phonebooks),
         NEW ids, ids = LET count == IF cnt[u] < req[u].max_ids
                                     THEN cnt[u] ELSE req[u].max_ids
                        IN  [i \in 1..count |->
                               IF i <= Len(phonebooks) THEN phonebooks[i]
                                                       ELSE Null]
  PROVE  ids = SubSeq(phonebooks, 1,
                      Registry!Smaller(Len(phonebooks), req[u].max_ids))
<1> DEFINE n == IF Len(phonebooks) < req[u].max_ids
                THEN Len(phonebooks) ELSE req[u].max_ids
           prefix == SubSeq(phonebooks, 1, n)
<1>1. req[u].max_ids \in Nat
  BY VocabularyAssumption DEF list_phonebooks_in_t
<1>2. /\ Len(phonebooks) \in Nat
      /\ \A i \in 1..Len(phonebooks) : phonebooks[i] \in Id
  BY LenProperties, ElementOfSeq DEF TypeOK
<1>3. n \in 0..Len(phonebooks) /\ n \in Nat
  BY <1>1, <1>2
<1>4. Registry!Smaller(Len(phonebooks), req[u].max_ids) = n
  BY DEF Registry!Smaller
<1>5. ids = [i \in 1..n |->
               IF i <= Len(phonebooks) THEN phonebooks[i] ELSE Null]
  OBVIOUS
<1> HIDE DEF n
<1>6. ids = [i \in 1..n |-> phonebooks[i]]
  <2>1. \A i \in 1..n : i <= Len(phonebooks)
    BY <1>2, <1>3
  <2>2. \A i \in 1..n : (IF i <= Len(phonebooks) THEN phonebooks[i] ELSE Null)
                          = phonebooks[i]
    BY <2>1
  <2> QED BY <1>5, <2>2
<1>7. /\ prefix \in Seq(Id) /\ Len(prefix) = n
      /\ \A i \in 1..n : prefix[i] = phonebooks[i]
  BY <1>2, <1>3, SubSeqProperties
<1>8. prefix = [i \in 1..n |-> prefix[i]]
  BY <1>7, LenProperties
<1> HIDE DEF prefix
<1>9. ids = prefix
  BY <1>6, <1>7, <1>8
<1> QED BY <1>4, <1>9 DEF prefix

(* A list in progress has an array for the phonebooks there are.           *)
Sized == \A u \in ULT : pc[u] = "fill" => cnt[u] = Len(phonebooks)

(* Every step of a handler is one of the registry, or is not shown.        *)
LEMMA HandlerRefines ==
  ASSUME DInv, Sized, fault = "none", NEW u \in ULT, Handle(u)
  PROVE  \/ Registry!Refuse(u) \/ Registry!Admit(u) \/ Registry!Drop(u)
         \/ Registry!NotFound(u) \/ Registry!Enumerate(u) \/ Registry!Serve(u)
         \/ UNCHANGED Registry!vars
<1>1. TypeOK /\ TInv
  BY DEF DInv, TInv
<1>2. OthersKept(u) /\ req' = req /\ app' = app /\ Labelled(u)
  BY <1>1, HandlerFrame DEF DInv, LInv
<1>3. pc[u] # "idle"
  BY HandlerAwake
<1>4. Registered /\ Allocated
  BY HandlerServed DEF DInv
<1>5. /\ pc \in [ULT -> HandlerLabels] /\ pb \in [ULT -> Id \cup {Null}]
      /\ out \in [ULT -> Response \cup {Null}] /\ cnt \in [ULT -> 0..SizeMax]
      /\ struct \in [Id -> {"none", "allocated", "freed"}]
  BY <1>1 DEF TypeOK
<1>6. pc[u] \notin Answering => Midway(u)
  BY <1>2, <1>3 DEF Midway
<1>7. req[u] \in Request
  BY <1>2, <1>3 DEF Labelled
<1>8. \A id \in Id : struct[id] = "allocated" <=> find_phonebook(id)
  BY <1>4 DEF DInv, Stored, Expiring, Registered
<1> DEFINE Same == UNCHANGED <<phonebooks, struct>>
<1>9. ASSUME Same, Taken(u)' = Taken(u)
      PROVE  UNCHANGED Registry!vars
  BY <1>2, <1>9, HandlerHidden
<1>0. CASE fault' # "none"
  <2>1. Same /\ Taken(u)' = Taken(u)
    BY <1>0, <1>4, HandlerFault DEF server, handler, Taken
  <2> QED BY <1>9, <2>1
<1> SUFFICES ASSUME fault' = "none"
             PROVE  \/ Registry!Refuse(u) \/ Registry!Admit(u)
                    \/ Registry!Drop(u) \/ Registry!NotFound(u)
                    \/ Registry!Enumerate(u) \/ Registry!Serve(u)
                    \/ UNCHANGED Registry!vars
  BY <1>0
<1> USE DEF Goto, Set, Finish, server, Crash
<1>10. CASE Undecodable(u)
  <2>1. pc[u] = "queued" /\ Same /\ pc[u] \notin Answering
    BY <1>10 DEF Undecodable, Answering
  <2>2. CASE req[u].op = "hello"
    <3>1. Taken(u)' = NoResponse
      BY <1>5, <1>10, <2>2 DEF Undecodable, Taken
    <3> QED BY <1>6, <2>1, <2>2, <3>1, Greets
  <2>3. CASE req[u].op # "hello"
    <3>1. Taken(u)' = Answer("YP_ERR_FROM_MERCURY", Null)
      BY <1>5, <1>10, <2>3 DEF Undecodable, Taken
    <3> QED BY <1>6, <2>1, <2>3, <3>1, Refuses
  <2> QED BY <2>2, <2>3
<1>11. CASE BadToken(u)
  <2>1. pc[u] = "queued" /\ Same /\ pc[u] \notin Answering
        /\ req[u].op # "hello" /\ ~Authorized(req[u]) /\ ~NullString(req[u])
    BY <1>11 DEF BadToken, Answering, Starts, Authorized
  <2>2. Taken(u)' = Answer("YP_ERR_INVALID_TOKEN", Null)
    BY <1>5, <1>11 DEF BadToken, Taken
  <2> QED BY <1>6, <2>1, <2>2, Refuses
<1>12. CASE CreateBegin(u)
  <2>1. pc[u] = "queued" /\ Same /\ pc[u] \notin Answering
        /\ req[u].op \in {"create", "open"} /\ Authorized(req[u])
        /\ ~NullString(req[u])
    BY <1>12 DEF CreateBegin, Answering, Starts, Authorized
  <2>2. CASE ~find_backend_impl(req[u].type)
    <3>1. Taken(u)' = Answer("YP_ERR_INVALID_BACKEND", Null)
      BY <1>5, <1>12, <2>2 DEF CreateBegin, Taken
    <3> QED BY <1>6, <2>1, <3>1, Refuses
  <2>3. CASE find_backend_impl(req[u].type)
    <3>1. Taken(u)' = Taken(u)
      BY <1>5, <1>12, <2>1, <2>3 DEF CreateBegin, Taken
    <3> QED BY <1>9, <2>1, <3>1
  <2> QED BY <2>2, <2>3
<1>13. CASE CloseBegin(u) \/ DestroyBegin(u) \/ UseBegin(u)
  <2>1. PICK found \in {"backend_close", "backend_destroy", "use"} : Lookup(u, found)
    BY <1>13 DEF CloseBegin, DestroyBegin, UseBegin
  <2>2. pc[u] = "queued" /\ Same /\ pc[u] \notin Answering
        /\ req[u].op \in {"close", "destroy", "hello", "sum"} /\ Authorized(req[u])
    BY <1>13, <2>1 DEF CloseBegin, DestroyBegin, UseBegin, Lookup, Answering,
                       Starts, Authorized
  <2>3. CASE find_phonebook(req[u].id)
    <3>1. Taken(u)' = Taken(u)
      BY <1>5, <2>1, <2>2, <2>3 DEF Lookup, Taken
    <3> QED BY <1>9, <2>2, <3>1
  <2>4. CASE ~find_phonebook(req[u].id) /\ req[u].op = "hello"
    <3>1. Taken(u)' = NoResponse
      BY <1>5, <2>1, <2>4 DEF Lookup, Taken
    <3> QED BY <1>6, <2>2, <2>4, <3>1, Greets
  <2>5. CASE ~find_phonebook(req[u].id) /\ req[u].op # "hello"
    <3>1. Taken(u)' = Answer("YP_ERR_INVALID_PHONEBOOK", Null)
      BY <1>5, <2>1, <2>5 DEF Lookup, Taken
    <3> QED BY <1>6, <2>2, <2>5, <3>1, Misses
  <2> QED BY <2>3, <2>4, <2>5
<1>14. CASE ListBegin(u)
  <2>1. Taken(u)' = Taken(u) /\ Same
    BY <1>5, <1>14 DEF ListBegin, Starts, Taken
  <2> QED BY <1>9, <2>1
<1>15. CASE BackendNew(u)
  <2>1. Taken(u)' = Taken(u) /\ Same
    BY <1>5, <1>15 DEF BackendNew, Taken
  <2> QED BY <1>9, <2>1
<1>29. CASE BackendNewFails(u)
  <2>1. pc[u] = "backend_new" /\ Same /\ pc[u] \notin Answering
        /\ req[u].op \in {"create", "open"} /\ Authorized(req[u])
        /\ ~NullString(req[u])
    BY <1>2, <1>4, <1>29 DEF BackendNewFails, Answering, Labelled
  <2>2. Taken(u)' = Answer("YP_ERR_INVALID_CONFIG", Null)
    BY <1>4, <1>5, <1>29 DEF BackendNewFails, Taken
  <2> QED BY <1>6, <2>1, <2>2, Refuses
<1>16. CASE AddPhonebook(u)
  <2>1. pc[u] = "add" /\ pc[u] \notin Answering
        /\ req[u].op \in {"create", "open"} /\ Authorized(req[u])
        /\ ~NullString(req[u])
    BY <1>2, <1>16 DEF AddPhonebook, Answering, Labelled
  <2>2. pb[u] \in Id /\ struct[pb[u]] = "none"
    BY <1>1, <2>1 DEF TInv, Bound, DInv, Unborn
  <2>3. /\ struct' = [struct EXCEPT ![pb[u]] = "allocated"]
        /\ phonebooks' = Append(phonebooks, pb[u])
        /\ pc'[u] = "incr" /\ pb' = pb
    BY <1>4, <1>5, <1>16 DEF AddPhonebook
  <2>4. Taken(u)' = Answer("YP_SUCCESS", pb[u])
    BY <2>3 DEF Taken
  <2> QED BY <1>5, <1>6, <2>1, <2>2, <2>3, <2>4, Admits
<1>17. CASE IncrLoad(u)
  <2>1. Taken(u)' = Taken(u) /\ Same
    BY <1>4, <1>5, <1>17 DEF IncrLoad, LoadCount, Taken
  <2> QED BY <1>9, <2>1
<1>18. CASE IncrStore(u)
  <2>1. Taken(u)' = Taken(u) /\ Same
    BY <1>4, <1>5, <1>18 DEF IncrStore, StoreCount, Taken
  <2> QED BY <1>9, <2>1
<1>19. CASE CloseBackend(u)
  <2>1. Taken(u)' = Taken(u) /\ Same
    BY <1>5, <1>19 DEF CloseBackend, Taken
  <2> QED BY <1>9, <2>1
<1>20. CASE Unlink(u)
  <2>1. /\ pc[u] \in {"unlink", "unlink_destroyed"} /\ pc[u] \notin Answering
        /\ req[u].op \in {"close", "destroy"} /\ Authorized(req[u])
        /\ pb[u] = req[u].id /\ find_phonebook(pb[u])
    BY <1>2, <1>20 DEF Unlink, Answering, Labelled
  <2>2. pb[u] \in Id /\ struct[pb[u]] = "allocated"
    BY <1>1, <1>8, <2>1, FoundIsId DEF TypeOK
  <2>3. /\ Unlinked(pb[u]) /\ struct' = [struct EXCEPT ![pb[u]] = "freed"]
        /\ pc'[u] = "decr" /\ out' = out
    BY <1>4, <1>5, <1>20, <2>1 DEF Unlink
  <2>4. \/ Taken(u)' = Answer("YP_SUCCESS", Null)
        \/ req[u].op = "close" /\ Taken(u)' = Answer("YP_ERR_OTHER", Null)
    BY <1>2, <2>1, <2>3 DEF Labelled, Taken
  <2> QED BY <1>5, <1>6, <2>1, <2>2, <2>3, <2>4, Drops
<1>21. CASE DecrLoad(u)
  <2>1. Taken(u)' = Taken(u) /\ Same
    BY <1>4, <1>5, <1>21 DEF DecrLoad, LoadCount, Taken
  <2> QED BY <1>9, <2>1
<1>22. CASE DecrStore(u)
  <2>1. Taken(u)' = Taken(u) /\ Same
    BY <1>4, <1>5, <1>22 DEF DecrStore, StoreCount, Taken
  <2> QED BY <1>9, <2>1
<1>23. CASE DestroyBackend(u)
  <2>1. Taken(u)' = Taken(u) /\ Same
    BY <1>5, <1>23 DEF DestroyBackend, Taken
  <2> QED BY <1>9, <2>1
<1>24. CASE RemoveDestroyed(u)
  <2>1. pc[u] = "remove" /\ Same /\ pc[u] \notin Answering
        /\ req[u].op = "destroy" /\ Authorized(req[u]) /\ pb[u] = req[u].id
    BY <1>2, <1>24 DEF RemoveDestroyed, Answering, Labelled
  <2>2. CASE find_phonebook(pb[u])
    <3>1. Taken(u)' = Taken(u)
      BY <1>4, <1>5, <1>24, <2>2 DEF RemoveDestroyed, Taken
    <3> QED BY <1>9, <2>1, <3>1
  <2>3. CASE ~find_phonebook(pb[u])
    <3>1. Taken(u)' = Answer("YP_ERR_INVALID_PHONEBOOK", Null)
      BY <1>4, <1>5, <1>24, <2>3 DEF RemoveDestroyed, Taken
    <3> QED BY <1>6, <2>1, <2>3, <3>1, Misses
  <2> QED BY <2>2, <2>3
<1>25. CASE Fill(u)
  <2>1. pc[u] = "fill" /\ Same /\ pc[u] \notin Answering
        /\ req[u].op = "list" /\ Authorized(req[u])
        /\ req[u] \in list_phonebooks_in_t
    BY <1>1, <1>2, <1>25 DEF Fill, Answering, Labelled, TInv, Bound
  <2>2. cnt[u] = Len(phonebooks)
    BY <2>1 DEF Sized
  <2>3. PICK ids :
          /\ ids = LET count == IF cnt[u] < req[u].max_ids
                                THEN cnt[u] ELSE req[u].max_ids
                   IN  [i \in 1..count |->
                          IF i <= Len(phonebooks) THEN phonebooks[i] ELSE Null]
          /\ Finish(u, "YP_SUCCESS", ids)
    BY <1>4, <1>25 DEF Fill
  <2>4. Taken(u)' = Answer("YP_SUCCESS", ids)
    BY <1>5, <2>3 DEF Taken
  <2>5. ids = SubSeq(phonebooks, 1,
                     Registry!Smaller(Len(phonebooks), req[u].max_ids))
    BY <1>1, <2>1, <2>2, <2>3, FilledIsPrefix
  <2> QED BY <1>6, <2>1, <2>4, <2>5, Lists
<1>26. CASE Use(u)
  <2>1. pc[u] = "use" /\ Same /\ pc[u] \notin Answering
        /\ req[u].op \in {"hello", "sum"} /\ pb[u] = req[u].id /\ Usable(pb[u])
    BY <1>2, <1>26 DEF Use, Answering, Labelled
  <2>2. CASE req[u].op = "hello"
    <3>1. Taken(u)' = NoResponse
      BY <1>1, <1>5, <1>26, <2>2 DEF Use, Taken
    <3> QED BY <1>6, <2>1, <2>2, <3>1, Greets
  <2>3. CASE req[u].op = "sum"
    <3>1. Taken(u)' = Answer("YP_SUCCESS", Null)
      BY <1>1, <1>5, <1>26, <2>3 DEF Use, Taken
    <3>2. find_phonebook(req[u].id)
      <4>1. req[u].id \in Id
        BY <1>7, <2>3, RequestFields
      <4> QED BY <1>8, <2>1, <4>1 DEF Usable
    <3> QED BY <1>6, <2>1, <2>3, <3>1, <3>2, Sums
  <2> QED BY <2>1, <2>2, <2>3
<1>27. CASE Respond(u)
  <2>1. Taken(u)' = Taken(u) /\ Same
    BY <1>5, <1>27 DEF Respond, Taken
  <2> QED BY <1>9, <2>1
<1>28. ~Orphaned(u) /\ ~NullCompared(u)
  BY <1>4 DEF Orphaned, NullCompared
<1> QED
  BY <1>10, <1>11, <1>12, <1>13, <1>14, <1>15, <1>16, <1>17, <1>18, <1>19, <1>20,
     <1>21, <1>22, <1>23, <1>24, <1>25, <1>26, <1>27, <1>28, <1>29 DEF Handle

(* So is every step of the application: it registers what it configures,   *)
(* and finalization expires the phonebooks from the front.                 *)
LEMMA TailIsRemoval ==
  ASSUME NEW S, NEW s \in Seq(S), s # <<>>
  PROVE  RemoveAt(s, 1) = Tail(s)
<1>1. Len(s) \in Nat \ {0} /\ 1 \in 1..Len(s)
  BY EmptySeq
<1>2. /\ RemoveAt(s, 1) \in Seq(S) /\ Len(RemoveAt(s, 1)) = Len(s) - 1
      /\ \A j \in 1..(Len(s) - 1) : RemoveAt(s, 1)[j] = s[j + 1]
  BY <1>1, RemoveAtProperties
<1>3. /\ Tail(s) \in Seq(S) /\ Len(Tail(s)) = Len(s) - 1
      /\ \A j \in 1..(Len(s) - 1) : Tail(s)[j] = s[j + 1]
  BY HeadTailProperties
<1> QED BY <1>2, <1>3, SeqEqual

LEMMA ApplicationRefines ==
  ASSUME DrainFirst, DInv, fault = "none", Application
  PROVE  \/ Registry!Start \/ Registry!Load \/ Registry!Opened
         \/ Registry!Close \/ Registry!Expire \/ Registry!Closed
         \/ UNCHANGED Registry!vars
<1>1. /\ TypeOK /\ Stored /\ AtFront
      /\ struct \in [Id -> {"none", "allocated", "freed"}]
  BY DEF DInv, TInv, TypeOK
<1>2. UNCHANGED handler
  BY <1>1 DEF Application, RegisterStart, RegisterEntry, RegisterDone,
     RegisterBackend, FinBegin, FinUnlink, FinClose, FinFree, FinEnd, Crash
<1>3. /\ req' = req /\ pc' = pc /\ out' = out /\ pb' = pb
      /\ \A w \in ULT : Taken(w)' = Taken(w)
  BY <1>2 DEF handler, Taken
<1>4. UNCHANGED [w \in ULT |-> Taken(w)]
  BY <1>3
<1>0. CASE fault' # "none"
  <2>1. UNCHANGED <<server, thread, handler>>
    BY <1>0 DEF Application, RegisterStart, RegisterEntry, RegisterDone,
       RegisterBackend, FinBegin, FinUnlink, FinClose, FinFree, FinEnd, Crash
  <2>2. UNCHANGED <<phonebooks, Ever, Phase, req>>
    BY <1>3, <2>1 DEF server, thread, Ever, Phase
  <2> QED BY <1>3, <2>2, Hidden
<1> SUFFICES ASSUME fault' = "none"
             PROVE  \/ Registry!Start \/ Registry!Load \/ Registry!Opened
                    \/ Registry!Close \/ Registry!Expire \/ Registry!Closed
                    \/ UNCHANGED Registry!vars
  BY <1>0
<1> USE DEF server, Crash
<1>5. CASE RegisterStart
  <2>1. Phase = "down" /\ Phase' = "loading" /\ Ever' = Ever
        /\ phonebooks' = phonebooks
    BY <1>5 DEF RegisterStart, Phase, Ever
  <2> QED BY <1>3, <1>4, <2>1 DEF Registry!Start, Phase, Ever, Taken
<1>6. CASE RegisterEntry
  <2>1. Phase = "loading" /\ Phase' = Phase
    BY <1>6 DEF RegisterEntry, Phase
  <2>2. CASE UNCHANGED server
    <3>1. UNCHANGED <<phonebooks, Ever, Phase, req>>
      BY <1>3, <2>1, <2>2 DEF Ever
    <3> QED BY <1>3, <3>1, Hidden
  <2>3. CASE ~UNCHANGED server
    <3>1. PICK id \in Id :
            /\ Fresh(id)
            /\ struct' = [struct EXCEPT ![id] = "allocated"]
            /\ phonebooks' = Append(phonebooks, id)
      BY <1>6, <2>3 DEF RegisterEntry
    <3>2. id \notin Ever /\ Ever' = Ever \cup {id}
      BY <1>1, <3>1 DEF Ever, Fresh
    <3>3. Registry!Enter(id)
      BY <3>1, <3>2 DEF Registry!Enter, Ever
    <3> QED BY <1>3, <1>4, <2>1, <3>3 DEF Registry!Load, Phase, Taken
  <2> QED BY <2>2, <2>3
<1>7. CASE RegisterDone
  <2>1. Phase = "loading" /\ Phase' = "open" /\ Ever' = Ever
        /\ phonebooks' = phonebooks
    BY <1>7 DEF RegisterDone, Phase, Ever
  <2> QED BY <1>3, <1>4, <2>1 DEF Registry!Opened, Phase, Ever, Taken
<1>8. CASE RegisterBackend
  <2>1. UNCHANGED <<phonebooks, Ever, Phase, req>>
    BY <1>3, <1>8 DEF RegisterBackend, thread, Ever, Phase
  <2> QED BY <1>3, <2>1, Hidden
<1>9. CASE FinBegin
  <2>1. Phase = "open" /\ Phase' = "closing" /\ Ever' = Ever
        /\ phonebooks' = phonebooks
    BY <1>9 DEF FinBegin, Phase, Ever
  <2>2. ASSUME NEW u \in ULT PROVE ~Registry!Pending(u)
    <3>1. pc[u] \in {"idle", "done"} /\ Labelled(u)
      BY <1>9 DEF FinBegin, Idle, DInv, LInv
    <3>2. req[u] = Null \/ Taken(u) # Null
      BY <3>1, NullAssumption DEF Labelled, Taken
    <3> QED BY <3>2 DEF Registry!Pending, Taken
  <2> QED BY <1>3, <1>4, <2>1, <2>2 DEF Registry!Close, Phase, Ever, Taken
<1>10. CASE FinUnlink
  <2>1. phonebooks # <<>> /\ cur = phonebooks[1] /\ phonebooks \in Seq(Id)
    BY <1>1, <1>10 DEF FinUnlink, AtFront, TypeOK
  <2>2. Unlinked(cur) /\ Phase = "closing" /\ Phase' = Phase /\ Ever' = Ever
    BY <1>1, <1>10 DEF FinUnlink, Phase, Ever
  <2>3. PICK k \in 1..Len(phonebooks) :
          phonebooks[k] = cur /\ phonebooks' = RemoveAt(phonebooks, k)
    BY <2>2 DEF Unlinked
  <2>4. k = 1
    <3>1. Len(phonebooks) \in Nat \ {0}
      BY <2>1, EmptySeq
    <3> QED BY <1>1, <2>1, <2>3, <3>1 DEF Stored, Distinct
  <2>5. phonebooks' = Tail(phonebooks)
    BY <2>1, <2>3, <2>4, TailIsRemoval
  <2> QED BY <1>3, <1>4, <2>1, <2>2, <2>5 DEF Registry!Expire, Phase, Ever, Taken
<1>11. CASE FinClose
  <2>1. UNCHANGED <<phonebooks, Ever, Phase, req>>
    BY <1>1, <1>3, <1>11 DEF FinClose, Ever, Phase
  <2> QED BY <1>3, <2>1, Hidden
<1>12. CASE FinFree
  <2>1. cur \in Id /\ struct[cur] = "allocated"
    BY <1>1, <1>12 DEF FinFree, AtFront, Stored, Expiring
  <2>2. /\ struct' = [struct EXCEPT ![cur] = "freed"] /\ phonebooks' = phonebooks
        /\ app = "fin_free" /\ app' \in {"fin_end", "fin_unlink"}
    BY <1>1, <1>12 DEF FinFree
  <2>3. Ever' = Ever
    BY <1>1, <2>1, <2>2 DEF Ever
  <2>4. Phase' = Phase
    BY <2>2 DEF Phase
  <2> QED BY <1>3, <2>2, <2>3, <2>4, Hidden
<1>13. CASE FinEnd
  <2>1. Phase = "closing" /\ Phase' = "closed" /\ Ever' = Ever
        /\ phonebooks = <<>> /\ phonebooks' = phonebooks
    BY <1>1, <1>13 DEF FinEnd, Phase, Ever, AtFront
  <2> QED BY <1>3, <1>4, <2>1 DEF Registry!Closed, Phase, Ever, Taken
<1> QED
  BY <1>5, <1>6, <1>7, <1>8, <1>9, <1>10, <1>11, <1>12, <1>13 DEF Application

(* The request that arrives is asked of the registry.                      *)
LEMMA ArriveRefines ==
  ASSUME LInv, TypeOK, NEW u \in ULT, Arrive(u)
  PROVE  Registry!Ask(u)
<1>1. PICK r \in Request : req' = [req EXCEPT ![u] = r]
  BY DEF Arrive
<1>2. pc[u] = "idle" /\ req[u] = Null
  BY DEF Arrive, LInv, Labelled
<1>3. \A w \in ULT : Taken(w)' = Taken(w)
  <2>1. pc'[u] = "queued" /\ \A w \in ULT \ {u} : pc'[w] = pc[w]
    BY DEF Arrive, Goto, TypeOK
  <2> QED BY <1>2, <2>1 DEF Arrive, Taken
<1>4. UNCHANGED [w \in ULT |-> Taken(w)]
  BY <1>3
<1>5. /\ Phase \in {"loading", "open"} /\ Phase' = Phase
      /\ Ever' = Ever /\ phonebooks' = phonebooks
  BY DEF Arrive, Registered, server, thread, Phase, Ever
<1> QED BY <1>1, <1>2, <1>4, <1>5, SameRequests
  DEF Registry!Ask, Phase, Ever, Taken

LEMMA InitRefines == Init => Registry!Init
<1> SUFFICES ASSUME Init PROVE Registry!Init
  OBVIOUS
<1>1. Ever = {} /\ Phase = "down" /\ phonebooks = <<>>
  BY DEF Init, Ever, Phase
<1>2. req = [u \in ULT |-> Null] /\ [u \in ULT |-> Taken(u)] = [u \in ULT |-> Null]
  BY DEF Init, Taken
<1> QED BY <1>1, <1>2 DEF Registry!Init, Ever, Phase, Taken

LEMMA NextRefines ==
  ASSUME DrainFirst, DInv, Sized, [Next]_vars
  PROVE  [Registry!Next]_(Registry!vars)
<1>1. TypeOK /\ LInv
  BY DEF DInv, TInv
<1>2. CASE \E u \in ULT : Arrive(u)
  BY <1>1, <1>2, ArriveRefines DEF Registry!Next
<1>3. CASE \E u \in ULT : HandlerStep(u)
  BY <1>3, HandlerRefines DEF Registry!Next, HandlerStep
<1>4. CASE ApplicationStep
  BY <1>4, ApplicationRefines DEF Registry!Next, ApplicationStep
<1>5. CASE UNCHANGED vars
  <2>1. /\ UNCHANGED <<phonebooks, Ever, Phase, req>>
        /\ \A w \in ULT : Taken(w)' = Taken(w)
    BY <1>5 DEF vars, server, thread, handler, Ever, Phase, Taken
  <2> QED BY <2>1, Hidden
<1> QED BY <1>2, <1>3, <1>4, <1>5 DEF Next, Ended, Halted

(* Drained, the provider implements the registry as long as list allocates *)
(* for as many phonebooks as it finds: the only thing it needs the counter *)
(* for.                                                                    *)
LEMMA SizedImplements ==
  ASSUME DrainFirst
  PROVE  Spec /\ []Sized => ImplementsRegistry
<1>1. DInv /\ Sized /\ [Next]_vars => [Registry!Next]_(Registry!vars)
  BY NextRefines
<1> QED BY <1>1, InitRefines, DrainedInv, PTL
  DEF Spec, ImplementsRegistry, Registry!Spec

(* Cooperatively scheduled and drained, the provider keeps every promise   *)
(* of the registry: each request takes effect at one instant.              *)
THEOREM CoopImplementsRegistry ==
  ASSUME Cooperative
  PROVE  Spec => ImplementsRegistry
<1>1. IInv => Sized
  <2> SUFFICES ASSUME IInv, NEW u \in ULT, pc[u] = "fill"
               PROVE  cnt[u] = Len(phonebooks)
    BY DEF Sized
  <2>1. Registered /\ \A v \in ULT : pc[v] \notin Counting
    BY DEF IInv, Drained, Idle, Alone, Counting, BaseYields
  <2> QED BY <2>1 DEF IInv, Counted
<1>2. DrainFirst
  BY DEF Cooperative
<1> QED BY <1>1, <1>2, CoopInvariant, SizedImplements, PTL

(* So it does with backends that block: whatever a backend function lets   *)
(* in before or after its effect, the answers are those of the registry,   *)
(* until a handler meets a phonebook that another one released.            *)
THEOREM BlockingImplementsRegistry ==
  ASSUME OneStream, Countable, DrainFirst
  PROVE  Spec => ImplementsRegistry
<1>1. CInv => Sized
  <2> SUFFICES ASSUME CInv, NEW u \in ULT, pc[u] = "fill"
               PROVE  cnt[u] = Len(phonebooks)
    BY DEF Sized
  <2>1. /\ \A v \in ULT : pc[v] \notin Counting
        /\ Registered /\ cnt[u] = num_phonebooks
    BY DEF CInv, Steady, Busy, Counting
  <2>2. Tally(0, 0)
    BY <2>1 DEF CInv, Tallied
  <2>3. Len(phonebooks) \in Nat /\ num_phonebooks \in Nat
    BY LenProperties DEF CInv, TInv, TypeOK
  <2> QED BY <2>1, <2>2, <2>3 DEF Tally
<1>2. Uninterrupted
  BY DEF OneStream, Uninterrupted, Busy, Counting, BlockingYields, BaseYields,
         AllLabels, HandlerLabels
<1> QED BY <1>1, <1>2, CounterInvariant, SizedImplements, PTL
=============================================================================
