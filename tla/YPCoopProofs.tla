---------------------------- MODULE YPCoopProofs -----------------------------
(***************************************************************************)
(* Safety of the provider under cooperative scheduling: one execution      *)
(* stream, backends that never block, and margo_finalize, which drains the *)
(* requests in progress.  The invariant is IInv; these theorems hold for   *)
(* any number of requests, phonebooks, backends and tokens.                *)
(***************************************************************************)
EXTENDS YPProviderProofs

Rest == {"idle", "queued", "respond", "done"}

(* What IInv says when u is the only handler at work.                      *)
Local(u) ==
  /\ Len(phonebooks) <= SizeMax /\ Distinct
  /\ \A id \in Id : struct[id] = "allocated" <=> find_phonebook(id)
  /\ \A id \in Id : ctx[id] = "open" =>
       find_phonebook(id) \/ (pc[u] = "add" /\ pb[u] = id)
  /\ \A id \in Id : find_phonebook(id) =>
       \/ ctx[id] = "open"
       \/ pc[u] \in {"unlink", "remove", "unlink_destroyed"} /\ pb[u] = id
  /\ pc[u] \in {"backend_new", "add"} => struct[pb[u]] = "none"
  /\ pc[u] = "add" => ctx[pb[u]] = "open"
  /\ pc[u] \in {"backend_close", "backend_destroy", "use"} =>
       find_phonebook(pb[u]) /\ ctx[pb[u]] = "open"
  /\ pc[u] \in {"unlink", "remove", "unlink_destroyed"} =>
       find_phonebook(pb[u]) /\ ctx[pb[u]] # "open"
  /\ pc[u] \in {"incr", "incr_store"} => num_phonebooks + 1 = Len(phonebooks)
  /\ pc[u] \in {"decr", "decr_store"} => num_phonebooks = Len(phonebooks) + 1
  /\ pc[u] \notin Counting => num_phonebooks = Len(phonebooks)
  /\ pc[u] \in {"incr_store", "decr_store", "fill"} => cnt[u] = num_phonebooks

OthersRest(u) == \A v \in ULT \ {u} : pc[v] \in Rest

LEMMA Localize ==
  ASSUME IInv, NEW u \in ULT, app = "serving", OthersRest(u)
  PROVE  Local(u)
<1>1. Len(phonebooks) <= SizeMax /\ Distinct
  BY DEF IInv, Table, Stored
<1>2. \A id \in Id : struct[id] = "allocated" <=> find_phonebook(id)
  BY DEF IInv, Table, Stored, Expiring
<1>3. \A id \in Id :
        /\ ctx[id] = "open" =>
             find_phonebook(id) \/ (pc[u] = "add" /\ pb[u] = id)
        /\ find_phonebook(id) =>
             \/ ctx[id] = "open"
             \/ pc[u] \in {"unlink", "remove", "unlink_destroyed"} /\ pb[u] = id
  BY DEF IInv, Contexts, OthersRest, Rest
<1>4. /\ pc[u] \in {"incr", "incr_store"} => num_phonebooks + 1 = Len(phonebooks)
      /\ pc[u] \in {"decr", "decr_store"} => num_phonebooks = Len(phonebooks) + 1
      /\ pc[u] \notin Counting => num_phonebooks = Len(phonebooks)
      /\ pc[u] \in {"incr_store", "decr_store", "fill"} =>
           cnt[u] = num_phonebooks
  BY DEF IInv, Counted, OthersRest, Rest, Registered, Counting
<1> QED BY <1>1, <1>2, <1>3, <1>4 DEF Local, IInv, Holding

LEMMA Globalize ==
  ASSUME TInv', OnlyNullStrings', NEW u \in ULT, app' = "serving", OthersRest(u)',
         Local(u)'
  PROVE  IInv'
<1>1. Alone'
  BY DEF Alone, BaseYields, OthersRest, Rest
<1>2. Drained'
  BY DEF Drained, Registered
<1>3. Table' /\ Cursor'
  BY DEF Local, Table, Stored, Expiring, Cursor, AtFront
<1>4. Contexts' /\ Holding'
  BY DEF Local, Contexts, Holding, OthersRest, Rest
<1>5. Counted'
  BY DEF Local, Counted, OthersRest, Rest, Counting
<1> QED BY <1>1, <1>2, <1>3, <1>4, <1>5 DEF IInv
-----------------------------------------------------------------------------
(* How the two updates of the hash change what can be found in it.         *)
LEMMA FindAppended ==
  ASSUME phonebooks \in Seq(Id), NEW id \in Id,
         phonebooks' = Append(phonebooks, id)
  PROVE  /\ Len(phonebooks') = Len(phonebooks) + 1
         /\ \A x : find_phonebook(x)' <=> find_phonebook(x) \/ x = id
         /\ Distinct /\ ~find_phonebook(id) => Distinct'
<1>1. /\ Len(phonebooks) \in Nat
      /\ Len(phonebooks') = Len(phonebooks) + 1
      /\ \A i \in 1..Len(phonebooks) : phonebooks'[i] = phonebooks[i]
      /\ phonebooks'[Len(phonebooks) + 1] = id
  BY AppendProperties, LenProperties
<1> QED BY <1>1 DEF find_phonebook, Contains, Distinct

LEMMA FindUnlinked ==
  ASSUME phonebooks \in Seq(Id), NEW id, Unlinked(id), Distinct
  PROVE  /\ Len(phonebooks') = Len(phonebooks) - 1
         /\ \A x : find_phonebook(x)' <=> find_phonebook(x) /\ x # id
         /\ Distinct'
<1>1. PICK k \in 1..Len(phonebooks) :
        /\ phonebooks[k] = id
        /\ \A j \in 1..(Len(phonebooks) - 1) :
             phonebooks'[j] = IF j < k THEN phonebooks[j] ELSE phonebooks[j + 1]
  BY UnlinkedProperties
<1>2. Len(phonebooks) \in Nat /\ Len(phonebooks') = Len(phonebooks) - 1
  BY UnlinkedProperties, LenProperties
<1>3. ASSUME NEW x, find_phonebook(x)'
      PROVE  find_phonebook(x) /\ x # id
  BY <1>1, <1>2, <1>3 DEF find_phonebook, Contains, Distinct
<1>4. ASSUME NEW x, find_phonebook(x), x # id
      PROVE  find_phonebook(x)'
  <2>1. PICK i \in 1..Len(phonebooks) : phonebooks[i] = x
    BY <1>4 DEF find_phonebook, Contains
  <2>2. CASE i < k
    BY <1>1, <1>2, <2>1, <2>2 DEF find_phonebook, Contains
  <2>3. CASE i > k
    <3>1. i - 1 \in 1..Len(phonebooks') /\ phonebooks'[i - 1] = x
      BY <1>1, <1>2, <2>1, <2>3
    <3> QED BY <3>1 DEF find_phonebook, Contains
  <2> QED BY <1>1, <1>4, <2>1, <2>2, <2>3
<1>5. Distinct'
  BY <1>1, <1>2 DEF Distinct
<1> QED BY <1>2, <1>3, <1>4, <1>5
-----------------------------------------------------------------------------
(* A handler runs alone, and only while the provider is in service.        *)
LEMMA HandlerAlone ==
  ASSUME Cooperative, IInv, NEW u \in ULT, HandlerRuns(u), Handle(u)
  PROVE  app = "serving" /\ OthersRest(u) /\ pc[u] \notin {"idle", "done"}
<1>1. /\ app \in BaseYields
      /\ \A v \in ULT \ {u} : pc[v] \in BaseYields
  BY DEF Cooperative, HandlerRuns, IInv, TInv, TypeOK, AllLabels
<1>2. OthersRest(u)
  <2>1. \A v \in ULT \ {u} : pc[v] \in BaseYields \cap HandlerLabels
    BY <1>1 DEF IInv, TInv, TypeOK
  <2> QED BY <2>1 DEF OthersRest, Rest, BaseYields, HandlerLabels
<1>3. pc[u] \notin {"idle", "done"}
  BY HandlerAwake
<1>4. app = "serving"
  BY <1>1, <1>3 DEF IInv, Drained, Idle, Registered, BaseYields
<1> QED BY <1>2, <1>3, <1>4

(* The step of a handler faults on a NULL string only.                     *)
Harmless(u) ==
  fault' # "none" =>
    fault' = "null_string" /\ pc'[u] = "queued" /\ NullString(req'[u])

(* What such a step has to establish, and what it never disturbs.          *)
LEMMA HandlerLocal ==
  ASSUME Cooperative, IInv, NEW u \in ULT, fault = "none", HandlerRuns(u),
         Handle(u)
  PROVE  /\ UNCHANGED thread /\ Local(u)' /\ Harmless(u)
         /\ \A v \in ULT \ {u} : pc'[v] = pc[v]
<1>1. app = "serving" /\ OthersRest(u) /\ pc[u] \notin {"idle", "done"}
  BY HandlerAlone
<1>2. Allocated /\ Registered
  BY <1>1 DEF Allocated, Registered
<1>3. Local(u)
  BY <1>1, Localize
<1>4. TypeOK /\ Bound
  BY DEF IInv, TInv
<1>21. CASE NullCompared(u)
  BY <1>3, <1>21
     DEF NullCompared, Crash, Harmless, server, thread, handler, Local, Distinct,
         find_phonebook
<1> USE <1>2, <1>4 DEF TypeOK, server, thread, handler, Goto, Set, Finish, Counting,
                       Harmless
<1> HIDE DEF Allocated, Registered
<1>5. ~Orphaned(u)
  BY DEF Orphaned
<1> DEFINE Goal == /\ UNCHANGED thread /\ Local(u)' /\ Harmless(u)
                   /\ \A v \in ULT \ {u} : pc'[v] = pc[v]
<1>6. CASE Undecodable(u) \/ BadToken(u) \/ Respond(u)
  BY <1>3, <1>6
     DEF Undecodable, BadToken, Starts, Respond, Local, Distinct, find_phonebook
<1>7. CASE CreateBegin(u)
  BY <1>3, <1>7
     DEF CreateBegin, Starts, Fresh, Local, Distinct, find_phonebook
<1>8. ASSUME NEW found \in {"backend_close", "backend_destroy", "use"},
             pc[u] = "queued", Lookup(u, found)
      PROVE  Goal
  <2>1. find_phonebook(req[u].id) =>
          req[u].id \in Id /\ ctx[req[u].id] = "open"
    BY <1>3, <1>8, FoundIsId DEF Local
  <2>2. \A x : find_phonebook(x)' <=> find_phonebook(x)
    BY <1>8 DEF Lookup, find_phonebook
  <2>3. Distinct'
    BY <1>3, <1>8 DEF Lookup, Local, Distinct
  <2> QED BY <1>3, <1>8, <2>1, <2>2, <2>3 DEF Lookup, Local
<1>9. CASE CloseBegin(u) \/ DestroyBegin(u) \/ UseBegin(u)
  BY <1>8, <1>9 DEF CloseBegin, DestroyBegin, UseBegin, Starts
<1>10. CASE ListBegin(u)
  BY <1>3, <1>10 DEF ListBegin, Starts, Local, Distinct, find_phonebook
<1>11. CASE BackendNew(u)
  <2>1. pb[u] \in Id /\ struct[pb[u]] = "none"
    BY <1>3, <1>11 DEF BackendNew, Bound, Local
  <2>2. ~find_phonebook(pb[u])
    BY <1>3, <2>1 DEF Local
  <2>3. \A x : find_phonebook(x)' <=> find_phonebook(x)
    BY <1>11 DEF BackendNew, find_phonebook
  <2>4. Distinct'
    BY <1>3, <1>11 DEF BackendNew, Local, Distinct
  <2> QED BY <1>3, <1>11, <2>1, <2>2, <2>3, <2>4 DEF BackendNew, Local
<1>22. CASE BackendNewFails(u)
  BY <1>3, <1>22 DEF BackendNewFails, Local, Distinct, find_phonebook
<1>12. CASE AddPhonebook(u)
  <2>1. pb[u] \in Id /\ struct[pb[u]] = "none" /\ ctx[pb[u]] = "open"
    BY <1>3, <1>12 DEF AddPhonebook, Bound, Local
  <2>2. ~find_phonebook(pb[u])
    BY <1>3, <2>1 DEF Local
  <2>3. phonebooks' = Append(phonebooks, pb[u]) /\ Len(phonebooks) < SizeMax
    BY <1>12 DEF AddPhonebook
  <2>4. /\ Len(phonebooks') = Len(phonebooks) + 1
        /\ \A x : find_phonebook(x)' <=> find_phonebook(x) \/ x = pb[u]
        /\ Distinct'
    BY <1>3, <2>1, <2>2, <2>3, FindAppended DEF Local
  <2>5. Len(phonebooks) \in Nat
    BY LenProperties
  <2> QED BY <1>3, <1>12, <2>1, <2>3, <2>4, <2>5, ProviderAssumption
             DEF AddPhonebook, Local
<1>13. CASE IncrLoad(u) \/ DecrLoad(u)
  BY <1>3, <1>13
     DEF IncrLoad, DecrLoad, LoadCount, Local, Distinct, find_phonebook
<1>14. CASE IncrStore(u)
  <2>1. Len(phonebooks) \in Nat /\ cnt[u] + 1 = Len(phonebooks)
    BY <1>3, <1>14, LenProperties DEF IncrStore, Local
  <2>2. num_phonebooks' = Len(phonebooks)
    BY <1>3, <1>14, <2>1, ProviderAssumption DEF IncrStore, StoreCount, Local
  <2> QED BY <1>3, <1>14, <2>2
             DEF IncrStore, StoreCount, Local, Distinct, find_phonebook
<1>15. CASE CloseBackend(u) \/ DestroyBackend(u)
  <2>1. find_phonebook(pb[u]) /\ ctx[pb[u]] = "open"
    BY <1>3, <1>15 DEF CloseBackend, DestroyBackend, Local
  <2>2. pb[u] \in Id /\ Usable(pb[u])
    BY <1>3, <2>1, FoundIsId DEF Local, Usable
  <2>3. /\ \A x : find_phonebook(x)' <=> find_phonebook(x)
        /\ Distinct'
    BY <1>3, <1>15, <2>2
       DEF CloseBackend, DestroyBackend, find_phonebook, Local, Distinct
  <2>4. /\ CloseBackend(u) =>
             \E ret \in {"YP_SUCCESS", "YP_ERR_OTHER"} :
               \E left \in Release(ret, "closed") :
                 ctx' = [ctx EXCEPT ![pb[u]] = left]
        /\ DestroyBackend(u) =>
             \E left \in Release("YP_ERR_OTHER", "destroyed") :
               ctx' = [ctx EXCEPT ![pb[u]] = left]
    BY <2>2 DEF CloseBackend, DestroyBackend
  <2>5. /\ ctx'[pb[u]] # "open"
        /\ \A id \in Id \ {pb[u]} : ctx'[id] = ctx[id]
    BY <1>15, <2>2, <2>4, Released
  <2>6. /\ UNCHANGED <<phonebooks, num_phonebooks, struct, thread, pb, cnt, fault>>
        /\ pc' \in {[pc EXCEPT ![u] = "unlink"], [pc EXCEPT ![u] = "remove"]}
    BY <1>15, <2>2 DEF CloseBackend, DestroyBackend
  <2> QED BY <1>3, <1>15, <2>1, <2>2, <2>3, <2>5, <2>6
             DEF CloseBackend, DestroyBackend, Local
<1>16. CASE Unlink(u)
  <2>1. find_phonebook(pb[u]) /\ ctx[pb[u]] # "open" /\ pb[u] \in Id
    BY <1>3, <1>16, FoundIsId DEF Unlink, Local
  <2>2. /\ Len(phonebooks') = Len(phonebooks) - 1
        /\ \A x : find_phonebook(x)' <=> find_phonebook(x) /\ x # pb[u]
        /\ Distinct'
    BY <1>3, <1>16, <2>1, FindUnlinked DEF Unlink, Local
  <2>3. Len(phonebooks) \in Nat
    BY LenProperties
  <2>4. /\ struct' = [struct EXCEPT ![pb[u]] = "freed"]
        /\ pc' = [pc EXCEPT ![u] = "decr"]
        /\ UNCHANGED <<num_phonebooks, ctx, thread, pb, cnt, fault>>
    BY <1>16, <2>1 DEF Unlink
  <2>5. /\ Len(phonebooks') <= SizeMax
        /\ num_phonebooks' = Len(phonebooks') + 1
    BY <1>3, <1>16, <2>2, <2>3, <2>4, ProviderAssumption DEF Local, Unlink
  <2>6. \A id \in Id : struct'[id] = "allocated" <=> find_phonebook(id)'
    BY <1>3, <2>1, <2>2, <2>4 DEF Local
  <2>7. \A id \in Id : ctx'[id] = "open" <=> find_phonebook(id)'
    BY <1>3, <1>16, <2>1, <2>2, <2>4 DEF Local, Unlink
  <2> QED BY <2>2, <2>4, <2>5, <2>6, <2>7 DEF Local
<1>17. CASE DecrStore(u)
  <2>1. Len(phonebooks) \in Nat /\ cnt[u] = Len(phonebooks) + 1
    BY <1>3, <1>17, LenProperties DEF DecrStore, Local
  <2>2. num_phonebooks' = Len(phonebooks)
    BY <1>3, <1>17, <2>1, ProviderAssumption DEF DecrStore, StoreCount, Local
  <2> QED BY <1>3, <1>17, <2>2
             DEF DecrStore, StoreCount, Local, Distinct, find_phonebook
<1>18. CASE RemoveDestroyed(u)
  BY <1>3, <1>18 DEF RemoveDestroyed, Local, Distinct, find_phonebook
<1>19. CASE Fill(u)
  <2>1. cnt[u] = Len(phonebooks)
    BY <1>3, <1>19 DEF Fill, Local
  <2>2. /\ \E ids : Finish(u, "YP_SUCCESS", ids)
        /\ UNCHANGED <<server, thread, req, pb, cnt, fault>>
    BY <1>19, <2>1 DEF Fill
  <2> QED BY <1>3, <1>19, <2>2 DEF Fill, Local, Distinct, find_phonebook
<1>20. CASE Use(u)
  <2>1. Usable(pb[u])
    BY <1>3, <1>20, FoundIsId DEF Use, Local, Usable
  <2> QED BY <1>3, <1>20, <2>1 DEF Use, Local, Distinct, find_phonebook
<1> QED
  BY <1>5, <1>6, <1>7, <1>9, <1>10, <1>11, <1>12, <1>13, <1>14, <1>15, <1>16,
     <1>17, <1>18, <1>19, <1>20, <1>21, <1>22 DEF Handle

LEMMA HandlerIInv ==
  ASSUME Cooperative, IInv, NEW u \in ULT, HandlerStep(u)
  PROVE  IInv'
<1> USE DEF HandlerStep
<1>1. app = "serving" /\ OthersRest(u)
  BY HandlerAlone
<1>2. /\ UNCHANGED thread /\ Local(u)' /\ Harmless(u)
      /\ \A v \in ULT \ {u} : pc'[v] = pc[v]
  BY HandlerLocal
<1>3. app' = "serving" /\ OthersRest(u)'
  BY <1>1, <1>2 DEF OthersRest, thread
<1>4. TInv' /\ OnlyNullStrings'
  BY <1>2, HandlerTInv DEF IInv, Harmless, OnlyNullStrings
<1> QED BY <1>2, <1>3, <1>4, Globalize
-----------------------------------------------------------------------------
(* The application thread runs while no handler is at work.                *)
AllRest == \A v \in ULT : pc[v] \in Rest

Calm ==
  /\ Drained /\ Table /\ Cursor
  /\ \A id \in Id :
       ctx[id] = "open" <=> find_phonebook(id) \/ (app = "fin_close" /\ cur = id)
  /\ (app = "start" \/ Registered) => num_phonebooks = Len(phonebooks)

LEMMA Calmed ==
  ASSUME Cooperative, IInv, ApplicationRuns
  PROVE  AllRest /\ Calm
<1>1. \A v \in ULT : pc[v] \in BaseYields \cap HandlerLabels
  BY DEF Cooperative, ApplicationRuns, IInv, TInv, TypeOK, AllLabels
<1>2. AllRest
  BY <1>1 DEF AllRest, Rest, BaseYields, HandlerLabels
<1>3. \A id \in Id :
        ctx[id] = "open" <=> find_phonebook(id) \/ (app = "fin_close" /\ cur = id)
  BY <1>2 DEF IInv, Contexts, Cursor, AtFront, AllRest, Rest
<1>4. (app = "start" \/ Registered) => num_phonebooks = Len(phonebooks)
  BY <1>2 DEF IInv, Counted, AllRest, Rest, Counting
<1> QED BY <1>2, <1>3, <1>4 DEF Calm, IInv

LEMMA CalmIInv ==
  ASSUME TInv', OnlyNullStrings', AllRest', Calm'
  PROVE  IInv'
<1>1. Alone' /\ Holding'
  BY DEF Alone, Holding, BaseYields, AllRest, Rest
<1>2. Contexts' /\ Counted'
  BY DEF Calm, Contexts, Counted, AllRest, Rest
<1> QED BY <1>1, <1>2 DEF IInv, Calm

(* Arithmetic of the two lemmas that follow.                               *)
LEMMA AtLeastTwo ==
  ASSUME NEW n \in Nat, n # 0, n # 1
  PROVE  /\ 2 \in 2..n /\ 2 - 1 = 1
         /\ 1 \in 1..(n - 1) /\ 1 + 1 = 2
OBVIOUS

(* The successor of the first phonebook is the second.                     *)
LEMMA SuccFirst ==
  ASSUME phonebooks \in Seq(Id), phonebooks # <<>>, Distinct
  PROVE  Succ(phonebooks[1]) = IF Len(phonebooks) = 1 THEN Null ELSE phonebooks[2]
<1> DEFINE after == {k \in 2..Len(phonebooks) : phonebooks[k - 1] = phonebooks[1]}
<1>1. Len(phonebooks) \in Nat /\ Len(phonebooks) # 0
  BY LenProperties, EmptySeq
<1>2. \A k \in after : k = 2
  BY <1>1 DEF Distinct
<1>3. CASE Len(phonebooks) = 1
  <2>1. after = {}
    BY <1>3
  <2> QED BY <1>3, <2>1 DEF Succ
<1>4. CASE Len(phonebooks) # 1
  <2> DEFINE k == CHOOSE k \in after : TRUE
  <2>1. 2 \in 2..Len(phonebooks) /\ 2 - 1 = 1
    BY <1>1, <1>4, AtLeastTwo
  <2>2. 2 \in after
    BY <2>1
  <2>3. k = 2
    BY <1>2, <2>2
  <2>4. Succ(phonebooks[1]) = phonebooks[k]
    BY <2>2 DEF Succ
  <2> HIDE DEF k
  <2> QED BY <1>4, <2>3, <2>4
<1> QED BY <1>3, <1>4

(* Removing the first phonebook makes the second the first.                *)
LEMMA UnlinkFirst ==
  ASSUME phonebooks \in Seq(Id), phonebooks # <<>>, Distinct,
         Unlinked(phonebooks[1])
  PROVE  First' = IF Len(phonebooks) = 1 THEN Null ELSE phonebooks[2]
<1>1. Len(phonebooks) \in Nat /\ Len(phonebooks) # 0
  BY LenProperties, EmptySeq
<1>2. PICK k \in 1..Len(phonebooks) :
        /\ phonebooks[k] = phonebooks[1]
        /\ \A j \in 1..(Len(phonebooks) - 1) :
             phonebooks'[j] = IF j < k THEN phonebooks[j] ELSE phonebooks[j + 1]
  BY UnlinkedProperties
<1>3. phonebooks' \in Seq(Id) /\ Len(phonebooks') = Len(phonebooks) - 1
  BY UnlinkedProperties
<1>4. k = 1
  BY <1>1, <1>2 DEF Distinct
<1>5. CASE Len(phonebooks) = 1
  BY <1>3, <1>5, EmptySeq DEF First
<1>6. CASE Len(phonebooks) # 1
  <2>1. phonebooks' # <<>>
    BY <1>1, <1>3, <1>6, EmptySeq
  <2>2. phonebooks'[1] = phonebooks[2]
    <3>1. 1 \in 1..(Len(phonebooks) - 1) /\ 1 + 1 = 2
      BY <1>1, <1>6, AtLeastTwo
    <3>2. ~(1 < k)
      BY <1>4
    <3>3. phonebooks'[1] = phonebooks[1 + 1]
      BY <1>2, <3>1, <3>2
    <3> QED BY <3>1, <3>3
  <2> QED BY <1>6, <2>1, <2>2 DEF First
<1> QED BY <1>5, <1>6

(* The application keeps the hash, its memory and the finalizer's place in *)
(* step, whatever the handlers do meanwhile.                               *)
LEMMA ApplicationStored ==
  ASSUME DrainFirst, TypeOK, fault = "none", Drained, Stored, AtFront,
         Application
  PROVE  Drained' /\ Stored' /\ AtFront' /\ fault' \in {"none", "dead_phonebook"}
<1>1. phonebooks \in Seq(Id) /\ Distinct
  BY DEF TypeOK, Stored
<1> USE DEF server, thread, handler, Registered, Idle, Expiring
<1>2. ASSUME UNCHANGED <<phonebooks, struct, handler, fault>>,
             app \in {"start", "registering", "serving"},
             app' \in {"registering", "serving"}
      PROVE  Drained' /\ Stored' /\ AtFront' /\ fault' = "none"
  BY <1>2 DEF Drained, Stored, AtFront, Distinct, find_phonebook
<1>3. CASE RegisterStart \/ RegisterDone \/ RegisterBackend
  BY <1>2, <1>3 DEF RegisterStart, RegisterDone, RegisterBackend
<1>4. CASE RegisterEntry
  <2>1. CASE UNCHANGED server
    BY <1>2, <1>4, <2>1 DEF RegisterEntry
  <2>2. CASE ~UNCHANGED server
    <3>1. PICK id \in Id :
            /\ Fresh(id)
            /\ struct' = [struct EXCEPT ![id] = "allocated"]
            /\ phonebooks' = Append(phonebooks, id)
      BY <1>4, <2>2 DEF RegisterEntry
    <3>2. app = "registering" /\ UNCHANGED <<app, cur, nxt, handler, fault>>
      BY <1>4 DEF RegisterEntry
    <3>3. ~find_phonebook(id)
      BY <3>1, <3>2 DEF Stored, Fresh
    <3>4. /\ \A x : find_phonebook(x)' <=> find_phonebook(x) \/ x = id
          /\ Distinct'
      BY <1>1, <3>1, <3>3, FindAppended
    <3>5. Stored'
      BY <3>1, <3>2, <3>4 DEF Stored, TypeOK
    <3> QED BY <3>2, <3>5 DEF Drained, AtFront
  <2> QED BY <2>1, <2>2
<1>5. CASE FinBegin
  <2>1. \A u \in ULT : Idle(u)
    BY <1>5 DEF FinBegin
  <2>2. phonebooks # <<>> =>
          Succ(phonebooks[1]) = IF Len(phonebooks) = 1 THEN Null ELSE phonebooks[2]
    BY <1>1, SuccFirst
  <2> QED BY <1>5, <2>1, <2>2
             DEF FinBegin, Drained, Stored, AtFront, Distinct, find_phonebook
<1>6. CASE FinUnlink
  <2>1. /\ app = "fin_unlink" /\ phonebooks # <<>> /\ cur = phonebooks[1]
        /\ nxt = IF Len(phonebooks) = 1 THEN Null ELSE phonebooks[2]
    BY <1>6 DEF FinUnlink, AtFront
  <2>2. find_phonebook(cur) /\ cur \in Id
    BY <1>1, <2>1, EmptySeq, LenProperties, ElementOfSeq
       DEF find_phonebook, Contains
  <2>3. /\ Unlinked(cur) /\ app' = "fin_close"
        /\ UNCHANGED <<struct, cur, nxt, handler, fault>>
    BY <1>6, <2>2 DEF FinUnlink
  <2>4. /\ \A x : find_phonebook(x)' <=> find_phonebook(x) /\ x # cur
        /\ Distinct'
    BY <1>1, <2>3, FindUnlinked
  <2>5. nxt' = First'
    BY <1>1, <2>1, <2>3, UnlinkFirst
  <2>6. Stored'
    BY <2>1, <2>2, <2>3, <2>4 DEF Stored
  <2> QED BY <2>1, <2>2, <2>3, <2>5, <2>6 DEF Drained, AtFront
<1>7. CASE FinClose
  <2>1. /\ app = "fin_close" /\ app' \in {"fin_close", "fin_free"}
        /\ fault' \in {"none", "dead_phonebook"}
        /\ UNCHANGED <<phonebooks, struct, cur, nxt, handler>>
    BY <1>7 DEF FinClose, Crash
  <2> QED BY <2>1 DEF Drained, Stored, AtFront, Distinct, First, find_phonebook
<1>8. CASE FinFree
  <2>1. app = "fin_free" /\ cur \in Id /\ nxt = First
    BY <1>8 DEF FinFree, AtFront
  <2>2. ~find_phonebook(cur)
    BY <2>1 DEF Stored
  <2>3. nxt # Null => find_phonebook(nxt) /\ phonebooks # <<>>
    BY <1>1, <2>1, EmptySeq, LenProperties DEF First, find_phonebook, Contains
  <2>4. nxt = Null => phonebooks = <<>>
    BY <1>1, <2>1, EmptySeq, LenProperties, ElementOfSeq, VocabularyAssumption
       DEF First
  <2>5. nxt # Null =>
          Succ(nxt) = IF Len(phonebooks) = 1 THEN Null ELSE phonebooks[2]
    BY <1>1, <2>1, SuccFirst DEF First
  <2>6. /\ struct' = [struct EXCEPT ![cur] = "freed"]
        /\ cur' = nxt
        /\ nxt' = IF nxt = Null THEN Null ELSE Succ(nxt)
        /\ app' = IF nxt = Null THEN "fin_end" ELSE "fin_unlink"
        /\ UNCHANGED <<phonebooks, handler, fault>>
    BY <1>8, <2>3 DEF FinFree
  <2>7. AtFront'
    BY <2>1, <2>3, <2>4, <2>5, <2>6 DEF AtFront, First
  <2>8. Stored'
    BY <2>1, <2>2, <2>6 DEF Stored, Distinct, find_phonebook, TypeOK
  <2> QED BY <2>1, <2>6, <2>7, <2>8 DEF Drained
<1>9. CASE FinEnd
  BY <1>9 DEF FinEnd, Drained, Stored, AtFront, Distinct, find_phonebook
<1> QED BY <1>3, <1>4, <1>5, <1>6, <1>7, <1>8, <1>9 DEF Application

(* With no handler at work, contexts and counter are kept in step too.     *)
LEMMA ApplicationCalm ==
  ASSUME Cooperative, IInv, fault = "none", ApplicationRuns, Application
  PROVE  AllRest' /\ Calm' /\ fault' = "none"
<1>1. AllRest /\ Calm
  BY Calmed
<1>2. TypeOK /\ phonebooks \in Seq(Id) /\ Len(phonebooks) \in Nat
  BY LenProperties DEF IInv, TInv, TypeOK
<1>3. Table /\ Stored /\ Distinct /\ Drained /\ Cursor /\ AtFront
  BY <1>1 DEF Calm, Table, Stored, Cursor
<1>4. Drained' /\ Stored' /\ AtFront'
  BY <1>2, <1>3, ApplicationStored DEF Cooperative
<1>5. app = "fin_close" =>
        cur \in Id /\ Usable(cur) /\ ~find_phonebook(cur) /\ Expiring(cur)
  BY <1>3 DEF Cursor, AtFront, Stored, Expiring, Usable
<1>6. app = "fin_free" => nxt = Null \/ find_phonebook(nxt)
  BY <1>2, <1>3, EmptySeq DEF AtFront, First, find_phonebook, Contains
<1>7. app = "fin_unlink" => find_phonebook(cur) /\ cur \in Id /\ ctx[cur] = "open"
  <2> SUFFICES ASSUME app = "fin_unlink" PROVE find_phonebook(cur) /\ cur \in Id
    BY <1>1 DEF Calm
  <2> QED BY <1>2, <1>3, EmptySeq, ElementOfSeq
             DEF AtFront, find_phonebook, Contains
<1> USE DEF server, thread, handler, AllRest, Registered
<1>8. UNCHANGED handler /\ fault' = "none"
  BY <1>2, <1>5, <1>6, <1>7
     DEF Application, RegisterStart, RegisterEntry, RegisterDone, RegisterBackend,
         FinBegin, FinUnlink, FinClose, FinFree, FinEnd, Crash
<1>9. AllRest'
  BY <1>1, <1>8
<1> SUFFICES Calm'
  BY <1>8, <1>9
<1> DEFINE Opened == \A id \in Id : ctx[id] = "open" <=>
                       find_phonebook(id) \/ (app = "fin_close" /\ cur = id)
<1>10. ASSUME Len(phonebooks') <= SizeMax, Opened',
              (app' = "start" \/ Registered') => num_phonebooks' = Len(phonebooks'),
              app' = "fin_close" => cur' \in Id
       PROVE  Calm'
  BY <1>4, <1>10 DEF Calm, Table, Cursor
<1>11. ASSUME UNCHANGED <<phonebooks, ctx>>, app # "fin_close",
              app' # "fin_close",
              Registered' => Registered \/ app = "start",
              Registered' => UNCHANGED num_phonebooks, app' # "start"
       PROVE  Calm'
  <2>1. Opened'
    BY <1>1, <1>11 DEF Calm, find_phonebook
  <2> QED BY <1>1, <1>3, <1>10, <1>11, <2>1 DEF Calm, Table
<1>12. CASE RegisterStart \/ RegisterDone \/ RegisterBackend \/ FinBegin
  BY <1>11, <1>12
     DEF RegisterStart, RegisterDone, RegisterBackend, FinBegin
<1>13. CASE RegisterEntry
  <2>1. CASE UNCHANGED server
    BY <1>11, <1>13, <2>1 DEF RegisterEntry
  <2>2. CASE ~UNCHANGED server
    <3>1. PICK id \in Id :
            /\ num_phonebooks < SizeMax
            /\ ctx' = [ctx EXCEPT ![id] = "open"]
            /\ phonebooks' = Append(phonebooks, id)
            /\ num_phonebooks' = num_phonebooks + 1
      BY <1>13, <2>2 DEF RegisterEntry
    <3>2. app = "registering" /\ app' = app
      BY <1>13 DEF RegisterEntry
    <3>3. /\ Len(phonebooks') = Len(phonebooks) + 1
          /\ \A x : find_phonebook(x)' <=> find_phonebook(x) \/ x = id
      BY <1>2, <3>1, FindAppended
    <3>4. num_phonebooks = Len(phonebooks)
      BY <1>1, <3>2 DEF Calm
    <3>5. Len(phonebooks') <= SizeMax
      BY <1>2, <3>1, <3>3, <3>4, ProviderAssumption
    <3>6. Opened'
      BY <1>1, <1>2, <3>1, <3>2, <3>3 DEF Calm, TypeOK
    <3> QED BY <1>10, <3>1, <3>2, <3>3, <3>4, <3>5, <3>6
  <2> QED BY <2>1, <2>2
<1>14. CASE FinUnlink
  <2>1. /\ app = "fin_unlink" /\ app' = "fin_close" /\ Unlinked(cur)
        /\ UNCHANGED <<ctx, cur>>
    BY <1>7, <1>14 DEF FinUnlink
  <2>2. /\ Len(phonebooks') = Len(phonebooks) - 1
        /\ \A x : find_phonebook(x)' <=> find_phonebook(x) /\ x # cur
    BY <1>2, <1>3, <2>1, FindUnlinked
  <2>3. Len(phonebooks') <= SizeMax
    BY <1>2, <1>3, <2>2, ProviderAssumption DEF Table
  <2>4. Opened'
    BY <1>1, <1>7, <2>1, <2>2 DEF Calm
  <2> QED BY <1>7, <1>10, <2>1, <2>3, <2>4
<1>15. CASE FinClose
  <2>1. /\ app = "fin_close" /\ app' = "fin_free" /\ phonebooks' = phonebooks
        /\ \E left \in Release("YP_ERR_OTHER", "closed") :
             ctx' = [ctx EXCEPT ![cur] = left]
    BY <1>5, <1>15 DEF FinClose
  <2>3. ctx'[cur] # "open" /\ \A id \in Id \ {cur} : ctx'[id] = ctx[id]
    BY <1>2, <1>5, <2>1, Released
  <2>2. Opened'
    BY <1>1, <1>2, <1>5, <2>1, <2>3 DEF Calm, find_phonebook
  <2> QED BY <1>3, <1>10, <2>1, <2>2 DEF Table
<1>16. CASE FinFree
  BY <1>6, <1>11, <1>16 DEF FinFree
<1>17. CASE FinEnd
  BY <1>11, <1>17 DEF FinEnd
<1> QED
  BY <1>12, <1>13, <1>14, <1>15, <1>16, <1>17 DEF Application
-----------------------------------------------------------------------------
LEMMA InitIInv == Init => IInv
<1> SUFFICES ASSUME Init PROVE IInv
  OBVIOUS
<1>1. TInv
  BY InitTInv
<1>2. Len(phonebooks) = 0 /\ \A id \in Id : ~find_phonebook(id)
  BY DEF Init, find_phonebook, Contains
<1> QED
  BY <1>1, <1>2, ProviderAssumption
     DEF Init, IInv, OnlyNullStrings, Alone, Drained, Table, Stored, Distinct, Expiring, Contexts,
         Holding, Counted, Counting, Cursor, AtFront, BaseYields, Idle

LEMMA ArriveIInv ==
  ASSUME IInv, NEW u \in ULT, fault = "none", Arrive(u), TInv'
  PROVE  IInv'
<1>1. /\ Registered /\ pc[u] = "idle" /\ pc' = [pc EXCEPT ![u] = "queued"]
      /\ UNCHANGED <<server, thread, pb, cnt, out, fault>>
  BY DEF Arrive, Goto
<1>2. \A v \in ULT : pc'[v] = IF v = u THEN "queued" ELSE pc[v]
  BY <1>1 DEF IInv, TInv, TypeOK
<1> USE DEF server, thread
<1>3. OnlyNullStrings' /\ Alone' /\ Drained'
  BY <1>1, <1>2 DEF IInv, OnlyNullStrings, Alone, Drained, Registered, BaseYields
<1>4. Table' /\ Cursor'
  BY <1>1 DEF IInv, Table, Stored, Distinct, Cursor, AtFront, First, Expiring, find_phonebook
<1>5. Contexts' /\ Holding'
  BY <1>1, <1>2 DEF IInv, Contexts, Holding, find_phonebook
<1>6. Counted'
  BY <1>1, <1>2 DEF IInv, Counted, Counting, Registered
<1> QED BY <1>3, <1>4, <1>5, <1>6 DEF IInv

LEMMA NextIInv ==
  ASSUME Cooperative
  PROVE  IInv /\ [Next]_vars => IInv'
<1> SUFFICES ASSUME IInv, [Next]_vars PROVE IInv'
  OBVIOUS
<1>1. TInv'
  BY NextTInv DEF IInv
<1>2. ASSUME NEW u \in ULT, fault = "none", Arrive(u) PROVE IInv'
  BY <1>1, <1>2, ArriveIInv
<1>3. ASSUME NEW u \in ULT, HandlerStep(u) PROVE IInv'
  BY <1>3, HandlerIInv
<1>4. CASE ApplicationStep
  BY <1>1, <1>4, ApplicationCalm, CalmIInv DEF ApplicationStep, OnlyNullStrings
<1>5. CASE UNCHANGED vars
  <2>1. /\ UNCHANGED <<app, cur, nxt, phonebooks, num_phonebooks, struct, ctx>>
        /\ UNCHANGED <<pc, req, pb, cnt, fault>>
    BY <1>5 DEF vars, server, thread, handler
  <2>2. Drained' /\ Stored' /\ Table' /\ AtFront' /\ Cursor'
    BY <2>1 DEF IInv, Drained, Stored, Table, Distinct, Expiring, AtFront, Cursor,
                First, Idle, Registered, find_phonebook
  <2> QED
    BY <1>1, <2>1, <2>2
       DEF IInv, OnlyNullStrings, Alone, Contexts, Holding, Counted, Registered,
           find_phonebook
<1> QED
  BY <1>2, <1>3, <1>4, <1>5 DEF Next, Ended, Halted

THEOREM CoopInvariant ==
  ASSUME Cooperative
  PROVE  Spec => []IInv
<1>1. IInv /\ [Next]_vars => IInv'
  BY NextIInv
<1> QED BY <1>1, InitIInv, PTL DEF Spec

(* Cooperatively scheduled and drained, no handler and no finalizer ever   *)
(* touches freed memory or a released context, and list never overflows:   *)
(* nothing undefined happens but strcmp of a NULL string that the request  *)
(* of that handler carries.                                                *)
THEOREM CoopOnlyNullStrings ==
  ASSUME Cooperative
  PROVE  Spec => []OnlyNullStrings
<1>1. IInv => OnlyNullStrings
  BY DEF IInv
<1> QED BY <1>1, CoopInvariant, PTL

(* num_phonebooks is the size of the hash whenever no handler is between   *)
(* changing the one and storing the other.                                 *)
THEOREM CoopCountExact ==
  ASSUME Cooperative
  PROVE  Spec => []CountExact
<1>1. IInv => CountExact
  BY DEF IInv, Counted, CountExact
<1> QED BY <1>1, CoopInvariant, PTL

(* close sets out on open contexts only: that a destroyed phonebook is     *)
(* still found while its backend works takes a backend that blocks.        *)
THEOREM CoopNeverClosesDestroyed ==
  ASSUME Cooperative
  PROVE  Spec => NeverClosesDestroyed
<1> DEFINE Sound(u) == (pc[u] # "backend_close" /\ pc'[u] = "backend_close")
                         => ctx'[pb'[u]] # "destroyed"
<1>1. ASSUME IInv, [Next]_vars, NEW u \in ULT,
             pc[u] # "backend_close", pc'[u] = "backend_close"
      PROVE  ctx'[pb'[u]] # "destroyed"
  <2>1. TypeOK /\ pc \in [ULT -> HandlerLabels] /\ pb \in [ULT -> Id \cup {Null}]
    BY <1>1 DEF IInv, TInv, TypeOK
  <2>2. ASSUME NEW v \in ULT, Arrive(v) PROVE FALSE
    BY <1>1, <2>1, <2>2 DEF Arrive, Goto
  <2>3. ASSUME UNCHANGED handler PROVE FALSE
    BY <1>1, <2>3 DEF handler
  <2>4. ~ApplicationStep
    BY <2>3 DEF ApplicationStep, Application, RegisterStart, RegisterEntry,
       RegisterDone, RegisterBackend, FinBegin, FinUnlink, FinClose, FinFree,
       FinEnd, Crash
  <2>5. PICK v \in ULT : HandlerStep(v)
    BY <1>1, <2>2, <2>3, <2>4 DEF Next, Ended, Halted, vars
  <2>6. v = u
    BY <1>1, <2>1, <2>5, HandlerFrame DEF HandlerStep, OthersKept
  <2>7. HandlerRuns(u) /\ Handle(u)
    BY <2>5, <2>6 DEF HandlerStep
  <2>8. Local(u)
    BY <1>1, <2>7, HandlerAlone, Localize
  <2>9. CloseBegin(u)
    BY <1>1, <2>1, <2>7
       DEF Handle, Orphaned, Undecodable, NullCompared, BadToken, CreateBegin,
           DestroyBegin, UseBegin, ListBegin, Lookup, BackendNew,
           BackendNewFails, AddPhonebook, IncrLoad,
           IncrStore, LoadCount, StoreCount, CloseBackend, Unlink, DecrLoad,
           DecrStore, DestroyBackend, RemoveDestroyed, Fill, Use, Respond, Crash,
           Goto, Finish, handler
  <2>10. /\ pc[u] = "queued" /\ find_phonebook(req[u].id)
         /\ pb' = [pb EXCEPT ![u] = req[u].id] /\ ctx' = ctx
    BY <1>1, <2>1, <2>9 DEF CloseBegin, Starts, Lookup, Goto, Finish, server
  <2>11. req[u].id \in Id /\ pb'[u] = req[u].id
    BY <2>1, <2>10, FoundIsId DEF TypeOK
  <2> QED BY <2>8, <2>10, <2>11 DEF Local
<1>2. IInv /\ [Next]_vars => [\A u \in ULT : Sound(u)]_vars
  BY <1>1
<1> QED BY <1>2, CoopInvariant, PTL DEF Spec, NeverClosesDestroyed
=============================================================================
