----------------------------- MODULE YPProvider ------------------------------
(***************************************************************************)
(* The YP provider of src/provider.c: its hash of phonebooks, the counter  *)
(* kept beside it, the contexts its backends own, the seven RPC handlers,  *)
(* and the application thread that registers and finalizes it.             *)
(*                                                                         *)
(* Each RPC runs in a user-level thread (ULT) of its own and no lock is    *)
(* taken anywhere, so what may interleave is decided by the scheduler.     *)
(* YieldLabels holds the program points at which a thread can be out of    *)
(* the processor while another one runs: see BaseYields, BlockingYields    *)
(* and AllLabels.                                                          *)
(*                                                                         *)
(* A step that would dereference freed memory, or use a backend context    *)
(* that is already released, records the fault and the model stops: of     *)
(* what follows an undefined behaviour nothing is claimed.                 *)
(***************************************************************************)
EXTENDS YPTypes, SequencesExt

CONSTANTS
  ULT,            \* handler threads, one per request
  Dummy,          \* the name of the backend registered by default
  SizeMax,        \* largest size_t; no memory holds that many phonebooks
  MaxConfigured,  \* largest number of phonebooks in the JSON configuration
  YieldLabels,    \* where a thread may lose the processor
  DrainFirst      \* TRUE: finalized by margo_finalize, which waits for RPCs

(* Margo switches threads when a handler is created, while it responds and *)
(* when it ends: one execution stream and backends that never block.       *)
BaseYields ==
  {"idle", "queued", "respond", "done", "start", "serving", "end"}

(* One execution stream, but a backend function may block before or after  *)
(* its effect.                                                             *)
BlockingYields ==
  BaseYields \cup {"backend_new", "add", "backend_close", "unlink",
                   "backend_destroy", "remove", "use",
                   "registering", "fin_close", "fin_free"}

HandlerLabels ==
  {"idle", "queued", "backend_new", "add", "incr", "incr_store",
   "backend_close", "unlink", "backend_destroy", "remove",
   "unlink_destroyed", "decr", "decr_store", "fill", "use", "respond", "done"}

AppLabels ==
  {"start", "registering", "serving", "fin_unlink", "fin_close", "fin_free",
   "fin_end", "end"}

(* A switch anywhere between two steps, as with several execution streams. *)
(* This is less than they can do: HASH_ADD, HASH_DEL, HASH_FIND and        *)
(* HASH_ITER are single steps here, and their own races are left out.      *)
AllLabels == HandlerLabels \cup AppLabels

ASSUME ProviderAssumption ==
  /\ Dummy \in BackendType
  /\ SizeMax \in Nat \ {0}
  /\ MaxConfigured \in Nat
  /\ BaseYields \subseteq YieldLabels
  /\ DrainFirst \in BOOLEAN
  /\ Null \notin ULT

VARIABLES
  app,             \* where the application thread is
  todo,            \* entries of the configuration still to be processed
  backend_types,   \* names of the registered backends
  phonebooks,      \* the hash, in the order its iterators follow
  num_phonebooks,  \* the counter beside it
  struct,          \* each YP_phonebook: "none", "allocated" or "freed"
  ctx,             \* its context: "none", "open", "closed", "destroyed", or
                   \* "kept" by a close or destroy function that failed
  cur, nxt,        \* r and tmp of remove_all_phonebooks
  pc,              \* where each handler is
  req,             \* the input of each handler
  pb,              \* the phonebook it holds a pointer to, or creates
  cnt,             \* the value of num_phonebooks it last loaded
  out,             \* its response
  fault            \* the undefined behaviour met, or "none"

server == <<backend_types, phonebooks, num_phonebooks, struct, ctx>>
thread == <<app, todo, cur, nxt>>
handler == <<pc, req, pb, cnt, out>>
vars == <<server, thread, handler, fault>>

(* RPC ids are registered first and deregistered first; the provider's     *)
(* memory outlives them until the end of YP_finalize_provider.             *)
Registered == app \in {"registering", "serving"}
Allocated == app \notin {"start", "end"}

find_phonebook(id) == Contains(phonebooks, id)
find_backend_impl(name) == name \in backend_types

Unlinked(id) ==
  \E k \in 1..Len(phonebooks) :
    /\ phonebooks[k] = id
    /\ phonebooks' = RemoveAt(phonebooks, k)

(* uuid_generate: an id no phonebook has had and no handler was given.     *)
Fresh(id) == struct[id] = "none" /\ \A u \in ULT : pb[u] # id

Crash(kind) == fault' = kind /\ UNCHANGED <<server, thread, handler>>

(* A phonebook is usable when its memory and its context both are.         *)
Usable(id) == struct[id] = "allocated" /\ ctx[id] \in {"open", "kept"}

(* What a function that releases a context may leave: when it fails, the   *)
(* context may be released or not.                                         *)
Release(ret, released) ==
  IF ret = "YP_SUCCESS" THEN {released} ELSE {released, "kept"}

Goto(u, label) == pc' = [pc EXCEPT ![u] = label]
Set(u, answer) == out' = [out EXCEPT ![u] = answer]
Finish(u, ret, val) == Goto(u, "respond") /\ Set(u, Answer(ret, val))

Init ==
  /\ app = "start" /\ todo = 0 /\ cur = Null /\ nxt = Null
  /\ backend_types = {}
  /\ phonebooks = <<>> /\ num_phonebooks = 0
  /\ struct = [id \in Id |-> "none"]
  /\ ctx = [id \in Id |-> "none"]
  /\ pc = [u \in ULT |-> "idle"]
  /\ req = [u \in ULT |-> Null]
  /\ pb = [u \in ULT |-> Null]
  /\ cnt = [u \in ULT |-> 0]
  /\ out = [u \in ULT |-> Null]
  /\ fault = "none"
-----------------------------------------------------------------------------
(* Registration.  Errors found before the RPCs are registered return with  *)
(* no state changed and are not steps of the model.                        *)

RegisterStart ==
  /\ app = "start" /\ app' = "registering"
  /\ backend_types' = {Dummy}
  /\ todo' \in 0..MaxConfigured
  /\ UNCHANGED <<phonebooks, num_phonebooks, struct, ctx, cur, nxt, handler,
                 fault>>

(* Mutant: the loop over the configuration runs one entry too far.         *)
RegisterEntryMutant ==
  /\ app = "registering" /\ todo >= 0
  /\ todo' = todo - 1
  /\ UNCHANGED <<server, app, cur, nxt, handler, fault>>

RegisterEntry ==
  /\ app = "registering" /\ todo > 0
  /\ todo' = todo - 1
  /\ \/ UNCHANGED server   \* bad type, unknown backend or backend error
     \/ \E id \in Id :
          /\ Fresh(id) /\ num_phonebooks < SizeMax
          /\ ctx' = [ctx EXCEPT ![id] = "open"]
          /\ struct' = [struct EXCEPT ![id] = "allocated"]
          /\ phonebooks' = Append(phonebooks, id)
          /\ num_phonebooks' = num_phonebooks + 1
          /\ UNCHANGED backend_types
  /\ UNCHANGED <<app, cur, nxt, handler, fault>>

RegisterDone ==
  /\ app = "registering" /\ todo = 0
  /\ app' = "serving"
  /\ UNCHANGED <<server, todo, cur, nxt, handler, fault>>

(* YP_provider_register_backend, called by the application.                *)
RegisterBackend ==
  /\ app = "serving"
  /\ \E b \in BackendType \ backend_types :
       backend_types' = backend_types \cup {b}
  /\ UNCHANGED <<phonebooks, num_phonebooks, struct, ctx, thread, handler,
                 fault>>
-----------------------------------------------------------------------------
(* The start of a handler: its ULT waits in the pool, then looks the       *)
(* provider up, decodes the input, checks the token and finds its target.  *)

(* Margo creates a ULT for a request whose RPC is registered.              *)
Arrive(u) ==
  /\ pc[u] = "idle" /\ Registered
  /\ \E r \in Request : req' = [req EXCEPT ![u] = r]
  /\ Goto(u, "queued")
  /\ UNCHANGED <<server, thread, pb, cnt, out, fault>>

(* margo_registered_data finds nothing and the handler dereferences NULL.  *)
Orphaned(u) ==
  /\ pc[u] = "queued" /\ ~Registered
  /\ Crash("no_provider")

(* margo_get_input fails: create alone uses the provider all the same.     *)
Undecodable(u) ==
  /\ pc[u] = "queued"
  /\ Registered \/ req[u].op # "create"
  /\ IF req[u].op = "hello"
     THEN Goto(u, "done") /\ Set(u, NoResponse)
     ELSE Finish(u, "YP_ERR_FROM_MERCURY", Null)
  /\ UNCHANGED <<server, thread, req, pb, cnt, fault>>

(* strcmp dereferences NULL.                                               *)
NullCompared(u) ==
  /\ pc[u] = "queued" /\ Registered
  /\ NullString(req[u])
  /\ Crash("null_string")

Starts(u, ops) ==
  /\ pc[u] = "queued" /\ Registered
  /\ ~NullString(req[u])
  /\ req[u].op \in ops

BadToken(u) ==
  /\ Starts(u, {"create", "open", "close", "destroy", "list"})
  /\ ~check_token(req[u].token)
  /\ Finish(u, "YP_ERR_INVALID_TOKEN", Null)
  /\ UNCHANGED <<server, thread, req, pb, cnt, fault>>

CreateBegin(u) ==
  /\ Starts(u, {"create", "open"}) /\ check_token(req[u].token)
  /\ IF ~find_backend_impl(req[u].type)
     THEN Finish(u, "YP_ERR_INVALID_BACKEND", Null) /\ UNCHANGED pb
     ELSE /\ \E id \in Id : Fresh(id) /\ pb' = [pb EXCEPT ![u] = id]
          /\ Goto(u, "backend_new")
          /\ UNCHANGED out
  /\ UNCHANGED <<server, thread, req, cnt, fault>>

(* Mutant: the way out of a lookup that fails skips margo_respond.         *)
LookupMutant(u, found) ==
  /\ IF find_phonebook(req[u].id)
     THEN pb' = [pb EXCEPT ![u] = req[u].id] /\ Goto(u, found) /\ UNCHANGED out
     ELSE Goto(u, "done") /\ Set(u, NoResponse) /\ UNCHANGED pb
  /\ UNCHANGED <<server, thread, req, cnt, fault>>

(* The common tail of the handlers that look their phonebook up.           *)
Lookup(u, found) ==
  /\ IF find_phonebook(req[u].id)
     THEN /\ pb' = [pb EXCEPT ![u] = req[u].id]
          /\ Goto(u, found)
          /\ UNCHANGED out
     ELSE /\ IF req[u].op = "hello"
             THEN Goto(u, "done") /\ Set(u, NoResponse)
             ELSE Finish(u, "YP_ERR_INVALID_PHONEBOOK", Null)
          /\ UNCHANGED pb
  /\ UNCHANGED <<server, thread, req, cnt, fault>>

CloseBegin(u) ==
  /\ Starts(u, {"close"}) /\ check_token(req[u].token)
  /\ Lookup(u, "backend_close")

DestroyBegin(u) ==
  /\ Starts(u, {"destroy"}) /\ check_token(req[u].token)
  /\ Lookup(u, "backend_destroy")

UseBegin(u) ==
  /\ Starts(u, {"hello", "sum"})
  /\ Lookup(u, "use")

(* The array of ids is allocated for the number of phonebooks counted.     *)
ListBegin(u) ==
  /\ Starts(u, {"list"}) /\ check_token(req[u].token)
  /\ cnt' = [cnt EXCEPT ![u] = num_phonebooks]
  /\ Goto(u, "fill")
  /\ UNCHANGED <<server, thread, req, pb, out, fault>>
-----------------------------------------------------------------------------
(* create and open: the backend builds a context, then add_phonebook.      *)

(* A backend that fails leaves no context.                                 *)
BackendNew(u) ==
  /\ pc[u] = "backend_new"
  /\ ctx' = [ctx EXCEPT ![pb[u]] = "open"]
  /\ Goto(u, "add")
  /\ UNCHANGED <<backend_types, phonebooks, num_phonebooks, struct, thread,
                 req, pb, cnt, out, fault>>

(* The error is logged: create finds the Margo instance in the provider.   *)
BackendNewFails(u) ==
  /\ pc[u] = "backend_new"
  /\ IF Allocated \/ req[u].op = "open"
     THEN /\ Finish(u, "YP_ERR_INVALID_CONFIG", Null)
          /\ UNCHANGED <<server, thread, req, pb, cnt, fault>>
     ELSE Crash("freed_provider")

(* Mutant: the counter is not incremented.                                 *)
AddPhonebookMutant(u) ==
  /\ pc[u] = "add" /\ Allocated
  /\ struct' = [struct EXCEPT ![pb[u]] = "allocated"]
  /\ phonebooks' = Append(phonebooks, pb[u])
  /\ Finish(u, "YP_SUCCESS", pb[u])
  /\ UNCHANGED <<backend_types, num_phonebooks, ctx, thread, req, pb, cnt,
                 fault>>

AddPhonebook(u) ==
  /\ pc[u] = "add"
  /\ IF Allocated
     THEN /\ Len(phonebooks) < SizeMax
          /\ struct' = [struct EXCEPT ![pb[u]] = "allocated"]
          /\ phonebooks' = Append(phonebooks, pb[u])
          /\ Goto(u, "incr")
          /\ UNCHANGED <<backend_types, num_phonebooks, ctx, thread, req, pb,
                         cnt, out, fault>>
     ELSE Crash("freed_provider")

(* num_phonebooks += 1 and -= 1 are a load and a store of a size_t.        *)
LoadCount(u, from, to) ==
  /\ pc[u] = from
  /\ IF Allocated
     THEN /\ cnt' = [cnt EXCEPT ![u] = num_phonebooks]
          /\ Goto(u, to)
          /\ UNCHANGED <<server, thread, req, pb, out, fault>>
     ELSE Crash("freed_provider")

StoreCount(u, value) ==
  IF Allocated
  THEN /\ num_phonebooks' = value
       /\ UNCHANGED <<backend_types, phonebooks, struct, ctx, thread, req, pb,
                      cnt, fault>>
  ELSE Crash("freed_provider")

IncrLoad(u) == LoadCount(u, "incr", "incr_store")

IncrStore(u) ==
  /\ pc[u] = "incr_store"
  /\ Allocated => Finish(u, "YP_SUCCESS", pb[u])
  /\ StoreCount(u, IF cnt[u] = SizeMax THEN 0 ELSE cnt[u] + 1)
-----------------------------------------------------------------------------
(* close: remove_phonebook(provider, id, 1), its lookup done.              *)

(* Mutant: an error of the backend is returned before the phonebook is     *)
(* unlinked.                                                               *)
CloseBackendMutant(u) ==
  /\ pc[u] = "backend_close" /\ Usable(pb[u])
  /\ ctx' = [ctx EXCEPT ![pb[u]] = "closed"]
  /\ \/ Finish(u, "YP_ERR_OTHER", Null)
     \/ Goto(u, "unlink") /\ Set(u, Answer("YP_SUCCESS", Null))
  /\ UNCHANGED <<backend_types, phonebooks, num_phonebooks, struct, thread,
                 req, pb, cnt, fault>>

(* Mutant: the result of the backend's function is ignored.                *)
CloseBackendSilentMutant(u) ==
  /\ pc[u] = "backend_close" /\ Usable(pb[u])
  /\ \E left \in Release("YP_ERR_OTHER", "closed") :
       ctx' = [ctx EXCEPT ![pb[u]] = left]
  /\ Set(u, Answer("YP_SUCCESS", Null))
  /\ Goto(u, "unlink")
  /\ UNCHANGED <<backend_types, phonebooks, num_phonebooks, struct, thread,
                 req, pb, cnt, fault>>

CloseBackend(u) ==
  /\ pc[u] = "backend_close"
  /\ IF Usable(pb[u])
     THEN /\ \E ret \in {"YP_SUCCESS", "YP_ERR_OTHER"} :
               /\ \E left \in Release(ret, "closed") :
                    ctx' = [ctx EXCEPT ![pb[u]] = left]
               /\ Set(u, Answer(ret, Null))
          /\ Goto(u, "unlink")
          /\ UNCHANGED <<backend_types, phonebooks, num_phonebooks, struct,
                         thread, req, pb, cnt, fault>>
     ELSE Crash("dead_phonebook")

(* Mutant: the counter is not decremented.                                 *)
UnlinkMutant(u) ==
  /\ pc[u] \in {"unlink", "unlink_destroyed"} /\ find_phonebook(pb[u])
  /\ Unlinked(pb[u])
  /\ struct' = [struct EXCEPT ![pb[u]] = "freed"]
  /\ Goto(u, "respond")
  /\ UNCHANGED <<backend_types, num_phonebooks, ctx, thread, req, pb, cnt, out,
                 fault>>

(* Mutant: the phonebook is freed and stays in the hash.                   *)
UnlinkLeavesMutant(u) ==
  /\ pc[u] \in {"unlink", "unlink_destroyed"} /\ find_phonebook(pb[u])
  /\ struct' = [struct EXCEPT ![pb[u]] = "freed"]
  /\ Goto(u, "decr")
  /\ UNCHANGED <<backend_types, phonebooks, num_phonebooks, ctx, thread, req, pb,
                 cnt, out, fault>>

(* HASH_DEL and free, from either caller of remove_phonebook.              *)
Unlink(u) ==
  /\ pc[u] \in {"unlink", "unlink_destroyed"}
  /\ IF Allocated /\ find_phonebook(pb[u])
     THEN /\ Unlinked(pb[u])
          /\ struct' = [struct EXCEPT ![pb[u]] = "freed"]
          /\ Goto(u, "decr")
          /\ UNCHANGED <<backend_types, num_phonebooks, ctx, thread, req, pb,
                         cnt, out, fault>>
     ELSE Crash("dead_phonebook")

DecrLoad(u) == LoadCount(u, "decr", "decr_store")

DecrStore(u) ==
  /\ pc[u] = "decr_store"
  /\ Allocated => Goto(u, "respond") /\ UNCHANGED out
  /\ StoreCount(u, IF cnt[u] = 0 THEN SizeMax ELSE cnt[u] - 1)

(* destroy: the backend's destroy function, whose result is ignored even   *)
(* if it failed, then remove_phonebook(provider, id, 0), which looks the   *)
(* phonebook up again.                                                     *)

(* Mutant: the phonebook is removed with close_phonebook = 1.              *)
DestroyBackendMutant(u) ==
  /\ pc[u] = "backend_destroy" /\ Usable(pb[u])
  /\ ctx' = [ctx EXCEPT ![pb[u]] = "destroyed"]
  /\ Goto(u, "backend_close")
  /\ UNCHANGED <<backend_types, phonebooks, num_phonebooks, struct, thread,
                 req, pb, cnt, out, fault>>

DestroyBackend(u) ==
  /\ pc[u] = "backend_destroy"
  /\ IF Usable(pb[u])
     THEN /\ \E left \in Release("YP_ERR_OTHER", "destroyed") :
               ctx' = [ctx EXCEPT ![pb[u]] = left]
          /\ Goto(u, "remove")
          /\ UNCHANGED <<backend_types, phonebooks, num_phonebooks, struct,
                         thread, req, pb, cnt, out, fault>>
     ELSE Crash("dead_phonebook")

RemoveDestroyed(u) ==
  /\ pc[u] = "remove"
  /\ IF ~Allocated
     THEN Crash("freed_provider")
     ELSE /\ IF find_phonebook(pb[u])
             THEN /\ Goto(u, "unlink_destroyed")
                  /\ Set(u, Answer("YP_SUCCESS", Null))
             ELSE Finish(u, "YP_ERR_INVALID_PHONEBOOK", Null)
          /\ UNCHANGED <<server, thread, req, pb, cnt, fault>>
-----------------------------------------------------------------------------
(* list, hello, sum, and the end of every handler that answers.            *)

(* Mutant: max_ids is not honoured.                                        *)
FillMutant(u) ==
  /\ pc[u] = "fill" /\ Allocated
  /\ Finish(u, "YP_SUCCESS", phonebooks)
  /\ UNCHANGED <<server, thread, req, pb, cnt, fault>>

(* The response holds count ids of an array of cnt[u], zeroed by calloc,   *)
(* into which every phonebook of the hash is written.                      *)
Fill(u) ==
  LET count == IF cnt[u] < req[u].max_ids THEN cnt[u] ELSE req[u].max_ids
      ids == [i \in 1..count |->
                IF i <= Len(phonebooks) THEN phonebooks[i] ELSE Null]
  IN  /\ pc[u] = "fill"
      /\ IF ~Allocated
         THEN Crash("freed_provider")
         ELSE IF Len(phonebooks) > cnt[u]
         THEN Crash("overflow")
         ELSE /\ Finish(u, "YP_SUCCESS", ids)
              /\ UNCHANGED <<server, thread, req, pb, cnt, fault>>

(* The sum itself is not represented.                                      *)
Use(u) ==
  /\ pc[u] = "use"
  /\ IF Usable(pb[u])
     THEN /\ IF req[u].op = "hello"
             THEN Goto(u, "done") /\ Set(u, NoResponse)
             ELSE Finish(u, "YP_SUCCESS", Null)
          /\ UNCHANGED <<server, thread, req, pb, cnt, fault>>
     ELSE Crash("dead_phonebook")

(* margo_respond; what follows releases the handler's own input only.      *)
Respond(u) ==
  /\ pc[u] = "respond"
  /\ Goto(u, "done")
  /\ UNCHANGED <<server, thread, req, pb, cnt, out, fault>>
-----------------------------------------------------------------------------
(* YP_finalize_provider: deregister the RPCs, then remove_all_phonebooks,  *)
(* which remembers the successor of the phonebook it removes.              *)

Succ(id) ==
  LET after == {k \in 2..Len(phonebooks) : phonebooks[k - 1] = id}
  IN  IF after = {} THEN Null ELSE phonebooks[CHOOSE k \in after : TRUE]

Idle(u) == pc[u] \in {"idle", "done"}

(* Mutant: the counter is reset before the phonebooks are removed.         *)
FinBeginMutant ==
  /\ app = "serving" /\ phonebooks # <<>>
  /\ app' = "fin_unlink"
  /\ num_phonebooks' = 0
  /\ cur' = phonebooks[1] /\ nxt' = Succ(phonebooks[1])
  /\ UNCHANGED <<backend_types, phonebooks, struct, ctx, todo, handler, fault>>

FinBegin ==
  /\ app = "serving"
  /\ DrainFirst => \A u \in ULT : Idle(u)
  /\ IF phonebooks = <<>>
     THEN app' = "fin_end" /\ UNCHANGED <<cur, nxt>>
     ELSE /\ app' = "fin_unlink"
          /\ cur' = phonebooks[1]
          /\ nxt' = Succ(phonebooks[1])
  /\ UNCHANGED <<server, todo, handler, fault>>

FinUnlink ==
  /\ app = "fin_unlink"
  /\ IF find_phonebook(cur)
     THEN /\ Unlinked(cur)
          /\ app' = "fin_close"
          /\ UNCHANGED <<backend_types, num_phonebooks, struct, ctx, todo, cur,
                         nxt, handler, fault>>
     ELSE Crash("dead_phonebook")

(* The result of the backend's close function is ignored.                  *)
FinClose ==
  /\ app = "fin_close"
  /\ IF Usable(cur)
     THEN /\ \E left \in Release("YP_ERR_OTHER", "closed") :
               ctx' = [ctx EXCEPT ![cur] = left]
          /\ app' = "fin_free"
          /\ UNCHANGED <<backend_types, phonebooks, num_phonebooks, struct,
                         todo, cur, nxt, handler, fault>>
     ELSE Crash("dead_phonebook")

(* Mutant: the plain loop reads the successor of the freed phonebook.      *)
FinFreeMutant == app = "fin_free" /\ Crash("dead_phonebook")

FinFree ==
  /\ app = "fin_free"
  /\ IF nxt # Null /\ ~find_phonebook(nxt)
     THEN Crash("dead_phonebook")
     ELSE /\ struct' = [struct EXCEPT ![cur] = "freed"]
          /\ cur' = nxt
          /\ nxt' = IF nxt = Null THEN Null ELSE Succ(nxt)
          /\ app' = IF nxt = Null THEN "fin_end" ELSE "fin_unlink"
          /\ UNCHANGED <<backend_types, phonebooks, num_phonebooks, ctx, todo,
                         handler, fault>>

FinEnd ==
  /\ app = "fin_end" /\ app' = "end"
  /\ num_phonebooks' = 0
  /\ UNCHANGED <<backend_types, phonebooks, struct, ctx, todo, cur, nxt,
                 handler, fault>>
-----------------------------------------------------------------------------
Handle(u) ==
  \/ Orphaned(u) \/ Undecodable(u) \/ NullCompared(u) \/ BadToken(u)
  \/ CreateBegin(u) \/ CloseBegin(u) \/ DestroyBegin(u) \/ UseBegin(u)
  \/ ListBegin(u)
  \/ BackendNew(u) \/ BackendNewFails(u)
  \/ AddPhonebook(u) \/ IncrLoad(u) \/ IncrStore(u)
  \/ CloseBackend(u) \/ Unlink(u) \/ DecrLoad(u) \/ DecrStore(u)
  \/ DestroyBackend(u) \/ RemoveDestroyed(u)
  \/ Fill(u) \/ Use(u) \/ Respond(u)

Application ==
  \/ RegisterStart \/ RegisterEntry \/ RegisterDone \/ RegisterBackend
  \/ FinBegin \/ FinUnlink \/ FinClose \/ FinFree \/ FinEnd

(* A thread runs when every other thread is somewhere it can be suspended. *)
HandlerRuns(u) ==
  /\ app \in YieldLabels
  /\ \A v \in ULT \ {u} : pc[v] \in YieldLabels

ApplicationRuns == \A v \in ULT : pc[v] \in YieldLabels

(* The requests of the model are finite: it ends when all are answered     *)
(* and the provider is gone.                                               *)
Ended ==
  /\ app = "end" /\ \A u \in ULT : Idle(u)
  /\ UNCHANGED vars

Halted == fault # "none" /\ UNCHANGED vars

HandlerStep(u) == fault = "none" /\ HandlerRuns(u) /\ Handle(u)
ApplicationStep == fault = "none" /\ ApplicationRuns /\ Application

Next ==
  \/ \E u \in ULT : fault = "none" /\ Arrive(u)
  \/ \E u \in ULT : HandlerStep(u)
  \/ ApplicationStep
  \/ Ended
  \/ Halted

Spec == Init /\ [][Next]_vars

(* A ULT in the pool is eventually scheduled, and a thread that started    *)
(* registering or finalizing goes on.  Nothing obliges a request to arrive *)
(* or the application to shut the provider down.                           *)
Fairness ==
  /\ \A u \in ULT : WF_vars(HandlerStep(u))
  /\ WF_vars(fault = "none" /\ ApplicationRuns
             /\ (RegisterEntry \/ RegisterDone \/ FinUnlink \/ FinClose
                   \/ FinFree \/ FinEnd))

FairSpec == Spec /\ Fairness
-----------------------------------------------------------------------------
(* Every variable holds a value of its C type, whatever the scheduler.     *)
TypeOK ==
  /\ app \in AppLabels
  /\ todo \in 0..MaxConfigured
  /\ backend_types \subseteq BackendType
  /\ phonebooks \in Seq(Id)
  /\ num_phonebooks \in 0..SizeMax
  /\ struct \in [Id -> {"none", "allocated", "freed"}]
  /\ ctx \in [Id -> {"none", "open", "closed", "destroyed", "kept"}]
  /\ cur \in Id \cup {Null} /\ nxt \in Id \cup {Null}
  /\ pc \in [ULT -> HandlerLabels]
  /\ req \in [ULT -> Request \cup {Null}]
  /\ pb \in [ULT -> Id \cup {Null}]
  /\ cnt \in [ULT -> 0..SizeMax]
  /\ out \in [ULT -> Response \cup {Null}]
  /\ fault \in {"none", "null_string", "no_provider", "freed_provider",
                "dead_phonebook", "overflow"}

(* No handler and no finalizer ever touches a freed phonebook, a released  *)
(* context or a provider that is gone, and list never writes beyond the    *)
(* array it allocated: the only undefined behaviour is strcmp of a NULL    *)
(* string, by the handler of a request that carries one.                   *)
OnlyNullStrings ==
  fault # "none" =>
    /\ fault = "null_string"
    /\ \E u \in ULT : pc[u] = "queued" /\ NullString(req[u])

(* num_phonebooks is the number of phonebooks in the hash whenever no      *)
(* handler is between changing the one and storing the other: the array    *)
(* list allocates, and the loop of YP_provider_get_config, rely on it.     *)
Counting == {"incr", "incr_store", "decr", "decr_store"}

CountExact ==
  (Registered /\ \A u \in ULT : pc[u] \notin Counting)
    => num_phonebooks = Len(phonebooks)

(* Between requests, and after the provider is gone, the contexts that are *)
(* open and the structures allocated are those of the registered           *)
(* phonebooks, however handlers raced while their backends worked: none is *)
(* forgotten, and none is released under a phonebook that can be found.  A *)
(* context that its backend kept when it was to release it has no          *)
(* phonebook any more: nobody can release it again.                        *)
Working == HandlerLabels \ {"idle", "queued", "respond", "done"}

ContextsOwned ==
  (/\ app \in {"start", "serving", "end"}
   /\ \A u \in ULT : pc[u] \notin Working)
    => \A id \in Id : /\ ctx[id] = "open" <=> find_phonebook(id)
                      /\ struct[id] = "allocated" <=> find_phonebook(id)

(* While the provider is in service, a context is lost only to a close     *)
(* that returns its backend's error, or to a destroy, which returns none.  *)
LossesExplained ==
  Registered => \A id \in Id : ctx[id] = "kept" =>
    \E u \in ULT : /\ pb[u] = id /\ req[u] # Null
                   /\ \/ req[u].op = "destroy"
                      \/ req[u].op = "close" /\ out[u] = Answer("YP_ERR_OTHER", Null)

(* "remove the phonebook from the provider (its close function will NOT be *)
(* called)": no handler sets out to close a context already destroyed.     *)
NeverClosesDestroyed ==
  [][\A u \in ULT :
       (pc[u] # "backend_close" /\ pc'[u] = "backend_close")
         => ctx'[pb'[u]] # "destroyed"]_vars

(* Even while finalization races with handlers, the counter is never below *)
(* the number of phonebooks: an unsigned counter that was would be huge    *)
(* after the next removal.                                                 *)
CountNeverShort ==
  (Allocated /\ \A u \in ULT : pc[u] \notin Counting)
    => num_phonebooks >= Len(phonebooks)

(* list never writes beyond the array it allocated, and never reports an   *)
(* id it did not write.                                                    *)
ListExact ==
  /\ fault # "overflow"
  /\ \A u \in ULT :
       (pc[u] = "respond" /\ req[u].op = "list" /\ out[u].ret = "YP_SUCCESS")
         => ~Contains(out[u].val, Null)

(* Every request that got a handler is answered, but hello, which is       *)
(* carried out; a NULL string alone can prevent it.                        *)
EveryRequestEnds ==
  \A u \in ULT :
    pc[u] = "queued"
      ~> \/ pc[u] = "respond"
         \/ pc[u] = "done" /\ req[u].op = "hello"
         \/ fault = "null_string"

(* Registration ends in service, and a shutdown that began releases every  *)
(* phonebook and ends.                                                     *)
ThreadsComplete ==
  /\ app = "registering" ~> app = "serving"
  /\ app \in {"fin_unlink", "fin_close", "fin_free", "fin_end"} ~> app = "end"

(* Every execution is one of the abstract registry: each request takes     *)
(* effect at one instant, create and open when the phonebook enters the    *)
(* hash, close and destroy when it leaves it, and its answer is the one of *)
(* that instant.                                                           *)
Registry == INSTANCE PhonebookRegistry WITH
  Caller <- ULT,
  table <- phonebooks,
  ever <- {id \in Id : struct[id] # "none"},
  phase <- CASE app = "start" -> "down"
             [] app = "registering" -> "loading"
             [] app = "serving" -> "open"
             [] app = "end" -> "closed"
             [] OTHER -> "closing",
  asked <- req,
  answer <- [u \in ULT |->
               CASE pc[u] \in {"decr", "decr_store", "respond", "done"} -> out[u]
                 [] pc[u] \in {"incr", "incr_store"} ->
                      Answer("YP_SUCCESS", pb[u])
                 [] OTHER -> Null]

ImplementsRegistry == Registry!Spec
=============================================================================
