--------------------------- MODULE YPProviderInv -----------------------------
(***************************************************************************)
(* Inductive invariants of YPProvider: TInv, for the types, whatever the   *)
(* scheduler; IInv, when threads only lose the processor at BaseYields and *)
(* the provider is drained before it goes; DInv, when it is drained and    *)
(* backends may block; CInv, for the counter, drained or not.              *)
(***************************************************************************)
EXTENDS YPProvider

(* One execution stream, backends that never block, and margo_finalize.    *)
Cooperative == YieldLabels \cap AllLabels = BaseYields /\ DrainFirst

(* One execution stream, whatever its backends do: only then are the       *)
(* macros of the hash, which lock nothing, the single steps of the model.  *)
OneStream == YieldLabels \cap AllLabels \subseteq BlockingYields

(* What a handler's label says of its request and of its phonebook.        *)
Bound ==
  \A u \in ULT :
    /\ pc[u] = "queued" => req[u] \in Request
    /\ pc[u] = "fill" => req[u] \in list_phonebooks_in_t
    /\ pc[u] \in {"backend_new", "add"} => pb[u] \in Id

TInv == TypeOK /\ Bound

(* At most one thread is anywhere else than at a BaseYields label.         *)
Alone ==
  /\ \A u \in ULT : app \in BaseYields \/ pc[u] \in BaseYields
  /\ \A u, v \in ULT :
       u = v \/ pc[u] \in BaseYields \/ pc[v] \in BaseYields

(* A handler is at work only while the provider is in service.             *)
Drained == \A u \in ULT : Idle(u) \/ Registered

(* Each phonebook is in the hash once, and its memory is allocated exactly *)
(* while it is there, but for the one the finalizer has in hand.           *)
Expiring(id) == app \in {"fin_close", "fin_free"} /\ cur = id

Distinct ==
  \A i, j \in 1..Len(phonebooks) : phonebooks[i] = phonebooks[j] => i = j

Stored ==
  /\ Distinct
  /\ \A id \in Id :
       struct[id] = "allocated" <=> find_phonebook(id) \/ Expiring(id)
  /\ \A id \in Id : Expiring(id) => ~find_phonebook(id)

Table == Len(phonebooks) <= SizeMax /\ Stored

(* A context is open exactly while its phonebook is in the hash, but for   *)
(* the ones that a handler or the finalizer is about to add or remove.     *)
Contexts ==
  \A id \in Id :
    /\ ctx[id] = "open" =>
         \/ find_phonebook(id)
         \/ \E u \in ULT : pc[u] = "add" /\ pb[u] = id
         \/ app = "fin_close" /\ cur = id
    /\ find_phonebook(id) =>
         \/ ctx[id] = "open"
         \/ \E u \in ULT : /\ pc[u] \in {"unlink", "remove", "unlink_destroyed"}
                           /\ pb[u] = id

(* The phonebook a handler holds is in the state its next step needs.      *)
Holding ==
  \A u \in ULT :
    /\ pc[u] \in {"backend_new", "add"} => struct[pb[u]] = "none"
    /\ pc[u] = "add" => ctx[pb[u]] = "open"
    /\ pc[u] \in {"backend_close", "backend_destroy", "use"} =>
         find_phonebook(pb[u]) /\ ctx[pb[u]] = "open"
    /\ pc[u] \in {"unlink", "remove", "unlink_destroyed"} =>
         find_phonebook(pb[u]) /\ ctx[pb[u]] # "open"

(* The counter is off by one only while a handler updates it.              *)
Counted ==
  (app = "start" \/ Registered) =>
    /\ (\A u \in ULT : pc[u] \notin Counting) => num_phonebooks = Len(phonebooks)
    /\ \A u \in ULT :
         /\ pc[u] \in {"incr", "incr_store"} =>
              num_phonebooks + 1 = Len(phonebooks)
         /\ pc[u] \in {"decr", "decr_store"} =>
              num_phonebooks = Len(phonebooks) + 1
         /\ pc[u] \in {"incr_store", "decr_store", "fill"} =>
              cnt[u] = num_phonebooks

(* The finalizer removes from the front, and tmp is what follows r.        *)
First == IF phonebooks = <<>> THEN Null ELSE phonebooks[1]

AtFront ==
  /\ app = "fin_unlink" =>
       /\ phonebooks # <<>> /\ cur = phonebooks[1]
       /\ nxt = IF Len(phonebooks) = 1 THEN Null ELSE phonebooks[2]
  /\ app \in {"fin_close", "fin_free"} => cur \in Id /\ nxt = First
  /\ app \in {"start", "fin_end", "end"} => phonebooks = <<>>

Cursor == AtFront /\ (app = "fin_close" => ctx[cur] = "open")

IInv ==
  /\ TInv /\ OnlyNullStrings /\ Alone /\ Drained /\ Table /\ Contexts /\ Holding
  /\ Counted /\ Cursor

(* What a handler's label says of its request and of its response: which   *)
(* request of PhonebookRegistry it is in the middle of.                    *)
Labelled(u) ==
  /\ pc[u] = "idle" => req[u] = Null
  /\ pc[u] # "idle" => req[u] \in Request
  /\ pc[u] \in {"backend_new", "add"} =>
       /\ req[u].op \in {"create", "open"}
       /\ Authorized(req[u]) /\ ~NullString(req[u])
  /\ pc[u] \in {"backend_close", "unlink"} =>
       req[u].op = "close" /\ Authorized(req[u]) /\ pb[u] = req[u].id
  /\ pc[u] \in {"backend_destroy", "remove", "unlink_destroyed"} =>
       req[u].op = "destroy" /\ Authorized(req[u]) /\ pb[u] = req[u].id
  /\ pc[u] = "unlink" =>
       out[u] \in {Answer("YP_SUCCESS", Null), Answer("YP_ERR_OTHER", Null)}
  /\ pc[u] = "unlink_destroyed" => out[u] = Answer("YP_SUCCESS", Null)
  /\ pc[u] = "fill" => req[u].op = "list" /\ Authorized(req[u])
  /\ pc[u] = "use" => req[u].op \in {"hello", "sum"} /\ pb[u] = req[u].id
  /\ pc[u] \in {"decr", "decr_store", "respond", "done"} => out[u] \in Response

LInv == \A u \in ULT : Labelled(u)

(* Nobody else has the id of a phonebook about to be added.                *)
Unborn ==
  \A u \in ULT : pc[u] \in {"backend_new", "add"} =>
    /\ struct[pb[u]] = "none"
    /\ \A v \in ULT \ {u} : pc[v] \in {"backend_new", "add"} => pb[v] # pb[u]

(* A handler that adds a phonebook holds its open context.  The phonebook  *)
(* of one that closes or destroys existed, and once the backend's function *)
(* has run no other handler can have opened it again.                      *)
Releasing == {"unlink", "remove", "unlink_destroyed"}

Held ==
  \A u \in ULT :
    /\ pc[u] = "add" => ctx[pb[u]] = "open"
    /\ pc[u] \in Releasing \cup {"backend_close", "backend_destroy"} =>
         struct[pb[u]] # "none"
    /\ pc[u] \in Releasing => ctx[pb[u]] # "open"

(* Whoever made a backend keep a context still has the error to report, or *)
(* has reported it, or destroys and reports none.                          *)
Blamed(u) ==
  \/ /\ pc[u] \in {"remove", "unlink_destroyed", "decr", "decr_store", "respond",
                    "done"}
     /\ req[u].op = "destroy"
  \/ /\ pc[u] \in {"unlink", "decr", "decr_store", "respond", "done"}
     /\ req[u].op = "close" /\ out[u] = Answer("YP_ERR_OTHER", Null)

Losses ==
  (app = "start" \/ Registered) =>
    \A id \in Id : ctx[id] = "kept" => \E u \in ULT : pb[u] = id /\ Blamed(u)

(* What draining gives on one execution stream, although backends block: a *)
(* handler never outlives the provider, memory, contexts and hash agree,   *)
(* and the finalizer stays at the front.  The counter needs more.          *)
DInv ==
  /\ TInv /\ fault \notin {"no_provider", "freed_provider"}
  /\ Drained /\ Stored /\ AtFront /\ LInv /\ Unborn
  /\ Contexts /\ Held /\ Losses

(* The ids that were ever registered.                                      *)
Ever == {id \in Id : struct[id] # "none"}

(* The load and the store of the counter are not separated by a switch of  *)
(* threads, and neither are the two halves of list: true of both regimes   *)
(* with one execution stream, drained or not.                              *)
Busy == Counting \cup {"fill"}
Uninterrupted == YieldLabels \cap Busy = {}

(* How the counter relates to the hash, with an increment or a decrement   *)
(* to come: once finalization removes phonebooks without counting them it  *)
(* may be too large, never too small.                                      *)
Tally(plus, minus) ==
  /\ app # "end" => num_phonebooks + plus >= Len(phonebooks) + minus
  /\ app = "start" \/ Registered =>
       num_phonebooks + plus = Len(phonebooks) + minus
  /\ num_phonebooks + plus <= Cardinality(Ever)

Tallied ==
  /\ (\A u \in ULT : pc[u] \notin Counting) => Tally(0, 0)
  /\ \A u \in ULT : /\ pc[u] \in {"incr", "incr_store"} => Tally(1, 0)
                    /\ pc[u] \in {"decr", "decr_store"} => Tally(0, 1)

(* A busy handler is the only one, and what it loaded is current.          *)
Steady ==
  /\ \A u, v \in ULT : pc[u] \in Busy /\ pc[v] \in Busy => u = v
  /\ \A u \in ULT :
       /\ pc[u] \in {"incr_store", "decr_store", "fill"} =>
            cnt[u] = num_phonebooks
       /\ pc[u] = "fill" => Registered

(* Every phonebook that is about to be added has an id of its own, and     *)
(* those in the hash or in the finalizer's hand were registered.           *)
Newborn ==
  /\ Unborn
  /\ \A id \in Id : find_phonebook(id) => struct[id] # "none"
  /\ app \in {"fin_unlink", "fin_close", "fin_free"} =>
       cur \in Id /\ struct[cur] # "none"

Listing ==
  \A u \in ULT :
    /\ pc[u] \in Working \ {"fill"} => req[u].op # "list"
    /\ pc[u] = "respond" /\ req[u].op = "list" /\ out[u].ret = "YP_SUCCESS"
         => ~Contains(out[u].val, Null)

CInv ==
  /\ TInv /\ fault # "overflow" /\ Tallied /\ Steady /\ Newborn /\ Listing
=============================================================================
