------------------------------- MODULE YPHandle -------------------------------
(***************************************************************************)
(* The phonebook handles of src/client.c: a handle counts the references   *)
(* to it, and its client counts the handles.  Both counters are plain      *)
(* uint64_t, changed without a lock by whatever threads of the application *)
(* use the client.  As in YPProvider, YieldLabels says where a thread may  *)
(* lose the processor, and a use of freed memory stops the model.          *)
(*                                                                         *)
(* Calls refused for a null argument, or because calloc or margo_addr_dup  *)
(* fails, change nothing and are not steps.                                *)
(***************************************************************************)
EXTENDS Naturals, FiniteSets

CONSTANTS
  Thread,        \* threads of the application
  Handle,        \* memory for handles, each used once
  Ref,           \* references; the application has at most this many at once
  Null,
  CountMax,      \* largest uint64_t
  YieldLabels    \* where a thread may lose the processor

Labels == {"idle", "count", "count_store", "incr_store", "decr_store", "test",
           "uncount", "uncount_store", "free", "call"}

(* One execution stream: only waiting for a response switches threads.     *)
OneStream == {"idle", "call"}

ASSUME HandleAssumption ==
  /\ IsFiniteSet(Handle) /\ IsFiniteSet(Ref)
  /\ CountMax \in Nat
  /\ Cardinality(Ref) < CountMax /\ Cardinality(Handle) < CountMax
  /\ OneStream \subseteq YieldLabels
  /\ Null \notin Handle

VARIABLES
  client,                 \* "open" or "freed"
  num_phonebook_handles,
  warned,                 \* YP_client_finalize warned of handles left
  memory,                 \* each handle: "none", "allocated" or "freed"
  refcount,
  target,                 \* the handle each reference of the application is to
  pc,                     \* where each thread is
  hd,                     \* the handle it works on
  val,                    \* the counter it last loaded
  fault                   \* the undefined behaviour met, or "none"

vars == <<client, num_phonebook_handles, warned, memory, refcount, target,
          pc, hd, val, fault>>

References(h) == {r \in Ref : target[r] = h}
Alive == {h \in Handle : memory[h] = "allocated"}

Goto(t, label) == pc' = [pc EXCEPT ![t] = label]
Load(t, h, value, label) ==
  /\ hd' = [hd EXCEPT ![t] = h]
  /\ val' = [val EXCEPT ![t] = value]
  /\ Goto(t, label)
Plus(n) == IF n = CountMax THEN 0 ELSE n + 1
Minus(n) == IF n = 0 THEN CountMax ELSE n - 1

(* A pointer to a handle, or to the client, may be followed.               *)
HandleOk(h) == memory[h] = "allocated"
ClientOk == client = "open"
Crash(kind) ==
  /\ fault' = kind
  /\ UNCHANGED <<client, num_phonebook_handles, warned, memory, refcount,
                 target, pc, hd, val>>

Init ==
  /\ client = "open" /\ num_phonebook_handles = 0 /\ warned = FALSE
  /\ memory = [h \in Handle |-> "none"]
  /\ refcount = [h \in Handle |-> 0]
  /\ target = [r \in Ref |-> Null]
  /\ pc = [t \in Thread |-> "idle"]
  /\ hd = [t \in Thread |-> Null]
  /\ val = [t \in Thread |-> 0]
  /\ fault = "none"
-----------------------------------------------------------------------------
(* YP_phonebook_handle_create.  No application passes a client that it has *)
(* finalized: its pointer to the client is gone, those of the handles stay.*)
HandleCreate(t) ==
  /\ pc[t] = "idle" /\ client = "open"
  /\ References(Null) # {}
  /\ \E h \in Handle :
       /\ memory[h] = "none"
       /\ memory' = [memory EXCEPT ![h] = "allocated"]
       /\ refcount' = [refcount EXCEPT ![h] = 1]
       /\ hd' = [hd EXCEPT ![t] = h]
       /\ Goto(t, "count")
  /\ UNCHANGED <<client, num_phonebook_handles, warned, target, val, fault>>

(* client->num_phonebook_handles += 1, a load and a store; then the caller *)
(* gets the handle.                                                        *)
CountLoad(t) ==
  /\ pc[t] = "count"
  /\ IF ClientOk
     THEN /\ Load(t, hd[t], num_phonebook_handles, "count_store")
          /\ UNCHANGED <<client, num_phonebook_handles, warned, memory,
                         refcount, target, fault>>
     ELSE Crash("freed_client")

(* Mutant: the handle is not counted.                                      *)
CountStoreMutant(t) ==
  /\ pc[t] = "count_store"
  /\ \E r \in References(Null) : target' = [target EXCEPT ![r] = hd[t]]
  /\ Goto(t, "idle")
  /\ UNCHANGED <<client, num_phonebook_handles, warned, memory, refcount, hd,
                 val, fault>>

CountStore(t) ==
  /\ pc[t] = "count_store"
  /\ IF ClientOk
     THEN /\ num_phonebook_handles' = Plus(val[t])
          /\ \E r \in References(Null) : target' = [target EXCEPT ![r] = hd[t]]
          /\ Goto(t, "idle")
          /\ UNCHANGED <<client, warned, memory, refcount, hd, val, fault>>
     ELSE Crash("freed_client")

(* YP_phonebook_handle_ref_incr, through a reference the caller has.       *)
RefIncrLoad(t) ==
  /\ pc[t] = "idle"
  /\ References(Null) # {}
  /\ \E r \in Ref \ References(Null) :
       IF HandleOk(target[r])
       THEN /\ Load(t, target[r], refcount[target[r]], "incr_store")
            /\ UNCHANGED <<client, num_phonebook_handles, warned, memory,
                           refcount, target, fault>>
       ELSE Crash("freed_handle")

RefIncrStore(t) ==
  /\ pc[t] = "incr_store"
  /\ IF HandleOk(hd[t])
     THEN \E r \in References(Null) :
            /\ refcount' = [refcount EXCEPT ![hd[t]] = Plus(val[t])]
            /\ target' = [target EXCEPT ![r] = hd[t]]
            /\ Goto(t, "idle")
            /\ UNCHANGED <<client, num_phonebook_handles, warned, memory, hd,
                           val, fault>>
     ELSE Crash("freed_handle")
-----------------------------------------------------------------------------
(* YP_phonebook_handle_release: the caller's reference is gone.            *)
ReleaseLoad(t) ==
  /\ pc[t] = "idle"
  /\ \E r \in Ref \ References(Null) :
       IF HandleOk(target[r])
       THEN /\ Load(t, target[r], refcount[target[r]], "decr_store")
            /\ target' = [target EXCEPT ![r] = Null]
            /\ UNCHANGED <<client, num_phonebook_handles, warned, memory,
                           refcount, fault>>
       ELSE Crash("freed_handle")

ReleaseStore(t) ==
  /\ pc[t] = "decr_store"
  /\ IF HandleOk(hd[t])
     THEN /\ refcount' = [refcount EXCEPT ![hd[t]] = Minus(val[t])]
          /\ Goto(t, "test")
          /\ UNCHANGED <<client, num_phonebook_handles, warned, memory, target,
                         hd, val, fault>>
     ELSE Crash("freed_handle")

(* Mutant: the handle is freed when one reference is left.                 *)
ReleaseTestMutant(t) ==
  /\ pc[t] = "test" /\ HandleOk(hd[t]) /\ ClientOk
  /\ Goto(t, IF refcount[hd[t]] <= 1 THEN "uncount" ELSE "idle")
  /\ UNCHANGED <<client, num_phonebook_handles, warned, memory, refcount,
                 target, hd, val, fault>>

(* The counter is tested as read again or, in a build that kept it in a    *)
(* register, as stored; the address of the last handle is freed through    *)
(* the client.                                                             *)
ReleaseTest(t) ==
  /\ pc[t] = "test"
  /\ IF ~HandleOk(hd[t])
     THEN Crash("freed_handle")
     ELSE \E n \in {refcount[hd[t]], Minus(val[t])} :
            IF n = 0 /\ ~ClientOk
            THEN Crash("freed_client")
            ELSE /\ Goto(t, IF n = 0 THEN "uncount" ELSE "idle")
                 /\ UNCHANGED <<client, num_phonebook_handles, warned, memory,
                                refcount, target, hd, val, fault>>

UncountLoad(t) ==
  /\ pc[t] = "uncount"
  /\ IF HandleOk(hd[t]) /\ ClientOk
     THEN /\ Load(t, hd[t], num_phonebook_handles, "uncount_store")
          /\ UNCHANGED <<client, num_phonebook_handles, warned, memory,
                         refcount, target, fault>>
     ELSE Crash(IF ClientOk THEN "freed_handle" ELSE "freed_client")

(* Mutant: the client goes on counting the handle.                         *)
UncountStoreMutant(t) ==
  /\ pc[t] = "uncount_store"
  /\ Goto(t, "free")
  /\ UNCHANGED <<client, num_phonebook_handles, warned, memory, refcount,
                 target, hd, val, fault>>

UncountStore(t) ==
  /\ pc[t] = "uncount_store"
  /\ IF ClientOk
     THEN /\ num_phonebook_handles' = Minus(val[t])
          /\ Goto(t, "free")
          /\ UNCHANGED <<client, warned, memory, refcount, target, hd, val,
                         fault>>
     ELSE Crash("freed_client")

ReleaseFree(t) ==
  /\ pc[t] = "free"
  /\ IF HandleOk(hd[t])
     THEN /\ memory' = [memory EXCEPT ![hd[t]] = "freed"]
          /\ Goto(t, "idle")
          /\ UNCHANGED <<client, num_phonebook_handles, warned, refcount,
                         target, hd, val, fault>>
     ELSE Crash("freed_handle")
-----------------------------------------------------------------------------
(* YP_say_hello and YP_compute_sum, through a reference somebody has when  *)
(* the call starts.  What they need of the handle and of the client they   *)
(* read before they wait.                                                  *)
CallStart(t) ==
  /\ pc[t] = "idle"
  /\ \E r \in Ref \ References(Null) :
       IF HandleOk(target[r]) /\ ClientOk
       THEN /\ hd' = [hd EXCEPT ![t] = target[r]]
            /\ Goto(t, "call")
            /\ UNCHANGED <<client, num_phonebook_handles, warned, memory,
                           refcount, target, val, fault>>
       ELSE Crash(IF ClientOk THEN "freed_handle" ELSE "freed_client")

(* Mutant: the handle is read once more after the wait.                    *)
CallEndMutant(t) ==
  /\ pc[t] = "call"
  /\ IF HandleOk(hd[t])
     THEN /\ Goto(t, "idle")
          /\ UNCHANGED <<client, num_phonebook_handles, warned, memory,
                         refcount, target, hd, val, fault>>
     ELSE Crash("freed_handle")

(* With a response, an error of the provider or one of Mercury.            *)
CallEnd(t) ==
  /\ pc[t] = "call"
  /\ Goto(t, "idle")
  /\ UNCHANGED <<client, num_phonebook_handles, warned, memory, refcount,
                 target, hd, val, fault>>

(* YP_client_finalize frees the client even when it warns of handles left. *)
ClientFinalize(t) ==
  /\ pc[t] = "idle" /\ client = "open"
  /\ warned' = (num_phonebook_handles # 0)
  /\ client' = "freed"
  /\ UNCHANGED <<num_phonebook_handles, memory, refcount, target, pc, hd, val,
                 fault>>
-----------------------------------------------------------------------------
Step(t) ==
  \/ HandleCreate(t) \/ CountLoad(t) \/ CountStore(t)
  \/ RefIncrLoad(t) \/ RefIncrStore(t)
  \/ ReleaseLoad(t) \/ ReleaseStore(t) \/ ReleaseTest(t)
  \/ UncountLoad(t) \/ UncountStore(t) \/ ReleaseFree(t)
  \/ CallStart(t) \/ CallEnd(t) \/ ClientFinalize(t)

Runs(t) == \A s \in Thread \ {t} : pc[s] \in YieldLabels

(* The application may stop whenever its threads are idle.                 *)
Ended == (\A t \in Thread : pc[t] = "idle") /\ UNCHANGED vars
Halted == fault # "none" /\ UNCHANGED vars

Next ==
  \/ \E t \in Thread : fault = "none" /\ Runs(t) /\ Step(t)
  \/ Ended \/ Halted

Spec == Init /\ [][Next]_vars
-----------------------------------------------------------------------------
TypeOK ==
  /\ client \in {"open", "freed"}
  /\ num_phonebook_handles \in 0..CountMax
  /\ warned \in BOOLEAN
  /\ memory \in [Handle -> {"none", "allocated", "freed"}]
  /\ refcount \in [Handle -> 0..CountMax]
  /\ target \in [Ref -> Handle \cup {Null}]
  /\ pc \in [Thread -> Labels]
  /\ hd \in [Thread -> Handle \cup {Null}]
  /\ val \in [Thread -> 0..CountMax]
  /\ fault \in {"none", "freed_client", "freed_handle"}

(* No thread reads or writes a freed handle, nor the freed client unless   *)
(* YP_client_finalize warned: it is silent only when nothing the           *)
(* application has leads back to the client.                               *)
NoUseAfterFree == fault # "none" => fault = "freed_client" /\ warned

Quiet == \A t \in Thread : pc[t] \in OneStream

(* Between operations a handle lives exactly as long as the application    *)
(* has a reference to it, and its counter says how many: nothing leaks and *)
(* nothing is freed under a caller.                                        *)
CountsReferences ==
  Quiet => \A h \in Handle :
             /\ h \in Alive <=> References(h) # {}
             /\ h \in Alive => refcount[h] = Cardinality(References(h))

(* "%ld phonebook handles not released": between operations the client's   *)
(* counter is the number of handles that were not released.                *)
CountsHandles ==
  (Quiet /\ client = "open") => num_phonebook_handles = Cardinality(Alive)
=============================================================================
