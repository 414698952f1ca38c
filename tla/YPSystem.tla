------------------------------- MODULE YPSystem -------------------------------
(***************************************************************************)
(* The admin and client libraries (src/admin.c, src/client.c) calling a    *)
(* provider over Mercury.  The provider is PhonebookRegistry, which        *)
(* YPProvider implements; this module adds the calls.  A call is sent, may *)
(* be delivered and answered, and returns; nothing is sent twice.  Unless  *)
(* Mercury is reliable, a call may fail at any time, and what became of    *)
(* its request is then unknown: it may even be delivered later.  Mercury   *)
(* is trusted to end every call that it cannot complete, unless a NULL     *)
(* string brought the provider down: of the calls then waiting nothing is  *)
(* claimed.                                                                *)
(***************************************************************************)
EXTENDS PhonebookRegistry

VARIABLES
  reliable, \* TRUE: Mercury fails only calls to a provider that is not up
  call,     \* the input of the call each caller sent, or Null
  ret,      \* what its call returned, or Null
  out,      \* what its call wrote to *id or ids, or Null
  past      \* what had been returned to all callers when this one called

registry == <<table, ever, phase, asked, answer>>
calls == <<reliable, call, ret, out, past>>
sysVars == <<table, ever, phase, asked, answer, reliable, call, ret, out,
             past>>

Creates == {c \in Caller : call[c] # Null /\ call[c].op \in {"create", "open"}}
Removals == {c \in Caller : call[c] # Null /\ call[c].op \in {"close", "destroy"}}
Removed(c) == ret[c] \in {"YP_SUCCESS", "YP_ERR_OTHER"}

(* The ids returned so far, and those reported to be closed or destroyed.  *)
Made == {out[c] : c \in {c \in Creates : ret[c] = "YP_SUCCESS"}}
Gone == {call[c].id : c \in {c \in Removals : Removed(c)}}

SysInit ==
  /\ Init
  /\ reliable \in BOOLEAN
  /\ call = [c \in Caller |-> Null]
  /\ ret = [c \in Caller |-> Null]
  /\ out = [c \in Caller |-> Null]
  /\ past = [c \in Caller |-> [made |-> {}, gone |-> {}]]
-----------------------------------------------------------------------------
(* Filling the input structure, margo_create, and sending the request.     *)
Forward(c, In) ==
  /\ call[c] = Null /\ ret[c] = Null
  /\ \E in \in In : call' = [call EXCEPT ![c] = in]
  /\ past' = [past EXCEPT ![c] = [made |-> Made, gone |-> Gone]]
  /\ UNCHANGED <<reliable, ret, out, registry>>

Return(c, code) ==
  /\ ret' = [ret EXCEPT ![c] = code]
  /\ UNCHANGED <<reliable, call, past, registry>>

(* margo_create fails: nothing is sent.                                    *)
NotSent(c) ==
  /\ ~reliable
  /\ call[c] = Null /\ ret[c] = Null
  /\ Return(c, "YP_ERR_FROM_MERCURY") /\ UNCHANGED out

Waiting(c, In) == call[c] \in In /\ ret[c] = Null

(* Mutant: a call to a provider that is not up is left waiting.            *)
UndeliverableMutant(c) == FALSE

(* No provider has the RPC registered, and the request is still on its way.*)
Undeliverable(c) == asked[c] = Null /\ phase \notin {"loading", "open"}

(* Mutant: the failure of the call is not reported.                        *)
ForwardFailsMutant(c, In) ==
  /\ Waiting(c, In)
  /\ ~reliable \/ Undeliverable(c)
  /\ Return(c, "YP_SUCCESS") /\ UNCHANGED out

(* margo_provider_forward fails.                                           *)
ForwardFails(c, In) ==
  /\ Waiting(c, In)
  /\ ~reliable \/ Undeliverable(c)
  /\ Return(c, "YP_ERR_FROM_MERCURY") /\ UNCHANGED out

(* When list fails out.count was not initialized and no ids are sent: the  *)
(* decoder reads as many ids as it says, and gets past the end of the      *)
(* message, or not.                                                        *)
Undecodable(c) == call[c].op = "list" /\ answer[c].ret # "YP_SUCCESS"

(* margo_get_output fails.                                                 *)
GetOutputFails(c, In) ==
  /\ Waiting(c, In) /\ answer[c] # Null
  /\ ~reliable \/ Undecodable(c)
  /\ Return(c, "YP_ERR_FROM_MERCURY") /\ UNCHANGED out

(* The caller is given the provider's return code.                         *)
Result(c, In) ==
  /\ Waiting(c, In) /\ answer[c] # Null
  /\ Return(c, answer[c].ret)

(* memcpy(id, &out.id, ...): the caller passed a valid pointer.            *)
CopyId(c) == out' = [out EXCEPT ![c] = answer[c].val]

Fails(c, In) == NotSent(c) \/ ForwardFails(c, In) \/ GetOutputFails(c, In)
Succeeded(c) == answer[c].ret = "YP_SUCCESS"

(* Mutant: an id is copied from every answer, and the call succeeds.       *)
YP_create_phonebookMutant(c) ==
  \/ Forward(c, create_phonebook_in_t) \/ Fails(c, create_phonebook_in_t)
  \/ /\ Waiting(c, create_phonebook_in_t) /\ answer[c] # Null
     /\ Return(c, "YP_SUCCESS") /\ CopyId(c)

YP_create_phonebook(c) ==
  \/ Forward(c, create_phonebook_in_t) \/ Fails(c, create_phonebook_in_t)
  \/ Result(c, create_phonebook_in_t) /\ Succeeded(c) /\ CopyId(c)
  \/ Result(c, create_phonebook_in_t) /\ ~Succeeded(c) /\ UNCHANGED out

(* Mutant: the id is not copied.                                           *)
YP_open_phonebookMutant(c) ==
  \/ Forward(c, open_phonebook_in_t) \/ Fails(c, open_phonebook_in_t)
  \/ Result(c, open_phonebook_in_t) /\ UNCHANGED out

YP_open_phonebook(c) ==
  \/ Forward(c, open_phonebook_in_t) \/ Fails(c, open_phonebook_in_t)
  \/ Result(c, open_phonebook_in_t) /\ Succeeded(c) /\ CopyId(c)
  \/ Result(c, open_phonebook_in_t) /\ ~Succeeded(c) /\ UNCHANGED out

(* Mutant: the phonebook is taken to be closed when the answer is lost.    *)
YP_close_phonebookMutant(c) ==
  \/ Forward(c, close_phonebook_in_t)
  \/ /\ Waiting(c, close_phonebook_in_t) /\ ~reliable
     /\ Return(c, "YP_SUCCESS") /\ UNCHANGED out
  \/ Result(c, close_phonebook_in_t) /\ UNCHANGED out

YP_close_phonebook(c) ==
  \/ Forward(c, close_phonebook_in_t) \/ Fails(c, close_phonebook_in_t)
  \/ Result(c, close_phonebook_in_t) /\ UNCHANGED out

YP_destroy_phonebook(c) ==
  \/ Forward(c, destroy_phonebook_in_t) \/ Fails(c, destroy_phonebook_in_t)
  \/ Result(c, destroy_phonebook_in_t) /\ UNCHANGED out

(* Mutant: a list that could not be had is empty.                          *)
YP_list_phonebooksMutant(c) ==
  \/ Forward(c, list_phonebooks_in_t)
  \/ /\ Waiting(c, list_phonebooks_in_t) /\ ~reliable
     /\ Return(c, "YP_SUCCESS")
     /\ out' = [out EXCEPT ![c] = <<>>]

YP_list_phonebooks(c) ==
  \/ Forward(c, list_phonebooks_in_t) \/ Fails(c, list_phonebooks_in_t)
  \/ /\ Result(c, list_phonebooks_in_t)
     /\ out' = [out EXCEPT ![c] = IF Succeeded(c) THEN answer[c].val ELSE @]

(* Mutant: the call waits for a response, and returns what came of it.     *)
YP_say_helloMutant(c) ==
  \/ Forward(c, hello_in_t) \/ Fails(c, hello_in_t)
  \/ Result(c, hello_in_t) /\ UNCHANGED out

(* The response of hello is disabled: the call returns once it is sent,    *)
(* whether or not a provider is there to receive it.                       *)
YP_say_hello(c) ==
  \/ Forward(c, hello_in_t) \/ NotSent(c) \/ ForwardFails(c, hello_in_t)
  \/ /\ Waiting(c, hello_in_t)
     /\ Return(c, "YP_SUCCESS") /\ UNCHANGED out

YP_compute_sum(c) ==
  \/ Forward(c, sum_in_t) \/ Fails(c, sum_in_t)
  \/ Result(c, sum_in_t) /\ UNCHANGED out

Library(c) ==
  \/ YP_create_phonebook(c) \/ YP_open_phonebook(c) \/ YP_close_phonebook(c)
  \/ YP_destroy_phonebook(c) \/ YP_list_phonebooks(c) \/ YP_say_hello(c)
  \/ YP_compute_sum(c)
-----------------------------------------------------------------------------
(* The request that was sent reaches the provider, at most once.  A        *)
(* reliable Mercury does not deliver what it reported to have failed.      *)
Deliver(c) ==
  /\ call[c] # Null
  /\ reliable => ret[c] # "YP_ERR_FROM_MERCURY"
  /\ Ask(c) /\ asked'[c] = call[c]
  /\ UNCHANGED calls

Handle(c) ==
  /\ Refuse(c) \/ Admit(c) \/ Drop(c) \/ NotFound(c) \/ Enumerate(c) \/ Serve(c)
  /\ UNCHANGED calls

Server ==
  /\ Start \/ Load \/ Opened \/ Close \/ Expire \/ Closed
  /\ UNCHANGED calls

(* A request that the provider cannot read without strcmp of NULL.         *)
Down == \E c \in Caller : Pending(c) /\ NullString(asked[c])

Ended == /\ Down \/ (phase = "closed" /\ \A c \in Caller : ret[c] # Null)
         /\ UNCHANGED sysVars

SysNext ==
  \/ Server
  \/ \E c \in Caller : Library(c) \/ Deliver(c) \/ Handle(c)
  \/ Ended

SysSpec == SysInit /\ [][SysNext]_sysVars

(* Mercury delivers what it can, the provider answers what it is asked     *)
(* unless it is down (EveryRequestEnds of YPProvider), and a call that may *)
(* return does.                                                            *)
FairSpec ==
  /\ SysSpec
  /\ \A c \in Caller : WF_sysVars(Deliver(c)) /\ WF_sysVars(~Down /\ Handle(c))
                       /\ WF_sysVars(ret[c] = Null /\ call[c] # Null /\ Library(c))
-----------------------------------------------------------------------------
(* Types of what this module adds.                                         *)
SysTypeOK ==
  /\ reliable \in BOOLEAN
  /\ call \in [Caller -> Request \cup {Null}]
  /\ ret \in [Caller -> YP_return_t \cup {Null}]
  /\ out \in [Caller -> Id \cup Seq(Id) \cup {Null}]

(* Ids given to callers are those of phonebooks, each given once.          *)
IdsUnique ==
  \A c \in Creates : ret[c] = "YP_SUCCESS" =>
    /\ out[c] \in ever
    /\ \A d \in Creates \ {c} : out[d] # out[c]

(* A phonebook whose id nobody has and nobody will get is explained by a   *)
(* call that returned YP_ERR_FROM_MERCURY, a call for each.  Every other   *)
(* error of create and open means that there is no new phonebook.          *)
OrphansExplained ==
  LET Asked == {answer[c].val : c \in {c \in Creates : answer[c] # Null}}
      Orphans == (Asked \cap ever)
                   \ (Made \cup {answer[c].val :
                         c \in {c \in Creates : ret[c] = Null /\ answer[c] # Null}})
  IN  Cardinality(Orphans)
        <= Cardinality({c \in Creates : ret[c] = "YP_ERR_FROM_MERCURY"})

(* A phonebook is closed or destroyed by one call only, whatever Mercury   *)
(* does: no other call for it is told that it removed it.                  *)
RemovedOnce ==
  \A c, d \in Removals :
    Removed(c) /\ Removed(d) /\ call[c].id = call[d].id => c = d

(* A phonebook reported to be gone is gone for every later call.           *)
GoneStaysGone ==
  \A c \in Caller : call[c] # Null /\ ret[c] # Null =>
    /\ call[c].op \in {"close", "destroy", "sum"} /\ call[c].id \in past[c].gone
         => ret[c] \in {"YP_ERR_INVALID_PHONEBOOK", "YP_ERR_INVALID_TOKEN",
                        "YP_ERR_FROM_MERCURY"}
    /\ call[c].op = "list" /\ ret[c] = "YP_SUCCESS"
         => Range(out[c]) \cap past[c].gone = {}

(* A phonebook whose id was returned is found by every later call, and     *)
(* listed if the list has room, as long as nobody asks to remove it.       *)
MadeIsThere ==
  \A c \in Caller : call[c] # Null /\ ret[c] # Null =>
    \A id \in past[c].made \ {call[d].id : d \in Removals} :
      /\ call[c].op = "sum" /\ call[c].id = id
           => ret[c] # "YP_ERR_INVALID_PHONEBOOK"
      /\ call[c].op = "list" /\ ret[c] = "YP_SUCCESS"
           => Contains(out[c], id) \/ Len(out[c]) = call[c].max_ids

(* Every call returns, when Mercury delivers and nobody brings the         *)
(* provider down.                                                          *)
AllReturn ==
  reliable => \A c \in Caller : call[c] # Null ~> ret[c] # Null \/ Down

(* YP_ERR_INVALID_TOKEN is "Invalid token" and YP_ERR_FROM_MERCURY an error*)
(* of Mercury: a caller with the wrong token is told so.                   *)
TokenReported ==
  \A c \in Caller : reliable /\ ret[c] # Null /\ answer[c] # Null =>
    (answer[c].ret = "YP_ERR_INVALID_TOKEN" => ret[c] = answer[c].ret)
=============================================================================
