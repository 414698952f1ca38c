----------------------------- MODULE YPSystemInv ------------------------------
(***************************************************************************)
(* The inductive invariant of YPSystem: how what the callers were told     *)
(* relates to what the provider did and to what its table holds.           *)
(***************************************************************************)
EXTENDS YPSystem

Payload == Id \cup Seq(Id) \cup {Null}
Replies == [ret : YP_return_t \cup {"no response"}, val : Payload]

Types ==
  /\ SysTypeOK
  /\ table \in Seq(Id)
  /\ ever \subseteq Id
  /\ phase \in {"down", "loading", "open", "closing", "closed"}
  /\ asked \in [Caller -> Request \cup {Null}]
  /\ answer \in [Caller -> Replies \cup {Null}]
  /\ past \in [Caller -> [made : SUBSET Payload, gone : SUBSET Id]]

(* An id is registered once, and was given.                                *)
Tabled ==
  /\ \A i, j \in 1..Len(table) : table[i] = table[j] => i = j
  /\ \A id \in Id : Contains(table, id) => id \in ever

(* The provider is asked what was sent, and answers what it was asked,     *)
(* before it closes.                                                       *)
Sent ==
  \A c \in Caller :
    /\ asked[c] # Null => asked[c] = call[c]
    /\ answer[c] # Null => asked[c] # Null
    /\ answer[c] # Null /\ asked[c].op # "hello" => answer[c].ret \in YP_return_t
    /\ answer[c] # Null /\ asked[c].op \in {"create", "open"} =>
         answer[c].ret = "YP_SUCCESS" \/ answer[c].val = Null
    /\ Pending(c) => phase \in {"loading", "open"}

(* The requests that added a phonebook, and those that removed one.        *)
Admitted(c) ==
  /\ answer[c] # Null
  /\ asked[c].op \in {"create", "open"} /\ answer[c].ret = "YP_SUCCESS"
Dropped(c) ==
  /\ answer[c] # Null
  /\ asked[c].op \in {"close", "destroy"}
  /\ answer[c].ret \in {"YP_SUCCESS", "YP_ERR_OTHER"}

Admissions ==
  /\ \A c \in Caller : Admitted(c) => answer[c].val \in ever
  /\ \A c, d \in Caller :
       Admitted(c) /\ Admitted(d) /\ answer[c].val = answer[d].val => c = d

Vanished(id) == id \in ever /\ ~Contains(table, id)

Drops ==
  /\ \A c \in Caller : Dropped(c) => Vanished(asked[c].id)
  /\ \A c, d \in Caller :
       Dropped(c) /\ Dropped(d) /\ asked[c].id = asked[d].id => c = d

(* A caller is told the provider's answer, or that Mercury failed.         *)
Told ==
  \A c \in Caller :
    /\ ret[c] # "YP_SUCCESS" => out[c] = Null
    /\ /\ call[c] # Null /\ call[c].op # "hello"
       /\ ret[c] \notin {Null, "YP_ERR_FROM_MERCURY"}
       => /\ answer[c] # Null /\ ret[c] = answer[c].ret
          /\ call[c].op \in {"create", "open", "list"} /\ ret[c] = "YP_SUCCESS"
               => out[c] = answer[c].val

(* Nobody has asked to remove the phonebook.                               *)
Kept(id) == \A d \in Caller : call[d] # Null /\ call[d].op \in {"close", "destroy"}
                                => call[d].id # id

(* A phonebook leaves the table on request, or when the provider closes.   *)
Lasting ==
  \A id \in ever : Kept(id) /\ phase \notin {"closing", "closed"}
                     => Contains(table, id)

(* What was known when a call was made, in the state and in its answer.    *)
Known ==
  \A c \in Caller :
    /\ \A id \in past[c].gone : Vanished(id)
    /\ past[c].made \subseteq ever

KnowsGone(c) ==
  answer[c] # Null =>
    /\ asked[c].op \in {"close", "destroy", "sum"} /\ asked[c].id \in past[c].gone
         => answer[c].ret \in {"YP_ERR_INVALID_PHONEBOOK", "YP_ERR_INVALID_TOKEN",
                               "YP_ERR_FROM_MERCURY"}
    /\ asked[c].op = "list" /\ answer[c].ret = "YP_SUCCESS"
         => Range(answer[c].val) \cap past[c].gone = {}

KnowsMade(c) ==
  answer[c] # Null => \A id \in past[c].made : Kept(id) =>
    /\ asked[c].op = "sum" /\ asked[c].id = id
         => answer[c].ret # "YP_ERR_INVALID_PHONEBOOK"
    /\ asked[c].op = "list" /\ answer[c].ret = "YP_SUCCESS"
         => \/ Contains(answer[c].val, id)
            \/ Len(answer[c].val) = asked[c].max_ids

SInv ==
  /\ Types /\ Tabled /\ Sent /\ Admissions /\ Drops /\ Told /\ Lasting
  /\ Known
  /\ \A c \in Caller : KnowsGone(c) /\ KnowsMade(c)
=============================================================================
