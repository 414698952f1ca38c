-------------------------- MODULE PhonebookRegistry --------------------------
(***************************************************************************)
(* What a provider promises, without handlers, pointers or counters: a     *)
(* table of phonebook ids in order of registration, and requests that each *)
(* take effect in one step, at some moment between being asked and being   *)
(* answered.                                                               *)
(***************************************************************************)
EXTENDS YPTypes, SequencesExt

CONSTANT Caller   \* one request each

VARIABLES
  table,   \* the registered ids, oldest first
  ever,    \* every id that was ever registered
  phase,   \* "down", "loading", "open", "closing" or "closed"
  asked,   \* the request of each caller, or Null
  answer   \* its answer, or Null

vars == <<table, ever, phase, asked, answer>>

Init ==
  /\ table = <<>>
  /\ ever = {}
  /\ phase = "down"
  /\ asked = [c \in Caller |-> Null]
  /\ answer = [c \in Caller |-> Null]

Pending(c) == asked[c] # Null /\ answer[c] = Null
Reply(c, ret, val) == answer' = [answer EXCEPT ![c] = Answer(ret, val)]

(* Ids are never given twice, and the youngest phonebook comes last.       *)
Enter(id) ==
  /\ id \notin ever
  /\ ever' = ever \cup {id}
  /\ table' = Append(table, id)

Start == /\ phase = "down" /\ phase' = "loading"
         /\ UNCHANGED <<table, ever, asked, answer>>

Load == /\ phase = "loading"
        /\ \E id \in Id : Enter(id)
        /\ UNCHANGED <<phase, asked, answer>>

Opened == /\ phase = "loading" /\ phase' = "open"
          /\ UNCHANGED <<table, ever, asked, answer>>

Ask(c) == /\ phase \in {"loading", "open"}
          /\ asked[c] = Null
          /\ \E r \in Request : asked' = [asked EXCEPT ![c] = r]
          /\ UNCHANGED <<table, ever, phase, answer>>

(* Errors that say nothing of the table and leave it alone.  The token     *)
(* error is given to exactly the requests with another token.  A request   *)
(* with a NULL string where one is needed is never understood.             *)
Refusals(r) ==
  {"YP_ERR_FROM_MERCURY"}
    \cup (IF Authorized(r) \/ NullString(r) THEN {} ELSE {"YP_ERR_INVALID_TOKEN"})
    \cup (IF /\ Authorized(r) /\ ~NullString(r)
             /\ r.op \in {"create", "open"}
          THEN {"YP_ERR_INVALID_BACKEND", "YP_ERR_INVALID_CONFIG"} ELSE {})

Refuse(c) ==
  /\ Pending(c)
  /\ asked[c].op # "hello"
  /\ \E ret \in Refusals(asked[c]) : Reply(c, ret, Null)
  /\ UNCHANGED <<table, ever, phase, asked>>

Admit(c) ==
  /\ Pending(c)
  /\ asked[c].op \in {"create", "open"} /\ Authorized(asked[c])
  /\ ~NullString(asked[c])
  /\ \E id \in Id : Enter(id) /\ Reply(c, "YP_SUCCESS", id)
  /\ UNCHANGED <<phase, asked>>

(* A phonebook whose backend fails to close is gone all the same.          *)
Drop(c) ==
  /\ Pending(c)
  /\ asked[c].op \in {"close", "destroy"} /\ Authorized(asked[c])
  /\ \E k \in 1..Len(table) : /\ table[k] = asked[c].id
                              /\ table' = RemoveAt(table, k)
  /\ \/ Reply(c, "YP_SUCCESS", Null)
     \/ asked[c].op = "close" /\ Reply(c, "YP_ERR_OTHER", Null)
  /\ UNCHANGED <<ever, phase, asked>>

NotFound(c) ==
  /\ Pending(c)
  /\ asked[c].op \in {"close", "destroy", "sum"} /\ Authorized(asked[c])
  /\ ~Contains(table, asked[c].id)
  /\ Reply(c, "YP_ERR_INVALID_PHONEBOOK", Null)
  /\ UNCHANGED <<table, ever, phase, asked>>

Smaller(m, n) == IF m < n THEN m ELSE n

(* The oldest phonebooks, as many as the caller has room for.              *)
Enumerate(c) ==
  /\ Pending(c)
  /\ asked[c].op = "list" /\ Authorized(asked[c])
  /\ Reply(c, "YP_SUCCESS",
           SubSeq(table, 1, Smaller(Len(table), asked[c].max_ids)))
  /\ UNCHANGED <<table, ever, phase, asked>>

Serve(c) ==
  /\ Pending(c)
  /\ \/ /\ asked[c].op = "sum"
        /\ Contains(table, asked[c].id)
        /\ Reply(c, "YP_SUCCESS", Null)
     \/ /\ asked[c].op = "hello"
        /\ answer' = [answer EXCEPT ![c] = NoResponse]
  /\ UNCHANGED <<table, ever, phase, asked>>

(* The registry shuts down once nobody waits for an answer.                *)
Close == /\ phase = "open" /\ phase' = "closing"
         /\ \A c \in Caller : ~Pending(c)
         /\ UNCHANGED <<table, ever, asked, answer>>

Expire == /\ phase = "closing"
          /\ table # <<>> /\ table' = Tail(table)
          /\ UNCHANGED <<ever, phase, asked, answer>>

Closed == /\ phase = "closing" /\ table = <<>>
          /\ phase' = "closed"
          /\ UNCHANGED <<table, ever, asked, answer>>

Next ==
  \/ Start \/ Load \/ Opened \/ Close \/ Expire \/ Closed
  \/ \E c \in Caller :
       \/ Ask(c) \/ Refuse(c) \/ Admit(c) \/ Drop(c) \/ NotFound(c)
       \/ Enumerate(c) \/ Serve(c)

Spec == Init /\ [][Next]_vars
=============================================================================
