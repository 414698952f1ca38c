---------------------------- MODULE YPSystemProofs ----------------------------
(***************************************************************************)
(* Theorems about YPSystem, for any number of callers, phonebooks and      *)
(* tokens, and whatever Mercury loses: what callers are told agrees with   *)
(* what the provider did, and with what other callers were told before.    *)
(***************************************************************************)
EXTENDS YPSystemInv, SequenceLemmas, FiniteSetTheorems

(* The three ways the table changes.                                       *)
LEMMA TableEnter ==
  ASSUME table \in Seq(Id), Tabled, NEW id \in Id, Enter(id)
  PROVE  /\ table' \in Seq(Id) /\ ever' = ever \cup {id} /\ Tabled'
         /\ \A x : Contains(table', x) <=> Contains(table, x) \/ x = id
<1>1. id \notin ever /\ ever' = ever \cup {id} /\ table' = Append(table, id)
  BY DEF Enter
<1>2. /\ Len(table) \in Nat /\ table' \in Seq(Id)
      /\ Len(table') = Len(table) + 1
      /\ \A i \in 1..Len(table) : table'[i] = table[i]
      /\ table'[Len(table) + 1] = id
  BY <1>1, AppendProperties, LenProperties
<1>3. \A x : Contains(table', x) <=> Contains(table, x) \/ x = id
  BY <1>2 DEF Contains
<1>4. ~Contains(table, id)
  BY <1>1 DEF Tabled
<1>5. \A i, j \in 1..Len(table') : table'[i] = table'[j] => i = j
  BY <1>2, <1>4 DEF Tabled, Contains
<1> QED BY <1>1, <1>2, <1>3, <1>5 DEF Tabled

LEMMA TableRemove ==
  ASSUME table \in Seq(Id), Tabled, ever' = ever,
         NEW k \in 1..Len(table), table' = RemoveAt(table, k)
  PROVE  /\ table' \in Seq(Id) /\ Tabled'
         /\ \A x : Contains(table', x) <=> Contains(table, x) /\ x # table[k]
<1>1. /\ Len(table) \in Nat /\ table' \in Seq(Id)
      /\ Len(table') = Len(table) - 1
      /\ \A j \in 1..(Len(table) - 1) :
           table'[j] = IF j < k THEN table[j] ELSE table[j + 1]
  BY RemoveAtProperties, LenProperties
<1>2. ASSUME NEW x, Contains(table', x)
      PROVE  Contains(table, x) /\ x # table[k]
  BY <1>1, <1>2 DEF Contains, Tabled
<1>3. ASSUME NEW x, Contains(table, x), x # table[k]
      PROVE  Contains(table', x)
  <2>1. PICK i \in 1..Len(table) : table[i] = x
    BY <1>3 DEF Contains
  <2>2. CASE i < k
    BY <1>1, <2>1, <2>2 DEF Contains
  <2>3. CASE i > k
    <3>1. i - 1 \in 1..Len(table') /\ table'[i - 1] = x
      BY <1>1, <2>1, <2>3
    <3> QED BY <3>1 DEF Contains
  <2> QED BY <1>1, <1>3, <2>1, <2>2, <2>3
<1>4. \A i, j \in 1..Len(table') : table'[i] = table'[j] => i = j
  BY <1>1 DEF Tabled
<1> QED BY <1>1, <1>2, <1>3, <1>4 DEF Tabled

LEMMA TableTail ==
  ASSUME table \in Seq(Id), Tabled, ever' = ever,
         table # <<>>, table' = Tail(table)
  PROVE  /\ table' \in Seq(Id) /\ Tabled'
         /\ \A x : Contains(table', x) => Contains(table, x)
<1>1. /\ Len(table) \in Nat /\ table' \in Seq(Id)
      /\ Len(table') = Len(table) - 1
      /\ \A j \in 1..(Len(table) - 1) : table'[j] = table[j + 1]
  BY HeadTailProperties, LenProperties
<1>2. \A x : Contains(table', x) => Contains(table, x)
  BY <1>1 DEF Contains
<1>3. \A i, j \in 1..Len(table') : table'[i] = table'[j] => i = j
  BY <1>1 DEF Tabled
<1> QED BY <1>1, <1>2, <1>3 DEF Tabled
-----------------------------------------------------------------------------
(* What is gone stays gone, and what was admitted stays admitted, when a   *)
(* step answers nobody.                                                    *)
LEMMA VanishedKept ==
  ASSUME ever \subseteq ever',
         \A x \in ever : ~Contains(table, x) => ~Contains(table', x)
  PROVE  \A id : Vanished(id) => Vanished(id)'
BY DEF Vanished

LEMMA ReplyProperties ==
  ASSUME answer \in [Caller -> Replies \cup {Null}], NEW c \in Caller,
         NEW r \in YP_return_t \cup {"no response"}, NEW v \in Payload,
         Reply(c, r, v)
  PROVE  /\ answer' \in [Caller -> Replies \cup {Null}]
         /\ answer'[c] # Null /\ answer'[c].ret = r /\ answer'[c].val = v
         /\ \A d \in Caller \ {c} : answer'[d] = answer[d]
<1>1. Answer(r, v) \in Replies /\ Answer(r, v).ret = r /\ Answer(r, v).val = v
  BY DEF Answer, Replies
<1>2. Answer(r, v) # Null
  <2>1. v \in Id \cup {Null} \cup Seq(Id \cup {Null})
    <3>1. Id \subseteq Id \cup {Null}
      OBVIOUS
    <3>2. CASE v \in Seq(Id)
      BY <3>1, <3>2, SeqMonotonic
    <3> QED BY <3>2 DEF Payload
  <2>2. Answer(r, v) \in Response
    BY <2>1 DEF Answer, Response
  <2> QED BY <2>2, NullAssumption
<1> HIDE DEF Replies
<1> QED BY <1>1, <1>2 DEF Reply

(* Two kinds of replies leave Admissions and Drops to the other callers.   *)
LEMMA NoAdmission ==
  ASSUME SInv, NEW c \in Caller, UNCHANGED asked, ever \subseteq ever',
         \A d \in Caller \ {c} : answer'[d] = answer[d], ~Admitted(c)'
  PROVE  Admissions'
<1>1. \A d \in Caller : Admitted(d)' => d # c /\ Admitted(d) /\ answer'[d] = answer[d]
  BY DEF Admitted
<1> QED BY <1>1 DEF SInv, Admissions

LEMMA NoDrop ==
  ASSUME SInv, NEW c \in Caller, UNCHANGED asked,
         \A id : Vanished(id) => Vanished(id)',
         \A d \in Caller \ {c} : answer'[d] = answer[d], ~Dropped(c)'
  PROVE  Drops'
<1>1. \A d \in Caller : Dropped(d)' => d # c /\ Dropped(d)
  BY DEF Dropped
<1> QED BY <1>1 DEF SInv, Drops
-----------------------------------------------------------------------------
(* What every reply has in common.                                         *)
LEMMA HandleCommon ==
  ASSUME SInv, NEW c \in Caller, Pending(c),
         NEW r \in YP_return_t \cup {"no response"}, NEW v \in Payload,
         Reply(c, r, v),
         asked[c].op # "hello" => r \in YP_return_t,
         asked[c].op \in {"create", "open"} => r = "YP_SUCCESS" \/ v = Null,
         UNCHANGED <<phase, asked, calls>>,
         table' \in Seq(Id), Tabled', ever \subseteq ever', ever' \subseteq Id,
         \A id : Vanished(id) => Vanished(id)',
         Lasting', Admissions', Drops', KnowsGone(c)', KnowsMade(c)'
  PROVE  SInv'
<1>1. /\ answer' \in [Caller -> Replies \cup {Null}]
      /\ answer'[c] # Null /\ answer'[c].ret = r /\ answer'[c].val = v
      /\ \A d \in Caller \ {c} : answer'[d] = answer[d]
  BY ReplyProperties DEF SInv, Types
<1>2. /\ asked' = asked /\ phase' = phase /\ reliable' = reliable
      /\ call' = call /\ ret' = ret /\ out' = out /\ past' = past
  BY DEF calls
<1>3. Types'
  BY <1>1, <1>2 DEF SInv, Types, SysTypeOK
<1>4. Sent'
  <2> SUFFICES ASSUME NEW d \in Caller
               PROVE  /\ asked'[d] # Null => asked'[d] = call'[d]
                      /\ answer'[d] # Null => asked'[d] # Null
                      /\ answer'[d] # Null /\ asked'[d].op # "hello"
                           => answer'[d].ret \in YP_return_t
                      /\ answer'[d] # Null /\ asked'[d].op \in {"create", "open"}
                           => \/ answer'[d].ret = "YP_SUCCESS"
                              \/ answer'[d].val = Null
                      /\ Pending(d)' => phase' \in {"loading", "open"}
    BY DEF Sent
  <2>1. CASE d = c
    BY <1>1, <1>2, <2>1 DEF SInv, Sent, Pending
  <2>2. CASE d # c
    BY <1>1, <1>2, <2>2 DEF SInv, Sent, Pending
  <2> QED BY <2>1, <2>2
<1>5. Told'
  <2> SUFFICES ASSUME NEW d \in Caller
               PROVE  /\ ret[d] # "YP_SUCCESS" => out[d] = Null
                      /\ /\ call[d] # Null /\ call[d].op # "hello"
                         /\ ret[d] \notin {Null, "YP_ERR_FROM_MERCURY"}
                         => /\ answer'[d] # Null /\ ret[d] = answer'[d].ret
                            /\ call[d].op \in {"create", "open", "list"}
                                 /\ ret[d] = "YP_SUCCESS"
                                 => out[d] = answer'[d].val
    BY <1>2 DEF Told
  <2>1. CASE d = c
    BY <2>1 DEF SInv, Told, Pending
  <2>2. CASE d # c
    BY <1>1, <2>2 DEF SInv, Told
  <2> QED BY <2>1, <2>2
<1>6. Known'
  BY <1>2 DEF SInv, Known
<1>7. ASSUME NEW d \in Caller \ {c}
      PROVE  KnowsGone(d)' /\ KnowsMade(d)'
  <2>1. \A id : Kept(id)' <=> Kept(id)
    BY <1>2 DEF Kept
  <2>2. answer'[d] = answer[d] /\ KnowsGone(d) /\ KnowsMade(d)
    BY <1>1 DEF SInv
  <2>3. KnowsGone(d)'
    BY <1>2, <2>2 DEF KnowsGone
  <2> QED BY <1>2, <2>1, <2>2, <2>3 DEF KnowsMade
<1> QED BY <1>3, <1>4, <1>5, <1>6, <1>7 DEF SInv

(* A reply that leaves the table alone, and says of it what is true.       *)
LEMMA AnswerOnly ==
  ASSUME SInv, NEW c \in Caller, Pending(c),
         NEW r \in YP_return_t \cup {"no response"}, NEW v \in Payload,
         Reply(c, r, v),
         asked[c].op # "hello" => r \in YP_return_t,
         UNCHANGED <<table, ever, phase, asked, calls>>,
         asked[c].op \in {"create", "open"} => r # "YP_SUCCESS" /\ v = Null,
         asked[c].op \in {"close", "destroy"} =>
           r \notin {"YP_SUCCESS", "YP_ERR_OTHER"},
         KnowsGone(c)', KnowsMade(c)'
  PROVE  SInv'
<1>1. /\ answer'[c].ret = r
      /\ \A d \in Caller \ {c} : answer'[d] = answer[d]
  BY ReplyProperties DEF SInv, Types
<1>2. ~Admitted(c)' /\ ~Dropped(c)'
  BY <1>1 DEF Admitted, Dropped
<1>3. \A id : Vanished(id) => Vanished(id)'
  BY DEF Vanished
<1>4. Admissions' /\ Drops'
  BY <1>1, <1>2, <1>3, NoAdmission, NoDrop
<1>5. /\ table' \in Seq(Id) /\ Tabled' /\ Lasting'
      /\ ever \subseteq ever' /\ ever' \subseteq Id
  BY DEF SInv, Types, Tabled, Lasting, Kept, calls
<1> QED BY <1>3, <1>4, <1>5, HandleCommon
-----------------------------------------------------------------------------
(* The provider's steps.                                                   *)
LEMMA RefuseSInv ==
  ASSUME SInv, NEW c \in Caller, Refuse(c), UNCHANGED calls
  PROVE  SInv'
<1>1. PICK r \in Refusals(asked[c]) : Reply(c, r, Null)
  BY DEF Refuse
<1>2. /\ Pending(c) /\ asked[c].op # "hello"
      /\ UNCHANGED <<table, ever, phase, asked, calls>>
  BY DEF Refuse
<1>3. /\ r \in YP_return_t \ {"YP_SUCCESS", "YP_ERR_OTHER",
                               "YP_ERR_INVALID_PHONEBOOK"}
      /\ asked[c].op \notin {"create", "open"} =>
           r \in {"YP_ERR_FROM_MERCURY", "YP_ERR_INVALID_TOKEN"}
  BY <1>1 DEF Refusals, YP_return_t
<1>4. answer'[c] # Null /\ answer'[c].ret = r
  BY <1>1, <1>3, ReplyProperties DEF SInv, Types, Payload
<1>5. KnowsGone(c)' /\ KnowsMade(c)'
  BY <1>2, <1>3, <1>4 DEF KnowsGone, KnowsMade, calls
<1> QED BY <1>1, <1>2, <1>3, <1>5, AnswerOnly DEF Payload

LEMMA AdmitSInv ==
  ASSUME SInv, NEW c \in Caller, Admit(c), UNCHANGED calls
  PROVE  SInv'
<1>1. PICK id \in Id : Enter(id) /\ Reply(c, "YP_SUCCESS", id)
  BY DEF Admit
<1>2. /\ Pending(c) /\ asked[c].op \in {"create", "open"}
      /\ UNCHANGED <<phase, asked, calls>>
  BY DEF Admit
<1>3. /\ answer'[c] # Null /\ answer'[c].ret = "YP_SUCCESS" /\ answer'[c].val = id
      /\ \A d \in Caller \ {c} : answer'[d] = answer[d]
  BY <1>1, ReplyProperties DEF SInv, Types, Payload, YP_return_t
<1>4. /\ table' \in Seq(Id) /\ ever' = ever \cup {id} /\ Tabled'
      /\ \A x : Contains(table', x) <=> Contains(table, x) \/ x = id
  BY <1>1, TableEnter DEF SInv, Types
<1>5. id \notin ever
  BY <1>1 DEF Enter
<1>6. \A x : Vanished(x) => Vanished(x)'
  BY <1>4, <1>5 DEF Vanished
<1>7. Lasting'
  BY <1>2, <1>4 DEF SInv, Lasting, Kept, calls
<1>8. Admissions'
  <2>1. \A d \in Caller \ {c} : Admitted(d)' => Admitted(d) /\ answer'[d] = answer[d]
    BY <1>2, <1>3 DEF Admitted
  <2> QED BY <1>3, <1>4, <1>5, <2>1 DEF SInv, Admissions
<1>9. Drops'
  BY <1>2, <1>3, <1>6, NoDrop DEF Dropped
<1>10. KnowsGone(c)' /\ KnowsMade(c)'
  BY <1>2, <1>3 DEF KnowsGone, KnowsMade, calls
<1>11. ever \subseteq ever' /\ ever' \subseteq Id
  BY <1>4 DEF SInv, Types
<1> QED BY <1>1, <1>2, <1>4, <1>6, <1>7, <1>8, <1>9, <1>10, <1>11,
           HandleCommon DEF Payload, YP_return_t

LEMMA DropSInv ==
  ASSUME SInv, NEW c \in Caller, Drop(c), UNCHANGED calls
  PROVE  SInv'
<1>1. PICK k \in 1..Len(table) : /\ table[k] = asked[c].id
                                 /\ table' = RemoveAt(table, k)
  BY DEF Drop
<1>2. PICK r \in {"YP_SUCCESS", "YP_ERR_OTHER"} : Reply(c, r, Null)
  BY DEF Drop
<1>3. /\ Pending(c) /\ asked[c].op \in {"close", "destroy"}
      /\ UNCHANGED <<ever, phase, asked, calls>>
  BY DEF Drop
<1>4. /\ answer'[c] # Null /\ answer'[c].ret = r
      /\ \A d \in Caller \ {c} : answer'[d] = answer[d]
  BY <1>2, ReplyProperties DEF SInv, Types, Payload, YP_return_t
<1>5. /\ table' \in Seq(Id) /\ Tabled'
      /\ \A x : Contains(table', x) <=> Contains(table, x) /\ x # asked[c].id
  BY <1>1, <1>3, TableRemove DEF SInv, Types
<1>6. \A x : Vanished(x) => Vanished(x)'
  BY <1>3, <1>5 DEF Vanished
<1>7. asked[c].id \in Id /\ Contains(table, asked[c].id)
  BY <1>1, ElementOfSeq DEF Contains, SInv, Types
<1>8. asked[c].id \in ever /\ ~Vanished(asked[c].id) /\ Vanished(asked[c].id)'
  BY <1>3, <1>5, <1>7 DEF SInv, Tabled, Vanished
<1>9. ~Kept(asked[c].id)
  BY <1>3 DEF SInv, Sent, Pending, Kept
<1>10. Lasting'
  <2>1. \A x : Kept(x)' <=> Kept(x)
    BY <1>3 DEF Kept, calls
  <2> QED BY <1>3, <1>5, <1>9, <2>1 DEF SInv, Lasting
<1>11. Admissions'
  BY <1>3, <1>4, NoAdmission DEF Admitted
<1>12. Drops'
  <2>1. \A d \in Caller \ {c} : Dropped(d)' => Dropped(d) /\ Vanished(asked[d].id)
    BY <1>3, <1>4 DEF Dropped, SInv, Drops
  <2>2. ASSUME NEW d \in Caller, Dropped(d)'
        PROVE  Vanished(asked[d].id)'
    <3>1. CASE d = c
      BY <1>3, <1>8, <3>1
    <3>2. CASE d # c
      BY <1>3, <1>6, <2>1, <2>2, <3>2
    <3> QED BY <3>1, <3>2
  <2>3. ASSUME NEW d \in Caller, NEW e \in Caller, Dropped(d)', Dropped(e)',
               asked'[d].id = asked'[e].id
        PROVE  d = e
    BY <1>3, <1>8, <2>1, <2>3 DEF SInv, Drops
  <2> QED BY <2>2, <2>3 DEF Drops
<1>13. KnowsMade(c)'
  BY <1>3, <1>4 DEF KnowsMade, calls
<1>14. KnowsGone(c)'
  <2>1. asked[c].id \notin past[c].gone
    BY <1>8 DEF SInv, Known
  <2> QED BY <1>3, <2>1 DEF KnowsGone, calls
<1>15. ever \subseteq ever' /\ ever' \subseteq Id
  BY <1>3 DEF SInv, Types
<1>16. r \in YP_return_t /\ Null \in Payload
  BY DEF YP_return_t, Payload
<1> QED BY <1>2, <1>3, <1>5, <1>6, <1>10, <1>11, <1>12, <1>13, <1>14, <1>15,
           <1>16, HandleCommon

LEMMA NotFoundSInv ==
  ASSUME SInv, NEW c \in Caller, NotFound(c), UNCHANGED calls
  PROVE  SInv'
<1> DEFINE r == "YP_ERR_INVALID_PHONEBOOK"
<1>1. /\ Pending(c) /\ asked[c].op \in {"close", "destroy", "sum"}
      /\ ~Contains(table, asked[c].id) /\ Reply(c, r, Null)
      /\ UNCHANGED <<table, ever, phase, asked, calls>>
  BY DEF NotFound
<1>2. r \in YP_return_t /\ Null \in Payload
  BY DEF YP_return_t, Payload
<1>3. answer'[c] # Null /\ answer'[c].ret = r
  BY <1>1, <1>2, ReplyProperties DEF SInv, Types
<1>4. KnowsGone(c)'
  BY <1>1, <1>3 DEF KnowsGone
<1>5. KnowsMade(c)'
  <2>1. phase \notin {"closing", "closed"}
    BY <1>1 DEF SInv, Sent
  <2>2. \A id \in past[c].made : Kept(id) => Contains(table, id)
    BY <2>1 DEF SInv, Known, Lasting
  <2>3. \A id : Kept(id)' <=> Kept(id)
    BY <1>1 DEF Kept, calls
  <2> QED BY <1>1, <2>2, <2>3 DEF KnowsMade, calls
<1> QED BY <1>1, <1>2, <1>4, <1>5, AnswerOnly

(* list answers with a prefix of the table, which is all of it or as long  *)
(* as the caller asked for.                                                *)
LEMMA EnumerateSInv ==
  ASSUME SInv, NEW c \in Caller, Enumerate(c), UNCHANGED calls
  PROVE  SInv'
<1> DEFINE n == Smaller(Len(table), asked[c].max_ids)
           ids == SubSeq(table, 1, n)
<1>1. /\ Pending(c) /\ asked[c].op = "list" /\ Reply(c, "YP_SUCCESS", ids)
      /\ UNCHANGED <<table, ever, phase, asked, calls>>
  BY DEF Enumerate
<1>2. asked[c].max_ids \in Nat
  <2>1. asked[c] \in Request
    BY <1>1 DEF SInv, Types, Pending
  <2> QED BY <1>1, <2>1, VocabularyAssumption
    DEF Request, create_phonebook_in_t, open_phonebook_in_t,
        close_phonebook_in_t, destroy_phonebook_in_t, list_phonebooks_in_t,
        hello_in_t, sum_in_t
<1>3. Len(table) \in Nat /\ \A i \in 1..Len(table) : table[i] \in Id
  BY LenProperties, ElementOfSeq DEF SInv, Types
<1>4. n \in 0..Len(table) /\ (n = Len(table) \/ n = asked[c].max_ids)
  BY <1>2, <1>3 DEF Smaller
<1>5. /\ ids \in Seq(Id) /\ Len(ids) = n
      /\ \A i \in 1..n : ids[i] = table[i]
  <2> HIDE DEF n
  <2> QED BY <1>3, <1>4, SubSeqProperties
<1>6. DOMAIN ids = 1..n
  BY <1>5, LenProperties
<1> HIDE DEF n, ids
<1>7. "YP_SUCCESS" \in YP_return_t /\ ids \in Payload
  BY <1>5 DEF YP_return_t, Payload
<1>8. answer'[c] # Null /\ answer'[c].val = ids
  BY <1>1, <1>7, ReplyProperties DEF SInv, Types
<1>9. KnowsGone(c)'
  <2>1. \A x \in Range(ids) : Contains(table, x)
    BY <1>4, <1>3, <1>5, <1>6 DEF Range, Contains
  <2>2. Range(ids) \cap past[c].gone = {}
    BY <2>1 DEF SInv, Known, Vanished
  <2> QED BY <1>1, <1>8, <2>2 DEF KnowsGone, calls
<1>10. KnowsMade(c)'
  <2>1. phase \notin {"closing", "closed"}
    BY <1>1 DEF SInv, Sent
  <2>2. \A id \in past[c].made : Kept(id) => Contains(table, id)
    BY <2>1 DEF SInv, Known, Lasting
  <2>3. \A id : Kept(id)' <=> Kept(id)
    BY <1>1 DEF Kept, calls
  <2>4. n = Len(table) => \A x : Contains(table, x) => Contains(ids, x)
    BY <1>5 DEF Contains
  <2> QED BY <1>1, <1>4, <1>5, <1>8, <2>2, <2>3, <2>4 DEF KnowsMade, calls
<1> QED BY <1>1, <1>7, <1>9, <1>10, AnswerOnly

LEMMA ServeSInv ==
  ASSUME SInv, NEW c \in Caller, Serve(c), UNCHANGED calls
  PROVE  SInv'
<1>1. Pending(c) /\ UNCHANGED <<table, ever, phase, asked, calls>>
  BY DEF Serve
<1>2. CASE asked[c].op = "sum" /\ Contains(table, asked[c].id)
           /\ Reply(c, "YP_SUCCESS", Null)
  <2>1. "YP_SUCCESS" \in YP_return_t /\ Null \in Payload
    BY DEF YP_return_t, Payload
  <2>2. answer'[c] # Null /\ answer'[c].ret = "YP_SUCCESS"
    BY <1>2, <2>1, ReplyProperties DEF SInv, Types
  <2>3. asked[c].id \notin past[c].gone
    BY <1>2 DEF SInv, Known, Vanished
  <2>4. KnowsGone(c)' /\ KnowsMade(c)'
    BY <1>1, <1>2, <2>2, <2>3 DEF KnowsGone, KnowsMade, calls
  <2> QED BY <1>1, <1>2, <2>1, <2>4, AnswerOnly
<1>3. CASE asked[c].op = "hello"
           /\ answer' = [answer EXCEPT ![c] = NoResponse]
  <2>1. "no response" \in YP_return_t \cup {"no response"} /\ Null \in Payload
    BY DEF Payload
  <2>2. Reply(c, "no response", Null)
    BY <1>3 DEF Reply, NoResponse
  <2>3. KnowsGone(c)' /\ KnowsMade(c)'
    BY <1>1, <1>3 DEF KnowsGone, KnowsMade
  <2> QED BY <1>1, <1>3, <2>1, <2>2, <2>3, AnswerOnly
<1> QED BY <1>2, <1>3 DEF Serve

LEMMA HandleSInv ==
  ASSUME SInv, NEW c \in Caller, Handle(c)
  PROVE  SInv'
BY RefuseSInv, AdmitSInv, DropSInv, NotFoundSInv, EnumerateSInv, ServeSInv
   DEF Handle

(* The steps that answer nobody.                                           *)
LEMMA Unanswered ==
  ASSUME SInv, UNCHANGED <<asked, answer, calls>>,
         table' \in Seq(Id), Tabled', ever \subseteq ever', ever' \subseteq Id,
         \A id : Vanished(id) => Vanished(id)', Lasting',
         phase' \in {"loading", "open", "closing", "closed"},
         \A c \in Caller : Pending(c) => phase' \in {"loading", "open"}
  PROVE  SInv'
<1>1. /\ asked' = asked /\ answer' = answer /\ reliable' = reliable
      /\ call' = call /\ ret' = ret /\ out' = out /\ past' = past
  BY DEF calls
<1>2. Types'
  BY <1>1 DEF SInv, Types, SysTypeOK
<1>3. Sent'
  BY <1>1 DEF SInv, Sent, Pending
<1>4. Admissions' /\ Drops' /\ Told' /\ Known'
  BY <1>1 DEF SInv, Admissions, Admitted, Drops, Dropped, Told, Known
<1>5. ASSUME NEW c \in Caller
      PROVE  KnowsGone(c)' /\ KnowsMade(c)'
  <2>1. \A id : Kept(id)' <=> Kept(id)
    BY <1>1 DEF Kept
  <2> QED BY <1>1, <2>1 DEF SInv, KnowsGone, KnowsMade
<1> QED BY <1>2, <1>3, <1>4, <1>5 DEF SInv

LEMMA ServerSInv ==
  ASSUME SInv, Server
  PROVE  SInv'
<1>1. UNCHANGED <<asked, answer, calls>>
  BY DEF Server, Start, Load, Opened, Close, Expire, Closed
<1>2. /\ table \in Seq(Id) /\ ever \subseteq Id /\ Tabled /\ Lasting
      /\ \A c \in Caller : Pending(c) => phase \in {"loading", "open"}
  BY DEF SInv, Types, Sent
<1>3. \A id : Kept(id)' <=> Kept(id)
  BY <1>1 DEF Kept, calls
<1>4. CASE UNCHANGED <<table, ever>>
           /\ phase' \in {"loading", "open", "closing", "closed"}
           /\ (phase' \in {"loading", "open"} => phase \in {"down", "loading", "open"})
           /\ \A c \in Caller : Pending(c) => phase' \in {"loading", "open"}
  <2>1. Tabled' /\ \A id : Vanished(id) => Vanished(id)'
    BY <1>2, <1>4 DEF Tabled, Vanished
  <2>2. Lasting'
    BY <1>2, <1>3, <1>4 DEF Lasting
  <2> QED BY <1>1, <1>2, <1>4, <2>1, <2>2, Unanswered
<1>5. CASE Start \/ Opened \/ Close \/ Closed
  <2>1. UNCHANGED <<table, ever>>
    BY <1>5 DEF Start, Opened, Close, Closed
  <2>2. /\ phase' \in {"loading", "open", "closing", "closed"}
        /\ phase' \in {"loading", "open"} => phase \in {"down", "loading", "open"}
    BY <1>5 DEF Start, Opened, Close, Closed
  <2>3. \A c \in Caller : Pending(c) => phase' \in {"loading", "open"}
    BY <1>2, <1>5 DEF Start, Opened, Close, Closed
  <2> QED BY <2>1, <2>2, <2>3, <1>4
<1>6. CASE Load
  <2>1. PICK id \in Id : Enter(id)
    BY <1>6 DEF Load
  <2>2. /\ table' \in Seq(Id) /\ ever' = ever \cup {id} /\ Tabled'
        /\ \A x : Contains(table', x) <=> Contains(table, x) \/ x = id
    BY <1>2, <2>1, TableEnter
  <2>3. id \notin ever /\ phase = "loading" /\ phase' = phase
    BY <1>6, <2>1 DEF Enter, Load
  <2>4. \A x : Vanished(x) => Vanished(x)'
    BY <2>2, <2>3 DEF Vanished
  <2>5. Lasting'
    BY <1>2, <1>3, <2>2, <2>3 DEF Lasting
  <2> QED BY <1>1, <1>2, <2>2, <2>3, <2>4, <2>5, Unanswered
<1>7. CASE Expire
  <2>1. /\ phase = "closing" /\ phase' = phase /\ ever' = ever
        /\ table # <<>> /\ table' = Tail(table)
    BY <1>7 DEF Expire
  <2>2. /\ table' \in Seq(Id) /\ Tabled'
        /\ \A x : Contains(table', x) => Contains(table, x)
    BY <1>2, <2>1, TableTail
  <2>3. \A x : Vanished(x) => Vanished(x)'
    BY <2>1, <2>2 DEF Vanished
  <2>4. Lasting'
    BY <2>1 DEF Lasting
  <2> QED BY <1>1, <1>2, <2>1, <2>2, <2>3, <2>4, Unanswered
<1> QED BY <1>5, <1>6, <1>7 DEF Server

LEMMA DeliverSInv ==
  ASSUME SInv, NEW c \in Caller, Deliver(c)
  PROVE  SInv'
<1>1. /\ call[c] # Null /\ asked[c] = Null /\ phase \in {"loading", "open"}
      /\ UNCHANGED <<table, ever, phase, answer, calls>>
  BY DEF Deliver, Ask
<1>2. PICK r \in Request : asked' = [asked EXCEPT ![c] = r]
  BY DEF Deliver, Ask
<1>3. /\ asked' \in [Caller -> Request \cup {Null}] /\ asked'[c] = call[c]
      /\ \A d \in Caller \ {c} : asked'[d] = asked[d]
  BY <1>2 DEF Deliver, SInv, Types
<1>4. answer[c] = Null
  BY <1>1 DEF SInv, Sent
<1>5. Types'
  BY <1>1, <1>3 DEF SInv, Types, SysTypeOK, calls
<1>6. Sent'
  BY <1>1, <1>3, <1>4 DEF SInv, Sent, Pending, calls
<1>7. Tabled' /\ Known' /\ Told' /\ Lasting'
  BY <1>1 DEF SInv, Tabled, Known, Vanished, Told, Lasting, Kept, calls
<1>8. Admissions'
  <2>1. \A d \in Caller : Admitted(d)' => Admitted(d)
    BY <1>1, <1>3, <1>4 DEF Admitted
  <2> QED BY <1>1, <2>1 DEF SInv, Admissions
<1>9. Drops'
  <2>1. \A d \in Caller : Dropped(d)' => Dropped(d) /\ asked'[d] = asked[d]
    BY <1>1, <1>3, <1>4 DEF Dropped
  <2> QED BY <1>1, <2>1 DEF SInv, Drops, Vanished
<1>10. ASSUME NEW d \in Caller
       PROVE  KnowsGone(d)' /\ KnowsMade(d)'
  <2>1. CASE d = c
    BY <1>1, <1>4, <2>1 DEF KnowsGone, KnowsMade
  <2>2. CASE d # c
    <3>1. \A id : Kept(id)' <=> Kept(id)
      BY <1>1 DEF Kept, calls
    <3> QED BY <1>1, <1>3, <2>2, <3>1 DEF SInv, KnowsGone, KnowsMade, calls
  <2> QED BY <2>1, <2>2
<1> QED BY <1>5, <1>6, <1>7, <1>8, <1>9, <1>10 DEF SInv
-----------------------------------------------------------------------------
(* The callers' steps.  What has been returned is what was answered.       *)
LEMMA MadeAdmitted ==
  ASSUME SInv
  PROVE  /\ Made \subseteq ever
         /\ \A id \in Gone : id \in Id /\ Vanished(id)
<1>1. ASSUME NEW c \in Creates, ret[c] = "YP_SUCCESS"
      PROVE  Admitted(c) /\ out[c] = answer[c].val
  BY <1>1, NullAssumption DEF SInv, Told, Sent, Creates, Admitted, YP_return_t
<1>2. ASSUME NEW c \in Removals, Removed(c)
      PROVE  Dropped(c) /\ asked[c] = call[c]
  BY <1>2, NullAssumption DEF SInv, Told, Sent, Removals, Removed, Dropped, YP_return_t
<1>3. Made \subseteq ever
  BY <1>1 DEF Made, Creates, SInv, Admissions
<1>4. ASSUME NEW id \in Gone
      PROVE  id \in Id /\ Vanished(id)
  BY <1>2 DEF Gone, Removals, SInv, Drops, Vanished, Types
<1> QED BY <1>3, <1>4

LEMMA ForwardSInv ==
  ASSUME SInv, NEW c \in Caller, NEW In \in SUBSET Request, Forward(c, In)
  PROVE  SInv'
<1>1. /\ call[c] = Null /\ ret[c] = Null
      /\ UNCHANGED <<reliable, ret, out, table, ever, phase, asked, answer>>
  BY DEF Forward, registry
<1>2. PICK in \in Request : call' = [call EXCEPT ![c] = in]
  BY DEF Forward
<1>3. /\ call' \in [Caller -> Request \cup {Null}] /\ call'[c] = in
      /\ \A d \in Caller \ {c} : call'[d] = call[d]
  BY <1>2 DEF SInv, Types, SysTypeOK
<1>4. past' = [past EXCEPT ![c] = [made |-> Made, gone |-> Gone]]
  BY DEF Forward
<1>5. Made \subseteq Payload /\ Gone \subseteq Id
  BY MadeAdmitted DEF SInv, Types, Payload
<1>6. /\ past' \in [Caller -> [made : SUBSET Payload, gone : SUBSET Id]]
      /\ past'[c].made = Made /\ past'[c].gone = Gone
      /\ \A d \in Caller \ {c} : past'[d] = past[d]
  <2> DEFINE P == [made : SUBSET Payload, gone : SUBSET Id]
             now == [made |-> Made, gone |-> Gone]
  <2>1. now \in P /\ now.made = Made /\ now.gone = Gone
    BY <1>5
  <2>2. past \in [Caller -> P] /\ past' = [past EXCEPT ![c] = now]
    BY <1>4 DEF SInv, Types
  <2> HIDE DEF P, now
  <2>3. past' \in [Caller -> P] /\ past'[c] = now
        /\ \A d \in Caller \ {c} : past'[d] = past[d]
    BY <2>1, <2>2
  <2> QED BY <2>1, <2>3 DEF P
<1>7. asked[c] = Null /\ answer[c] = Null
  BY <1>1 DEF SInv, Sent
<1>8. Types'
  BY <1>1, <1>3, <1>6 DEF SInv, Types, SysTypeOK
<1>9. Sent'
  BY <1>1, <1>3, <1>7 DEF SInv, Sent, Pending
<1>10. Tabled' /\ Admissions' /\ Drops'
  BY <1>1 DEF SInv, Tabled, Admissions, Admitted, Drops, Dropped, Vanished
<1>11. \A id : Kept(id)' => Kept(id)
  BY <1>1, <1>3 DEF Kept
<1>12. Lasting'
  BY <1>1, <1>11 DEF SInv, Lasting
<1>13. Told'
  BY <1>1, <1>3 DEF SInv, Told
<1>14. Known'
  BY <1>1, <1>6, MadeAdmitted DEF SInv, Known, Vanished
<1>15. ASSUME NEW d \in Caller
       PROVE  KnowsGone(d)' /\ KnowsMade(d)'
  <2>1. CASE d = c
    BY <1>1, <1>7, <2>1 DEF KnowsGone, KnowsMade
  <2>2. CASE d # c
    BY <1>1, <1>6, <1>11, <2>2 DEF SInv, KnowsGone, KnowsMade
  <2> QED BY <2>1, <2>2
<1> QED BY <1>8, <1>9, <1>10, <1>12, <1>13, <1>14, <1>15 DEF SInv

(* The call returns the provider's answer, or nothing with an error.       *)
Truthful(c, code) ==
  /\ out' \in [Caller -> Payload]
  /\ \A d \in Caller \ {c} : out'[d] = out[d]
  /\ code # "YP_SUCCESS" => out'[c] = Null
  /\ /\ call[c] # Null /\ call[c].op # "hello"
     /\ code # "YP_ERR_FROM_MERCURY"
     => /\ answer[c] # Null /\ code = answer[c].ret
        /\ call[c].op \in {"create", "open", "list"} /\ code = "YP_SUCCESS"
             => out'[c] = answer[c].val

LEMMA ReturnSInv ==
  ASSUME SInv, NEW c \in Caller, ret[c] = Null,
         NEW code \in YP_return_t, Return(c, code), Truthful(c, code)
  PROVE  SInv'
<1>1. UNCHANGED <<reliable, call, past, table, ever, phase, asked, answer>>
  BY DEF Return, registry
<1>2. /\ ret' \in [Caller -> YP_return_t \cup {Null}] /\ ret'[c] = code
      /\ \A d \in Caller \ {c} : ret'[d] = ret[d]
  BY DEF Return, SInv, Types, SysTypeOK
<1>3. Types'
  BY <1>1, <1>2 DEF SInv, Types, SysTypeOK, Payload, Truthful
<1>4. Told'
  BY <1>1, <1>2 DEF SInv, Told, Truthful
<1>5. Sent' /\ Tabled' /\ Admissions' /\ Drops' /\ Known' /\ Lasting'
  BY <1>1 DEF SInv, Sent, Pending, Tabled, Admissions, Admitted, Drops, Dropped,
              Known, Vanished, Lasting, Kept
<1>6. \A d \in Caller : KnowsGone(d)' /\ KnowsMade(d)'
  BY <1>1 DEF SInv, KnowsGone, KnowsMade, Kept
<1> QED BY <1>3, <1>4, <1>5, <1>6 DEF SInv

LEMMA Silent ==
  ASSUME SInv, NEW c \in Caller, ret[c] = Null
  PROVE  out \in [Caller -> Payload] /\ out[c] = Null
BY NullAssumption DEF SInv, Types, SysTypeOK, Payload, Told, YP_return_t

LEMMA FailsSInv ==
  ASSUME SInv, NEW c \in Caller, NEW In, Fails(c, In)
  PROVE  SInv'
<1>1. ret[c] = Null /\ out' = out /\ Return(c, "YP_ERR_FROM_MERCURY")
  BY DEF Fails, NotSent, ForwardFails, GetOutputFails, Waiting
<1>2. "YP_ERR_FROM_MERCURY" \in YP_return_t
  BY DEF YP_return_t
<1>3. Truthful(c, "YP_ERR_FROM_MERCURY")
  BY <1>1, Silent DEF Truthful
<1> QED BY <1>1, <1>2, <1>3, ReturnSInv

(* The inputs are requests of one operation each.                          *)
LEMMA Inputs ==
  /\ create_phonebook_in_t \in SUBSET Request
  /\ open_phonebook_in_t \in SUBSET Request
  /\ close_phonebook_in_t \in SUBSET Request
  /\ destroy_phonebook_in_t \in SUBSET Request
  /\ list_phonebooks_in_t \in SUBSET Request
  /\ hello_in_t \in SUBSET Request /\ sum_in_t \in SUBSET Request
BY DEF Request

LEMMA Operations ==
  /\ \A in \in create_phonebook_in_t : in.op = "create"
  /\ \A in \in open_phonebook_in_t : in.op = "open"
  /\ \A in \in close_phonebook_in_t : in.op = "close"
  /\ \A in \in destroy_phonebook_in_t : in.op = "destroy"
  /\ \A in \in list_phonebooks_in_t : in.op = "list"
  /\ \A in \in hello_in_t : in.op = "hello"
  /\ \A in \in sum_in_t : in.op = "sum"
BY DEF create_phonebook_in_t, open_phonebook_in_t, close_phonebook_in_t,
       destroy_phonebook_in_t, list_phonebooks_in_t, hello_in_t, sum_in_t

LEMMA ResultSInv ==
  ASSUME SInv, NEW c \in Caller, NEW In \in SUBSET Request, Result(c, In),
         call[c].op # "hello",
         out' \in [Caller -> Payload],
         \A d \in Caller \ {c} : out'[d] = out[d],
         ~Succeeded(c) => out'[c] = Null,
         call[c].op \in {"create", "open", "list"} /\ Succeeded(c)
           => out'[c] = answer[c].val
  PROVE  SInv'
<1>1. ret[c] = Null /\ answer[c] # Null /\ Return(c, answer[c].ret)
  BY DEF Result, Waiting
<1>2. answer[c].ret \in YP_return_t
  BY <1>1 DEF SInv, Sent
<1>3. Truthful(c, answer[c].ret)
  BY <1>1 DEF Truthful, Succeeded
<1> QED BY <1>1, <1>2, <1>3, ReturnSInv

LEMMA AnswerPayload ==
  ASSUME SInv, NEW c \in Caller, answer[c] # Null
  PROVE  answer[c].val \in Payload
BY DEF SInv, Types, Replies

LEMMA CopyIdSInv ==
  ASSUME SInv, NEW c \in Caller, NEW In \in SUBSET Request, Result(c, In),
         call[c].op # "hello", Succeeded(c), CopyId(c)
  PROVE  SInv'
<1>1. ret[c] = Null /\ answer[c] # Null
  BY DEF Result, Waiting
<1>2. out \in [Caller -> Payload] /\ answer[c].val \in Payload
  BY <1>1, Silent, AnswerPayload
<1>3. /\ out' \in [Caller -> Payload] /\ out'[c] = answer[c].val
      /\ \A d \in Caller \ {c} : out'[d] = out[d]
  BY <1>2 DEF CopyId
<1> QED BY <1>3, ResultSInv

LEMMA NoCopySInv ==
  ASSUME SInv, NEW c \in Caller, NEW In \in SUBSET Request, Result(c, In),
         call[c].op # "hello", UNCHANGED out,
         call[c].op \in {"create", "open", "list"} => ~Succeeded(c)
  PROVE  SInv'
<1>1. ret[c] = Null
  BY DEF Result, Waiting
<1>2. out \in [Caller -> Payload] /\ out[c] = Null
  BY <1>1, Silent
<1> QED BY <1>2, ResultSInv

LEMMA LibrarySInv ==
  ASSUME SInv, NEW c \in Caller, Library(c)
  PROVE  SInv'
<1> DEFINE Step(In) == \/ Forward(c, In) \/ Fails(c, In)
                       \/ Result(c, In) /\ Succeeded(c) /\ CopyId(c)
                       \/ /\ Result(c, In) /\ UNCHANGED out
                          /\ call[c].op \in {"create", "open", "list"}
                               => ~Succeeded(c)
<1>1. ASSUME NEW In \in SUBSET Request, \A in \in In : in.op # "hello", Step(In)
      PROVE  SInv'
  <2>1. Result(c, In) => call[c].op # "hello"
    BY <1>1 DEF Result, Waiting
  <2>2. CASE Forward(c, In)
    BY <2>2, ForwardSInv
  <2>3. CASE Fails(c, In)
    BY <2>3, FailsSInv
  <2>4. CASE Result(c, In) /\ Succeeded(c) /\ CopyId(c)
    BY <2>1, <2>4, CopyIdSInv
  <2>5. CASE /\ Result(c, In) /\ UNCHANGED out
             /\ call[c].op \in {"create", "open", "list"} => ~Succeeded(c)
    BY <2>1, <2>5, NoCopySInv
  <2> QED BY <1>1, <2>2, <2>3, <2>4, <2>5
<1>2. CASE YP_create_phonebook(c)
  <2>1. Step(create_phonebook_in_t)
    BY <1>2 DEF YP_create_phonebook
  <2> HIDE DEF Step
  <2> QED BY <1>1, <2>1, Inputs, Operations
<1>3. CASE YP_open_phonebook(c)
  <2>1. Step(open_phonebook_in_t)
    BY <1>3 DEF YP_open_phonebook
  <2> HIDE DEF Step
  <2> QED BY <1>1, <2>1, Inputs, Operations
<1>4. CASE YP_close_phonebook(c)
  <2>1. Step(close_phonebook_in_t)
    BY <1>4, Operations DEF YP_close_phonebook, Result, Waiting
  <2> HIDE DEF Step
  <2> QED BY <1>1, <2>1, Inputs, Operations
<1>5. CASE YP_destroy_phonebook(c)
  <2>1. Step(destroy_phonebook_in_t)
    BY <1>5, Operations DEF YP_destroy_phonebook, Result, Waiting
  <2> HIDE DEF Step
  <2> QED BY <1>1, <2>1, Inputs, Operations
<1>6. CASE YP_compute_sum(c)
  <2>1. Step(sum_in_t)
    BY <1>6, Operations DEF YP_compute_sum, Result, Waiting
  <2> HIDE DEF Step
  <2> QED BY <1>1, <2>1, Inputs, Operations
<1>7. CASE YP_list_phonebooks(c)
  <2>1. CASE Forward(c, list_phonebooks_in_t) \/ Fails(c, list_phonebooks_in_t)
    BY <2>1, ForwardSInv, FailsSInv, Inputs
  <2>2. CASE /\ Result(c, list_phonebooks_in_t)
             /\ out' = [out EXCEPT ![c] = IF Succeeded(c) THEN answer[c].val ELSE @]
    <3>1. call[c].op = "list" /\ ret[c] = Null
      BY <2>2, Operations DEF Result, Waiting
    <3>2. CASE Succeeded(c)
      BY <2>2, <3>1, <3>2, CopyIdSInv, Inputs DEF CopyId
    <3>3. CASE ~Succeeded(c)
      <4>1. out' = out
        BY <2>2, <3>1, <3>3, Silent
      <4> QED BY <2>2, <3>1, <3>3, <4>1, NoCopySInv, Inputs
    <3> QED BY <3>2, <3>3
  <2> QED BY <1>7, <2>1, <2>2 DEF YP_list_phonebooks
<1>8. CASE YP_say_hello(c)
  <2>1. CASE Forward(c, hello_in_t)
    BY <2>1, ForwardSInv, Inputs
  <2>2. CASE NotSent(c) \/ ForwardFails(c, hello_in_t)
    BY <2>2, FailsSInv DEF Fails
  <2>3. CASE Waiting(c, hello_in_t) /\ Return(c, "YP_SUCCESS") /\ UNCHANGED out
    <3>1. call[c].op = "hello" /\ ret[c] = Null
      BY <2>3, Operations DEF Waiting
    <3>2. "YP_SUCCESS" \in YP_return_t
      BY DEF YP_return_t
    <3>3. Truthful(c, "YP_SUCCESS")
      BY <2>3, <3>1, Silent DEF Truthful
    <3> QED BY <2>3, <3>1, <3>2, <3>3, ReturnSInv
  <2> QED BY <1>8, <2>1, <2>2, <2>3 DEF YP_say_hello
<1> QED BY <1>2, <1>3, <1>4, <1>5, <1>6, <1>7, <1>8 DEF Library
-----------------------------------------------------------------------------
LEMMA InitSInv == SysInit => SInv
<1> SUFFICES ASSUME SysInit PROVE SInv
  OBVIOUS
<1> USE DEF SysInit, Init
<1>1. table \in Seq(Id) /\ Len(table) = 0
  BY EmptySeq
<1>2. Types
  BY <1>1 DEF Types, SysTypeOK, Payload
<1>3. Tabled
  BY <1>1 DEF Tabled, Contains
<1>4. Sent /\ Told
  BY DEF Sent, Pending, Told
<1>5. Admissions /\ Drops
  BY DEF Admissions, Admitted, Drops, Dropped
<1>6. Lasting /\ Known
  BY DEF Lasting, Known
<1>7. \A c \in Caller : KnowsGone(c) /\ KnowsMade(c)
  BY DEF KnowsGone, KnowsMade
<1> QED BY <1>2, <1>3, <1>4, <1>5, <1>6, <1>7 DEF SInv

LEMMA StutterSInv ==
  ASSUME SInv, UNCHANGED sysVars
  PROVE  SInv'
<1>1. /\ UNCHANGED <<reliable, call, ret, out, past>>
      /\ UNCHANGED <<table, ever, phase, asked, answer>>
  BY DEF sysVars
<1>2. Types' /\ Tabled' /\ Sent' /\ Admissions' /\ Drops' /\ Told'
  BY <1>1 DEF SInv, Types, SysTypeOK, Tabled, Sent, Pending, Admissions,
              Admitted, Drops, Dropped, Vanished, Told
<1>3. Lasting' /\ Known' /\ \A c \in Caller : KnowsGone(c)' /\ KnowsMade(c)'
  BY <1>1 DEF SInv, Lasting, Known, Vanished, Kept, KnowsGone, KnowsMade
<1> QED BY <1>2, <1>3 DEF SInv

(* SInv is inductive: what the callers know stays true of the provider,    *)
(* and of what it will answer.                                             *)
THEOREM SystemInvariant == SysSpec => []SInv
<1>1. SInv /\ [SysNext]_sysVars => SInv'
  <2> SUFFICES ASSUME SInv, [SysNext]_sysVars PROVE SInv'
    OBVIOUS
  <2>1. CASE Server
    BY <2>1, ServerSInv
  <2>2. CASE \E c \in Caller : Library(c) \/ Deliver(c) \/ Handle(c)
    BY <2>2, LibrarySInv, DeliverSInv, HandleSInv
  <2>3. CASE UNCHANGED sysVars
    BY <2>3, StutterSInv
  <2> QED BY <2>1, <2>2, <2>3 DEF SysNext, Ended
<1> QED BY <1>1, InitSInv, PTL DEF SysSpec

(* What the callers hold, call and are given has its type.                 *)
THEOREM SystemTypes == SysSpec => []SysTypeOK
<1>1. SInv => SysTypeOK
  BY DEF SInv, Types
<1> QED BY <1>1, SystemInvariant, PTL

(* What a caller was told of a request is what the provider answered.      *)
LEMMA CreatesAdmitted ==
  ASSUME SInv, NEW c \in Creates
  PROVE  /\ ret[c] = "YP_SUCCESS" => Admitted(c) /\ out[c] = answer[c].val
         /\ ret[c] # "YP_SUCCESS" => out[c] = Null
BY NullAssumption DEF SInv, Told, Sent, Creates, Admitted, YP_return_t

LEMMA RemovalsDropped ==
  ASSUME SInv, NEW c \in Removals, Removed(c)
  PROVE  Dropped(c) /\ asked[c] = call[c]
BY NullAssumption DEF SInv, Told, Sent, Removals, Removed, Dropped, YP_return_t

(* Of the callers that create and open phonebooks no two are given the     *)
(* same id, and each is that of a registered phonebook.                    *)
THEOREM SystemIdsUnique == SysSpec => []IdsUnique
<1>1. SInv => IdsUnique
  <2> SUFFICES ASSUME SInv, NEW c \in Creates, ret[c] = "YP_SUCCESS"
               PROVE  /\ out[c] \in ever
                      /\ \A d \in Creates \ {c} : out[d] # out[c]
    BY DEF IdsUnique
  <2>1. Admitted(c) /\ out[c] = answer[c].val /\ c \in Caller
    BY CreatesAdmitted DEF Creates
  <2>2. out[c] \in ever /\ out[c] # Null
    BY <2>1, VocabularyAssumption DEF SInv, Admissions, Types
  <2>3. ASSUME NEW d \in Creates \ {c}
        PROVE  out[d] # out[c]
    <3>1. CASE ret[d] = "YP_SUCCESS"
      BY <2>1, <3>1, CreatesAdmitted DEF SInv, Admissions, Creates
    <3>2. CASE ret[d] # "YP_SUCCESS"
      BY <2>2, <3>2, CreatesAdmitted
    <3> QED BY <3>1, <3>2
  <2> QED BY <2>2, <2>3
<1> QED BY <1>1, SystemInvariant, PTL

(* However often a removal is repeated, and whatever answers are lost, one *)
(* caller at most is told that it removed the phonebook.                   *)
THEOREM SystemRemovedOnce == SysSpec => []RemovedOnce
<1>1. SInv => RemovedOnce
  BY RemovalsDropped DEF RemovedOnce, Removals, SInv, Drops
<1> QED BY <1>1, SystemInvariant, PTL

(* After a caller was told that a phonebook is gone, no call finds it.     *)
THEOREM SystemGoneStaysGone == SysSpec => []GoneStaysGone
<1>1. SInv => GoneStaysGone
  <2> SUFFICES ASSUME SInv, NEW c \in Caller, call[c] # Null, ret[c] # Null
               PROVE  /\ /\ call[c].op \in {"close", "destroy", "sum"}
                         /\ call[c].id \in past[c].gone
                         => ret[c] \in {"YP_ERR_INVALID_PHONEBOOK",
                                        "YP_ERR_INVALID_TOKEN",
                                        "YP_ERR_FROM_MERCURY"}
                      /\ call[c].op = "list" /\ ret[c] = "YP_SUCCESS"
                         => Range(out[c]) \cap past[c].gone = {}
    BY DEF GoneStaysGone
  <2>1. CASE call[c].op \in {"close", "destroy", "sum"}
             /\ ret[c] # "YP_ERR_FROM_MERCURY"
    <3>1. answer[c] # Null /\ ret[c] = answer[c].ret /\ asked[c] = call[c]
      BY <2>1 DEF SInv, Told, Sent
    <3> QED BY <2>1, <3>1 DEF SInv, KnowsGone
  <2>2. CASE call[c].op = "list" /\ ret[c] = "YP_SUCCESS"
    <3>1. /\ answer[c] # Null /\ ret[c] = answer[c].ret /\ asked[c] = call[c]
          /\ out[c] = answer[c].val
      BY <2>2 DEF SInv, Told, Sent
    <3> QED BY <2>2, <3>1 DEF SInv, KnowsGone
  <2> QED BY <2>1, <2>2
<1> QED BY <1>1, SystemInvariant, PTL

(* A phonebook whose creation was reported is found and listed from then   *)
(* on, until somebody asks to remove it.                                   *)
THEOREM SystemMadeIsThere == SysSpec => []MadeIsThere
<1>1. SInv => MadeIsThere
  <2> SUFFICES ASSUME SInv, NEW c \in Caller, call[c] # Null, ret[c] # Null,
                      NEW id \in past[c].made \ {call[d].id : d \in Removals}
               PROVE  /\ call[c].op = "sum" /\ call[c].id = id
                           => ret[c] # "YP_ERR_INVALID_PHONEBOOK"
                      /\ call[c].op = "list" /\ ret[c] = "YP_SUCCESS"
                           => \/ Contains(out[c], id)
                              \/ Len(out[c]) = call[c].max_ids
    BY DEF MadeIsThere
  <2>1. Kept(id)
    BY DEF Kept, Removals
  <2>2. CASE call[c].op = "sum" /\ ret[c] # "YP_ERR_FROM_MERCURY"
    <3>1. answer[c] # Null /\ ret[c] = answer[c].ret /\ asked[c] = call[c]
      BY <2>2 DEF SInv, Told, Sent
    <3> QED BY <2>1, <2>2, <3>1 DEF SInv, KnowsMade
  <2>3. CASE call[c].op = "list" /\ ret[c] = "YP_SUCCESS"
    <3>1. /\ answer[c] # Null /\ ret[c] = answer[c].ret /\ asked[c] = call[c]
          /\ out[c] = answer[c].val
      BY <2>3 DEF SInv, Told, Sent
    <3> QED BY <2>1, <2>3, <3>1 DEF SInv, KnowsMade
  <2> QED BY <2>2, <2>3
<1> QED BY <1>1, SystemInvariant, PTL

(* A phonebook nobody was told of and nobody will be is the doing of a     *)
(* create or open that returned YP_ERR_FROM_MERCURY, and no two are of the *)
(* same call.                                                              *)
THEOREM SystemOrphansExplained ==
  ASSUME IsFiniteSet(Caller)
  PROVE  SysSpec => []OrphansExplained
<1>1. SInv => OrphansExplained
  <2> SUFFICES ASSUME SInv PROVE OrphansExplained
    OBVIOUS
  <2> DEFINE Asked == {answer[c].val : c \in {c \in Creates : answer[c] # Null}}
             Coming == {answer[c].val :
                          c \in {c \in Creates : ret[c] = Null /\ answer[c] # Null}}
             Orphans == (Asked \cap ever) \ (Made \cup Coming)
             Failed == {c \in Creates : ret[c] = "YP_ERR_FROM_MERCURY"}
             val == [c \in Failed |-> IF answer[c] # Null THEN answer[c].val ELSE Null]
             Lost == {val[c] : c \in Failed}
  <2>1. IsFiniteSet(Failed)
    BY FS_Subset DEF Creates
  <2>2. ASSUME NEW id \in Orphans
        PROVE  id \in Lost
    <3>1. PICK c \in Creates : answer[c] # Null /\ answer[c].val = id
      OBVIOUS
    <3>2. id # Null
      BY VocabularyAssumption DEF SInv, Types
    <3>3. ret[c] # Null
      BY <3>1
    <3>4. asked[c] = call[c] /\ call[c] # Null /\ c \in Caller
          /\ call[c].op \in {"create", "open"}
      BY <3>1 DEF Creates, SInv, Sent
    <3>5. ret[c] # "YP_SUCCESS"
      <4>1. SUFFICES ASSUME ret[c] = "YP_SUCCESS" PROVE id \in Made
        OBVIOUS
      <4>2. out[c] = id
        BY <3>1, <4>1, CreatesAdmitted
      <4> QED BY <3>1, <4>1, <4>2 DEF Made
    <3>6. ret[c] = "YP_ERR_FROM_MERCURY"
      <4>1. SUFFICES ASSUME ret[c] # "YP_ERR_FROM_MERCURY" PROVE FALSE
        OBVIOUS
      <4>2. ret[c] = answer[c].ret
        BY <3>3, <3>4, <4>1 DEF SInv, Told
      <4> QED BY <3>1, <3>2, <3>4, <3>5, <4>2 DEF SInv, Sent
    <3> QED BY <3>1, <3>6
  <2>3. IsFiniteSet(Lost) /\ Cardinality(Lost) <= Cardinality(Failed)
    <3> HIDE DEF Failed
    <3>1. val \in Surjection(Failed, Lost)
      <4> HIDE DEF val
      <4>1. val = [c \in Failed |-> val[c]]
        BY DEF val
      <4> QED BY <4>1 DEF Surjection
    <3> QED BY <2>1, <3>1, FS_Surjection
  <2>4. Orphans \subseteq Lost
    BY <2>2
  <2>5. /\ Cardinality(Orphans) \in Nat /\ Cardinality(Lost) \in Nat
        /\ Cardinality(Failed) \in Nat
        /\ Cardinality(Orphans) <= Cardinality(Lost)
    <3> HIDE DEF Orphans, Lost, Failed
    <3> QED BY <2>1, <2>3, <2>4, FS_Subset, FS_CardinalityType
  <2>6. Cardinality(Orphans) <= Cardinality(Failed)
    <3> HIDE DEF Orphans, Lost, Failed
    <3> QED BY <2>3, <2>5
  <2> QED BY <2>6 DEF OrphansExplained
<1> QED BY <1>1, SystemInvariant, PTL
=============================================================================
