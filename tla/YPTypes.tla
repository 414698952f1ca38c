------------------------------- MODULE YPTypes -------------------------------
(***************************************************************************)
(* Vocabulary shared by the modules: the return codes of YP-common.h, the  *)
(* requests of types.h and the token check.  Uuids, tokens and type names  *)
(* are opaque values; a configuration string is not represented, its       *)
(* effect is the outcome the backend chooses when it parses it.            *)
(***************************************************************************)
EXTENDS Naturals, Sequences

CONSTANTS
  Id,             \* uuids that uuid_generate may produce
  Token,          \* non-NULL security tokens
  NoToken,        \* the NULL token, which the caller of an open provider passes
  ProviderToken,  \* the token given to YP_provider_register, or NoToken
  BackendType,    \* names a request may give in its "type" field
  MaxIds,         \* largest max_ids an admin asks for
  Null            \* the NULL pointer

ASSUME VocabularyAssumption ==
  /\ NoToken \notin Token
  /\ ProviderToken \in Token \cup {NoToken}
  /\ Null \notin Id
  /\ MaxIds \in Nat

YP_return_t ==
  {"YP_SUCCESS", "YP_ERR_INVALID_PHONEBOOK", "YP_ERR_INVALID_BACKEND",
   "YP_ERR_INVALID_CONFIG", "YP_ERR_INVALID_TOKEN", "YP_ERR_FROM_MERCURY",
   "YP_ERR_OTHER"}

(* What a request may carry in its token and type.  Mercury sends a NULL   *)
(* string as what it is, and an admin does not know whether the provider   *)
(* it calls has a token: examples/admin.c sends NULL to any.               *)
TokenArg == Token \cup {NoToken}
TypeArg == BackendType \cup {Null}

check_token(token) == ProviderToken = NoToken \/ token = ProviderToken

create_phonebook_in_t == [op : {"create"}, type : TypeArg, token : TokenArg]
open_phonebook_in_t == [op : {"open"}, type : TypeArg, token : TokenArg]
close_phonebook_in_t == [op : {"close"}, id : Id, token : TokenArg]
destroy_phonebook_in_t == [op : {"destroy"}, id : Id, token : TokenArg]
list_phonebooks_in_t == [op : {"list"}, max_ids : 0..MaxIds, token : TokenArg]
hello_in_t == [op : {"hello"}, id : Id]
sum_in_t == [op : {"sum"}, id : Id]

Request ==
  create_phonebook_in_t \cup open_phonebook_in_t \cup close_phonebook_in_t
    \cup destroy_phonebook_in_t \cup list_phonebooks_in_t
    \cup hello_in_t \cup sum_in_t

(* The admin requests carry a token; the client requests do not.           *)
Authorized(r) == r.op \notin {"hello", "sum"} => check_token(r.token)

(* strcmp is given a NULL string, by check_token or by find_backend_impl:  *)
(* the behaviour of the provider is undefined.                             *)
NullString(r) ==
  \/ /\ r.op \notin {"hello", "sum"}
     /\ ProviderToken # NoToken /\ r.token = NoToken
  \/ /\ r.op \in {"create", "open"}
     /\ Authorized(r) /\ r.type = Null

(* A response: a return code and, when there is one, its payload: an id    *)
(* for create and open, a sequence of ids for list.                        *)
Answer(ret, val) == [ret |-> ret, val |-> val]

(* hello is registered with its response disabled.                         *)
NoResponse == Answer("no response", Null)

Response ==
  [ret : YP_return_t \cup {"no response"},
   val : Id \cup {Null} \cup Seq(Id \cup {Null})]

(* NULL is none of the values it is compared with.                         *)
ASSUME NullAssumption ==
  /\ Null \notin Request /\ Null \notin YP_return_t /\ Null \notin Response
  /\ Null \notin BackendType
=============================================================================
