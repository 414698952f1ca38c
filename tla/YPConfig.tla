------------------------------ MODULE YPConfig -------------------------------
(***************************************************************************)
(* YP_provider_get_config beside the provider it describes.  The field     *)
(* phonebooks of the provider is the head of a uthash list, one allocation *)
(* per phonebook; the loop indexes it as an array of num_phonebooks        *)
(* structures.  Index 0 is the oldest phonebook, any other index is memory *)
(* of something else: whatever is found there, Garbage or a phonebook, is  *)
(* reported, unless following its pointers ends the program.               *)
(*                                                                         *)
(* The call is one step: the backend's get_config does not block, and the  *)
(* application does not make it while it registers or finalizes.           *)
(***************************************************************************)
EXTENDS YPProvider

CONSTANT Garbage   \* what is read beyond an allocation

VARIABLE config    \* the ids last reported, or Null

configVars == <<vars, config>>

ConfigInit == Init /\ config = Null

Element(i) == IF i = 1 THEN {phonebooks[1]} ELSE Id \cup {Garbage}

YP_provider_get_config ==
  /\ app = "serving" /\ ApplicationRuns /\ fault = "none"
  /\ \/ /\ \E ids \in [1..num_phonebooks -> Id \cup {Garbage}] :
             /\ \A i \in 1..num_phonebooks : ids[i] \in Element(i)
             /\ config' = ids
        /\ UNCHANGED vars
     \/ /\ num_phonebooks > 1
        /\ Crash("out_of_bounds")
        /\ UNCHANGED config

ConfigNext ==
  \/ Next /\ UNCHANGED config
  \/ YP_provider_get_config

ConfigSpec == ConfigInit /\ [][ConfigNext]_configVars
-----------------------------------------------------------------------------
(* "Returns a JSON-formatted configuration of the provider.": what is      *)
(* reported is the list of the registered phonebooks.                      *)
ConfigFaithful == [][config' # config => config' = phonebooks]_configVars
=============================================================================
