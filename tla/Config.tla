------------------------------- MODULE Config --------------------------------
(***************************************************************************)
(* The settings of both programs, as internal/config and internal/gateway  *)
(* load them from the environment.  A variable is unset, empty, a text, a  *)
(* number, or one of the words that ParseBool knows; unset and empty are   *)
(* the same to Load.                                                       *)
(*                                                                         *)
(* A Load is the set of its result: empty with an error.  What Load still  *)
(* returns beside an error only sets the level of the log.                 *)
(***************************************************************************)
EXTENDS Integers

Unset     == [kind |-> "unset",  n |-> 0]
Empty     == [kind |-> "empty",  n |-> 0]
Text      == [kind |-> "text",   n |-> 0]
Yes       == [kind |-> "true",   n |-> 0]
No        == [kind |-> "false",  n |-> 0]
Whole(i)  == [kind |-> "number", n |-> i]

Values   == [kind : {"unset", "empty", "text", "true", "false", "number"}, n : Int]

Given(v) == v.kind \notin {"unset", "empty"}

(* strconv.Atoi, to which digits beyond an int are a text; strconv.ParseBool, *)
(* which takes 0 and 1 as well.                                              *)
Atoi(v)    == v.kind = "number"
IsTrue(v)  == v.kind = "true"  \/ (v.kind = "number" /\ v.n = 1)
IsFalse(v) == v.kind = "false" \/ (v.kind = "number" /\ v.n = 0)

DefaultIter == 10
DefaultPort == 8080
MaxPort     == 65535
NumberOr(v, default) == IF Given(v) THEN v.n ELSE default
ValidLimit(v) == Given(v) => Atoi(v) /\ v.n >= 1
ValidPort(v)  == Given(v) => Atoi(v) /\ v.n \in 1..MaxPort
-----------------------------------------------------------------------------
AgentRequired == {"GITHUB_TOKEN", "LLM_API_KEY", "LLM_BASE_URL"}

LoadAgentIncomplete(env) ==    \* mutant: what is missing is not reported
  IF /\ ValidLimit(env["MAX_ITERATIONS"])
     /\ ValidPort(env["PORT"])
  THEN {[iterations |-> NumberOr(env["MAX_ITERATIONS"], DefaultIter),
         port       |-> NumberOr(env["PORT"], DefaultPort)]}
  ELSE {}

LoadAgent(env) ==
  IF /\ ValidLimit(env["MAX_ITERATIONS"])
     /\ ValidPort(env["PORT"])
     /\ \A name \in AgentRequired : Given(env[name])
  THEN {[iterations |-> NumberOr(env["MAX_ITERATIONS"], DefaultIter),
         port       |-> NumberOr(env["PORT"], DefaultPort)]}
  ELSE {}
-----------------------------------------------------------------------------
(* The secret is required unless verification is switched off. *)
GatewayRequired(disabled) ==
  {"GCP_PROJECT_ID", "PUBSUB_TOPIC"} \cup IF disabled THEN {} ELSE {"GITHUB_WEBHOOK_SECRET"}

LoadGateway(env) ==
  LET switch   == env["DISABLE_WEBHOOK_VERIFICATION"]
      disabled == IsTrue(switch)
  IN  IF /\ ValidPort(env["PORT"])
         /\ Given(switch) => IsTrue(switch) \/ IsFalse(switch)
         /\ \A name \in GatewayRequired(disabled) : Given(env[name])
      THEN {[port |-> NumberOr(env["PORT"], DefaultPort), disabled |-> disabled]}
      ELSE {}
=============================================================================
