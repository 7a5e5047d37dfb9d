------------------------------ MODULE MCGateway ------------------------------
(***************************************************************************)
(* One event, delivered at most MaxAttempts times to a process that lives  *)
(* at most MaxLives times.  A delivery has any combination of flaws.       *)
(***************************************************************************)
EXTENDS Gateway

CONSTANTS event

MCEnvironment == [PORT |-> Unset, DISABLE_WEBHOOK_VERIFICATION |-> Unset,
                  GITHUB_WEBHOOK_SECRET |-> Text, GCP_PROJECT_ID |-> Text, PUBSUB_TOPIC |-> Text]
MCEvents     == {event}
MCRequests   == MCEvents \X (1..MaxAttempts)

(* LoadGateway accepts the environments of two deployments, one that verifies *)
(* webhooks and one that does not, and tells them apart (EVENT_GATEWAY.md,    *)
(* 3.2, has the variables and their defaults).                                *)
Numbers == {Text, Whole(-1), Whole(0), Whole(1), Whole(65535), Whole(65536)}
Absent  == {Unset, Empty}
Deployments(ports, switches, secrets, names) ==
  [PORT : ports, DISABLE_WEBHOOK_VERIFICATION : switches,
   GITHUB_WEBHOOK_SECRET : secrets, GCP_PROJECT_ID : names, PUBSUB_TOPIC : names]

AllEnvironments ==
  Deployments(Absent \cup Numbers, Absent \cup {Yes, No} \cup Numbers,
              Absent \cup {Text}, Absent \cup {Text})
Loads(disabled) ==
  Deployments(Absent \cup {Whole(1), Whole(65535)},
              IF disabled THEN {Yes, Whole(1)} ELSE Absent \cup {No, Whole(0)},
              IF disabled THEN Absent \cup {Text} ELSE {Text}, {Text})

ASSUME LoadGatewayAssumption ==
  \A env \in AllEnvironments :
    LoadGateway(env) = {[port |-> IF env.PORT \in Absent THEN 8080 ELSE env.PORT.n, disabled |-> d] :
                          d \in {b \in BOOLEAN : env \in Loads(b)}}
=============================================================================
