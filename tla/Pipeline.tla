------------------------------ MODULE Pipeline -------------------------------
(***************************************************************************)
(* From the webhook to the review: the gateway and the agent, each an      *)
(* at-least-once stage (modules Gateway and Worker show that they are),    *)
(* with GitHub before the first and a Pub/Sub subscription between them.   *)
(* What either stage wants is what its parser makes of the payload.        *)
(*                                                                         *)
(* Every delivery that the gateway publishes is a message of its own, and  *)
(* the agent looks neither at the action of an event nor at the list of    *)
(* allowed repositories, so both are right only together.                  *)
(***************************************************************************)
EXTENDS Payload

CONSTANTS Events,         \* GitHub events
          Webhooks,       \* what GitHub may say of an event: signature, header, body
          MaxDeliveries,  \* bound: deliveries of one event
          MaxPushes       \* bound: pushes of one message

(* What GitHub promises of its payloads: the repository is named alike by    *)
(* its full name and by owner and name, a pull request has one number, and   *)
(* the header tells what the body is.                                        *)
Coherent(body) ==
  /\ body.json /\ body.message = {}
  /\ body.full_name = <<body.owner, body.name>> /\ body.owner # "" /\ body.name # ""
  /\ body.pull_request => body.prNumber # 0 /\ body.number \in {0, body.prNumber}

ASSUME PipelineAssumption ==
  /\ MaxDeliveries \in Nat /\ MaxPushes \in Nat
  /\ \A w \in Webhooks : /\ Coherent(w.body)
                         /\ w.header = "pull_request" => w.body.pull_request /\ w.body.fits

Messages == Events \X (1..MaxDeliveries)    \* published by the delivery of that number
Pushes   == Messages \X (1..MaxPushes)

VARIABLES
  webhook,   \* an event as GitHub tells it, the same in every delivery
  mode,      \* how the subscription pushes: payload wrapped, attributes as headers
  gWanted, gStatus, gDone, gUnsure,    \* the gateway: deliveries, messages in the topic
  aWanted, aStatus, aDone, aUnsure     \* the agent: pushes, those reviewed

inputs      == <<webhook, mode, gWanted, aWanted>>
gatewayVars == <<gStatus, gDone, gUnsure>>
agentVars   == <<aStatus, aDone, aUnsure>>
vars        == <<inputs, gatewayVars, agentVars>>

(* The event type travels as an attribute; of a push it is a header only if  *)
(* the subscription unwraps the payload and writes the attributes.           *)
PushModes   == {[wrapped |-> TRUE, headers |-> FALSE]} \cup [wrapped : {FALSE}, headers : BOOLEAN]
PushBody(w) == IF mode.wrapped THEN Envelope({w.body}) ELSE w.body
PushType(w) == IF mode.headers THEN w.header ELSE ""
Target(e)   == ReviewContext(PushType(webhook[e]), PushBody(webhook[e]))

Gate == INSTANCE Stage WITH
  Items <- Events, MaxAttempts <- MaxDeliveries,
  wanted <- gWanted, status <- gStatus, done <- gDone, unsure <- gUnsure
Work == INSTANCE Stage WITH
  Items <- Messages, MaxAttempts <- MaxPushes,
  wanted <- aWanted, status <- aStatus, done <- aDone, unsure <- aUnsure

Init == /\ webhook \in [Events -> Webhooks]
        /\ mode \in PushModes
        /\ gWanted = [e \in Events |-> Passes(Read(webhook[e]))]
        /\ aWanted = [m \in Messages |-> Target(m[1]) # {}]
        /\ Gate!Init /\ Work!Init
-----------------------------------------------------------------------------
(* The gateway's stage, under the hands of GitHub. *)
GatewayStep(step) == UNCHANGED inputs /\ step /\ UNCHANGED agentVars

Deliver       == \E d \in Messages : GatewayStep(Gate!Step(d))
GitHubGivesUp == GatewayStep(Gate!Lose)

(* The agent's, under those of the subscription, which pushes what is in the *)
(* topic until it is acknowledged.  A push that times out is the least of     *)
(* what AgentStops may lose.                                                 *)
AgentStep(step) == UNCHANGED inputs /\ step /\ UNCHANGED gatewayVars

Push(p)    == p[1] \in gDone /\ AgentStep(Work!Begin(p))
Review(p)  == AgentStep(Work!Do(p))
Answer(p)  == AgentStep(Work!Acknowledge(p) \/ Work!Refuse(p))
TimeOut(p) == AgentStep(Work!LoseAll({p}))
AgentStops == AgentStep(Work!Lose)

Next == \/ Deliver \/ GitHubGivesUp \/ AgentStops
        \/ \E p \in Pushes : Push(p) \/ Review(p) \/ Answer(p)

(* The subscription goes on pushing what is not acknowledged, and a push     *)
(* that is open meets the acknowledgement deadline in the end.  Nothing is   *)
(* promised of GitHub, or that a push is answered.                           *)
Spec == /\ Init /\ [][Next]_vars
        /\ WF_vars(\E p \in Pushes : Push(p))
        /\ WF_vars(\E p \in Pushes : TimeOut(p))
-----------------------------------------------------------------------------
Reviewed(e)  == {p \in aDone : p[1][1] = e}
Exhausted(m) == \A n \in 1..MaxPushes : aStatus[<<m, n>>] \in {"refused", "lost"}

(* What is reviewed is a pull request that was opened in the allowed         *)
(* repository, and it is the one the event is about: the gateway's reading   *)
(* and the agent's, which share no field but the number, agree.              *)
ReviewsWhatWasOpened ==
  \A p \in aDone :
    LET w == webhook[p[1][1]]
    IN  /\ w.header = "pull_request" /\ w.body.action = "opened"
        /\ Target(p[1][1]) = {[repo |-> AllowedRepository, number |-> w.body.prNumber]}

(* Of an event the gateway accepted there is a message that no push of which *)
(* was acknowledged before a review of it had come to its end: the agent     *)
(* drops nothing that the gateway took, in whatever form it is pushed.       *)
AcceptedIsKept ==
  \A e \in Events :
    gWanted[e] /\ (\E n \in 1..MaxDeliveries : gStatus[<<e, n>>] = "acked") =>
      \E m \in gDone : /\ m[1] = e
                       /\ (\E n \in 1..MaxPushes : aStatus[<<m, n>>] = "acked") =>
                            \E n \in 1..MaxPushes : <<m, n>> \in aDone

(* Unless its event is redelivered by hand after a 200                       *)
(* (EVENT_GATEWAY.md:88), a pull request is reviewed twice only if, of two   *)
(* pushes of one message or of two deliveries of its event, the earlier was  *)
(* given up by its sender, cut off with its process, or unsure of what it    *)
(* had done.                                                                 *)
SecondReviewIsExcused ==
  \A e \in Events : \A p, q \in Reviewed(e) :
    /\ p[1] = q[1] /\ p[2] < q[2] => aStatus[p] = "lost" \/ p \in aUnsure
    /\ p[1][2] < q[1][2] => gStatus[p[1]] = "lost" \/ p[1] \in gUnsure

(* An event the gateway accepted is reviewed, unless all the pushes of one   *)
(* of its messages fail.                                                     *)
AcceptedIsReviewed ==
  \A e \in Events :
    gWanted[e] /\ (\E n \in 1..MaxDeliveries : gStatus[<<e, n>>] = "acked")
      ~> Reviewed(e) # {} \/ \E m \in gDone : m[1] = e /\ Exhausted(m)
=============================================================================
