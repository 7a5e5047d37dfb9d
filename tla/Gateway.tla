------------------------------- MODULE Gateway --------------------------------
(***************************************************************************)
(* The event gateway: handleWebhook (internal/gateway/server.go) for the   *)
(* concurrent deliveries of a GitHub webhook, publishing through           *)
(* GCPPublisher (internal/publisher/gcp.go), which main closes once        *)
(* ListenAndServe has returned (cmd/gateway/main.go).                      *)
(*                                                                         *)
(* External: GitHub delivers an event again when the last delivery of it   *)
(* was refused or came to nothing. A redelivery by hand of one that was    *)
(* answered 200 (EVENT_GATEWAY.md:88, :123) counts as another event: the   *)
(* gateway publishes it again, as it is asked to. The Pub/Sub client sends *)
(* the messages handed to it from goroutines of its own, whatever becomes  *)
(* of the request that published them, and resolves each within a          *)
(* deadline.                                                               *)
(***************************************************************************)
EXTENDS HttpServer, Webhook, Config

CONSTANTS Environment,  \* what every process of the deployment is started with
          Events,       \* GitHub events
          Deliveries,   \* what a delivery may look like
          MaxAttempts   \* bound: deliveries of one event

ASSUME GatewayAssumption ==
  /\ \E cfg \in LoadGateway(Environment) : cfg.disabled = DisableVerification
  /\ Deliveries \subseteq Traits
  /\ MaxAttempts \in Nat
  /\ Requests = Events \X (1..MaxAttempts)

VARIABLES
  delivery,   \* the event as GitHub delivers it, the same every time
  work,       \* the handler: "none", "reading", "publishing" or "done"
  reply,      \* the status it answered, 0 before
  publisher,  \* GCPPublisher: "open", "stopping" or "closed"
  bundle,     \* messages in the hands of the publisher
  result,     \* of a message: "none", "pending", "ok" or "error"
  topic       \* messages that Pub/Sub has stored

pubVars == <<publisher, bundle, result, topic>>
gatewayVars == <<delivery, work, reply, pubVars>>
vars == <<httpVars, gatewayVars>>

Init == /\ HttpInit
        /\ delivery \in [Events -> Deliveries]
        /\ work = [r \in Requests |-> "none"]
        /\ reply = [r \in Requests |-> 0]
        /\ publisher = "open" /\ bundle = {} /\ topic = {}
        /\ result = [r \in Requests |-> "none"]
-----------------------------------------------------------------------------
(* GitHub has had a 2xx answer to the request. *)
Delivered(r) == reply[r] \in {200, 202} /\ ~gone[r]

Over(r) == conn[r] \in {"answered", "dropped"} \/ gone[r]

Deliver(e, n) ==
  /\ \A i \in 1..(n - 1) : Over(<<e, i>>) /\ ~Delivered(<<e, i>>)
  /\ Accept(<<e, n>>)
  /\ work' = [work EXCEPT ![<<e, n>>] = "reading"]
  /\ UNCHANGED <<delivery, reply, pubVars>>

Respond(r, status) == /\ Answer(r)
                      /\ work' = [work EXCEPT ![r] = "done"]
                      /\ reply' = [reply EXCEPT ![r] = status]
                      /\ UNCHANGED <<delivery, pubVars>>

(* The first check that fails answers. *)
Refuse(r) ==
  LET checks == Checks(delivery[r[1]])
  IN  /\ work[r] = "reading"
      /\ \E i \in DOMAIN checks : /\ ~checks[i][1]
                                  /\ \A j \in 1..(i - 1) : checks[j][1]
                                  /\ Respond(r, checks[i][2])

(* The body breaks off. *)
ReadFails(r) == /\ work[r] = "reading" /\ gone[r] /\ delivery[r[1]].post
                /\ Respond(r, 400)

(* publisher.Publish: a publisher that is not open refuses at once, and      *)
(* result.Get finds the error.                                               *)
PublishUnchecked(r) ==    \* mutant: a publisher that was stopped takes messages
  /\ work[r] = "reading" /\ conn[r] = "open" /\ Passes(delivery[r[1]])
  /\ work' = [work EXCEPT ![r] = "publishing"]
  /\ bundle' = bundle \cup {r} /\ result' = [result EXCEPT ![r] = "pending"]
  /\ UNCHANGED <<httpVars, delivery, reply, publisher, topic>>
Publish(r) ==
  /\ work[r] = "reading" /\ conn[r] = "open" /\ Passes(delivery[r[1]])
  /\ work' = [work EXCEPT ![r] = "publishing"]
  /\ \/ /\ publisher = "open"
        /\ bundle' = bundle \cup {r} /\ result' = [result EXCEPT ![r] = "pending"]
     \/ /\ publisher # "open"
        /\ result' = [result EXCEPT ![r] = "error"] /\ UNCHANGED bundle
  /\ UNCHANGED <<httpVars, delivery, reply, publisher, topic>>

(* result.Get answers with the id of the message. *)
PublishedUnconfirmed(r) == work[r] = "publishing" /\ Respond(r, 200)    \* mutant: no result.Get
Published(r) == work[r] = "publishing" /\ result[r] = "ok" /\ Respond(r, 200)

(* result.Get answers with an error: the message's, or its context's, which  *)
(* ends with the client, no matter how the message fares.                    *)
PublishFailsByContext(r) ==    \* mutant: the error of the message is not looked at
  work[r] = "publishing" /\ gone[r] /\ Respond(r, 500)
PublishFailsAnyway(r) ==       \* mutant: a message that was stored is reported as an error
  work[r] = "publishing" /\ result[r] # "pending" /\ Respond(r, 500)
PublishFailsBadGateway(r) ==   \* mutant: another status for it
  work[r] = "publishing" /\ (result[r] = "error" \/ gone[r]) /\ Respond(r, 502)
PublishFails(r) == /\ work[r] = "publishing"
                   /\ result[r] = "error" \/ gone[r]
                   /\ Respond(r, 500)
-----------------------------------------------------------------------------
(* The publisher's goroutine has sent a message, and Pub/Sub stored it or    *)
(* not; an error may also mean that its answer was lost.                     *)
Sent(r) == /\ r \in bundle
           /\ bundle' = bundle \ {r}
           /\ \E answer \in {"ok", "error"} :
                /\ result' = [result EXCEPT ![r] = answer]
                /\ topic' \in {topic \cup {r}} \cup IF answer = "error" THEN {topic} ELSE {}
           /\ UNCHANGED <<httpVars, delivery, work, reply, publisher>>

(* main's deferred Close: Stop refuses new messages and returns when all it  *)
(* holds have been sent, then the client is closed.                          *)
Stop   == /\ life = "returned" /\ publisher = "open"
          /\ publisher' = "stopping"
          /\ UNCHANGED <<httpVars, delivery, work, reply, bundle, result, topic>>
ClosedEarly == /\ publisher = "stopping" /\ life = "returned"    \* mutant: no Stop
               /\ publisher' = "closed"
               /\ UNCHANGED <<httpVars, delivery, work, reply, bundle, result, topic>>
Closed == /\ publisher = "stopping" /\ life = "returned" /\ bundle = {}
          /\ publisher' = "closed"
          /\ UNCHANGED <<httpVars, delivery, work, reply, bundle, result, topic>>

(* What the publisher holds dies with the process. *)
ProcessEnds == /\ \/ Exit /\ publisher = "closed"
                  \/ Kill
               /\ bundle' = {}
               /\ UNCHANGED <<delivery, work, reply, publisher, result, topic>>

ProcessStarts == /\ Restart
                 /\ publisher' = "open"
                 /\ UNCHANGED <<delivery, work, reply, bundle, result, topic>>

(* main gives up before it serves: Pub/Sub's client cannot be created. *)
FailsToStart == /\ life = "exited" /\ lives < MaxLives
                /\ exit' = "failure" /\ lives' = lives + 1
                /\ UNCHANGED <<life, conn, gone, gatewayVars>>

ListenAndServe == /\ Signal \/ Shutdown \/ ListenFails
                  /\ UNCHANGED gatewayVars

(* GitHub gives up after its ten seconds. *)
TimesOut(r) == HangUp(r) /\ UNCHANGED gatewayVars

Handle(r) == Refuse(r) \/ ReadFails(r) \/ Publish(r) \/ Published(r) \/ PublishFails(r)

Next == \/ \E e \in Events, n \in 1..MaxAttempts : Deliver(e, n)
        \/ \E r \in Requests : Handle(r) \/ Sent(r) \/ TimesOut(r)
        \/ ListenAndServe \/ Stop \/ Closed \/ ProcessEnds \/ ProcessStarts \/ FailsToStart

(* Go runs what is ready, the shutdown deadline passes, and the Pub/Sub      *)
(* client gives a message up in the end.  Nothing is promised of GitHub, of  *)
(* signals, or of the reading of a body.                                     *)
Spec == /\ Init /\ [][Next]_vars
        /\ \A r \in Requests : /\ WF_vars(Sent(r))
                               /\ WF_vars(Published(r) \/ PublishFails(r))
        /\ WF_vars(Shutdown /\ UNCHANGED gatewayVars)
        /\ WF_vars(Stop) /\ WF_vars(Closed) /\ WF_vars(Exit /\ ProcessEnds)
-----------------------------------------------------------------------------
(* Types, and that the publisher holds exactly the messages that are         *)
(* pending, in the process that took them.                                   *)
TypeOK ==
  /\ HttpTypeOK
  /\ delivery \in [Events -> Deliveries]
  /\ work \in [Requests -> {"none", "reading", "publishing", "done"}]
  /\ reply \in [Requests -> {0, 200, 202, 400, 401, 403, 405, 500}]
  /\ publisher \in {"open", "stopping", "closed"}
  /\ bundle \subseteq {r \in Requests : result[r] = "pending"}
  /\ result \in [Requests -> {"none", "pending", "ok", "error"}]
  /\ topic \subseteq Requests

(* A delivery that was answered with 200 is in the topic: the fast answer    *)
(* never comes before Pub/Sub's, whatever signals, deadlines or kills.       *)
AcknowledgedIsPublished == \A r \in Requests : reply[r] = 200 => r \in topic

(* Nothing reaches the topic but an opened pull request of the allowed       *)
(* repository, in a delivery whose signature was verified.                   *)
OnlyWantedIsPublished ==
  \A r \in topic : LET d == delivery[r[1]]
                   IN  /\ d.post /\ d.pullRequest /\ d.parses /\ d.opened /\ d.allowedRepo
                       /\ d.signed \/ DisableVerification

(* Unless it is redelivered by hand after a 200, an event is in the topic    *)
(* twice only if GitHub could not know of the first time: it had given up on *)
(* the answer, the process was gone before it, or Pub/Sub's own answer was   *)
(* lost.                                                                     *)
DuplicatesAreExcused ==
  \A e \in Events : \A i, j \in 1..MaxAttempts :
    i < j /\ <<e, i>> \in topic /\ <<e, j>> \in topic =>
      LET r == <<e, i>> IN gone[r] \/ conn[r] = "dropped" \/ result[r] = "error"

(* A process that was not killed loses no message its handlers published,    *)
(* also when the drain had timed out and handlers still published while main *)
(* closed the publisher.                                                     *)
OrderlyExitLosesNothing == [][life' = "exited" /\ exit' # "killed" => bundle = {}]_vars

(* A handler that publishes comes to an answer, unless its process ends. *)
PublishIsAnswered ==
  \A r \in Requests : work[r] = "publishing" ~> work[r] = "done" \/ conn[r] = "dropped"

(* A signal stops the process, once the publisher has sent what it holds. *)
SignalStops == life = "draining" ~> life = "exited"

(* The gateway is an at-least-once stage between GitHub and the topic: what  *)
(* it acknowledges is stored, and what it knows to be stored it does not     *)
(* refuse, whatever becomes of clients, signals and the process.             *)
StatusOf(r) == IF conn[r] = "none" THEN "none"
               ELSE IF gone[r] \/ conn[r] = "dropped" THEN "lost"
               ELSE IF conn[r] = "open" THEN "open"
               ELSE IF Delivered(r) THEN "acked" ELSE "refused"
Intake == INSTANCE Stage WITH
  Items  <- Events,
  wanted <- [e \in Events |-> Passes(delivery[e])],
  status <- [r \in Requests |-> StatusOf(r)],
  done   <- topic,
  unsure <- {r \in topic : result[r] = "error"}
IsAStage == Intake!Spec

(* EVENT_GATEWAY.md:134 has it that nothing was published when the gateway   *)
(* answers 500, and gcp.go:34 that Publish blocks until the publish          *)
(* completes.  A call to Pub/Sub that itself reports an error is set aside.  *)
FailedIsNotPublished ==
  \A r \in Requests : reply[r] = 500 /\ result[r] # "error" => r \notin topic
=============================================================================
