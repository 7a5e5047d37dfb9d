------------------------------- MODULE Payload -------------------------------
(***************************************************************************)
(* One payload, read twice: by the gateway, which decides whether the      *)
(* event is wanted (internal/gateway), and by the agent, which finds out   *)
(* what to review (internal/server/parse.go, internal/githubclient/event.go,*)
(* internal/agent/event.go).  They look at different fields of it.         *)
(*                                                                         *)
(* A body is JSON or not; the fields that are absent from it have the zero *)
(* value of their type.  What may be missing is a set with one element at  *)
(* most: the message of a body (none in a GitHub event, one in a Pub/Sub   *)
(* envelope), its data, and what a parser returns (none with an error).    *)
(***************************************************************************)
EXTENDS Naturals, Webhook

CONSTANT AllowedRepository    \* gateway.AllowedRepository: <<owner, name>>

NotJSON == [json |-> FALSE]

(* A body GitHub sends: the fields that either side reads.  fits: they have  *)
(* the types that the agent's PREvent gives them.                            *)
Event(action, pullRequest, number, prNumber, repo) ==
  [json |-> TRUE, fits |-> TRUE, message |-> {}, action |-> action,
   pull_request |-> pullRequest, number |-> number, prNumber |-> prNumber,
   full_name |-> repo, owner |-> repo[1], name |-> repo[2]]

(* The push of a subscription without payload unwrapping. *)
Envelope(data) == [json |-> TRUE, message |-> {data}]
-----------------------------------------------------------------------------
(* The gateway: header, action and repository.full_name. *)
Read(webhook) ==
  [post        |-> TRUE,
   signed      |-> webhook.signed,
   pullRequest |-> webhook.header = "pull_request",
   parses      |-> webhook.body.json,
   opened      |-> webhook.body.json /\ webhook.body.action = "opened",
   allowedRepo |-> webhook.body.json /\ webhook.body.full_name = AllowedRepository]
-----------------------------------------------------------------------------
(* The agent: envelope or event; an envelope without data is an error.       *)
ParseEnvelopeOnly(body) ==    \* mutant: every push is wrapped
  IF body.json THEN UNION body.message ELSE {}
ParseRequestBody(body) ==
  IF ~body.json THEN {} ELSE IF body.message = {} THEN {body} ELSE UNION body.message

DetectByHeader(header, event) ==    \* mutant: the header is not only authoritative but needed
  IF header # "" THEN header ELSE "unknown"
DetectEventType(header, event) ==
  IF header # "" THEN header
  ELSE IF event.json /\ event.pull_request THEN "pull_request" ELSE "unknown"

Number(event) == IF event.number = 0 THEN event.prNumber ELSE event.number

(* ParsePullRequestEvent and ReviewContextFromEvent: the pull request the     *)
(* review is about.                                                           *)
ParsePullRequestEvent(event) ==
  IF /\ event.json /\ event.fits
     /\ Number(event) # 0
     /\ event.owner # "" /\ event.name # ""
  THEN {[repo |-> <<event.owner, event.name>>, number |-> Number(event)]}
  ELSE {}

(* What handlePubSub reviews for a push; nothing when it drops it. *)
ReviewContext(header, body) ==
  UNION {ParsePullRequestEvent(event) :
           event \in {e \in ParseRequestBody(body) : DetectEventType(header, e) = "pull_request"}}
=============================================================================
