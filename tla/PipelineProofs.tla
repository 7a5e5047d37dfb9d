---------------------------- MODULE PipelineProofs ----------------------------
(***************************************************************************)
(* The safety of the pipeline for any events, webhooks, deliveries and     *)
(* pushes: what module StageProofs has of each of the two stages, what the *)
(* two readers make of one payload, and the topic between them.            *)
(***************************************************************************)
EXTENDS Pipeline, TLAPS

GateP == INSTANCE StageProofs WITH
  Items <- Events, MaxAttempts <- MaxDeliveries,
  wanted <- gWanted, status <- gStatus, done <- gDone, unsure <- gUnsure
WorkP == INSTANCE StageProofs WITH
  Items <- Messages, MaxAttempts <- MaxPushes,
  wanted <- aWanted, status <- aStatus, done <- aDone, unsure <- aUnsure

InputsInv ==
  /\ webhook \in [Events -> Webhooks] /\ mode \in PushModes
  /\ gWanted = [e \in Events |-> Passes(Read(webhook[e]))]
  /\ aWanted = [m \in Messages |-> Target(m[1]) # {}]

(* Only what is in the topic is pushed. *)
TopicInv == \A p \in Pushes : aStatus[p] # "none" => p[1] \in gDone

PipelineInv == InputsInv /\ TopicInv /\ GateP!StageInv /\ WorkP!StageInv
-----------------------------------------------------------------------------
(* The two readers agree: of a payload that passes the gateway, the agent    *)
(* makes the pull request that was opened, in whatever form it is pushed.    *)
LEMMA ReadersAgree ==
  ASSUME InputsInv, NEW e \in Events, gWanted[e]
  PROVE  /\ webhook[e].header = "pull_request"
         /\ webhook[e].body.action = "opened"
         /\ Target(e) = {[repo |-> AllowedRepository, number |-> webhook[e].body.prNumber]}
<1> DEFINE w == webhook[e]
           b == w.body
<1>1. w \in Webhooks /\ Passes(Read(w))
  BY DEF InputsInv
<1>2. w.header = "pull_request" /\ b.json /\ b.action = "opened" /\ b.full_name = AllowedRepository
  <2> DEFINE c == Checks(Read(w))
  <2>1. DOMAIN c = 1..6
    BY DEF Checks
  <2>2. c[3][1] /\ c[4][1] /\ c[5][1] /\ c[6][1]
    BY <1>1, <2>1 DEF Passes
  <2>3. Read(w).pullRequest /\ Read(w).parses /\ Read(w).opened /\ Read(w).allowedRepo
    BY <2>2 DEF Checks
  <2> QED
    BY <2>3 DEF Read
<1>3. Coherent(b) /\ b.pull_request /\ b.fits
  BY <1>1, <1>2, PipelineAssumption
<1>4. ParseRequestBody(PushBody(w)) = {b}
  BY <1>2, <1>3 DEF ParseRequestBody, PushBody, Envelope, Coherent
<1>5. DetectEventType(PushType(w), b) = "pull_request"
  BY <1>2, <1>3 DEF DetectEventType, PushType
<1>6. ParsePullRequestEvent(b) = {[repo |-> AllowedRepository, number |-> b.prNumber]}
  BY <1>2, <1>3 DEF ParsePullRequestEvent, Number, Coherent
<1>7. Target(e) = ParsePullRequestEvent(b)
  BY <1>4, <1>5 DEF Target, ReviewContext
<1> QED
  BY <1>2, <1>6, <1>7
-----------------------------------------------------------------------------
LEMMA PipelineInitial == Init => PipelineInv
<1> SUFFICES ASSUME Init PROVE PipelineInv
  OBVIOUS
<1>1. InputsInv
  BY DEF Init, InputsInv
<1>2. GateP!Init /\ WorkP!Init
  BY DEF Init, Gate!Init, Work!Init, GateP!Init, WorkP!Init, Gate!Attempts, Work!Attempts,
         GateP!Attempts, WorkP!Attempts
<1>3. GateP!StageInv /\ WorkP!StageInv
  BY <1>2, GateP!StageInitial, WorkP!StageInitial
<1>4. TopicInv
  BY DEF TopicInv, Init, Work!Init, Work!Attempts, Pushes
<1> QED
  BY <1>1, <1>3, <1>4 DEF PipelineInv

LEMMA PipelineInductive ==
  ASSUME PipelineInv, [Next]_vars
  PROVE  PipelineInv'
<1> USE DEF PipelineInv
<1>0. MaxDeliveries \in Nat /\ MaxPushes \in Nat
  BY PipelineAssumption
<1>1. UNCHANGED inputs
  BY DEF Next, vars, Deliver, GitHubGivesUp, AgentStops, GatewayStep, AgentStep,
         Push, Review, Answer, inputs
<1>2. InputsInv'
  BY <1>1 DEF InputsInv, inputs, Target, PushBody, PushType
<1>3. [GateP!Next]_(GateP!vars)
  BY DEF Next, Deliver, GitHubGivesUp, AgentStops, GatewayStep, AgentStep, Push, Review, Answer,
         vars, inputs, gatewayVars, Messages, Gate!Step, Gate!Lose,
         Gate!Begin, Gate!Do, Gate!Acknowledge, Gate!Refuse, Gate!LoseAll, Gate!Becomes, Gate!Attempts,
         GateP!Next, GateP!vars, GateP!Step, GateP!Lose, GateP!Begin, GateP!Do,
         GateP!Acknowledge, GateP!Refuse, GateP!LoseAll, GateP!Becomes, GateP!Attempts
<1>4. [WorkP!Next]_(WorkP!vars)
  BY DEF Next, Deliver, GitHubGivesUp, AgentStops, GatewayStep, AgentStep, Push, Review, Answer,
         vars, inputs, agentVars, Pushes, Work!Lose,
         Work!Begin, Work!Do, Work!Acknowledge, Work!Refuse, Work!LoseAll, Work!Becomes, Work!Attempts,
         WorkP!Next, WorkP!vars, WorkP!Step, WorkP!Lose, WorkP!Begin, WorkP!Do,
         WorkP!Acknowledge, WorkP!Refuse, WorkP!LoseAll, WorkP!Becomes, WorkP!Attempts
<1>5. GateP!StageInv'
  BY <1>0, <1>3, GateP!StageInductive
<1>6. WorkP!StageInv'
  BY <1>0, <1>4, WorkP!StageInductive
<1>7. TopicInv'
  <2> SUFFICES ASSUME NEW p \in Pushes, aStatus'[p] # "none" PROVE p[1] \in gDone'
    BY DEF TopicInv
  <2>1. gDone \subseteq gDone'
    BY DEF Next, Deliver, GitHubGivesUp, AgentStops, GatewayStep, AgentStep, Push, Review, Answer,
           vars, gatewayVars, Gate!Step, Gate!Lose, Gate!Begin, Gate!Do, Gate!Acknowledge,
           Gate!Refuse, Gate!LoseAll
  <2>2. aStatus[p] # "none" \/ p[1] \in gDone
    <3>1. aStatus \in [Pushes -> WorkP!Statuses]
      BY DEF WorkP!StageInv, WorkP!TypeInv, WorkP!Attempts, Pushes
    <3>2. CASE \E q \in Pushes : Push(q)
      BY <3>1, <3>2 DEF Push, AgentStep, Work!Begin, Work!Becomes
    <3>3. CASE \E q \in Pushes : Review(q)
      BY <3>3 DEF Review, AgentStep, Work!Do
    <3>4. CASE \E q \in Pushes : Answer(q)
      BY <3>1, <3>4 DEF Answer, AgentStep, Work!Acknowledge, Work!Refuse, Work!Becomes
    <3>5. CASE AgentStops
      BY <3>1, <3>5 DEF AgentStops, AgentStep, Work!Lose, Work!LoseAll, Work!Attempts, Pushes
    <3>6. CASE Deliver \/ GitHubGivesUp \/ UNCHANGED vars
      BY <3>6 DEF Deliver, GitHubGivesUp, GatewayStep, agentVars, vars
    <3> QED
      BY <3>2, <3>3, <3>4, <3>5, <3>6 DEF Next
  <2> QED
    BY <2>1, <2>2 DEF TopicInv
<1> QED
  BY <1>2, <1>5, <1>6, <1>7

LEMMA PipelineInvariant == Spec => []PipelineInv
<1>1. PipelineInv /\ [Next]_vars => PipelineInv'
  BY PipelineInductive
<1> QED
  BY PipelineInitial, <1>1, PTL DEF Spec

(* What has been reviewed was pushed, so published, so wanted by the gateway. *)
LEMMA ReviewedWasWanted ==
  ASSUME PipelineInv, NEW p \in aDone
  PROVE  p \in Pushes /\ p[1] \in gDone /\ p[1] \in Messages /\ p[1][1] \in Events /\ gWanted[p[1][1]]
<1>1. p \in Pushes /\ aStatus[p] # "none"
  BY DEF PipelineInv, WorkP!StageInv, WorkP!DoneInv, WorkP!Attempts, Pushes
<1>2. p[1] \in gDone
  BY <1>1 DEF PipelineInv, TopicInv
<1>3. p[1] \in Messages /\ gWanted[p[1][1]]
  BY <1>2 DEF PipelineInv, GateP!StageInv, GateP!DoneInv, GateP!Attempts, Messages
<1> QED
  BY <1>1, <1>2, <1>3 DEF Messages
-----------------------------------------------------------------------------
(* What the agent reviews is what was opened in the allowed repository, for  *)
(* every payload that keeps GitHub's promises and every form of push.        *)
THEOREM ReviewsTheOpened == Spec => []ReviewsWhatWasOpened
<1>1. PipelineInv => ReviewsWhatWasOpened
  <2> SUFFICES ASSUME PipelineInv, NEW p \in aDone
               PROVE  LET w == webhook[p[1][1]]
                      IN  /\ w.header = "pull_request" /\ w.body.action = "opened"
                          /\ Target(p[1][1]) = {[repo |-> AllowedRepository, number |-> w.body.prNumber]}
    BY DEF ReviewsWhatWasOpened
  <2>1. p[1][1] \in Events /\ gWanted[p[1][1]]
    BY ReviewedWasWanted
  <2> QED
    BY <2>1, ReadersAgree DEF PipelineInv
<1> QED
  BY PipelineInvariant, <1>1, PTL

(* The agent drops nothing that the gateway has acknowledged. *)
THEOREM NothingAcceptedIsDropped == Spec => []AcceptedIsKept
<1>1. PipelineInv => AcceptedIsKept
  <2> SUFFICES ASSUME PipelineInv, NEW e \in Events, gWanted[e],
                      NEW k \in 1..MaxDeliveries, gStatus[<<e, k>>] = "acked"
               PROVE  \E m \in gDone :
                        /\ m[1] = e
                        /\ (\E n \in 1..MaxPushes : aStatus[<<m, n>>] = "acked") =>
                             \E n \in 1..MaxPushes : <<m, n>> \in aDone
    BY DEF AcceptedIsKept
  <2> DEFINE m == <<e, k>>
  <2>1. m \in Messages /\ m[1] = e
    BY DEF Messages
  <2>2. m \in gDone
    BY <2>1 DEF PipelineInv, GateP!StageInv, GateP!AnswerInv, GateP!Attempts, Messages
  <2>3. Target(e) # {}
    BY ReadersAgree DEF PipelineInv
  <2>4. aWanted[m]
    BY <2>1, <2>3 DEF PipelineInv, InputsInv
  <2>5. ASSUME NEW n \in 1..MaxPushes, aStatus[<<m, n>>] = "acked" PROVE <<m, n>> \in aDone
    <3>1. <<m, n>> \in WorkP!Attempts /\ <<m, n>>[1] = m
      BY <2>1 DEF WorkP!Attempts
    <3> QED
      BY <2>4, <2>5, <3>1 DEF PipelineInv, WorkP!StageInv, WorkP!AnswerInv
  <2> QED
    BY <2>1, <2>2, <2>5
<1> QED
  BY PipelineInvariant, <1>1, PTL

(* Two reviews of one event, if it is not redelivered by hand after a 200:   *)
(* the first of two pushes, or of two deliveries, was lost by its sender or  *)
(* its process, or unsure of what it had done.                               *)
THEOREM SecondReviewHasAnExcuse == Spec => []SecondReviewIsExcused
<1>0. MaxDeliveries \in Nat /\ MaxPushes \in Nat
  BY PipelineAssumption
<1>1. PipelineInv => SecondReviewIsExcused
  <2> SUFFICES ASSUME PipelineInv, NEW e \in Events, NEW p \in Reviewed(e), NEW q \in Reviewed(e)
               PROVE  /\ p[1] = q[1] /\ p[2] < q[2] => aStatus[p] = "lost" \/ p \in aUnsure
                      /\ p[1][2] < q[1][2] => gStatus[p[1]] = "lost" \/ p[1] \in gUnsure
    BY DEF SecondReviewIsExcused
  <2>1. p \in aDone /\ q \in aDone /\ p[1][1] = e /\ q[1][1] = e
    BY DEF Reviewed
  <2>2. p \in Pushes /\ q \in Pushes /\ p[1] \in gDone /\ q[1] \in gDone /\ p[1] \in Messages /\ q[1] \in Messages
    BY <2>1, ReviewedWasWanted
  <2>3. ASSUME p[1] = q[1], p[2] < q[2] PROVE aStatus[p] = "lost" \/ p \in aUnsure
    <3>1. p[2] \in 1..(q[2] - 1) /\ <<q[1], p[2]>> = p
      BY <1>0, <2>2, <2>3 DEF Pushes
    <3>2. q \in WorkP!Attempts /\ p \in WorkP!Attempts /\ aStatus[q] # "none"
      BY <2>1, <2>2 DEF PipelineInv, WorkP!StageInv, WorkP!DoneInv, WorkP!Attempts, Pushes
    <3>3. aStatus[p] \in {"refused", "lost"}
      BY <3>1, <3>2 DEF PipelineInv, WorkP!StageInv, WorkP!OrderInv
    <3> QED
      BY <2>1, <3>2, <3>3 DEF PipelineInv, WorkP!StageInv, WorkP!AnswerInv
  <2>4. ASSUME p[1][2] < q[1][2] PROVE gStatus[p[1]] = "lost" \/ p[1] \in gUnsure
    <3>1. p[1][2] \in 1..(q[1][2] - 1) /\ <<q[1][1], p[1][2]>> = p[1]
      BY <1>0, <2>1, <2>2, <2>4 DEF Messages
    <3>2. q[1] \in GateP!Attempts /\ p[1] \in GateP!Attempts /\ gStatus[q[1]] # "none"
      BY <2>2 DEF PipelineInv, GateP!StageInv, GateP!DoneInv, GateP!Attempts, Messages
    <3>3. gStatus[p[1]] \in {"refused", "lost"}
      BY <3>1, <3>2 DEF PipelineInv, GateP!StageInv, GateP!OrderInv
    <3> QED
      BY <2>2, <3>2, <3>3 DEF PipelineInv, GateP!StageInv, GateP!AnswerInv
  <2> QED
    BY <2>3, <2>4
<1> QED
  BY PipelineInvariant, <1>1, PTL
=============================================================================
