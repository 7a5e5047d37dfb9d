-------------------------------- MODULE Worker --------------------------------
(***************************************************************************)
(* The agent as a service: handlePubSub (internal/server/server.go) for    *)
(* the concurrent pushes of a Pub/Sub subscription, in a process that is   *)
(* stopped, killed and started again.                                      *)
(*                                                                         *)
(* A review is a black box here that keeps the promise of module Review;   *)
(* module Agent shows that the loop does.  The subscription is external:   *)
(* at-least-once, it pushes a message until a 2xx answer reaches it, the   *)
(* next push once the last one was refused, lost or timed out.             *)
(***************************************************************************)
EXTENDS HttpServer

CONSTANTS Messages,     \* messages of the subscription
          Kind,         \* what a message's payload turns out to be
          MaxAttempts   \* bound: pushes of one message

Kinds == {"malformed", "other event", "unparseable", "pull request"}

ASSUME WorkerAssumption ==
  /\ Kind \in [Messages -> Kinds]
  /\ MaxAttempts \in Nat
  /\ Requests = Messages \X (1..MaxAttempts)

VARIABLES
  work,     \* the handler of a push: "none", "handling", "reviewing", "commented",
            \* and in the end "discarded", "reviewed" or "failed"
  posted,   \* the review of a push put a comment on the PR
  reply,    \* the status it answered, 0 before
  lost,     \* GitHub's answer to the comment of this review was lost
  acked     \* the subscription has had a 2xx answer for the message

workVars == <<work, posted, reply, lost, acked>>
vars == <<life, exit, lives, conn, gone, work, posted, reply, lost, acked>>

Init == /\ HttpInit
        /\ work = [a \in Requests |-> "none"]
        /\ posted = [a \in Requests |-> FALSE]
        /\ reply = [a \in Requests |-> 0]
        /\ lost = [a \in Requests |-> FALSE]
        /\ acked = [m \in Messages |-> FALSE]
-----------------------------------------------------------------------------
(* The subscription has nothing more to expect of a push. *)
Over(a) == conn[a] \in {"answered", "dropped"} \/ gone[a]

Push(m, n) ==
  /\ ~acked[m]
  /\ n > 1 => Over(<<m, n - 1>>)
  /\ Accept(<<m, n>>)
  /\ work' = [work EXCEPT ![<<m, n>>] = "handling"]
  /\ UNCHANGED <<posted, reply, lost, acked>>

Respond(a, end, status) ==
  /\ Answer(a)
  /\ work' = [work EXCEPT ![a] = end]
  /\ reply' = [reply EXCEPT ![a] = status]
  /\ acked' = [acked EXCEPT ![a[1]] = @ \/ (status = 200 /\ ~gone[a])]

(* The body cannot be read: acknowledged, though no one is listening. *)
ReadFailsBadRequest(a) ==    \* mutant: the status the gateway has for it
  work[a] = "handling" /\ gone[a] /\ Respond(a, "discarded", 400) /\ UNCHANGED <<posted, lost>>
ReadFails(a) == /\ work[a] = "handling" /\ gone[a]
                /\ Respond(a, "discarded", 200)
                /\ UNCHANGED <<posted, lost>>

(* Anything but a pull request that parses is acknowledged and dropped, so   *)
(* that it does not come back for ever.                                      *)
Drop(a) == /\ work[a] = "handling" /\ Kind[a[1]] # "pull request"
           /\ Respond(a, "discarded", 200)
           /\ UNCHANGED <<posted, lost>>

StartReview(a) == /\ work[a] = "handling" /\ Kind[a[1]] = "pull request"
                  /\ conn[a] = "open"
                  /\ work' = [work EXCEPT ![a] = "reviewing"]
                  /\ UNCHANGED <<httpVars, posted, reply, lost, acked>>

(* Review!Comment *)
ReviewComments(a) == /\ work[a] = "reviewing" /\ conn[a] = "open"
                     /\ posted' = [posted EXCEPT ![a] = TRUE]
                     /\ work' = [work EXCEPT ![a] = "commented"]
                     /\ UNCHANGED <<httpVars, reply, lost, acked>>

(* Review!Succeed: after the comment, or with noop. *)
ReviewSucceeds(a) == /\ work[a] \in {"reviewing", "commented"}
                     /\ Respond(a, "reviewed", 200)
                     /\ UNCHANGED <<posted, lost>>

(* Review!Fail and Review!LoseAnswer *)
ReviewFailsAcked(a) ==    \* mutant: a failed review is acknowledged
  /\ work[a] = "reviewing"
  /\ Respond(a, "failed", 200)
  /\ UNCHANGED <<posted, lost>>
ReviewFailsLate(a) ==    \* mutant: a review fails after its comment
  /\ work[a] \in {"reviewing", "commented"}
  /\ Respond(a, "failed", 500)
  /\ UNCHANGED <<posted, lost>>
ReviewFails(a) == /\ work[a] = "reviewing"
                  /\ Respond(a, "failed", 500)
                  /\ \/ UNCHANGED <<posted, lost>>
                     \/ posted' = [posted EXCEPT ![a] = TRUE] /\ lost' = [lost EXCEPT ![a] = TRUE]
-----------------------------------------------------------------------------
(* The push times out at the subscription, or the platform cuts it. *)
TimesOut(a) == HangUp(a) /\ UNCHANGED workVars

Lifecycle == /\ Signal \/ Shutdown \/ ListenFails \/ Exit \/ Kill \/ Restart
             /\ UNCHANGED workVars

Handle(a) == ReadFails(a) \/ Drop(a) \/ StartReview(a) \/ ReviewComments(a)
               \/ ReviewSucceeds(a) \/ ReviewFails(a)

Next == \/ \E m \in Messages, n \in 1..MaxAttempts : Push(m, n)
        \/ \E a \in Requests : Handle(a) \/ TimesOut(a)
        \/ Lifecycle

(* The shutdown deadline passes, and main returns.  Nothing is promised of   *)
(* pushes, signals and kills, nor of the handlers.                           *)
Spec == /\ Init /\ [][Next]_vars
        /\ WF_vars(Shutdown /\ UNCHANGED workVars) /\ WF_vars(Exit /\ UNCHANGED workVars)
-----------------------------------------------------------------------------
TypeOK ==
  /\ HttpTypeOK
  /\ work \in [Requests -> {"none", "handling", "reviewing", "commented",
                         "discarded", "reviewed", "failed"}]
  /\ posted \in [Requests -> BOOLEAN] /\ lost \in [Requests -> BOOLEAN]
  /\ reply \in [Requests -> {0, 200, 500}]
  /\ acked \in [Messages -> BOOLEAN]

(* A message leaves the subscription only when it is settled: it is no pull  *)
(* request the agent can read, or a review of it came to its end without an  *)
(* error.  Crashes, drains and time-outs never lose a review.                *)
AckedIsSettled ==
  \A m \in Messages : acked[m] /\ Kind[m] = "pull request" =>
    \E n \in 1..MaxAttempts : work[<<m, n>>] = "reviewed"

(* A pull request gets a second comment only if the first review's answer    *)
(* was lost: GitHub's answer to the comment, or the review's own to a        *)
(* subscription that had given up or to a process that was gone.  In         *)
(* particular no failure of the review after its comment causes a retry.     *)
DuplicatesAreExcused ==
  \A m \in Messages : \A i, j \in 1..MaxAttempts :
    i < j /\ posted[<<m, i>>] /\ posted[<<m, j>>] =>
      lost[<<m, i>>] \/ gone[<<m, i>>] \/ conn[<<m, i>>] = "dropped"

(* The agent is an at-least-once stage as well, behind the subscription: it  *)
(* acknowledges no review that has not come to its end, and refuses none     *)
(* whose comment it knows to be out.                                         *)
StatusOf(a) == IF conn[a] = "none" THEN "none"
               ELSE IF gone[a] \/ conn[a] = "dropped" THEN "lost"
               ELSE IF conn[a] = "open" THEN "open"
               ELSE IF reply[a] = 200 THEN "acked" ELSE "refused"
Intake == INSTANCE Stage WITH
  Items  <- Messages,
  wanted <- [m \in Messages |-> Kind[m] = "pull request"],
  status <- [a \in Requests |-> StatusOf(a)],
  done   <- {a \in Requests : posted[a] \/ work[a] = "reviewed"},
  unsure <- {a \in Requests : lost[a]}
IsAStage == Intake!Spec

(* A process that exits with code 0 has answered all it accepted. *)
CleanExitDropsNothing ==
  [][life' = "exited" /\ exit' = "ok" => conn' = conn]_vars

(* A signal stops the process, even one whose handlers never return. *)
SignalStops == life = "draining" ~> life = "exited"
=============================================================================
