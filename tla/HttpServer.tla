------------------------------ MODULE HttpServer ------------------------------
(***************************************************************************)
(* The life of a server process: ListenAndServe, which the gateway         *)
(* (internal/gateway/server.go) and the agent (internal/server/server.go)  *)
(* write alike, on top of Go's http.Server, and the exit of main.          *)
(*                                                                         *)
(* A handler owns its request from Accept to Answer.  Shutdown cancels no  *)
(* request: a request's context ends only when its client has gone, which  *)
(* the handler may notice or not, and then nobody reads its answer.        *)
(***************************************************************************)
EXTENDS Naturals

CONSTANTS Requests,   \* requests the process may be sent, over all its lives
          MaxLives    \* bound: starts of the process

ASSUME HttpServerAssumption == MaxLives \in Nat \ {0}

VARIABLES
  life,   \* "serving", "draining" (in Shutdown), "returned" or "exited"
  exit,   \* how this life ends: "none" yet, "ok", "failure" or "killed"
  lives,  \* starts of the process so far
  conn,   \* a request: "none" yet, "open", "answered" or "dropped"
  gone    \* the client of the request has given up

httpVars == <<life, exit, lives, conn, gone>>

HttpInit == /\ life = "serving" /\ exit = "none" /\ lives = 1
            /\ conn = [r \in Requests |-> "none"]
            /\ gone = [r \in Requests |-> FALSE]

Open == {r \in Requests : conn[r] = "open"}

Accept(r) == /\ life = "serving" /\ conn[r] = "none"
             /\ conn' = [conn EXCEPT ![r] = "open"]
             /\ UNCHANGED <<life, exit, lives, gone>>

(* A handler returns. *)
Answer(r) == /\ conn[r] = "open"
             /\ conn' = [conn EXCEPT ![r] = "answered"]
             /\ UNCHANGED <<life, exit, lives, gone>>

HangUp(r) == /\ conn[r] = "open" /\ ~gone[r]
             /\ gone' = [gone EXCEPT ![r] = TRUE]
             /\ UNCHANGED <<life, exit, lives, conn>>
-----------------------------------------------------------------------------
(* SIGTERM or SIGINT: Shutdown closes the listener and starts to drain.      *)
Signal == /\ life = "serving" /\ life' = "draining"
          /\ UNCHANGED <<exit, lives, conn, gone>>

ReturnsWith(e) == /\ life' = "returned" /\ exit' = e
                  /\ UNCHANGED <<lives, conn, gone>>

DrainedEarly == life = "draining" /\ ReturnsWith("ok")    \* mutant: no wait for the handlers
Drained      == life = "draining" /\ Open = {} /\ ReturnsWith("ok")

(* The shutdown timeout; Shutdown may meet it even if the last handler has   *)
(* just returned.                                                            *)
DrainTimeoutIdle == life = "draining" /\ Open = {} /\ ReturnsWith("failure")    \* mutant: no deadline
DrainTimeout     == life = "draining" /\ ReturnsWith("failure")

(* The listener fails: the error comes through errCh and nothing is drained. *)
ListenFails == life = "serving" /\ ReturnsWith("failure")

(* The process ends and its open requests with it. *)
Ends(e) == /\ life' = "exited" /\ exit' = e
           /\ conn' = [r \in Requests |-> IF conn[r] = "open" THEN "dropped" ELSE conn[r]]
           /\ UNCHANGED <<lives, gone>>

Exit == life = "returned" /\ Ends(exit)
Kill == life # "exited" /\ Ends("killed")

Restart == /\ life = "exited" /\ lives < MaxLives
           /\ life' = "serving" /\ exit' = "none" /\ lives' = lives + 1
           /\ UNCHANGED <<conn, gone>>

Shutdown == Drained \/ DrainTimeout
-----------------------------------------------------------------------------
HttpTypeOK ==
  /\ life \in {"serving", "draining", "returned", "exited"}
  /\ exit \in {"none", "ok", "failure", "killed"}
  /\ lives \in 1..MaxLives
  /\ conn \in [Requests -> {"none", "open", "answered", "dropped"}]
  /\ gone \in [Requests -> BOOLEAN]
=============================================================================
