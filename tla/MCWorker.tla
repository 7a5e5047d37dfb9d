------------------------------ MODULE MCWorker ------------------------------
(***************************************************************************)
(* Two messages, a pull request and one the agent drops, each pushed at    *)
(* most MaxAttempts times, to a process that lives at most MaxLives times. *)
(***************************************************************************)
EXTENDS Worker

CONSTANTS pr, junk

MCMessages == {pr, junk}
MCKind     == [m \in MCMessages |-> IF m = pr THEN "pull request" ELSE "malformed"]
MCRequests == MCMessages \X (1..MaxAttempts)
=============================================================================
