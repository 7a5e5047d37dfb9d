------------------------------- MODULE Review -------------------------------
(***************************************************************************)
(* What one review promises to the server that runs it, whatever the LLM   *)
(* says and whatever fails underneath: it ends with a verdict, it puts at  *)
(* most one comment on the pull request, and it never asks for a retry     *)
(* (verdict "failure", which the server answers with a 500) once GitHub    *)
(* has acknowledged the comment, so a redelivery cannot repeat it.         *)
(*                                                                         *)
(* A comment whose acknowledgement is lost is the one case in which a      *)
(* failed review leaves a comment behind.                                  *)
(***************************************************************************)
EXTENDS Naturals

VARIABLES comments,  \* comments this review put on the pull request
          acked,     \* GitHub's 2xx answer to the comment reached the review
          verdict    \* "running", "success" or "failure"

vars == <<comments, acked, verdict>>

Init == comments = 0 /\ acked = FALSE /\ verdict = "running"

(* The comment is accepted and acknowledged; the review goes on (the label). *)
Comment == /\ verdict = "running" /\ comments = 0
           /\ comments' = 1 /\ acked' = TRUE
           /\ UNCHANGED verdict

(* The comment is accepted, the answer is lost: the review has failed. *)
LoseAnswer == /\ verdict = "running" /\ comments = 0
              /\ comments' = 1 /\ verdict' = "failure"
              /\ UNCHANGED acked

(* A review succeeds by its comment, or by deciding that none is needed. *)
Succeed == /\ verdict = "running"
           /\ verdict' = "success"
           /\ \/ UNCHANGED <<comments, acked>>
              \/ comments = 0 /\ comments' = 1 /\ acked' = TRUE

Fail == /\ verdict = "running" /\ ~acked
        /\ verdict' = "failure"
        /\ UNCHANGED <<comments, acked>>

Next == Comment \/ LoseAnswer \/ Succeed \/ Fail

Safety == Init /\ [][Next]_vars
Spec   == Safety /\ WF_vars(Succeed \/ Fail \/ LoseAnswer)
=============================================================================
