----------------------------- MODULE MCPipeline ------------------------------
(***************************************************************************)
(* One event of any of these kinds: a pull request that is opened or       *)
(* closed, a review of one (whose payload has no number of its own), an    *)
(* issue that is opened; in the allowed repository or in a fork of it.     *)
(***************************************************************************)
EXTENDS Pipeline

CONSTANT event

MCEvents  == {event}
KrewIndex == <<"kubernetes-sigs", "krew-index">>
Fork      == <<"someone", "krew-index">>

Kinds(repo) ==
  {[header |-> "pull_request", body |-> Event("opened", TRUE, 7, 7, repo)],
   [header |-> "pull_request", body |-> Event("closed", TRUE, 7, 7, repo)],
   [header |-> "pull_request_review", body |-> Event("submitted", TRUE, 0, 7, repo)],
   [header |-> "issues", body |-> Event("opened", FALSE, 0, 0, repo)]}

MCWebhooks == {[signed |-> s, header |-> k.header, body |-> k.body] :
                 s \in BOOLEAN, k \in Kinds(KrewIndex) \cup Kinds(Fork)}
=============================================================================
