------------------------------- MODULE Webhook -------------------------------
(***************************************************************************)
(* The checks of handleWebhook (internal/gateway/server.go): the gateway's *)
(* state machine makes them on each delivery, and the pipeline on the      *)
(* payloads it follows through the system.                                 *)
(***************************************************************************)
EXTENDS Naturals, Sequences

CONSTANT DisableVerification    \* DISABLE_WEBHOOK_VERIFICATION

ASSUME WebhookAssumption == DisableVerification \in BOOLEAN

(* What the checks tell apart in a delivery. *)
Traits == [post: BOOLEAN, signed: BOOLEAN, pullRequest: BOOLEAN,
           parses: BOOLEAN, opened: BOOLEAN, allowedRepo: BOOLEAN]

(* The checks in their order, with the status each refuses with. *)
Checks(d) == << <<d.post, 405>>,
                <<DisableVerification \/ d.signed, 401>>,
                <<d.pullRequest, 202>>,
                <<d.parses, 400>>,
                <<d.opened, 202>>,
                <<d.allowedRepo, 403>> >>

(* Mutants of Passes: any repository; any action. *)
PassesUnscoped(d)  == \A i \in {1, 2, 3, 4, 5} : Checks(d)[i][1]
PassesAnyAction(d) == \A i \in {1, 2, 3, 4, 6} : Checks(d)[i][1]

Passes(d) == \A i \in DOMAIN Checks(d) : Checks(d)[i][1]
=============================================================================
