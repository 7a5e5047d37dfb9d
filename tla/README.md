# A formal model of krew-review-agent

TLA+ modules for the program in `src/`, the TLC configurations that check them
on small instances, and theorems that TLAPS proves for every instance. Sources
are quoted as `path:line` below `src/`.

## 1. The system

A pull request is opened at kubernetes-sigs/krew-index. GitHub delivers a
webhook to the **gateway**, which checks it and publishes it to a Pub/Sub topic.
A subscription pushes it to the **agent**, an HTTP server that runs one
**review** per push: a loop in which an LLM asks for tools, until one of the two
terminal tools posts a comment or decides that none is needed.

```
GitHub --webhook--> gateway --publish--> topic --push--> agent server
                                                            | one Run per push
                            LLM <---- review loop ----> tools --> GitHub (diff, comment, label)
                                                          \--> Clone (one per process) --> git, temp dir
```

| Component | State | Operations | Hard behaviour | What makes it correct |
|---|---|---|---|---|
| Review loop, `internal/agent` | message history, iteration | inference, tool dispatch, circuit breaker, fallback | an LLM that says anything; errors at every call; a comment whose answer is lost | ends; at most one comment; the outcome agrees with GitHub; well-formed requests |
| Terminal tools, `tools/submit_review.go`, `noop.go` | none | comment, then label; dry-run print | the second of two requests fails | no error once the comment is out; dry run writes nothing |
| Clone, `tools/clone.go` | `sync.Once`, result, a directory that outlives the process | `Ensure`, then file reads | concurrent callers, cancelled contexts, killed git, two processes on one directory | one git per process, one result for all, no early read, a process alone never damages a whole clone |
| Agent server, `internal/server` | requests in flight | `handlePubSub`, `ListenAndServe` | redelivery beside a running review, drain timeout, kill, restart | a message leaves the subscription only when settled; duplicates have an excuse; a signal stops it |
| Gateway, `internal/gateway` | requests in flight | `handleWebhook`, `ListenAndServe` | order of the checks; answers against Pub/Sub's | 200 means published; nothing unwanted is published |
| Publisher, `internal/publisher`, `cmd/gateway` | messages in the Pub/Sub client | `Publish`, `Close` | background send, client gone, close after a failed drain | no message is lost by an exit in good order |
| Parsing, `server/parse.go`, `githubclient/event.go`, `gateway/webhook.go` | none | envelope or raw, event type, PR number | two readers of one payload, two forms of a push | what is reviewed is what was opened; nothing accepted is dropped |
| Command line, `cmd/agent` | stage, exit code | load, serve, or review one file | errors and the fallback of the loop as exit codes | the exit code is true; nothing runs half configured |
| Configuration, both `Load`s | none | environment to settings | defaults, limits, what is missing | accepts exactly what is documented |
| LLM client | none | `Complete`, `toMessageParams` | empty answers | the request keeps the protocol |
| Logging, prompt, tool schemas | none | formatting | - | not modelled, section 6 |

## 2. Modules

| Module | Models | Notes |
|---|---|---|
| `Review` | the promise of one review | abstract: `comments`, `acked`, `verdict` |
| `Agent` | `agent.go`, `history.go`, `circuit.go`, terminal tools, tool registry | implements `Review` by `Promise == INSTANCE Review WITH verdict <- Verdict` |
| `AgentProofs` | theorems about `Agent`: its effects, and that it implements `Review` | |
| `HistoryProofs` | theorems about `Agent`: its message history | extends `AgentProofs` |
| `Clone` | `clone.go`, and the reads of `fetch_manifest.go` and `all_plugins.go` | |
| `CloneProofs` | theorems about `Clone` | |
| `HttpServer` | `ListenAndServe` of both servers, `http.Server`, the exit of `main` | extended by `Worker` and `Gateway` |
| `Stage` | at-least-once processing behind a sender | abstract: `wanted`, `status`, `done`, `unsure` |
| `StageProofs` | theorems about `Stage` | used for each stage |
| `Worker` | `handlePubSub` with the subscription | a review is the black box `Review` describes; implements `Stage` |
| `WorkerProofs` | theorems about `Worker`; that it implements `Stage` | |
| `Webhook` | the checks of `handleWebhook` | extended by `Gateway` and `Payload` |
| `Gateway` | `handleWebhook`, `GCPPublisher`, `cmd/gateway` `run` | implements `Stage` |
| `GatewayProofs` | theorems about `Gateway`; that it implements `Stage` | uses `StageProofs` |
| `Payload` | `parse.go`, `event.go` (both), `envelope.go`, the gateway's reading of a payload | operators |
| `Pipeline` | gateway, topic and agent on one payload | two instances of `Stage` |
| `PipelineProofs` | theorems about `Pipeline` | |
| `Config` | `internal/config` and `gateway/config.go` | operators |
| `Cli` | `cmd/agent/main.go` | extends `Agent`, `Payload`, `Config` |
| `CliProofs` | theorems about `Cli` | extends `HistoryProofs` |
| `MCAgent`, `MCClone`, `MCWorker`, `MCGateway`, `MCPipeline`, `MCCli` | instances for TLC | |

Definitions keep the names of the source where there is one. Operators whose
comment begins with *mutant:* are not part of any specification: each is a
plausible bug, next to the definition it would replace, and the property it
breaks is listed in `PROJECT.json`.

**Agent.** `pc` is where `Run` or `circuitBreak` stands: before an inference
(`infer`), in the loop over the calls of a response (`dispatch`), before the
comment request (`post`), before the label request (`label`), returned
(`done`). `pending` holds the calls of the response that are not settled,
`iter` the number of the inference, where `Breaker = MaxIterations + 1` is the
one of `circuitBreak`. Every return, error or not, is an action or a disjunct:
`InferenceFails`, `ReadFails`, `SubmitRefused`, `PostFails`, the bad arguments
of `NoopCall`. The LLM is unconstrained: any sequence of at most `MaxCalls`
calls of known, unknown and terminal tools, with good and bad arguments. GitHub
may create a comment and lose the answer (`PostFails`); a cancelled context is
the behaviour in which everything from then on fails. `printed`, `posts`,
`comments` and `labelled` count what happened outside. `ToMessageParams(history)`
is the request as the LLM client sends it: `WellFormedRequest` is about that, and
the text of an answer may be empty.

**Clone.** A caller goes through `once.Do` (`Ensure`): the first runs the
function (`StatExists`, or `StatAbsent` and git), the others wait. git is
external. It refuses a directory that is not empty, and enters one that it makes
or finds empty (`GitEnters`); that another made the directory between git's own look
and its `mkdir` is the failure `exists` of `GitFailsEarly`. From then on it looks
no more at what is there, so a second git can be at work in the same directory:
both are then `shared`, and what they write, finish, remove or leave is any of
the outcomes that two such gits can have, also after one of them is over. A git that
fails by itself removes what there is (the directory too, if it made it), or, in
its checkout, leaves it; one that is killed leaves what it has.
`Cancel` cancels the context of one caller, `Crash` kills a process and
keeps the directory. `Refuse` is the tool that rejects its arguments before it
comes to the clone. `Return` is the code behind `once.Do`, and `Read` one of
the two tools that read the index.

**HttpServer.** `life` is the process: serving, draining in `Shutdown`, returned
from `ListenAndServe`, exited. A handler owns its request from `Accept` to
`Answer`. `Shutdown` returns when no request is open or when its deadline
passes, and neither it nor the exit of `main` waits for a handler after that:
the open requests are dropped.

**Worker.** `handlePubSub` reads, drops what is no pull request it can read with
a 200, runs the review, and answers 200 or 500. A subscription pushes a message
again when the last push was refused, dropped or timed out, also while the
handler of that push still runs. Pushes are POSTs, so the 405 is not modelled.

**Gateway.** `Checks` (module `Webhook`) lists the checks of `handleWebhook` in
their order with the status of each; the first that fails answers. The Pub/Sub client holds a
message in `bundle` until it has sent it (`Sent`), whatever becomes of the
request; `result.Get` returns with the result of the message or when the request
has lost its client. `Stop` and `Closed` are main's deferred `Close`, and handlers
that outlive the drain run beside them. `FailsToStart` is a life of the process
that ends before it serves.

**Stage.** What the two services promise alike. An attempt is a delivery or a
push, its status what the sender makes of it (`StatusOf` in `Gateway` and
`Worker` computes it from connection, client and reply); the job is the message
in the topic, or the review. An attempt is acknowledged only when its job is
done or not wanted, and refused only if the job is not done as far as the stage
knows: `unsure` holds those whose job was done although Pub/Sub, or GitHub,
reported an error. A lost attempt may still be at work. `IsAStage` is checked
of both services, with crashes, drains and overlapping attempts.

**Payload.** A body is JSON or not, with the fields that the two readers look
at: the gateway at the header, `action` and `full_name`; the agent at the form
(`message` or not), the header if any, else the presence of `pull_request`, then
`number` or `pull_request.number`, and owner and name. What may be missing is a
set of at most one element.

**Pipeline.** What the gateway wants is `Passes(Read(webhook))`, what the agent
wants is `ReviewContext` of the body as the subscription pushes it: wrapped, or
unwrapped with or without attributes as headers. Deliveries that publish are
messages, each pushed on its own. Each step is a step of one of the two stages.

**Cli.** `stage` follows `main`: load the configuration, then `listen` and
`serving`, or `start` (file, event type, parsing) and `review`, whose steps are
those of `Agent`, and the exit with its code.

## 3. Runs

| Run | Instance | Checks | States |
|---|---|---|---|
| `AgentProd` | 3 iterations and the breaker, responses of 0 to 2 calls, 1 read tool, 1 unknown tool | the protocol of the requests, budget, outcome, one comment, first terminal call, finality, termination, refinement of `Review` | 144,426 |
| `AgentDryRun` | `main` in 192 environments, with 5 files or 3 values of `--port`; 1 iteration, up to 3 calls, dry run | no write, true exit codes, nothing half configured | 72,687 |
| `CloneOneProcess` | 1 process, 3 callers, 1 crash | one git, no early read, agreement, whole reads, every call returns, a complete clone stays | 15,536 |
| `CloneSharedDisk` | 2 processes, 2 callers each, 1 crash each, symmetry | agreement in each process, a complete clone stays once no git is at work in it | 1,161,042 |
| `Worker` | 2 messages, 2 pushes each, 2 lives | settled before acknowledged, excused duplicates, clean exit, signal, refinement of `Stage` | 50,566 |
| `Gateway` | 1 event with any of 64 combinations of flaws, 2 deliveries, 2 lives | acknowledged is published, only what is wanted, excused duplicates, nothing lost by an orderly exit, answers, signal, refinement of `Stage` | 48,590 |
| `Pipeline` | 1 event of 4 kinds, signed or not, in the allowed repository or a fork; 2 deliveries, 2 pushes of each message, 3 forms of push | what is reviewed is what was opened, nothing accepted is dropped, excused second reviews, accepted is reviewed | 240,528 |

`MCGateway` also has TLC evaluate `LoadGatewayAssumption`: `LoadGateway` against
the two documented deployments, on 2,160 environments.

Five more runs each show a disagreement between a document and the code:

- `AgentToolError`: `design/HIGH_LEVEL_DESIGN.md:115-119` appends a tool's error
  to the history and goes on; `agent.go:140` ends the review (and a test,
  `agent_test.go:207`, wants that).
- `CloneOverlap`: two processes find no directory and both run git, the second in
  the empty directory that the first has just made. Its checkout, or its cleaning
  up, changes the clone that the first completed, against "read-only after
  creation" (`clone.go:39`). Nobody is killed or cancelled; two dry runs on one
  machine are enough.
- `CloneKilled`: `clone.go:87` takes the directory of a killed git for a clone;
  an existing plugin is then reported as a new submission, against
  `design/AGENT_CLI.md:400`.
- `CloneCancelled`: git runs under the context of the request that came first,
  and its cached error fails the other reviews of the process (`clone.go:93`),
  against "Each review runs in isolation" (`README.md:66`).
- `Gateway500`: the request's context ends, the gateway answers 500
  (`gcp.go:40`), and the message is published, against
  `design/EVENT_GATEWAY.md:134`.

One more has no run since it is a single guard: `GITHUB_TOKEN` is required
"yes (prod)" (`design/AGENT_CLI.md:86`), and the test mode exits without it too
(`config.go:39`, `main.go:44`), as `ExitCodeIsTrue` and `RunsOnlyConfigured` have it.

**Bounds.** `ConfigMaxIterations`, `MaxCalls`, `MaxCrashes`, `MaxAttempts`,
`MaxDeliveries`, `MaxPushes` and `MaxLives` are the only ones. Three iterations have a first, a middle and a last
one before the breaker; two calls put a terminal call before and behind another,
three put one in the middle. Three callers are the one in the `Once`, one
that waits and one that comes late. Two pushes are a message and its redelivery,
which may overlap; two lives are a process and its successor. A single gateway
event is enough since requests meet only in the life of the process, and its
two deliveries already meet there. In `Pipeline`, too, events share nothing; a
delivery and its redelivery make two messages with two pushes each, which is the
least with a second review of either origin. The environments have each
required variable or have it empty, and numbers at both ends of their ranges and
one beyond. Deadlock is not checked where the system may
stop: `Clone`, `Worker`, `Gateway` and `Pipeline` rest when all is answered and the bounds
are used up. `Agent` and `Cli` say so with `Finished` and `CliFinished`.

**Fairness** is asked only of what the code bounds.
`Agent`: weak fairness of the one goroutine. An inference has a 120 s timeout
(`llm/client.go:30`); the requests to GitHub use `http.DefaultClient`, which has
none (`githubclient/client.go:49`), and end with the context of the push, which
the platform bounds with 600 s. So `Termination` is a statement about the
server; a dry run, under `context.Background()`, has no such bound, and
`AgentDryRun` states no liveness.
`Clone`: a caller's next step; git ends by itself or with the context it runs
under, as above. Nothing is assumed of `Cancel` and `Crash`.
`Worker` and `Gateway`: `Shutdown` has a deadline and `main` returns; the
Pub/Sub client resolves every message in the end, and a handler that waits for
it is scheduled. No fairness is asked of GitHub, of the subscription, of
signals, kills and restarts, or of the reviews: `SignalStops` holds of a server
whose handlers never return.
`Pipeline`: `AcceptedIsReviewed` needs that the subscription goes on pushing
what is not acknowledged, and that a push which nobody answers meets its
deadline, both of which Pub/Sub documents; it needs nothing of the agent, so it
allows that all pushes of a message fail. `Worker`'s subscription is asked for
less since its properties are about single steps.

## 4. Proofs

The theorems hold for every value of the constants that meets the `ASSUME`s of
the modules: any limit of iterations and number of calls in a response
(`AgentAssumption`); any processes, callers and crashes (`CloneAssumption`); any
messages or events, pushes, deliveries and lives (`WorkerAssumption`,
`GatewayAssumption`, `HttpServerAssumption`, `PipelineAssumption`); any
environments, ports and files (`CliAssumption`). `PipelineAssumption` also
has what GitHub promises of the payloads it sends, which are `Coherent`, and
`CliAssumption` that the values of the variables are `Values` of module `Config`
and that a configuration which loads has the limit of iterations of the loop it
starts, which is how the two modules are composed. Every safety invariant that a
run checks is proved.

**AgentProofs.** `TypeCorrect` is inductive as it stands. `OutcomeIsTrue`,
`OneComment`, `DryRunIsSilent` and `CommittedStaysFinal` rest on one invariant,
`EffectsInv`, which says for each value of `pc` what has happened outside: nothing
before the comment request (in particular nothing whenever the loop is at an
inference or dispatching a call, which is why a second terminal call cannot
follow a first), one acknowledged comment before the label, and at the end what
the outcome says. The properties alone are not inductive: "at most one request"
says nothing of whether a request may still be sent. `ImplementsReview` proves
the safety part of `KeepsPromise`, one step of the loop at a time, from the
same invariant.

**HistoryProofs.** The three properties that speak of the whole history need to
know how far the response under way is settled. `UnderWay(h, p, i, n)` says so:
message `i` is the last that holds calls, its first `n` are settled and `pending`
are the others.

- `RequestsAreWellFormed`: `WellFormedRequest` speaks of the moments when a
  request goes out, and between them, while the calls of a response are
  dispatched, the protocol is broken. `ReplyInv` says how: all calls are answered
  in their places but those from the `n`-th on of message `i`, and the history
  ends where the next answer belongs (`Len(history) = i + n`). It is also the
  reason why an empty answer of the LLM does no harm: the warning follows it in
  the same step.
- `FirstDecides`: `TerminalInv` has it that no terminal call is among those
  that are settled while the loop goes on (`SilentUpTo`), so that the call a
  terminal tool runs for is the first of the history, and that the breaker finds
  none at all when it falls back.
- `BudgetIsKept`: the assistant messages are counted in the history itself, by
  cardinality. `BudgetInv` relates that number to `iter` at each value of `pc`.
  The text `breaker` ends the history of no other inference since what is handed
  back for a call, and a warning, is told from it.

**CliProofs.** `AgentStep`: a step of `main` is a step of the review or leaves it
alone, so the invariants of `AgentProofs` and `HistoryProofs` hold inside the
process. `CliInv` adds what each stage of `main` knows: that nothing was inferred,
printed or listened to before the stage that does so, that the stages behind
"load" have a configuration which loads, and that a review is one of a pull
request. `ExitCodeTells` then is the outcome of the loop at the exit,
`OutcomeMatchesEffects` for what was printed and `FirstTerminalDecides` for
whether the LLM decided. `NothingRunsUnconfigured` also proves that a server
listens on a port between 1 and 65535, whichever of the flag and the variable
gave it.

**CloneProofs.** `CloneInv` has four parts: who is inside the function of the
`Once` while it is fresh, busy or done (`OnceInv`), how many gits there have
been (`CountInv`), that the result is set exactly when the `Once` is done
and that those who left have that result (`ResultInv`), and how the gits at work
stand to the directory (`GitInv`): one that is alone there has not finished it,
is the only one at work, and gits that have met are not of one process. The last
gives `OneProcessKeepsIt`: with one process nobody is at work in a complete
clone, and git does not enter it. `LateGitsDoNoHarm` is what is left for several
processes, that a clone is safe once the gits in its directory are over; more
cannot be proved since `CompleteIsForever` is false (`CloneOverlap`).
`UndisturbedIsWhole` adds `WholeInv`, of a process that is alone and not killed:
there is no directory before its git, and a `Once` that is done without an error, or
a caller that has its result, stands before a complete one. Cancelled requests
and failures of git need no premise: they leave an error that nobody reads past. A
step that ends in an undisturbed state began in one (`UndisturbedBefore`), since
a crash is counted.

**StageProofs.** `StageInv` of the abstract stage: an acknowledged attempt at a
wanted item is done, a refused one that is done is unsure (`AnswerInv`), and
attempts at an item follow each other, each refused or lost before the next
(`OrderInv`), which makes the first say something of two attempts that both did
the job.

**WorkerProofs.** No property of `Worker` is inductive. `WorkerInv` adds how the
stage of a handler goes with its connection and its answer (`HandlerInv`), that
only pull requests are reviewed, and discarded only when nobody listens any more
(`KindInv`), that a comment is followed by a failure only if its answer was lost
(`CommentInv`), that the subscription knows of a 2xx only from a push it had not
given up (`AckInv`), and the order of the pushes (`OrderInv`), whose handlers may
run beside each other. `NoReviewIsLost` and `DuplicatesHaveAnExcuse` follow.
`CleanExitIsClean` rests on `LifeInv`: only a drain that found every handler back
ends a life with "ok".

`ImplementsStage` proves `IsAStage` from `WorkerInv`, one handler step at a
time. A push maps to `Begin`, the comment to `Do`, a success to `Acknowledge`, a
failure to `Refuse`; a handler whose subscription has given up can only still do
the job or leave the stage alone; a time-out, and the end of a process under all
of its requests, are `Lose`.

**GatewayProofs.** `GatewayInv` relates the result of a message with the stage of
its handler and the topic (`ResultInv`): in particular, a handler that answered
other than 200 to a client that still listened knew the error, or had not
published. `WantedInv` gets a delivery through all six checks before it has a
result, and `ProcessInv` is the deferred `Close`: a closed publisher and an ended
process hold nothing.

`ImplementsStage` proves `IsAStage` in the same manner, where the step that
does the job is Pub/Sub's, and `DuplicatesHaveAnExcuse` follows from `StageIsSafe`
by the refinement alone.

**PipelineProofs.** Each of the two stages keeps `StageInv`, by the lemmas of
`StageProofs`, and only what is in the topic is pushed (`TopicInv`). `ReadersAgree` is the
heart of it: of a payload that passes the gateway, the agent's parser makes the
pull request that was opened, for each form of push.

Only model-checked: liveness (`Termination`, `EnsureReturns`, `PublishIsAnswered`,
`SignalStops`, `AcceptedIsReviewed`, and the fairness of `Review!Spec` in
`KeepsPromise`), which the prover does not treat; and `LoadGatewayAssumption`,
an evaluation of `LoadGateway` on listed environments.

## 5. What the properties are for

`PROJECT.json` lists the hazards of the code, each at its line, with the
properties that would catch it going wrong. Those without a property say why.
A duplicate comment is the central one. It cannot come from inside a review
(`OneComment`), nor from a failure after the comment, the label's included
(`OutcomeIsTrue`, `ImplementsReview`), so what `Worker!DuplicatesAreExcused`
leaves are GitHub's lost answer and a review whose own answer is lost: the known
gap of `submit_review.go:54`. `Gateway!DuplicatesAreExcused` and
`SecondReviewIsExcused` speak of events that GitHub delivers again because a
delivery failed. A redelivery by hand of one that was answered 200
(`EVENT_GATEWAY.md:88`, `:123`) is another event to the model (`Deliver`, `Begin`): the
gateway does not look at its GUID and publishes it again, and it is reviewed again.

## 6. Not modelled

Logging and trace ids, the prompt, the tool schemas, URL and header
construction, the deployment workflow: formatting and I/O without control. The
HMAC is a predicate of a delivery. What makes an argument of a tool bad (the
characters of a plugin name) and the search in the YAML are data; the tools
refuse, fail or succeed. The age of the clone and the rate limits of GitHub are
not in the code: the clone is never refreshed, and no property can hold of that.
A GitHub that never answers a dry run holds it for ever; `AgentDryRun` states no
liveness for that reason.

## 7. Plan

Done: `Review`, `Agent` and `AgentProofs`; `Clone` and `CloneProofs`;
`HttpServer`, `Worker`, `Gateway`; `Stage` and the refinements; `Payload` and
`Pipeline`; `Config` and `Cli`; the proofs of `Worker`, `Gateway`, `Stage`,
`Pipeline` and `Cli`, and those about the history of `Agent` and an undisturbed
`Clone`. Left, in this order:

1. What the next inference may rely on: a response is answered in full before it
   (an action property of `Agent`, from `ReplyInv`).
2. The safety that fairness turns into `SignalStops` and `EnsureReturns`: the
   states that those leave behind are never entered again.
