--------------------------------- MODULE Cli ---------------------------------
(***************************************************************************)
(* The agent's main (cmd/agent/main.go): it loads the configuration, and   *)
(* then either serves pushes (module Worker has what happens there) or, in *)
(* test mode, --test-payload, reviews once: a file with a raw GitHub event *)
(* is read and parsed, reviewed in dry-run mode by the loop of module      *)
(* Agent, and the exit code tells how it went.                             *)
(***************************************************************************)
EXTENDS Agent, Payload, Config

CONSTANTS Environments,   \* what the process may find in its environment
          Files,          \* what the path may lead to: nothing ({}), or the set of a body
          Ports           \* values of --port, 0 when it is not given

(* The loop has the same limit of iterations in every environment that loads. *)
ASSUME CliAssumption ==
  /\ DryRun
  /\ \A f \in Files : \A b, c \in f : b = c
  /\ Ports \subseteq Int
  /\ \A env \in Environments : \A name \in AgentRequired \cup {"MAX_ITERATIONS", "PORT"} : env[name] \in Values
  /\ \A env \in Environments : \A cfg \in LoadAgent(env) : cfg.iterations = MaxIterations

ExitOK       == 0
ExitFailure  == 1
ExitConfig   == 2
ExitBadInput == 3

VARIABLES
  env,     \* the environment
  test,    \* --test-payload is given
  file,    \* the file behind it
  port,    \* --port
  stage,   \* "load", "start", "listen", "serving", "review" or "exited"
  listen,  \* the port that is listened on, 0 before
  code     \* the exit code, once exited

given   == <<env, test, file, port>>
cliVars == <<vars, given, stage, listen, code>>

(* Either mode looks at one of the two flags only. *)
CliInit == /\ Init
           /\ env \in Environments
           /\ test \in BOOLEAN
           /\ file \in IF test THEN Files ELSE {{}}
           /\ port \in IF test THEN {0} ELSE Ports
           /\ stage = "load" /\ listen = 0 /\ code = ExitOK

Goes(s)  == stage' = s /\ UNCHANGED <<vars, given, listen, code>>
Exits(c) == stage' = "exited" /\ code' = c /\ UNCHANGED <<vars, given, listen>>
-----------------------------------------------------------------------------
ConfigurationError == stage = "load" /\ LoadAgent(env) = {} /\ Exits(ExitConfig)

Configured == /\ stage = "load" /\ LoadAgent(env) # {}
              /\ Goes(IF test THEN "start" ELSE "listen")
-----------------------------------------------------------------------------
(* runServer: a --port above 0 overrides $PORT, and nobody has checked that  *)
(* there is such a port; the listener may fail in any case.                  *)
ListenPort == IF port > 0 THEN port ELSE (CHOOSE cfg \in LoadAgent(env) : TRUE).port

Listen == /\ stage = "listen" /\ ListenPort <= MaxPort
          /\ stage' = "serving" /\ listen' = ListenPort
          /\ UNCHANGED <<vars, given, code>>

CannotListen == stage = "listen" /\ Exits(ExitFailure)

(* ListenAndServe returns: shut down in time, or not, or the listener failed. *)
ServerReturns == stage = "serving" /\ \E c \in {ExitOK, ExitFailure} : Exits(c)
-----------------------------------------------------------------------------
CannotRead == stage = "start" /\ file = {} /\ Exits(ExitBadInput)

(* An event of another type is no failure: there is nothing to review. *)
NothingToReview ==
  /\ stage = "start"
  /\ \E body \in file : DetectEventType("", body) # "pull_request"
  /\ Exits(ExitOK)

CannotParse ==
  /\ stage = "start"
  /\ \E body \in file : /\ DetectEventType("", body) = "pull_request"
                        /\ ParsePullRequestEvent(body) = {}
  /\ Exits(ExitBadInput)

StartReview ==
  /\ stage = "start"
  /\ \E body \in file : /\ DetectEventType("", body) = "pull_request"
                        /\ ParsePullRequestEvent(body) # {}
  /\ Goes("review")

Run == /\ stage = "review"
       /\ Infer \/ Dispatch \/ Post
       /\ UNCHANGED <<given, stage, listen, code>>

ExitIgnoresFallback ==    \* mutant: what did not fail is a success
  stage = "review" /\ pc = "done" /\ Exits(IF outcome = "error" THEN ExitFailure ELSE ExitOK)

(* The fallback comment, printed in the place of a review, is a failure. *)
Exit == /\ stage = "review" /\ pc = "done"
        /\ Exits(IF outcome \in {"error", "fallback"} THEN ExitFailure ELSE ExitOK)

CliFinished == stage = "exited" /\ UNCHANGED cliVars

CliNext == \/ ConfigurationError \/ Configured
           \/ Listen \/ CannotListen \/ ServerReturns
           \/ CannotRead \/ NothingToReview \/ CannotParse
           \/ StartReview \/ Run \/ Exit
           \/ CliFinished

CliSpec == CliInit /\ [][CliNext]_cliVars
-----------------------------------------------------------------------------
LLMDecided == \E i \in DOMAIN history : \E k \in DOMAIN history[i].calls : IsTerminal(i, k)
IsPR       == \E body \in file : DetectEventType("", body) = "pull_request"
Untouched  == Len(history) = 2 /\ printed = 0 /\ listen = 0

(* The exit code tells an operator what the LLM and the tools did, across    *)
(* every way through main and the loop.  In test mode: 0, the file holds no  *)
(* pull request, or the LLM ended its review by a terminal tool and at most  *)
(* one comment was printed; 1, a review that failed and printed nothing, or  *)
(* the fallback of an LLM that never called a terminal tool (AGENT_CLI.md:   *)
(* 373: "the program exits non-zero"); 3, a file that was no use, before     *)
(* anything was inferred.  In either mode, 2: before anything was done.  A   *)
(* server that exits has reviewed nothing by itself.                         *)
ExitCodeIsTrue ==
  stage = "exited" =>
    /\ code \in {ExitOK, ExitFailure, ExitConfig, ExitBadInput}
    /\ code = ExitConfig           => Untouched
    /\ code = ExitBadInput         => test /\ Untouched
    /\ test /\ code = ExitOK       => printed <= 1 /\ (IsPR <=> LLMDecided)
    /\ test /\ code = ExitFailure  => IsPR /\ (printed = 0 \/ (printed = 1 /\ ~LLMDecided))
    /\ ~test                       => Len(history) = 2 /\ (code = ExitOK => listen # 0)

(* Whatever combination of variables and flags the process is started with,  *)
(* what runs has all it needs: the credentials of both services (AGENT_CLI   *)
(* .md:86-88), a limit of iterations, and a port if it serves.               *)
RunsOnlyConfigured ==
  stage \in {"serving", "review"} =>
    /\ \A name \in {"GITHUB_TOKEN", "LLM_API_KEY", "LLM_BASE_URL"} : Given(env[name])
    /\ Given(env["MAX_ITERATIONS"]) => env["MAX_ITERATIONS"] = Whole(MaxIterations)
    /\ stage = "serving" => listen \in 1..MaxPort /\ (port \in 1..MaxPort => listen = port)
=============================================================================
