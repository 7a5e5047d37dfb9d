------------------------------ MODULE CliProofs ------------------------------
(***************************************************************************)
(* Theorems about the agent's main, for every environment, file and port   *)
(* it may be started with, and every review it may run.                    *)
(***************************************************************************)
EXTENDS Cli, HistoryProofs

USE AgentAssumption, CliAssumption DEF AgentAssumption, CliAssumption, Breaker, MaxIterations

(* The review inside the process makes its own steps and no others: what is  *)
(* proved of module Agent holds here.                                        *)
AgentInv == TypeOK /\ EffectsInv /\ TerminalInv

LEMMA AgentStep == [CliNext]_cliVars => [Next]_vars
<1> SUFFICES ASSUME [CliNext]_cliVars PROVE [Next]_vars OBVIOUS
<1>1. CASE Run BY <1>1 DEF Run, Next
<1>2. CASE UNCHANGED cliVars \/ CliFinished
  BY <1>2 DEF cliVars, CliFinished
<1>3. CASE ConfigurationError \/ Configured \/ CannotListen \/ ServerReturns \/ CannotRead
             \/ NothingToReview \/ CannotParse \/ StartReview \/ Exit
  <2>1. UNCHANGED vars
    BY <1>3, Zenon DEF ConfigurationError, Configured, CannotListen, ServerReturns, CannotRead,
       NothingToReview, CannotParse, StartReview, Exit, Goes, Exits
  <2> QED BY <2>1
<1>4. CASE Listen BY <1>4 DEF Listen
<1> QED BY <1>1, <1>2, <1>3, <1>4 DEF CliNext

LEMMA AgentInvariant == CliSpec => []AgentInv
<1>1. CliInit => AgentInv
  BY InitTyped, InitEffects, TerminalInit DEF CliInit, AgentInv
<1>2. AgentInv /\ [CliNext]_cliVars => AgentInv'
  BY AgentStep, StepTyped, StepEffects, TerminalStep DEF AgentInv
<1> QED BY <1>1, <1>2, PTL DEF CliSpec
-----------------------------------------------------------------------------
(***************************************************************************)
(* Why the exit code is true.  Each stage of main is reached with the      *)
(* configuration it needs, and nothing is inferred, printed or listened to *)
(* before the stage that does so; a review that is over hands its outcome, *)
(* which is the truth about its history and effects, to the exit code.     *)
(***************************************************************************)
Fresh == Len(history) = 2 /\ printed = 0 /\ ~LLMDecided

Loads  == LoadAgent(env) # {}
Serves == listen = ListenPort /\ listen <= MaxPort

CliInv ==
  /\ env \in Environments /\ port \in Int /\ test \in BOOLEAN /\ (test => file \in Files)
  /\ stage \in {"load", "start", "listen", "serving", "review", "exited"}
  /\ stage \in {"load", "start", "listen", "serving"} => Fresh
  /\ stage \in {"load", "start", "listen", "review"} => listen = 0
  /\ stage \in {"start", "review"} => test
  /\ stage \in {"listen", "serving"} => ~test
  /\ stage \in {"start", "listen", "serving", "review"} => Loads
  /\ stage = "review" => IsPR
  /\ stage = "serving" => Serves
  /\ ExitCodeIsTrue

(* What a configuration that loads gives. *)
LEMMA LoadGives ==
  ASSUME NEW e \in Environments, LoadAgent(e) # {}
  PROVE  /\ \A name \in AgentRequired : Given(e[name])
         /\ ValidLimit(e["MAX_ITERATIONS"]) /\ ValidPort(e["PORT"])
         /\ LoadAgent(e) = {[iterations |-> NumberOr(e["MAX_ITERATIONS"], DefaultIter),
                             port       |-> NumberOr(e["PORT"], DefaultPort)]}
BY DEF LoadAgent

LEMMA LimitIs ==
  ASSUME NEW e \in Environments, LoadAgent(e) # {}, Given(e["MAX_ITERATIONS"])
  PROVE  e["MAX_ITERATIONS"] = Whole(MaxIterations)
<1> DEFINE v == e["MAX_ITERATIONS"]
           cfg == [iterations |-> NumberOr(v, DefaultIter), port |-> NumberOr(e["PORT"], DefaultPort)]
<1>1. cfg \in LoadAgent(e) BY LoadGives
<1>2. cfg.iterations = MaxIterations BY <1>1
<1>3. v \in Values /\ v.kind = "number" BY LoadGives DEF ValidLimit, Atoi
<1>4. v.n = MaxIterations BY <1>2 DEF NumberOr
<1> HIDE DEF MaxIterations
<1> QED BY <1>3, <1>4 DEF Values, Whole

LEMMA PortRange == /\ DefaultPort \in Nat \ {0} /\ MaxPort \in Nat
                   /\ DefaultPort <= MaxPort
BY DEF DefaultPort, MaxPort

LEMMA PortIs ==
  ASSUME NEW e \in Environments, LoadAgent(e) # {}
  PROVE  (CHOOSE cfg \in LoadAgent(e) : TRUE).port \in 1..MaxPort
<1> DEFINE v == e["PORT"]
           p == NumberOr(v, DefaultPort)
           chosen == CHOOSE cfg \in LoadAgent(e) : TRUE
<1>1. ValidPort(v) BY LoadGives
<1>2. p \in 1..MaxPort
  <2> HIDE DEF v
  <2>1. CASE Given(v) BY <1>1, <2>1 DEF ValidPort, NumberOr
  <2>2. CASE ~Given(v) BY <2>2, PortRange DEF NumberOr
  <2> QED BY <2>1, <2>2
<1>3. chosen \in LoadAgent(e) BY Zenon
<1>4. \A cfg \in LoadAgent(e) : cfg.port = p BY LoadGives
<1> HIDE DEF chosen, p
<1>5. chosen.port \in 1..MaxPort BY <1>2, <1>3, <1>4
<1> QED BY <1>5 DEF chosen

LEMMA ListenPortIs ==
  ASSUME env \in Environments, Loads
  PROVE  \E p \in 1..MaxPort : ListenPort = IF port > 0 THEN port ELSE p
<1> DEFINE p == (CHOOSE cfg \in LoadAgent(env) : TRUE).port
<1>1. p \in 1..MaxPort BY PortIs DEF Loads
<1>2. ListenPort = IF port > 0 THEN port ELSE p BY Zenon DEF ListenPort
<1> HIDE DEF p
<1> QED BY <1>1, <1>2

(* What ExitCodeIsTrue says of exit code c. *)
Tells(c) ==
  /\ c \in {ExitOK, ExitFailure, ExitConfig, ExitBadInput}
  /\ c = ExitConfig           => Untouched
  /\ c = ExitBadInput         => test /\ Untouched
  /\ test /\ c = ExitOK       => printed <= 1 /\ (IsPR <=> LLMDecided)
  /\ test /\ c = ExitFailure  => IsPR /\ (printed = 0 \/ (printed = 1 /\ ~LLMDecided))
  /\ ~test                    => Len(history) = 2 /\ (c = ExitOK => listen # 0)

LEMMA ExitsTelling ==
  ASSUME CliInv, NEW c, Exits(c), Tells(c) PROVE CliInv'
<1>1. /\ stage' = "exited" /\ code' = c
      /\ UNCHANGED <<history, printed, env, test, file, port, listen>>
  BY DEF Exits, given, vars
<1>2. ExitCodeIsTrue'
  BY <1>1 DEF Tells, ExitCodeIsTrue, Untouched, IsPR, LLMDecided, IsTerminal
<1> QED BY <1>1, <1>2 DEF CliInv

(* The next stage of main, before anything is inferred or listened to. *)
LEMMA GoesOn ==
  ASSUME CliInv, NEW s, Goes(s),
         \/ stage = "load" /\ Loads /\ s = IF test THEN "start" ELSE "listen"
         \/ stage = "start" /\ s = "review" /\ IsPR
  PROVE  CliInv'
<1>1. /\ stage' = s /\ s # "exited"
      /\ UNCHANGED <<history, printed, env, test, file, port, listen>>
  BY DEF Goes, given, vars
<1>2. (Fresh' <=> Fresh) /\ (Loads' <=> Loads) /\ (IsPR' <=> IsPR)
  BY <1>1 DEF Fresh, Loads, IsPR, LLMDecided, IsTerminal
<1>3. ExitCodeIsTrue' BY <1>1 DEF ExitCodeIsTrue
<1> QED BY <1>1, <1>2, <1>3 DEF CliInv

LEMMA ListenTrue == ASSUME CliInv, Listen PROVE CliInv'
<1>1. /\ stage = "listen" /\ stage' = "serving" /\ listen' = ListenPort /\ ListenPort <= MaxPort
      /\ UNCHANGED <<history, printed, env, test, file, port>>
  BY DEF Listen, given, vars
<1>2. (Fresh' <=> Fresh) /\ (Loads' <=> Loads) /\ ListenPort' = ListenPort
  BY <1>1 DEF Fresh, Loads, ListenPort, LLMDecided, IsTerminal
<1>3. ExitCodeIsTrue' BY <1>1 DEF ExitCodeIsTrue
<1> QED BY <1>1, <1>2, <1>3 DEF CliInv, Serves

LEMMA RunTrue == ASSUME CliInv, Run PROVE CliInv'
<1>1. stage = "review" /\ stage' = "review" /\ UNCHANGED <<env, test, file, port, listen>>
  BY DEF Run, given
<1>2. (Loads' <=> Loads) /\ (IsPR' <=> IsPR) BY <1>1 DEF Loads, IsPR
<1>3. ExitCodeIsTrue' BY <1>1 DEF ExitCodeIsTrue
<1> QED BY <1>1, <1>2, <1>3 DEF CliInv

(* The ends of main that come before a review. *)
LEMMA EarlyExitTrue ==
  ASSUME CliInv,
         ConfigurationError \/ CannotListen \/ ServerReturns \/ CannotRead \/ NothingToReview \/ CannotParse
  PROVE  CliInv'
<1> USE DEF ExitOK, ExitFailure, ExitConfig, ExitBadInput
<1>0. stage \in {"load", "start", "listen", "serving"} /\ Len(history) = 2 /\ printed = 0 /\ ~LLMDecided
  BY DEF ConfigurationError, CannotListen, ServerReturns, CannotRead, NothingToReview, CannotParse,
         CliInv, Fresh
<1>1. CASE ConfigurationError
  <2>1. Exits(ExitConfig) /\ Untouched BY <1>0, <1>1 DEF ConfigurationError, CliInv, Untouched
  <2> QED BY <1>0, <2>1, ExitsTelling DEF Tells
<1>2. CASE CannotListen
  <2>1. Exits(ExitFailure) /\ ~test BY <1>2 DEF CannotListen, CliInv
  <2> QED BY <1>0, <2>1, ExitsTelling DEF Tells
<1>3. CASE ServerReturns
  <2>1. PICK c \in {ExitOK, ExitFailure} : Exits(c) BY <1>3 DEF ServerReturns
  <2>2. ~test /\ Loads /\ listen = ListenPort /\ env \in Environments /\ port \in Int
    BY <1>3 DEF ServerReturns, CliInv, Serves
  <2>3. listen # 0 BY <2>2, ListenPortIs, PortRange
  <2> QED BY <1>0, <2>1, <2>2, <2>3, ExitsTelling DEF Tells
<1>4. CASE CannotRead \/ CannotParse
  <2>1. Exits(ExitBadInput) /\ Untouched /\ test
    BY <1>0, <1>4 DEF CannotRead, CannotParse, CliInv, Untouched
  <2> QED BY <2>1, ExitsTelling DEF Tells
<1>5. CASE NothingToReview
  <2>1. Exits(ExitOK) /\ test /\ file \in Files BY <1>5 DEF NothingToReview, CliInv
  <2>2. ~IsPR BY <1>5, <2>1 DEF NothingToReview, IsPR
  <2> QED BY <1>0, <2>1, <2>2, ExitsTelling DEF Tells
<1> QED BY <1>1, <1>2, <1>3, <1>4, <1>5

(* The review is over: its outcome is the truth, and so is the exit code. *)
LEMMA ExitTrue == ASSUME AgentInv, CliInv, Exit PROVE CliInv'
<1> USE DEF ExitOK, ExitFailure, ExitConfig, ExitBadInput
<1>1. stage = "review" /\ pc = "done" /\ test /\ IsPR
      /\ Exits(IF outcome \in {"error", "fallback"} THEN ExitFailure ELSE ExitOK)
  BY DEF Exit, CliInv
<1>2. outcome \in {"submitted", "noop", "fallback", "error"} /\ OutcomeMatchesEffects /\ FirstTerminalDecides
  BY <1>1 DEF AgentInv, TypeOK, EffectsInv, TerminalInv
<1>3. CASE outcome = "error"
  <2>1. printed = 0 BY <1>2, <1>3 DEF OutcomeMatchesEffects
  <2> QED BY <1>1, <1>3, <2>1, ExitsTelling DEF Tells
<1>4. CASE outcome = "fallback"
  <2>1. printed = 1 BY <1>2, <1>4 DEF OutcomeMatchesEffects
  <2>2. ~LLMDecided BY <1>2, <1>4 DEF FirstTerminalDecides, LLMDecided
  <2> QED BY <1>1, <1>4, <2>1, <2>2, ExitsTelling DEF Tells
<1>5. CASE outcome \in {"submitted", "noop"}
  <2>1. printed <= 1 BY <1>2, <1>5 DEF OutcomeMatchesEffects, AgentInv, TypeOK
  <2>2. LLMDecided
    <3>1. PICK tool \in TerminalTools : outcome = (IF tool = NoopTool THEN "noop" ELSE "submitted")
      BY <1>5 DEF TerminalTools, SubmitTool, NoopTool
    <3>2. \E i \in DOMAIN history : \E k \in DOMAIN history[i].calls : history[i].calls[k].name = tool
      BY <1>2, <3>1 DEF FirstTerminalDecides
    <3> QED BY <3>2 DEF LLMDecided, IsTerminal
  <2> QED BY <1>1, <1>5, <2>1, <2>2, ExitsTelling DEF Tells
<1> QED BY <1>2, <1>3, <1>4, <1>5

LEMMA CliInitially == CliInit => CliInv
<1> SUFFICES ASSUME CliInit PROVE CliInv OBVIOUS
<1>1. stage = "load" /\ listen = 0 /\ env \in Environments /\ test \in BOOLEAN
  BY DEF CliInit
<1>2. port \in Int /\ (test => file \in Files) BY DEF CliInit
<1>3. Fresh
  <2>1. Len(history) = 2 /\ printed = 0 /\ \A i \in DOMAIN history : history[i].calls = <<>>
    BY DEF CliInit, Init, Message
  <2> QED BY <2>1 DEF Fresh, LLMDecided
<1> QED BY <1>1, <1>2, <1>3 DEF CliInv, ExitCodeIsTrue

LEMMA CliStep == AgentInv /\ CliInv /\ [CliNext]_cliVars => CliInv'
<1> SUFFICES ASSUME AgentInv, CliInv, [CliNext]_cliVars PROVE CliInv' OBVIOUS
<1>1. CASE Configured
  BY <1>1, GoesOn DEF Configured, Loads
<1>2. CASE StartReview
  BY <1>2, GoesOn DEF StartReview, IsPR
<1>3. CASE UNCHANGED cliVars
  <2>1. UNCHANGED <<history, printed, env, test, file, port, stage, listen, code>>
    BY <1>3 DEF cliVars, vars, given
  <2>2. (Fresh' <=> Fresh) /\ (Loads' <=> Loads) /\ (IsPR' <=> IsPR) /\ (Untouched' <=> Untouched)
    BY <2>1 DEF Fresh, Loads, IsPR, LLMDecided, IsTerminal, Untouched
  <2>3. Serves' <=> Serves
    <3>1. ListenPort' = ListenPort BY <2>1 DEF ListenPort
    <3> QED BY <2>1, <3>1 DEF Serves
  <2>4. ExitCodeIsTrue' <=> ExitCodeIsTrue
    BY <2>1, <2>2 DEF ExitCodeIsTrue, LLMDecided, IsTerminal
  <2> QED BY <2>1, <2>2, <2>3, <2>4 DEF CliInv
<1> QED BY <1>1, <1>2, <1>3, ListenTrue, RunTrue, EarlyExitTrue, ExitTrue DEF CliNext, CliFinished

LEMMA CliInvariant == CliSpec => []CliInv
BY CliInitially, CliStep, AgentInvariant, PTL DEF CliSpec

(* The exit code is the truth about what the LLM decided and what has been   *)
(* printed, in both modes and along every way through main and the loop.     *)
THEOREM ExitCodeTells == CliSpec => []ExitCodeIsTrue
BY CliInvariant, PTL DEF CliInv

(* No process serves or reviews without credentials, with another limit of   *)
(* iterations than the one it was given, or on a port that does not exist.   *)
THEOREM NothingRunsUnconfigured == CliSpec => []RunsOnlyConfigured
<1>1. CliInv => RunsOnlyConfigured
  <2> SUFFICES ASSUME CliInv PROVE RunsOnlyConfigured OBVIOUS
  <2>1. stage \in {"serving", "review"} => env \in Environments /\ LoadAgent(env) # {} /\ port \in Int
    BY DEF CliInv, Loads
  <2>2. stage \in {"serving", "review"} =>
          \A name \in {"GITHUB_TOKEN", "LLM_API_KEY", "LLM_BASE_URL"} : Given(env[name])
    BY <2>1, LoadGives DEF AgentRequired
  <2>3. stage \in {"serving", "review"} =>
          (Given(env["MAX_ITERATIONS"]) => env["MAX_ITERATIONS"] = Whole(MaxIterations))
    BY <2>1, LimitIs
  <2>4. ASSUME stage = "serving" PROVE listen \in 1..MaxPort /\ (port \in 1..MaxPort => listen = port)
    <3>1. listen = ListenPort /\ listen <= MaxPort BY <2>4 DEF CliInv, Serves
    <3>2. PICK p \in 1..MaxPort : listen = IF port > 0 THEN port ELSE p
      BY <2>1, <2>4, <3>1, ListenPortIs DEF Loads
    <3>3. port \in Int BY <2>1, <2>4
    <3> QED BY <3>1, <3>2, <3>3, PortRange
  <2> QED BY <2>2, <2>3, <2>4, Zenon DEF RunsOnlyConfigured
<1> QED BY <1>1, CliInvariant, PTL

(* The test mode, which reviews in dry-run mode, writes nothing to GitHub.   *)
THEOREM TestModeIsSilent == CliSpec => []DryRunWritesNothing
BY AgentInvariant, EffectsImply, PTL DEF AgentInv
=============================================================================
