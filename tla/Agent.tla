-------------------------------- MODULE Agent --------------------------------
(***************************************************************************)
(* One review: the orchestration loop of internal/agent (Run and           *)
(* circuitBreak), the message history it keeps and the tools it calls.     *)
(*                                                                         *)
(* The LLM is an adversary: a response is any sequence of at most MaxCalls *)
(* tool calls, or text.  A tool, an inference or a request to GitHub may   *)
(* fail at any moment (a cancelled context makes all that follow fail,     *)
(* which is one of these behaviours), and GitHub may carry out a request   *)
(* whose answer never arrives.                                             *)
(***************************************************************************)
EXTENDS Integers, Sequences, FiniteSets

CONSTANTS ConfigMaxIterations,  \* Config.MaxIterations, as the caller gives it
          DryRun,               \* Config.DryRun
          ReadTools,            \* names of the registered tools that only read
          UnknownTools,         \* names the LLM makes up
          MaxCalls              \* bound: tool calls in one LLM response

SubmitTool    == "submit_review_comment"
NoopTool      == "noop"
TerminalTools == {SubmitTool, NoopTool}
Registered    == ReadTools \cup TerminalTools

ASSUME AgentAssumption ==
  /\ ConfigMaxIterations \in Int
  /\ DryRun \in BOOLEAN
  /\ MaxCalls \in Nat
  /\ TerminalTools \cap (ReadTools \cup UnknownTools) = {}
  /\ ReadTools \cap UnknownTools = {}

(* New raises a limit below 1 to 1. *)
MaxIterations == IF ConfigMaxIterations < 1 THEN 1 ELSE ConfigMaxIterations
Breaker       == MaxIterations + 1    \* the number of the last inference

(* What the LLM may ask for.  "bad" arguments are refused by the tool (JSON  *)
(* that does not parse, an empty body); "label" is needs_human_review.       *)
Requests == [name : ReadTools \cup UnknownTools, args : {"plain"}]
              \cup [name : {NoopTool},   args : {"plain", "bad"}]
              \cup [name : {SubmitTool}, args : {"plain", "label", "bad"}]
Responses == UNION {[1..n -> Requests] : n \in 0..MaxCalls}

(* A tool call carries an ID unique in the review: inference and position. *)
Ids  == Nat \X Nat
NoId == <<0, 0>>
NoText == ""
Call(i, k, r) == [id |-> <<i, k>>, name |-> r.name, args |-> r.args]
Calls == [id : Ids, name : Registered \cup UnknownTools,
          args : {"plain", "label", "bad"}]

Message(role, text)  == [role |-> role, text |-> text, calls |-> <<>>, id |-> NoId]
Asks(calls)          == [role |-> "assistant", text |-> NoText, calls |-> calls, id |-> NoId]
Answer(call, result) == [role |-> "tool", text |-> result, calls |-> <<>>, id |-> call.id]
Messages == [role : {"system", "user", "assistant", "tool"},
             text : {NoText, "prompt", "talk", "warning", "breaker", "result", "error"},
             calls : Seq(Calls), id : Ids]

(* toMessageParams: the history as Complete sends it.  The content of an     *)
(* assistant message goes out only if there is any.                          *)
Param(m) == [role |-> m.role, calls |-> m.calls, id |-> m.id,
             content |-> IF m.role = "assistant" /\ m.text = NoText THEN {} ELSE {m.text}]
SilentDropped(h) ==    \* mutant: messages with nothing to say are left out, calls and all
  LET kept == SelectSeq(h, LAMBDA m : m.text # NoText)
  IN  [i \in DOMAIN kept |-> Param(kept[i])]
ToMessageParams(h) == [i \in DOMAIN h |-> Param(h[i])]

VARIABLES
  pc,        \* "infer", "dispatch", "post", "label" or "done"
  iter,      \* number of the inference under way; Breaker is the extra one
  history,   \* MessageHistory.msgs
  pending,   \* calls of the last response that are not settled yet
  outcome,   \* what Run returns
  posts,     \* PostComment requests sent
  comments,  \* comments GitHub created for them
  acked,     \* PostComment returned nil
  labelled,  \* GitHub added the needs-human-review label
  printed    \* comments intercepted by dry-run mode

effects == <<posts, comments, acked, labelled, printed>>
vars    == <<pc, iter, history, pending, outcome, posts, comments, acked, labelled, printed>>

Init == /\ pc = "infer" /\ iter = 1
        /\ history = <<Message("system", "prompt"), Message("user", "prompt")>>
        /\ pending = <<>> /\ outcome = "none"
        /\ posts = 0 /\ comments = 0 /\ acked = FALSE
        /\ labelled = FALSE /\ printed = 0
-----------------------------------------------------------------------------
InBreaker == iter = Breaker

(* Run hands every settled call's result back to the LLM; circuitBreak does  *)
(* not: nothing is inferred after it.                                        *)
Answered(call, result) ==
  IF InBreaker THEN history ELSE Append(history, Answer(call, result))

Return(o) == pc' = "done" /\ outcome' = o

(* Mutants of NextIteration: the breaker one iteration late; the loop started *)
(* over instead of broken.                                                   *)
NextIterationLate(h) ==
  /\ pc' = "infer" /\ iter' = iter + 1
  /\ history' = IF iter = Breaker THEN Append(h, Message("user", "breaker")) ELSE h
  /\ UNCHANGED outcome
NextIterationWraps(h) ==
  /\ pc' = "infer"
  /\ iter' = IF iter = MaxIterations THEN 1 ELSE iter + 1
  /\ history' = IF iter = MaxIterations THEN SubSeq(h, 1, 2) ELSE h
  /\ UNCHANGED outcome

(* The next iteration, or, when the iterations are used up, the breaker with *)
(* its prompt as the last message before its inference.                      *)
NextIteration(h) ==
  /\ pc' = "infer"
  /\ iter' = iter + 1
  /\ history' = IF iter = MaxIterations
                THEN Append(h, Message("user", "breaker")) ELSE h
  /\ UNCHANGED outcome

(* submit_review_comment up to its request; h is the history once the tool   *)
(* has returned, o the outcome.  Bad arguments end it before anything else.  *)
SubmitInDryRun(args, o, h) ==    \* mutant: dry-run mode posts
  /\ args # "bad"
  /\ pc' = "post"
  /\ UNCHANGED <<iter, history, pending, outcome, effects>>

Submit(args, o, h) ==
  \/ /\ args # "bad" /\ DryRun
     /\ Return(o) /\ history' = h
     /\ printed' = printed + 1
     /\ UNCHANGED <<iter, pending, posts, comments, acked, labelled>>
  \/ /\ args # "bad" /\ ~DryRun
     /\ pc' = "post"
     /\ UNCHANGED <<iter, history, pending, outcome, effects>>
-----------------------------------------------------------------------------
InferenceFails == /\ pc = "infer"
                  /\ Return("error")
                  /\ UNCHANGED <<iter, history, pending, effects>>

InferTalkEverywhere ==    \* mutant: talk in the breaker goes on as well
  /\ pc = "infer"
  /\ NextIteration(history \o <<Message("assistant", "talk"), Message("user", "warning")>>)
  /\ UNCHANGED <<pending, effects>>

(* No tool call before the breaker: the text, which may be empty, and a      *)
(* warning join the history.                                                 *)
InferTalk ==
  /\ pc = "infer" /\ ~InBreaker
  /\ \E text \in {NoText, "talk"} :
       NextIteration(history \o <<Message("assistant", text), Message("user", "warning")>>)
  /\ UNCHANGED <<pending, effects>>

InferCalls ==
  /\ pc = "infer"
  /\ \E r \in Responses \ {<<>>} :
       LET calls == [k \in DOMAIN r |-> Call(iter, k, r[k])]
       IN  /\ pending' = calls
           /\ history' = Append(history, Asks(calls))
  /\ pc' = "dispatch"
  /\ UNCHANGED <<iter, outcome, effects>>

(* No tool call in the breaker's response either: on to the fallback. *)
BreakerTalk == /\ pc = "infer" /\ InBreaker
               /\ pc' = "dispatch"
               /\ UNCHANGED <<iter, history, pending, outcome, effects>>
-----------------------------------------------------------------------------
call == Head(pending)
Dispatching(names) == pc = "dispatch" /\ pending # <<>> /\ call.name \in names

UnknownUnanswered ==    \* mutant: `continue` before AddTool
  /\ ~InBreaker /\ Dispatching(UnknownTools)
  /\ pending' = Tail(pending)
  /\ UNCHANGED <<pc, iter, history, outcome, effects>>

(* A call of a tool nobody registered is answered with an error. *)
UnknownCall == /\ ~InBreaker /\ Dispatching(UnknownTools)
               /\ history' = Answered(call, "error")
               /\ pending' = Tail(pending)
               /\ UNCHANGED <<pc, iter, outcome, effects>>

ReadOk == /\ ~InBreaker /\ Dispatching(ReadTools)
          /\ history' = Answered(call, "result")
          /\ pending' = Tail(pending)
          /\ UNCHANGED <<pc, iter, outcome, effects>>

(* Any error of a tool ends the review. *)
ReadFails == /\ ~InBreaker /\ Dispatching(ReadTools)
             /\ history' = Answered(call, "error")
             /\ Return("error")
             /\ UNCHANGED <<iter, pending, effects>>

BreakerSkipsNoop ==    \* mutant: only submit_review_comment ends the breaker
  /\ InBreaker /\ Dispatching((Registered \cup UnknownTools) \ {SubmitTool})
  /\ pending' = Tail(pending)
  /\ UNCHANGED <<pc, iter, history, outcome, effects>>

(* The breaker looks for a terminal call only and skips the others. *)
BreakerSkips == /\ InBreaker /\ Dispatching(ReadTools \cup UnknownTools)
                /\ pending' = Tail(pending)
                /\ UNCHANGED <<pc, iter, history, outcome, effects>>

NoopAsSubmitted ==    \* mutant: the outcome of noop is not told apart
  /\ Dispatching({NoopTool})
  /\ Return("submitted") /\ history' = Answered(call, "result")
  /\ UNCHANGED <<iter, pending, effects>>

NoopCall == /\ Dispatching({NoopTool})
            /\ \/ /\ call.args # "bad"
                  /\ Return("noop") /\ history' = Answered(call, "result")
               \/ /\ call.args = "bad"
                  /\ Return("error") /\ history' = Answered(call, "error")
            /\ UNCHANGED <<iter, pending, effects>>

SubmitCall == /\ Dispatching({SubmitTool})
              /\ Submit(call.args, "submitted", Answered(call, "result"))

SubmitRefused == /\ Dispatching({SubmitTool}) /\ call.args = "bad"
                 /\ Return("error") /\ history' = Answered(call, "error")
                 /\ UNCHANGED <<iter, pending, effects>>

(* Every call is settled and none was terminal. *)
EndOfCalls == /\ ~InBreaker /\ pc = "dispatch" /\ pending = <<>>
              /\ NextIteration(history)
              /\ UNCHANGED <<pending, effects>>

(* The breaker's inference named no terminal tool: the fallback comment, with *)
(* the label.                                                                 *)
Fallback == /\ InBreaker /\ pc = "dispatch" /\ pending = <<>>
            /\ Submit("label", "fallback", history)
-----------------------------------------------------------------------------
(* The submission under way is the fallback when no call is waiting for it. *)
IsFallback == pending = <<>>
WantsLabel == IF IsFallback THEN TRUE ELSE call.args = "label"

SubmittedGoesOn ==    \* mutant: a terminal tool does not end the loop over the calls
  IF IsFallback THEN Return("fallback") /\ UNCHANGED history
  ELSE /\ pc' = "dispatch"
       /\ history' = Answered(call, "result")
       /\ UNCHANGED outcome

Submitted == /\ Return(IF IsFallback THEN "fallback" ELSE "submitted")
             /\ history' = IF IsFallback THEN history ELSE Answered(call, "result")

PostAccepted ==
  /\ pc = "post"
  /\ posts' = posts + 1 /\ comments' = comments + 1 /\ acked' = TRUE
  /\ IF WantsLabel THEN pc' = "label" /\ UNCHANGED <<history, outcome>> ELSE Submitted
  /\ UNCHANGED <<iter, pending, labelled, printed>>

PostFailsAndRetries ==    \* mutant: a failed request is sent again
  /\ pc = "post" /\ posts < 3
  /\ posts' = posts + 1
  /\ comments' \in {comments, comments + 1}
  /\ UNCHANGED <<pc, iter, history, pending, outcome, acked, labelled, printed>>

(* GitHub refuses the comment, or cannot be reached; or it creates it and the *)
(* answer does not come back: an error for the tool in each case.             *)
PostFails ==
  /\ pc = "post"
  /\ posts' = posts + 1
  /\ comments' \in {comments, comments + 1}
  /\ Return("error")
  /\ history' = IF IsFallback THEN history ELSE Answered(call, "error")
  /\ UNCHANGED <<iter, pending, acked, labelled, printed>>

AddLabelOrError ==    \* mutant: a label that fails fails the review
  /\ pc = "label"
  /\ \/ labelled' = TRUE /\ Submitted
     \/ Return("error") /\ UNCHANGED <<history, labelled>>
  /\ UNCHANGED <<iter, pending, posts, comments, acked, printed>>

(* The outcome does not depend on the label: its failure is logged only. *)
AddLabel == /\ pc = "label"
            /\ labelled' \in BOOLEAN
            /\ Submitted
            /\ UNCHANGED <<iter, pending, posts, comments, acked, printed>>
-----------------------------------------------------------------------------
Infer    == InferenceFails \/ InferTalk \/ InferCalls \/ BreakerTalk
Dispatch == UnknownCall \/ ReadOk \/ ReadFails \/ BreakerSkips \/ NoopCall
              \/ SubmitCall \/ SubmitRefused \/ EndOfCalls \/ Fallback
Post     == PostAccepted \/ PostFails \/ AddLabel

Finished == pc = "done" /\ UNCHANGED vars

Next == Infer \/ Dispatch \/ Post \/ Finished

(* One goroutine runs the loop; every inference, tool and request ends.    *)
Spec == Init /\ [][Next]_vars /\ WF_vars(Infer \/ Dispatch \/ Post)
-----------------------------------------------------------------------------
TypeOK ==
  /\ pc \in {"infer", "dispatch", "post", "label", "done"}
  /\ iter \in 1..Breaker
  /\ history \in Seq(Messages)
  /\ pending \in Seq(Calls)
  /\ outcome \in {"none", "submitted", "noop", "fallback", "error"}
  /\ posts \in Nat /\ comments \in Nat /\ printed \in Nat
  /\ acked \in BOOLEAN /\ labelled \in BOOLEAN

(* The protocol of the chat API, at every request as it goes out: it opens   *)
(* with the system message and ends with one the LLM is to answer; each tool *)
(* call of an assistant message is answered by a tool message, in order,     *)
(* right behind it, and no tool message answers anything else; an assistant  *)
(* message that is empty, as the LLM may send it, is followed by a user's.   *)
(* Unknown tools, several calls in a response, calls without text, empty     *)
(* answers and the breaker's prompt are handled in different places.         *)
WellFormedRequest ==
  LET request == ToMessageParams(history)
  IN  pc = "infer" =>
    /\ request[1].role = "system"
    /\ request[Len(request)].role \in {"user", "tool"}
    /\ \A i \in DOMAIN request : \A k \in DOMAIN request[i].calls :
         /\ i + k \in DOMAIN request
         /\ request[i + k].role = "tool"
         /\ request[i + k].id = request[i].calls[k].id
    /\ \A j \in DOMAIN request : request[j].role = "tool" =>
         \E i \in 1..(j - 1) : j - i \in DOMAIN request[i].calls
    /\ \A i \in DOMAIN request :
         request[i].role = "assistant" /\ request[i].content = {} /\ request[i].calls = <<>> =>
           i + 1 \in DOMAIN request /\ request[i + 1].role = "user"

(* A review infers at most MaxIterations + 1 times, the inferences counted   *)
(* in the history itself, and the prompt of the circuit breaker ends the     *)
(* request of the last one and of no other.                                  *)
BudgetKept ==
  /\ Cardinality({i \in DOMAIN history : history[i].role = "assistant"}) <= Breaker
  /\ pc = "infer" =>
       /\ Cardinality({i \in DOMAIN history : history[i].role = "assistant"}) = iter - 1
       /\ (history[Len(history)].text = "breaker") <=> InBreaker

(* The outcome tells what happened outside: a comment on the PR for          *)
(* "submitted" and "fallback" (printed, in dry-run mode), nothing for        *)
(* "noop"; and "error", for which the server asks for a retry, never when    *)
(* GitHub has acknowledged the comment.                                      *)
OutcomeMatchesEffects ==
  /\ outcome \in {"submitted", "fallback"} =>
       IF DryRun THEN printed = 1 ELSE comments = 1 /\ acked
  /\ outcome = "noop"  => posts = 0 /\ printed = 0
  /\ outcome = "error" => ~acked /\ printed = 0

(* A review sends at most one comment request, and labels only a PR that it  *)
(* has commented on.                                                         *)
AtMostOneComment == posts <= 1 /\ comments <= posts /\ (labelled => acked)

(* Dry-run mode writes nothing to GitHub. *)
DryRunWritesNothing == DryRun => posts = 0 /\ comments = 0 /\ ~labelled

(* The LLM's first terminal call decides the review, wherever in a response  *)
(* it stands and whatever follows it; the fallback comment is posted only    *)
(* for an LLM that made none in any of its inferences.                       *)
IsTerminal(i, k) == history[i].calls[k].name \in TerminalTools
FirstTerminalDecides ==
  /\ \A tool \in TerminalTools :
       outcome = (IF tool = NoopTool THEN "noop" ELSE "submitted") =>
         \E i \in DOMAIN history : \E k \in DOMAIN history[i].calls :
           /\ history[i].calls[k].name = tool
           /\ \A j \in 1..(k - 1) : ~IsTerminal(i, j)
           /\ \A h \in 1..(i - 1) : \A j \in DOMAIN history[h].calls : ~IsTerminal(h, j)
  /\ outcome = "fallback" =>
       \A i \in DOMAIN history : \A j \in DOMAIN history[i].calls : ~IsTerminal(i, j)

(* Once a comment is out (acknowledged or printed) the review infers no      *)
(* more, sends no other comment and returns without an error.                *)
CommittedIsFinal ==
  [][acked \/ printed > 0 =>
       /\ UNCHANGED <<iter, pending, posts, comments, printed>>
       /\ outcome' \in {outcome, "submitted", "fallback"}
       /\ pc' \in {pc, "done"}]_vars

(* Every review ends: the iterations are bounded, and so is each response. *)
Termination == <>(pc = "done")

(* The loop keeps the promise of a review. *)
Verdict == IF pc # "done" THEN "running"
           ELSE IF outcome = "error" THEN "failure" ELSE "success"
Promise == INSTANCE Review WITH verdict <- Verdict
KeepsPromise == Promise!Spec

(* What design/HIGH_LEVEL_DESIGN.md:115-119 says of a tool that fails: its   *)
(* error is the content of the tool message and the loop goes on.            *)
ToolErrorsReachTheLLM ==
  outcome = "error" /\ history[Len(history)].role = "tool" => call.name \notin ReadTools
=============================================================================
