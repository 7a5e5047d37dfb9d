----------------------------- MODULE AgentProofs -----------------------------
(***************************************************************************)
(* Theorems about Agent for every limit of iterations, every set of tools  *)
(* and every bound on the calls of a response.                             *)
(***************************************************************************)
EXTENDS Agent, TLAPS

USE AgentAssumption DEF AgentAssumption, Breaker, MaxIterations

LEMMA ConcatTyped ==
  ASSUME NEW S, NEW s \in Seq(S), NEW t \in Seq(S) PROVE s \o t \in Seq(S)
OBVIOUS

(* A message built by the loop is a message. *)
LEMMA MessagesTyped ==
  /\ \A role \in {"system", "user", "assistant"}, text \in {NoText, "prompt", "talk", "warning", "breaker"} :
       Message(role, text) \in Messages
  /\ \A calls \in Seq(Calls) : Asks(calls) \in Messages
  /\ \A c \in Calls, text \in {"result", "error"} : Answer(c, text) \in Messages
<1>1. NoId \in Ids /\ <<>> \in Seq(Calls)
  BY DEF NoId, Ids
<1>2. ASSUME NEW c \in Calls PROVE c.id \in Ids
  BY DEF Calls
<1> QED BY <1>1, <1>2 DEF Message, Asks, Answer, Messages

(* The calls of a response, once numbered, are calls. *)
LEMMA ResponseTyped ==
  ASSUME NEW r \in Responses, NEW i \in Nat
  PROVE  [k \in DOMAIN r |-> Call(i, k, r[k])] \in Seq(Calls)
<1>1. PICK n \in 0..MaxCalls : r \in [1..n -> Requests]
  BY DEF Responses
<1>2. ASSUME NEW k \in 1..n PROVE Call(i, k, r[k]) \in Calls
  <2>1. r[k] \in Requests BY <1>1
  <2>2. /\ r[k].name \in Registered \cup UnknownTools
        /\ r[k].args \in {"plain", "label", "bad"}
    BY <2>1 DEF Requests, Registered, TerminalTools
  <2>3. <<i, k>> \in Ids BY DEF Ids
  <2> QED BY <2>2, <2>3 DEF Call, Calls
<1>3. [k \in 1..n |-> Call(i, k, r[k])] \in [1..n -> Calls]
  BY <1>2
<1>4. n \in Nat OBVIOUS
<1>5. [k \in 1..n |-> Call(i, k, r[k])] \in Seq(Calls)
  BY <1>3, <1>4
<1> QED BY <1>1, <1>5

LEMMA HeadTyped ==
  ASSUME TypeOK, pending # <<>>
  PROVE  call \in Calls /\ Tail(pending) \in Seq(Calls)
BY DEF TypeOK, call

LEMMA AnsweredTyped ==
  ASSUME TypeOK, pending # <<>>, NEW text \in {"result", "error"}
  PROVE  Answered(call, text) \in Seq(Messages)
<1>1. Answer(call, text) \in Messages BY HeadTyped, MessagesTyped
<1>2. history \in Seq(Messages) BY DEF TypeOK
<1> QED BY <1>1, <1>2 DEF Answered

LEMMA NextIterationTyped ==
  ASSUME TypeOK, ~InBreaker, NEW h \in Seq(Messages), NextIteration(h)
  PROVE  iter' \in 1..Breaker /\ history' \in Seq(Messages)
<1>1. iter' \in 1..Breaker BY DEF TypeOK, NextIteration, InBreaker
<1>2. Message("user", "breaker") \in Messages BY MessagesTyped
<1> QED BY <1>1, <1>2 DEF NextIteration

THEOREM InitTyped == Init => TypeOK
<1>1. Message("system", "prompt") \in Messages /\ Message("user", "prompt") \in Messages
  BY MessagesTyped
<1>2. <<Message("system", "prompt"), Message("user", "prompt")>> \in Seq(Messages)
  BY <1>1
<1>3. 1 \in 1..Breaker /\ <<>> \in Seq(Calls)
  OBVIOUS
<1>4. Init => history \in Seq(Messages)
  BY <1>2 DEF Init
<1>5. Init => iter \in 1..Breaker /\ pending \in Seq(Calls)
  BY <1>3 DEF Init
<1>6. Init => posts \in Nat /\ comments \in Nat /\ printed \in Nat
  BY DEF Init
<1>7. Init => acked \in BOOLEAN /\ labelled \in BOOLEAN
  BY DEF Init
<1>8. Init => /\ pc \in {"infer", "dispatch", "post", "label", "done"}
              /\ outcome \in {"none", "submitted", "noop", "fallback", "error"}
  BY DEF Init
<1> QED BY <1>4, <1>5, <1>6, <1>7, <1>8, Zenon DEF TypeOK

LEMMA InferTyped == TypeOK /\ Infer => TypeOK'
<1> SUFFICES ASSUME TypeOK, Infer PROVE TypeOK' OBVIOUS
<1>1. CASE InferenceFails
  BY <1>1 DEF TypeOK, InferenceFails, Return, effects
<1>2. CASE InferTalk
  <2>0. PICK text \in {NoText, "talk"} :
          NextIteration(history \o <<Message("assistant", text), Message("user", "warning")>>)
    BY <1>2 DEF InferTalk
  <2> DEFINE h == history \o <<Message("assistant", text), Message("user", "warning")>>
  <2>1. h \in Seq(Messages)
    <3>1. Message("assistant", text) \in Messages /\ Message("user", "warning") \in Messages
      BY MessagesTyped
    <3>2. <<Message("assistant", text), Message("user", "warning")>> \in Seq(Messages)
      BY <3>1
    <3>3. history \in Seq(Messages) BY DEF TypeOK
    <3> QED BY <3>2, <3>3, ConcatTyped, Zenon
  <2>2. NextIteration(h) /\ ~InBreaker BY <1>2, <2>0 DEF InferTalk
  <2>3. iter' \in 1..Breaker /\ history' \in Seq(Messages)
    <3> HIDE DEF h
    <3> QED BY <2>1, <2>2, NextIterationTyped
  <2>4. pc' = "infer" /\ UNCHANGED outcome BY <2>2 DEF NextIteration
  <2> QED BY <1>2, <2>3, <2>4 DEF TypeOK, InferTalk, effects
<1>3. CASE InferCalls
  <2>1. PICK r \in Responses \ {<<>>} :
          LET calls == [k \in DOMAIN r |-> Call(iter, k, r[k])]
          IN  pending' = calls /\ history' = Append(history, Asks(calls))
    BY <1>3 DEF InferCalls
  <2>2. iter \in Nat BY DEF TypeOK
  <2>3. pending' \in Seq(Calls) BY <2>1, <2>2, ResponseTyped
  <2>4. Asks(pending') \in Messages BY <2>3, MessagesTyped
  <2>5. history' \in Seq(Messages) BY <2>1, <2>4 DEF TypeOK
  <2> QED BY <1>3, <2>3, <2>5 DEF TypeOK, InferCalls, effects
<1>4. CASE BreakerTalk
  BY <1>4 DEF TypeOK, BreakerTalk, effects
<1> QED BY <1>1, <1>2, <1>3, <1>4 DEF Infer

LEMMA DispatchTyped == TypeOK /\ Dispatch => TypeOK'
<1> SUFFICES ASSUME TypeOK, Dispatch PROVE TypeOK' OBVIOUS
<1> USE HeadTyped, AnsweredTyped DEF Dispatching
<1>1. CASE UnknownCall BY <1>1 DEF TypeOK, UnknownCall, effects
<1>2. CASE ReadOk BY <1>2 DEF TypeOK, ReadOk, effects
<1>3. CASE ReadFails BY <1>3 DEF TypeOK, ReadFails, Return, effects
<1>4. CASE BreakerSkips BY <1>4 DEF TypeOK, BreakerSkips, effects
<1>5. CASE NoopCall BY <1>5 DEF TypeOK, NoopCall, Return, effects
<1>6. CASE SubmitCall BY <1>6 DEF TypeOK, SubmitCall, Submit, Return, effects
<1>7. CASE SubmitRefused BY <1>7 DEF TypeOK, SubmitRefused, Return, effects
<1>8. CASE EndOfCalls
  <2>1. iter' \in 1..Breaker /\ history' \in Seq(Messages)
    BY <1>8, NextIterationTyped DEF EndOfCalls, TypeOK
  <2> QED BY <1>8, <2>1 DEF TypeOK, EndOfCalls, NextIteration, effects
<1>9. CASE Fallback
  <2>1. history' = history /\ UNCHANGED <<iter, pending, posts, comments, acked, labelled>>
    BY <1>9 DEF Fallback, Submit, effects
  <2>2. /\ pc' \in {"post", "done"}
        /\ outcome' \in {outcome, "fallback"}
        /\ printed' \in {printed, printed + 1}
    BY <1>9 DEF Fallback, Submit, Return, effects
  <2> QED BY <2>1, <2>2 DEF TypeOK
<1> QED BY <1>1, <1>2, <1>3, <1>4, <1>5, <1>6, <1>7, <1>8, <1>9 DEF Dispatch

LEMMA PostTyped == TypeOK /\ Post => TypeOK'
<1> SUFFICES ASSUME TypeOK, Post PROVE TypeOK' OBVIOUS
<1> USE AnsweredTyped DEF IsFallback
<1>1. CASE PostAccepted BY <1>1 DEF TypeOK, PostAccepted, Submitted, Return
<1>2. CASE PostFails BY <1>2 DEF TypeOK, PostFails, Return
<1>3. CASE AddLabel BY <1>3 DEF TypeOK, AddLabel, Submitted, Return
<1> QED BY <1>1, <1>2, <1>3 DEF Post

LEMMA StepTyped == TypeOK /\ [Next]_vars => TypeOK'
<1> SUFFICES ASSUME TypeOK, [Next]_vars PROVE TypeOK' OBVIOUS
<1>1. CASE Infer BY <1>1, InferTyped
<1>2. CASE Dispatch BY <1>2, DispatchTyped
<1>3. CASE Post BY <1>3, PostTyped
<1>4. CASE UNCHANGED vars BY <1>4 DEF TypeOK, vars
<1> QED BY <1>1, <1>2, <1>3, <1>4 DEF Next, Finished

(* Every variable of a review keeps its type: above all, the history is a    *)
(* sequence of well-built messages and the inference number never passes the *)
(* one of the circuit breaker.                                               *)
THEOREM TypeCorrect == Spec => []TypeOK
BY InitTyped, StepTyped, PTL DEF Spec
-----------------------------------------------------------------------------
(***************************************************************************)
(* What has happened outside, phase by phase.  Nothing before the comment  *)
(* is posted; once GitHub has acknowledged it only the label is left; and  *)
(* a finished review keeps what OutcomeMatchesEffects, AtMostOneComment    *)
(* and DryRunWritesNothing ask of it.  None of the three is inductive by   *)
(* itself: they say nothing of a comment already out while the review is   *)
(* still at work.                                                          *)
(***************************************************************************)
NothingOut == posts = 0 /\ comments = 0 /\ ~acked /\ ~labelled /\ printed = 0

EffectsInv ==
  /\ pc \in {"infer", "dispatch", "post"} => NothingOut /\ outcome = "none"
  /\ pc = "post" => ~DryRun
  /\ pc = "label" => /\ ~DryRun /\ outcome = "none"
                     /\ posts = 1 /\ comments = 1 /\ acked /\ ~labelled /\ printed = 0
  /\ pc = "done" => /\ outcome # "none"
                    /\ OutcomeMatchesEffects /\ AtMostOneComment /\ DryRunWritesNothing

LEMMA InferEffects == TypeOK /\ EffectsInv /\ Infer => EffectsInv'
<1> SUFFICES ASSUME TypeOK, EffectsInv, Infer PROVE EffectsInv' OBVIOUS
<1>1. pc = "infer" /\ NothingOut /\ outcome = "none" /\ UNCHANGED effects
  BY DEF EffectsInv, Infer, InferenceFails, InferTalk, InferCalls, BreakerTalk
<1>2. NothingOut' BY <1>1 DEF NothingOut, effects
<1>3. \/ pc' \in {"infer", "dispatch"} /\ outcome' = "none"
      \/ pc' = "done" /\ outcome' = "error"
  BY <1>1 DEF Infer, InferenceFails, InferTalk, InferCalls, BreakerTalk, NextIteration, Return
<1> QED BY <1>2, <1>3 DEF EffectsInv, NothingOut, OutcomeMatchesEffects, AtMostOneComment,
                         DryRunWritesNothing

LEMMA DispatchEffects == TypeOK /\ EffectsInv /\ Dispatch => EffectsInv'
<1> SUFFICES ASSUME TypeOK, EffectsInv, Dispatch PROVE EffectsInv' OBVIOUS
<1>1. pc = "dispatch" /\ NothingOut /\ outcome = "none"
  BY DEF EffectsInv, Dispatch, Dispatching, UnknownCall, ReadOk, ReadFails, BreakerSkips,
         NoopCall, SubmitCall, SubmitRefused, EndOfCalls, Fallback
<1>2. ASSUME UNCHANGED effects,
             \/ pc' \in {"infer", "dispatch"} /\ outcome' = "none"
             \/ pc' = "done" /\ outcome' \in {"error", "noop"}
      PROVE  EffectsInv'
  <2>1. NothingOut' BY <1>1, <1>2 DEF NothingOut, effects
  <2> QED BY <1>2, <2>1 DEF EffectsInv, NothingOut, OutcomeMatchesEffects, AtMostOneComment,
                           DryRunWritesNothing
<1>3. ASSUME NEW args, NEW o \in {"submitted", "fallback"}, NEW h, Submit(args, o, h)
      PROVE  EffectsInv'
  <2>1. CASE DryRun
    <3>1. /\ pc' = "done" /\ outcome' = o /\ printed' = 1
          /\ posts' = 0 /\ comments' = 0 /\ ~acked' /\ ~labelled'
      BY <1>1, <1>3, <2>1 DEF Submit, Return, NothingOut
    <3> QED BY <2>1, <3>1 DEF EffectsInv, OutcomeMatchesEffects, AtMostOneComment,
                             DryRunWritesNothing
  <2>2. CASE ~DryRun
    <3>1. pc' = "post" /\ outcome' = "none" /\ UNCHANGED effects
      BY <1>1, <1>3, <2>2 DEF Submit
    <3>2. NothingOut' BY <1>1, <3>1 DEF NothingOut, effects
    <3> QED BY <2>2, <3>1, <3>2 DEF EffectsInv
  <2> QED BY <2>1, <2>2
<1>4. CASE SubmitCall BY <1>3, <1>4 DEF SubmitCall
<1>5. CASE Fallback BY <1>3, <1>5 DEF Fallback
<1>6. CASE UnknownCall \/ ReadOk \/ ReadFails \/ BreakerSkips \/ NoopCall
             \/ SubmitRefused \/ EndOfCalls
  BY <1>1, <1>2, <1>6 DEF UnknownCall, ReadOk, ReadFails, BreakerSkips, NoopCall,
         SubmitRefused, EndOfCalls, NextIteration, Return
<1> QED BY <1>4, <1>5, <1>6 DEF Dispatch

LEMMA PostEffects == TypeOK /\ EffectsInv /\ Post => EffectsInv'
<1> SUFFICES ASSUME TypeOK, EffectsInv, Post PROVE EffectsInv' OBVIOUS
<1> USE DEF OutcomeMatchesEffects, AtMostOneComment, DryRunWritesNothing
<1>1. CASE PostAccepted
  <2>1. /\ ~DryRun /\ posts' = 1 /\ comments' = 1 /\ acked' /\ ~labelled' /\ printed' = 0
    BY <1>1 DEF EffectsInv, PostAccepted, NothingOut
  <2>2. \/ pc' = "label" /\ outcome' = "none"
        \/ pc' = "done" /\ outcome' \in {"submitted", "fallback"}
    BY <1>1 DEF EffectsInv, PostAccepted, Submitted, Return
  <2> QED BY <2>1, <2>2 DEF EffectsInv
<1>2. CASE PostFails
  <2>1. /\ ~DryRun /\ posts' = 1 /\ comments' \in {0, 1} /\ ~acked' /\ ~labelled' /\ printed' = 0
    BY <1>2 DEF EffectsInv, PostFails, NothingOut
  <2>2. pc' = "done" /\ outcome' = "error"
    BY <1>2 DEF PostFails, Return
  <2> QED BY <2>1, <2>2 DEF EffectsInv
<1>3. CASE AddLabel
  <2>1. ~DryRun /\ posts' = 1 /\ comments' = 1 /\ acked' /\ printed' = 0
    BY <1>3 DEF EffectsInv, AddLabel
  <2>2. pc' = "done" /\ outcome' \in {"submitted", "fallback"}
    BY <1>3 DEF AddLabel, Submitted, Return
  <2> QED BY <2>1, <2>2 DEF EffectsInv
<1> QED BY <1>1, <1>2, <1>3 DEF Post

LEMMA FinishedEffects == TypeOK /\ EffectsInv /\ UNCHANGED vars => EffectsInv'
BY DEF EffectsInv, NothingOut, OutcomeMatchesEffects, AtMostOneComment, DryRunWritesNothing, vars

LEMMA InitEffects == Init => EffectsInv
BY DEF Init, EffectsInv, NothingOut

LEMMA StepEffects == TypeOK /\ EffectsInv /\ [Next]_vars => EffectsInv'
BY InferEffects, DispatchEffects, PostEffects, FinishedEffects DEF Next, Finished

LEMMA EffectsInvariant == Spec => []EffectsInv
BY InitEffects, StepEffects, TypeCorrect, PTL DEF Spec

LEMMA EffectsImply ==
  EffectsInv /\ TypeOK => OutcomeMatchesEffects /\ AtMostOneComment /\ DryRunWritesNothing
BY DEF EffectsInv, TypeOK, NothingOut, OutcomeMatchesEffects, AtMostOneComment, DryRunWritesNothing

(* The outcome that Run returns is the truth about the pull request; an      *)
(* error (the server asks for a retry) excludes an acknowledged comment.     *)
THEOREM OutcomeIsTrue == Spec => []OutcomeMatchesEffects
BY EffectsInvariant, EffectsImply, TypeCorrect, PTL

(* No review sends two comment requests, however many terminal calls its     *)
(* responses hold, and none labels a PR before its comment.                  *)
THEOREM OneComment == Spec => []AtMostOneComment
BY EffectsInvariant, EffectsImply, TypeCorrect, PTL

(* Dry-run mode never writes to GitHub. *)
THEOREM DryRunIsSilent == Spec => []DryRunWritesNothing
BY EffectsInvariant, EffectsImply, TypeCorrect, PTL

(* A comment that is out is the last thing a review does, but for the label. *)
THEOREM CommittedStaysFinal == Spec => CommittedIsFinal
<1>1. TypeOK /\ EffectsInv /\ [Next]_vars =>
        [acked \/ printed > 0 =>
           /\ UNCHANGED <<iter, pending, posts, comments, printed>>
           /\ outcome' \in {outcome, "submitted", "fallback"}
           /\ pc' \in {pc, "done"}]_vars
  <2> SUFFICES ASSUME TypeOK, EffectsInv, Next, acked \/ printed > 0
               PROVE  /\ UNCHANGED <<iter, pending, posts, comments, printed>>
                      /\ outcome' \in {outcome, "submitted", "fallback"}
                      /\ pc' \in {pc, "done"}
    OBVIOUS
  <2>1. pc \in {"label", "done"}
    BY DEF TypeOK, EffectsInv, NothingOut
  <2>2. AddLabel \/ Finished
    BY <2>1 DEF Next, Infer, Dispatch, Post, Dispatching, InferenceFails, InferTalk, InferCalls,
           BreakerTalk, UnknownCall, ReadOk, ReadFails, BreakerSkips, NoopCall, SubmitCall,
           SubmitRefused, EndOfCalls, Fallback, PostAccepted, PostFails
  <2> QED BY <2>2 DEF AddLabel, Submitted, Return, Finished, vars
<1> QED BY <1>1, TypeCorrect, EffectsInvariant, PTL DEF Spec, CommittedIsFinal
-----------------------------------------------------------------------------
LEMMA PromiseInit == Init => Promise!Init
BY DEF Init, Promise!Init, Verdict

LEMMA PromiseStep == TypeOK /\ EffectsInv /\ EffectsInv' /\ [Next]_vars => [Promise!Next]_(Promise!vars)
<1> SUFFICES ASSUME TypeOK, EffectsInv, EffectsInv', [Next]_vars
             PROVE  [Promise!Next]_(Promise!vars)
  OBVIOUS
<1>1. CASE Infer \/ Dispatch
  <2>1. /\ pc \in {"infer", "dispatch"} /\ NothingOut
        /\ UNCHANGED <<comments, acked>>
    BY <1>1 DEF EffectsInv, Infer, Dispatch, Dispatching, InferenceFails, InferTalk, InferCalls,
           BreakerTalk, UnknownCall, ReadOk, ReadFails, BreakerSkips, NoopCall, SubmitCall,
           SubmitRefused, EndOfCalls, Fallback, Submit, effects
  <2>2. Verdict = "running" /\ Verdict' \in {"running", "success", "failure"}
    BY <2>1 DEF Verdict
  <2> QED BY <2>1, <2>2 DEF Promise!Next, Promise!Fail, Promise!Succeed, Promise!vars, NothingOut
<1>2. CASE PostAccepted
  <2>1. Verdict = "running" /\ comments = 0 /\ comments' = 1 /\ acked' = TRUE
    BY <1>2 DEF Verdict, EffectsInv, PostAccepted, NothingOut
  <2>2. Verdict' \in {"running", "success"}
    BY <1>2 DEF Verdict, PostAccepted, Submitted, Return
  <2> QED BY <2>1, <2>2 DEF Promise!Next, Promise!Comment, Promise!Succeed
<1>3. CASE PostFails
  <2>1. /\ Verdict = "running" /\ Verdict' = "failure"
        /\ comments = 0 /\ comments' \in {0, 1} /\ ~acked /\ UNCHANGED acked
    BY <1>3 DEF Verdict, EffectsInv, PostFails, Return, NothingOut
  <2> QED BY <2>1 DEF Promise!Next, Promise!LoseAnswer, Promise!Fail
<1>4. CASE AddLabel
  <2>1. Verdict = "running" /\ Verdict' = "success" /\ UNCHANGED <<comments, acked>>
    BY <1>4 DEF Verdict, AddLabel, Submitted, Return
  <2> QED BY <2>1 DEF Promise!Next, Promise!Succeed
<1>5. CASE UNCHANGED vars
  BY <1>5 DEF vars, Verdict, Promise!vars
<1> QED BY <1>1, <1>2, <1>3, <1>4, <1>5 DEF Next, Post, Finished

(* The loop implements the abstract review, as far as safety goes. *)
THEOREM ImplementsReview == Spec => Promise!Safety
<1> QED BY PromiseInit, PromiseStep, TypeCorrect, EffectsInvariant, PTL DEF Spec, Promise!Safety
=============================================================================
