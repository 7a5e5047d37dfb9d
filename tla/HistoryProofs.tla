---------------------------- MODULE HistoryProofs ----------------------------
(***************************************************************************)
(* Theorems about the message history a review keeps (module Agent), for   *)
(* every limit of iterations, every set of tools and responses of any      *)
(* length: what the LLM is sent, how often, and whose word decides.        *)
(***************************************************************************)
EXTENDS AgentProofs, FiniteSetTheorems, SequenceTheorems

USE AgentAssumption DEF AgentAssumption, Breaker, MaxIterations

(* Message i of h holds the calls under way, as the last that holds any: its *)
(* first n are settled, p are the others.                                    *)
UnderWay(h, p, i, n) ==
  /\ i \in DOMAIN h /\ h[i].calls # <<>>
  /\ n \in 0..Len(h[i].calls) /\ Len(p) = Len(h[i].calls) - n
  /\ \A k \in DOMAIN p : p[k] = h[i].calls[n + k]
  /\ \A j \in DOMAIN h : j > i => h[j].calls = <<>>

LEMMA AppendIs ==
  ASSUME NEW h \in Seq(Messages), NEW m \in Messages
  PROVE  /\ Append(h, m) \in Seq(Messages)
         /\ Len(Append(h, m)) = Len(h) + 1 /\ Len(h) \in Nat
         /\ DOMAIN Append(h, m) = 1..(Len(h) + 1) /\ DOMAIN h = 1..Len(h)
         /\ \A i \in 1..Len(h) : Append(h, m)[i] = h[i]
         /\ Append(h, m)[Len(h) + 1] = m
OBVIOUS

LEMMA CallsTyped ==
  ASSUME NEW h \in Seq(Messages), NEW i \in DOMAIN h
  PROVE  /\ h[i] \in Messages /\ h[i].calls \in Seq(Calls)
         /\ Len(h[i].calls) \in Nat /\ DOMAIN h[i].calls = 1..Len(h[i].calls)
<1>1. h[i] \in Messages OBVIOUS
<1>2. h[i].calls \in Seq(Calls) BY <1>1 DEF Messages
<1> QED BY <1>1, <1>2

LEMMA UnderWayStarts ==
  ASSUME NEW h \in Seq(Messages), NEW cs \in Seq(Calls), cs # <<>>
  PROVE  UnderWay(Append(h, Asks(cs)), cs, Len(h) + 1, 0)
<1>1. Asks(cs) \in Messages /\ Asks(cs).calls = cs
  BY MessagesTyped DEF Asks
<1>2. Append(h, Asks(cs))[Len(h) + 1].calls = cs
  BY <1>1, AppendIs
<1> QED BY <1>1, <1>2, AppendIs DEF UnderWay

LEMMA UnderWayAppend ==
  ASSUME NEW h \in Seq(Messages), NEW m \in Messages, m.calls = <<>>,
         NEW p \in Seq(Calls), NEW i \in Nat, NEW n \in Nat, UnderWay(h, p, i, n)
  PROVE  UnderWay(Append(h, m), p, i, n)
BY AppendIs DEF UnderWay

LEMMA UnderWaySettle ==
  ASSUME NEW h \in Seq(Messages), NEW p \in Seq(Calls), p # <<>>,
         NEW i \in Nat, NEW n \in Nat, UnderWay(h, p, i, n)
  PROVE  /\ UnderWay(h, Tail(p), i, n + 1)
         /\ n + 1 \in DOMAIN h[i].calls /\ Head(p) = h[i].calls[n + 1]
<1> DEFINE cs == h[i].calls
<1>1. cs \in Seq(Calls) /\ n \in 0..Len(cs) /\ Len(p) = Len(cs) - n
  BY CallsTyped DEF UnderWay
<1>2. \A k \in 1..Len(p) : p[k] = cs[n + k]
  BY DEF UnderWay
<1>3. Len(p) >= 1 /\ Head(p) = p[1] /\ Len(Tail(p)) = Len(p) - 1
  OBVIOUS
<1>4. \A k \in 1..Len(Tail(p)) : Tail(p)[k] = p[k + 1]
  OBVIOUS
<1>5. \A k \in 1..Len(Tail(p)) : Tail(p)[k] = cs[n + 1 + k]
  <2> TAKE k \in 1..Len(Tail(p))
  <2>1. k + 1 \in 1..Len(p) /\ n + (k + 1) = n + 1 + k BY <1>1, <1>3
  <2> QED BY <1>2, <1>4, <2>1
<1>6. n + 1 \in 1..Len(cs) BY <1>1, <1>3
<1>7. DOMAIN Tail(p) = 1..Len(Tail(p)) OBVIOUS
<1>8. UnderWay(h, Tail(p), i, n + 1)
  <2>1. n + 1 \in 0..Len(cs) /\ Len(Tail(p)) = Len(cs) - (n + 1)
    BY <1>1, <1>3, <1>6
  <2>2. \A k \in DOMAIN Tail(p) : Tail(p)[k] = cs[n + 1 + k]
    BY <1>5, <1>7
  <2>3. i \in DOMAIN h /\ cs # <<>> /\ \A j \in DOMAIN h : j > i => h[j].calls = <<>>
    BY DEF UnderWay
  <2> HIDE DEF cs
  <2> QED BY <2>1, <2>2, <2>3, Zenon DEF UnderWay, cs
<1> QED BY <1>1, <1>2, <1>3, <1>6, <1>8
-----------------------------------------------------------------------------
(* What the actions add to the history. *)

(* What is handed back for the call at the head of pending. *)
LEMMA AnswerIs ==
  ASSUME TypeOK, pending # <<>>, NEW text \in {"result", "error"}
  PROVE  \E m \in Messages :
           /\ m.calls = <<>> /\ m.role = "tool" /\ m.text = text /\ m.id = call.id
           /\ Answered(call, text) = IF InBreaker THEN history ELSE Append(history, m)
<1>1. Answer(call, text) \in Messages BY HeadTyped, MessagesTyped
<1> WITNESS Answer(call, text) \in Messages
<1> QED BY DEF Answer, Answered

LEMMA ConcatTwo ==
  ASSUME NEW S, NEW h \in Seq(S), NEW a \in S, NEW w \in S
  PROVE  h \o <<a, w>> = Append(Append(h, a), w)
<1> DEFINE s == h \o <<a, w>>
           t == Append(Append(h, a), w)
<1>1. s \in Seq(S) /\ t \in Seq(S) OBVIOUS
<1>2. Len(s) = Len(h) + 2 /\ Len(t) = Len(h) + 2 /\ Len(h) \in Nat OBVIOUS
<1>3. \A i \in 1..Len(h) : s[i] = h[i] /\ t[i] = h[i] OBVIOUS
<1>4. s[Len(h) + 1] = a /\ s[Len(h) + 2] = w OBVIOUS
<1>5. t[Len(h) + 1] = a /\ t[Len(h) + 2] = w OBVIOUS
<1>6. \A i \in 1..(Len(h) + 2) : s[i] = t[i]
  <2>1. \A i \in 1..(Len(h) + 2) : i \in 1..Len(h) \/ i = Len(h) + 1 \/ i = Len(h) + 2 BY <1>2
  <2> QED BY <1>3, <1>4, <1>5, <2>1
<1> HIDE DEF s, t
<1>7. s = t BY <1>1, <1>2, <1>6, SeqEqual
<1> QED BY <1>7 DEF s, t

LEMMA TalkIs ==
  ASSUME NEW h \in Seq(Messages), NEW text \in {NoText, "talk"}
  PROVE  \E a, w \in Messages :
           /\ a.role = "assistant" /\ a.calls = <<>> /\ a.text = text
           /\ w.role = "user" /\ w.calls = <<>> /\ w.text = "warning"
           /\ h \o <<Message("assistant", text), Message("user", "warning")>> = Append(Append(h, a), w)
<1> DEFINE a == Message("assistant", text)
           w == Message("user", "warning")
<1>1. a \in Messages /\ w \in Messages BY MessagesTyped
<1>2. /\ a.role = "assistant" /\ a.calls = <<>> /\ a.text = text
      /\ w.role = "user" /\ w.calls = <<>> /\ w.text = "warning"
  BY DEF Message
<1> HIDE DEF a, w
<1>3. h \o <<a, w>> = Append(Append(h, a), w)
  BY <1>1, ConcatTwo
<1> USE <1>1
<1> WITNESS a \in Messages, w \in Messages
<1> QED BY <1>2, <1>3 DEF a, w

(* The two ways an inference goes on, as steps of the history. *)
LEMMA TalkAdds ==
  ASSUME TypeOK, InferTalk
  PROVE  \E a, w \in Messages :
           /\ a.role = "assistant" /\ a.calls = <<>>
           /\ w.role = "user" /\ w.calls = <<>> /\ w.text = "warning"
           /\ NextIteration(Append(Append(history, a), w))
<1>1. PICK text \in {NoText, "talk"} :
        NextIteration(history \o <<Message("assistant", text), Message("user", "warning")>>)
  BY DEF InferTalk
<1>2. history \in Seq(Messages) BY DEF TypeOK
<1>3. PICK a, w \in Messages :
        /\ a.role = "assistant" /\ a.calls = <<>>
        /\ w.role = "user" /\ w.calls = <<>> /\ w.text = "warning"
        /\ history \o <<Message("assistant", text), Message("user", "warning")>>
             = Append(Append(history, a), w)
  BY <1>2, TalkIs
<1>4. NextIteration(Append(Append(history, a), w)) BY <1>1, <1>3
<1> QED BY <1>3, <1>4

LEMMA CallsAdd ==
  ASSUME TypeOK, InferCalls
  PROVE  /\ pending' \in Seq(Calls) /\ pending' # <<>>
         /\ Asks(pending') \in Messages
         /\ history' = Append(history, Asks(pending'))
<1>1. PICK r \in Responses \ {<<>>} :
        LET calls == [k \in DOMAIN r |-> Call(iter, k, r[k])]
        IN  pending' = calls /\ history' = Append(history, Asks(calls))
  BY DEF InferCalls
<1>2. iter \in Nat BY DEF TypeOK
<1>3. pending' \in Seq(Calls) BY <1>1, <1>2, ResponseTyped
<1>4. pending' # <<>>
  <2>1. PICK n \in 0..MaxCalls : r \in [1..n -> Requests] BY DEF Responses
  <2>2. r # <<>> /\ DOMAIN r = 1..n BY <1>1, <2>1
  <2>3. n # 0 BY <2>1, <2>2
  <2>4. DOMAIN (pending') = 1..n /\ 1 \in 1..n BY <1>1, <2>2, <2>3
  <2> QED BY <2>4
<1> QED BY <1>1, <1>3, <1>4, MessagesTyped

-----------------------------------------------------------------------------
(* No call of h ends a review. *)
Silent(h) == \A i \in DOMAIN h : \A k \in DOMAIN h[i].calls : h[i].calls[k].name \notin TerminalTools

(* No call before the pending ones of message i does. *)
SilentUpTo(h, i, n) ==
  /\ \A k \in 1..n : h[i].calls[k].name \notin TerminalTools
  /\ \A g \in 1..(i - 1) : \A k \in DOMAIN h[g].calls : h[g].calls[k].name \notin TerminalTools

(* FirstTerminalDecides speaks of a finished review only.  While one is at   *)
(* work, the head of pending is the first call that could be terminal.       *)
TerminalInv ==
  /\ pc \in {"infer", "dispatch", "post", "label"} =>
       IF pc = "infer" \/ pending = <<>> THEN Silent(history)
       ELSE \E i, n \in Nat : UnderWay(history, pending, i, n) /\ SilentUpTo(history, i, n)
  /\ pc = "infer" => pending = <<>>
  /\ pc \in {"post", "label"} /\ pending # <<>> => call.name = SubmitTool
  /\ pc = "done" => FirstTerminalDecides

LEMMA SilentAppend ==
  ASSUME NEW h \in Seq(Messages), NEW m \in Messages, m.calls = <<>>, Silent(h)
  PROVE  Silent(Append(h, m))
BY AppendIs DEF Silent

LEMMA SilentAppendUpTo ==
  ASSUME NEW h \in Seq(Messages), NEW m \in Messages,
         NEW i \in DOMAIN h, NEW n \in Nat, SilentUpTo(h, i, n)
  PROVE  SilentUpTo(Append(h, m), i, n)
BY AppendIs DEF SilentUpTo

LEMMA SilentStarts ==
  ASSUME NEW h \in Seq(Messages), NEW m \in Messages, Silent(h)
  PROVE  SilentUpTo(Append(h, m), Len(h) + 1, 0)
BY AppendIs DEF Silent, SilentUpTo

(* The next call is settled and was not terminal. *)
LEMMA SilentSettle ==
  ASSUME NEW h \in Seq(Messages), NEW p \in Seq(Calls), p # <<>>, NEW i \in Nat, NEW n \in Nat,
         UnderWay(h, p, i, n), SilentUpTo(h, i, n), Head(p).name \notin TerminalTools
  PROVE  SilentUpTo(h, i, n + 1)
<1>1. h[i].calls[n + 1].name \notin TerminalTools BY UnderWaySettle
<1>2. \A k \in 1..(n + 1) : k \in 1..n \/ k = n + 1 OBVIOUS
<1> QED BY <1>1, <1>2 DEF SilentUpTo

(* All calls are settled and none was terminal. *)
LEMMA SilentEnds ==
  ASSUME NEW h \in Seq(Messages), NEW i \in Nat, NEW n \in Nat,
         UnderWay(h, <<>>, i, n), SilentUpTo(h, i, n)
  PROVE  Silent(h)
<1>1. n = Len(h[i].calls) BY CallsTyped DEF UnderWay
<1> SUFFICES ASSUME NEW j \in DOMAIN h, NEW k \in DOMAIN h[j].calls
             PROVE  h[j].calls[k].name \notin TerminalTools
  BY DEF Silent
<1>2. CASE j < i BY <1>2 DEF SilentUpTo, UnderWay
<1>3. CASE j = i BY <1>1, <1>3, CallsTyped DEF SilentUpTo
<1>4. CASE j > i BY <1>4, CallsTyped DEF UnderWay
<1>5. i \in 1..Len(h) /\ j \in 1..Len(h) BY DEF UnderWay
<1> QED BY <1>2, <1>3, <1>4, <1>5

(* The first terminal call of h is one of tool. *)
Decides(h, tool) ==
  \E i \in DOMAIN h : \E k \in DOMAIN h[i].calls :
    /\ h[i].calls[k].name = tool
    /\ \A j \in 1..(k - 1) : h[i].calls[j].name \notin TerminalTools
    /\ \A g \in 1..(i - 1) : \A j \in DOMAIN h[g].calls : h[g].calls[j].name \notin TerminalTools

LEMMA HeadDecides ==
  ASSUME NEW h \in Seq(Messages), NEW p \in Seq(Calls), p # <<>>, NEW i \in Nat, NEW n \in Nat,
         UnderWay(h, p, i, n), SilentUpTo(h, i, n)
  PROVE  Decides(h, Head(p).name)
<1>1. n + 1 \in DOMAIN h[i].calls /\ Head(p) = h[i].calls[n + 1] BY UnderWaySettle
<1>2. i \in DOMAIN h /\ (n + 1) - 1 = n BY DEF UnderWay
<1> QED BY <1>1, <1>2 DEF Decides, SilentUpTo

LEMMA DecidesAppend ==
  ASSUME NEW h \in Seq(Messages), NEW m \in Messages, NEW tool, Decides(h, tool)
  PROVE  Decides(Append(h, m), tool)
<1>1. PICK i \in DOMAIN h : \E k \in DOMAIN h[i].calls :
        /\ h[i].calls[k].name = tool
        /\ \A j \in 1..(k - 1) : h[i].calls[j].name \notin TerminalTools
        /\ \A g \in 1..(i - 1) : \A j \in DOMAIN h[g].calls : h[g].calls[j].name \notin TerminalTools
  BY DEF Decides
<1>2. i \in DOMAIN Append(h, m) /\ \A g \in 1..i : Append(h, m)[g] = h[g]
  BY AppendIs
<1>3. i \in 1..i /\ 1..(i - 1) \subseteq 1..i BY AppendIs
<1>4. Append(h, m)[i] = h[i] /\ \A g \in 1..(i - 1) : Append(h, m)[g] = h[g]
  BY <1>2, <1>3
<1> QED BY <1>1, <1>2, <1>4 DEF Decides

LEMMA DecisionIs ==
  ASSUME outcome' = "submitted" => Decides(history', SubmitTool),
         outcome' = "noop" => Decides(history', NoopTool),
         outcome' = "fallback" => Silent(history')
  PROVE  FirstTerminalDecides'
BY DEF FirstTerminalDecides, IsTerminal, Decides, Silent, TerminalTools, SubmitTool, NoopTool

(* The states a step can end in, as far as TerminalInv is concerned. *)
LEMMA ErrorDecidesNothing ==
  ASSUME pc' = "done", outcome' = "error" PROVE TerminalInv'
BY DecisionIs DEF TerminalInv

LEMMA FallbackIsDeserved ==
  ASSUME TypeOK, TerminalInv, pc \in {"dispatch", "post", "label"}, pending = <<>>,
         pc' = "done", outcome' = "fallback", history' = history
  PROVE  TerminalInv'
BY DecisionIs DEF TerminalInv

LEMMA HeadIsFirst ==
  ASSUME TypeOK, TerminalInv, pc \in {"dispatch", "post", "label"}, pending # <<>>,
         pc' = "done", NEW text \in {"result", "error"}, history' = Answered(call, text),
         \/ outcome' = "submitted" /\ call.name = SubmitTool
         \/ outcome' = "noop" /\ call.name = NoopTool
  PROVE  TerminalInv'
<1>1. history \in Seq(Messages) /\ pending \in Seq(Calls) BY DEF TypeOK
<1>2. PICK i, n \in Nat : UnderWay(history, pending, i, n) /\ SilentUpTo(history, i, n)
  BY DEF TerminalInv
<1>3. Decides(history, call.name) BY <1>1, <1>2, HeadDecides DEF call
<1>4. Decides(history', call.name) BY <1>1, <1>3, AnswerIs, DecidesAppend
<1>5. FirstTerminalDecides' BY <1>4, DecisionIs
<1> QED BY <1>5 DEF TerminalInv

LEMMA SubmissionGoesOn ==
  ASSUME TerminalInv, pc \in {"dispatch", "post", "label"}, pc' \in {"post", "label"},
         pc = "dispatch" => pending = <<>> \/ call.name = SubmitTool,
         UNCHANGED <<history, pending>>
  PROVE  TerminalInv'
<1>1. IF pending = <<>> THEN Silent(history)
      ELSE \E i, n \in Nat : UnderWay(history, pending, i, n) /\ SilentUpTo(history, i, n)
  BY DEF TerminalInv
<1>2. pending' # <<>> => call' = call /\ call.name = SubmitTool
  BY DEF TerminalInv, call
<1> QED BY <1>1, <1>2 DEF TerminalInv

LEMMA CallIsSettled ==
  ASSUME TypeOK, TerminalInv, pc = "dispatch", pending # <<>>, call.name \notin TerminalTools,
         pc' = "dispatch", pending' = Tail(pending),
         history' = history \/ \E text \in {"result", "error"} : history' = Answered(call, text)
  PROVE  TerminalInv'
<1>1. history \in Seq(Messages) /\ pending \in Seq(Calls) /\ Tail(pending) \in Seq(Calls)
  BY HeadTyped DEF TypeOK
<1>2. PICK i, n \in Nat : UnderWay(history, pending, i, n) /\ SilentUpTo(history, i, n)
  BY DEF TerminalInv
<1>3. UnderWay(history, Tail(pending), i, n + 1) BY <1>1, <1>2, UnderWaySettle
<1>4. SilentUpTo(history, i, n + 1) BY <1>1, <1>2, SilentSettle DEF call
<1>5. n + 1 \in Nat /\ i \in DOMAIN history BY <1>2 DEF UnderWay
<1>6. UnderWay(history', pending', i, n + 1) /\ SilentUpTo(history', i, n + 1)
  <2>1. CASE history' = history BY <1>3, <1>4, <2>1
  <2>2. CASE history' # history
    <3>1. PICK m \in Messages : m.calls = <<>> /\ history' = Append(history, m)
      BY <2>2, AnswerIs
    <3>2. UnderWay(Append(history, m), Tail(pending), i, n + 1)
      BY <1>1, <1>3, <1>5, <3>1, UnderWayAppend
    <3>3. SilentUpTo(Append(history, m), i, n + 1)
      BY <1>1, <1>4, <1>5, SilentAppendUpTo
    <3> QED BY <3>1, <3>2, <3>3
  <2> QED BY <2>1, <2>2
<1>7. history' \in Seq(Messages) BY <1>1, AnsweredTyped
<1>8. pending' = <<>> => Silent(history') BY <1>5, <1>6, <1>7, SilentEnds
<1> QED BY <1>5, <1>6, <1>8 DEF TerminalInv

(* What an inference or the end of the calls adds without a tool call. *)
LEMMA MoreTalk ==
  ASSUME NEW h \in Seq(Messages), Silent(h), NextIteration(h)
  PROVE  Silent(history')
<1>1. Message("user", "breaker") \in Messages /\ Message("user", "breaker").calls = <<>>
  BY MessagesTyped DEF Message
<1> QED BY <1>1, SilentAppend DEF NextIteration

LEMMA TerminalInfer == TypeOK /\ TerminalInv /\ Infer => TerminalInv'
<1> SUFFICES ASSUME TypeOK, TerminalInv, Infer PROVE TerminalInv' OBVIOUS
<1>0. pc = "infer" /\ Silent(history) /\ history \in Seq(Messages)
  BY DEF TypeOK, TerminalInv, Infer, InferenceFails, InferTalk, InferCalls, BreakerTalk
<1>1. CASE InferenceFails
  BY <1>1, ErrorDecidesNothing DEF InferenceFails, Return
<1>2. CASE InferTalk
  <2>1. PICK a, w \in Messages :
          a.calls = <<>> /\ w.calls = <<>> /\ NextIteration(Append(Append(history, a), w))
    BY <1>2, TalkAdds
  <2>2. Append(history, a) \in Seq(Messages) /\ Append(Append(history, a), w) \in Seq(Messages)
    BY <1>0, AppendIs
  <2>3. Silent(Append(Append(history, a), w)) BY <1>0, <2>1, <2>2, SilentAppend
  <2>4. Silent(history') BY <2>1, <2>2, <2>3, MoreTalk
  <2>5. pending' = <<>> /\ pc' = "infer"
    BY <1>0, <1>2, <2>1 DEF TerminalInv, InferTalk, NextIteration
  <2> QED BY <2>4, <2>5 DEF TerminalInv
<1>3. CASE InferCalls
  <2>1. pc' = "dispatch" /\ pending' # <<>> BY <1>3, CallsAdd DEF InferCalls
  <2>2. SilentUpTo(history', Len(history) + 1, 0) BY <1>0, <1>3, CallsAdd, SilentStarts
  <2>3. UnderWay(history', pending', Len(history) + 1, 0)
    BY <1>0, <1>3, CallsAdd, UnderWayStarts
  <2>4. Len(history) + 1 \in Nat /\ 0 \in Nat BY <1>0
  <2> QED BY <2>1, <2>2, <2>3, <2>4 DEF TerminalInv
<1>4. CASE BreakerTalk
  <2>1. Silent(history') /\ pc' = "dispatch" /\ pending' = <<>>
    BY <1>0, <1>4 DEF BreakerTalk, TerminalInv
  <2> QED BY <2>1 DEF TerminalInv
<1> QED BY <1>1, <1>2, <1>3, <1>4 DEF Infer

LEMMA TerminalDispatch == TypeOK /\ TerminalInv /\ Dispatch => TerminalInv'
<1> SUFFICES ASSUME TypeOK, TerminalInv, Dispatch PROVE TerminalInv' OBVIOUS
<1>1. ASSUME NEW names, Dispatching(names), names \cap TerminalTools = {}
      PROVE  pc = "dispatch" /\ pending # <<>> /\ call.name \notin TerminalTools
  BY <1>1 DEF Dispatching
<1>2. CASE UnknownCall \/ ReadOk \/ BreakerSkips
  <2>1. /\ pc' = "dispatch" /\ pending' = Tail(pending)
        /\ history' = history \/ \E text \in {"result", "error"} : history' = Answered(call, text)
        /\ Dispatching(UnknownTools) \/ Dispatching(ReadTools) \/ Dispatching(ReadTools \cup UnknownTools)
    BY <1>2 DEF UnknownCall, ReadOk, BreakerSkips, Dispatching
  <2>2. pc = "dispatch" /\ pending # <<>> /\ call.name \notin TerminalTools
    BY <1>1, <2>1
  <2> QED BY <2>1, <2>2, CallIsSettled
<1>3. CASE ReadFails \/ SubmitRefused
  BY <1>3, ErrorDecidesNothing DEF ReadFails, SubmitRefused, Return
<1>4. CASE NoopCall
  <2>1. pc = "dispatch" /\ pending # <<>> /\ call.name = NoopTool /\ pc' = "done"
    BY <1>4 DEF NoopCall, Dispatching, Return
  <2>2. \/ outcome' = "noop" /\ history' = Answered(call, "result")
        \/ outcome' = "error"
    BY <1>4 DEF NoopCall, Return
  <2> QED BY <2>1, <2>2, HeadIsFirst, ErrorDecidesNothing
<1>5. CASE SubmitCall
  <2>1. pc = "dispatch" /\ pending # <<>> /\ call.name = SubmitTool
    BY <1>5 DEF SubmitCall, Dispatching
  <2>2. \/ pc' = "done" /\ outcome' = "submitted" /\ history' = Answered(call, "result")
        \/ pc' = "post" /\ UNCHANGED <<history, pending>>
    BY <1>5 DEF SubmitCall, Submit, Return
  <2> QED BY <2>1, <2>2, HeadIsFirst, SubmissionGoesOn
<1>6. CASE EndOfCalls
  <2>1. pc = "dispatch" /\ pending = <<>> /\ NextIteration(history) /\ UNCHANGED pending
    BY <1>6 DEF EndOfCalls
  <2>2. history \in Seq(Messages) /\ Silent(history) BY <2>1 DEF TypeOK, TerminalInv
  <2>3. Silent(history') BY <2>1, <2>2, MoreTalk
  <2> QED BY <2>1, <2>3 DEF TerminalInv, NextIteration
<1>7. CASE Fallback
  <2>1. /\ pc = "dispatch" /\ pending = <<>> /\ history' = history
        /\ \/ pc' = "done" /\ outcome' = "fallback"
           \/ pc' = "post" /\ UNCHANGED <<history, pending>>
    BY <1>7 DEF Fallback, Submit, Return
  <2> QED BY <2>1, FallbackIsDeserved, SubmissionGoesOn
<1> QED BY <1>2, <1>3, <1>4, <1>5, <1>6, <1>7 DEF Dispatch

LEMMA TerminalPost == TypeOK /\ TerminalInv /\ Post => TerminalInv'
<1> SUFFICES ASSUME TypeOK, TerminalInv, Post PROVE TerminalInv' OBVIOUS
<1>1. pc \in {"post", "label"} /\ (pending # <<>> => call.name = SubmitTool)
  BY DEF TerminalInv, Post, PostAccepted, PostFails, AddLabel
<1>2. ASSUME Submitted PROVE TerminalInv'
  <2>1. CASE pending = <<>>
    BY <1>1, <1>2, <2>1, FallbackIsDeserved DEF Submitted, Return, IsFallback
  <2>2. CASE pending # <<>>
    BY <1>1, <1>2, <2>2, HeadIsFirst DEF Submitted, Return, IsFallback
  <2> QED BY <2>1, <2>2
<1>3. CASE PostAccepted
  <2>1. Submitted \/ (pc' = "label" /\ UNCHANGED <<history, pending>>)
    BY <1>3 DEF PostAccepted
  <2> QED BY <1>1, <1>2, <2>1, SubmissionGoesOn
<1>4. CASE PostFails
  BY <1>4, ErrorDecidesNothing DEF PostFails, Return
<1>5. CASE AddLabel
  BY <1>2, <1>5 DEF AddLabel
<1> QED BY <1>3, <1>4, <1>5 DEF Post

LEMMA TerminalInit == Init => TerminalInv
<1> SUFFICES ASSUME Init PROVE TerminalInv OBVIOUS
<1>1. \A i \in DOMAIN history : history[i].calls = <<>>
  BY DEF Init, Message
<1> QED BY <1>1 DEF Init, TerminalInv, Silent

LEMMA TerminalStep == TypeOK /\ TerminalInv /\ [Next]_vars => TerminalInv'
<1> SUFFICES ASSUME TypeOK, TerminalInv, [Next]_vars PROVE TerminalInv' OBVIOUS
<1>1. CASE Infer BY <1>1, TerminalInfer
<1>2. CASE Dispatch BY <1>2, TerminalDispatch
<1>3. CASE Post BY <1>3, TerminalPost
<1>4. CASE UNCHANGED vars
  BY <1>4 DEF vars, TerminalInv, FirstTerminalDecides, IsTerminal, call
<1> QED BY <1>1, <1>2, <1>3, <1>4 DEF Next, Finished

LEMMA TerminalInvariant == Spec => []TerminalInv
BY TerminalInit, TerminalStep, TypeCorrect, PTL DEF Spec

(* Whatever the LLM asks for, in how many calls and inferences, its first    *)
(* terminal call is the one that decides the review; the fallback comment is *)
(* for an LLM that made none.                                                *)
THEOREM FirstDecides == Spec => []FirstTerminalDecides
<1>1. EffectsInv /\ TypeOK /\ TerminalInv => FirstTerminalDecides
  <2> SUFFICES ASSUME EffectsInv, TypeOK, TerminalInv, pc # "done" PROVE FirstTerminalDecides
    BY DEF TerminalInv
  <2>1. outcome = "none" BY DEF EffectsInv, TypeOK
  <2> QED BY <2>1 DEF FirstTerminalDecides
<1> QED BY <1>1, TerminalInvariant, TypeCorrect, EffectsInvariant, PTL
-----------------------------------------------------------------------------
(* Call k of message i has its answer in its place. *)
Settled(h, i, k) == /\ i + k \in DOMAIN h
                    /\ h[i + k].role = "tool" /\ h[i + k].id = h[i].calls[k].id

(* What holds of every message at any time. *)
Ordered(h) ==
  /\ h # <<>> /\ h[1].role = "system"
  /\ \A j \in DOMAIN h : h[j].role = "tool" =>
       \E i \in 1..(j - 1) : j - i \in DOMAIN h[i].calls
  /\ \A j \in DOMAIN h : h[j].role = "assistant" /\ h[j].text = NoText /\ h[j].calls = <<>> =>
       j + 1 \in DOMAIN h /\ h[j + 1].role = "user"

AllSettled(h) == \A j \in DOMAIN h : \A k \in DOMAIN h[j].calls : Settled(h, j, k)

(* All calls are settled but those of message i behind its first n. *)
SettledBut(h, i, n) ==
  \A j \in DOMAIN h : \A k \in DOMAIN h[j].calls : (j = i => k <= n) => Settled(h, j, k)

(* WellFormedRequest speaks of the moments of inference only.  In between,   *)
(* all calls have their answers but the pending ones.                        *)
ReplyInv ==
  /\ pc = "infer" =>
       /\ Ordered(history)
       /\ history[Len(history)].role \in {"user", "tool"}
       /\ AllSettled(history)
  /\ pc = "dispatch" /\ ~InBreaker =>
       /\ Ordered(history)
       /\ \E i, n \in Nat : /\ UnderWay(history, pending, i, n) /\ Len(history) = i + n
                            /\ SettledBut(history, i, n)

(* A message keeps the order unless it answers nothing or is an empty answer *)
(* of the LLM.                                                               *)
LEMMA OrderedAppend ==
  ASSUME NEW h \in Seq(Messages), NEW m \in Messages, Ordered(h),
         m.role = "tool" => \E i \in 1..Len(h) : (Len(h) + 1) - i \in DOMAIN h[i].calls,
         m.role = "assistant" => m.calls # <<>>
  PROVE  Ordered(Append(h, m))
<1> DEFINE g == Append(h, m)
<1>1. /\ DOMAIN g = 1..(Len(h) + 1) /\ DOMAIN h = 1..Len(h) /\ Len(h) \in Nat
      /\ \A i \in 1..Len(h) : g[i] = h[i]
      /\ g[Len(h) + 1] = m
  BY AppendIs
<1> HIDE DEF g
<1>2. Len(h) >= 1 BY DEF Ordered
<1>3. g # <<>> /\ g[1].role = "system" BY <1>1, <1>2 DEF Ordered
<1>4. ASSUME NEW j \in 1..(Len(h) + 1), g[j].role = "tool"
      PROVE  \E i \in 1..(j - 1) : j - i \in DOMAIN g[i].calls
  <2>1. \E i \in 1..(j - 1) : j - i \in DOMAIN h[i].calls
    <3>1. CASE j \in 1..Len(h) BY <1>1, <1>4, <3>1 DEF Ordered
    <3>2. CASE j = Len(h) + 1 BY <1>1, <1>4, <3>2
    <3> QED BY <1>1, <3>1, <3>2
  <2>2. \A i \in 1..(j - 1) : g[i] = h[i] BY <1>1
  <2> QED BY <2>1, <2>2
<1>5. ASSUME NEW j \in 1..(Len(h) + 1), g[j].role = "assistant", g[j].text = NoText, g[j].calls = <<>>
      PROVE  j + 1 \in 1..(Len(h) + 1) /\ g[j + 1].role = "user"
  <2>1. j \in 1..Len(h) /\ g[j] = h[j] BY <1>1, <1>5
  <2>2. j + 1 \in 1..Len(h) /\ h[j + 1].role = "user" BY <1>1, <1>5, <2>1 DEF Ordered
  <2> QED BY <1>1, <2>2
<1>6. Ordered(g) BY <1>1, <1>3, <1>4, <1>5 DEF Ordered
<1> QED BY <1>6 DEF g

(* An empty answer with the warning behind it. *)
LEMMA OrderedTalk ==
  ASSUME NEW h \in Seq(Messages), NEW a \in Messages, NEW w \in Messages, Ordered(h),
         a.role = "assistant", w.role = "user"
  PROVE  Ordered(Append(Append(h, a), w))
<1> DEFINE g == Append(Append(h, a), w)
<1>1. /\ DOMAIN g = 1..(Len(h) + 2) /\ DOMAIN h = 1..Len(h) /\ Len(h) \in Nat
      /\ \A i \in 1..Len(h) : g[i] = h[i]
      /\ g[Len(h) + 1] = a /\ g[Len(h) + 2] = w
  BY AppendIs
<1> HIDE DEF g
<1>2. Len(h) >= 1 BY DEF Ordered
<1>3. g # <<>> /\ g[1].role = "system" BY <1>1, <1>2 DEF Ordered
<1>4. ASSUME NEW j \in 1..(Len(h) + 2), g[j].role = "tool"
      PROVE  \E i \in 1..(j - 1) : j - i \in DOMAIN g[i].calls
  <2>1. j \in 1..Len(h) /\ g[j] = h[j] BY <1>1, <1>4
  <2>2. \E i \in 1..(j - 1) : j - i \in DOMAIN h[i].calls BY <1>1, <1>4, <2>1 DEF Ordered
  <2>3. \A i \in 1..(j - 1) : g[i] = h[i] BY <1>1, <2>1
  <2> QED BY <2>2, <2>3
<1>5. ASSUME NEW j \in 1..(Len(h) + 2), g[j].role = "assistant", g[j].text = NoText, g[j].calls = <<>>
      PROVE  j + 1 \in 1..(Len(h) + 2) /\ g[j + 1].role = "user"
  <2>1. CASE j \in 1..Len(h)
    <3>1. j + 1 \in 1..Len(h) /\ h[j + 1].role = "user" BY <1>1, <1>5, <2>1 DEF Ordered
    <3> QED BY <1>1, <3>1
  <2>2. CASE j = Len(h) + 1 BY <1>1, <2>2
  <2>3. j # Len(h) + 2 BY <1>1, <1>5
  <2> QED BY <1>1, <2>1, <2>2, <2>3
<1>6. Ordered(g) BY <1>1, <1>3, <1>4, <1>5 DEF Ordered
<1> QED BY <1>6 DEF g

(* What is settled stays so. *)
LEMMA SettledAppend ==
  ASSUME NEW h \in Seq(Messages), NEW m \in Messages,
         NEW j \in DOMAIN h, NEW k \in Nat, Settled(h, j, k)
  PROVE  Settled(Append(h, m), j, k)
BY AppendIs DEF Settled

LEMMA AllSettledAppend ==
  ASSUME NEW h \in Seq(Messages), NEW m \in Messages, m.calls = <<>>, AllSettled(h)
  PROVE  AllSettled(Append(h, m))
<1> SUFFICES ASSUME NEW j \in DOMAIN Append(h, m), NEW k \in DOMAIN Append(h, m)[j].calls
             PROVE  Settled(Append(h, m), j, k)
  BY DEF AllSettled
<1>1. j \in DOMAIN h /\ Append(h, m)[j] = h[j] BY AppendIs
<1>2. k \in Nat BY <1>1, CallsTyped
<1> QED BY <1>1, <1>2, SettledAppend DEF AllSettled

LEMMA SettledStarts ==
  ASSUME NEW h \in Seq(Messages), NEW m \in Messages, AllSettled(h)
  PROVE  SettledBut(Append(h, m), Len(h) + 1, 0)
<1> SUFFICES ASSUME NEW j \in DOMAIN Append(h, m), NEW k \in DOMAIN Append(h, m)[j].calls,
                    (j = Len(h) + 1) => k <= 0
             PROVE  Settled(Append(h, m), j, k)
  BY DEF SettledBut
<1>0. Append(h, m) \in Seq(Messages) BY AppendIs
<1>1. k \in Nat \ {0}
  <2> DEFINE g == Append(h, m)
  <2>1. g \in Seq(Messages) /\ j \in DOMAIN g /\ k \in DOMAIN g[j].calls BY <1>0
  <2> HIDE DEF g
  <2>2. DOMAIN g[j].calls = 1..Len(g[j].calls) /\ Len(g[j].calls) \in Nat BY <2>1, CallsTyped
  <2> QED BY <2>1, <2>2
<1>2. j \in DOMAIN h /\ Append(h, m)[j] = h[j] BY <1>1, AppendIs
<1> QED BY <1>1, <1>2, SettledAppend DEF AllSettled

(* The answer to call n + 1 of message i, in its place. *)
LEMMA SettledNext ==
  ASSUME NEW h \in Seq(Messages), NEW m \in Messages, m.calls = <<>>, m.role = "tool",
         NEW i \in DOMAIN h, NEW n \in Nat, n + 1 \in DOMAIN h[i].calls,
         m.id = h[i].calls[n + 1].id, Len(h) = i + n, SettledBut(h, i, n)
  PROVE  SettledBut(Append(h, m), i, n + 1)
<1> SUFFICES ASSUME NEW j \in DOMAIN Append(h, m), NEW k \in DOMAIN Append(h, m)[j].calls,
                    (j = i) => k <= n + 1
             PROVE  Settled(Append(h, m), j, k)
  BY DEF SettledBut
<1>1. j \in DOMAIN h /\ Append(h, m)[j] = h[j] BY AppendIs
<1>2. k \in Nat BY <1>1, CallsTyped
<1>3. CASE j = i /\ k = n + 1
  <2>1. j + k = Len(h) + 1 BY <1>3
  <2> QED BY <1>1, <1>3, <2>1, AppendIs DEF Settled
<1>4. CASE ~(j = i /\ k = n + 1)
  <2>1. (j = i) => k <= n BY <1>2, <1>4
  <2>2. Settled(h, j, k) BY <1>1, <2>1 DEF SettledBut
  <2> QED BY <1>1, <1>2, <2>2, SettledAppend
<1> QED BY <1>3, <1>4

(* Every call has its answer, the last of them at the end of the history. *)
LEMMA SettledEnds ==
  ASSUME NEW h \in Seq(Messages), NEW i \in Nat, NEW n \in Nat,
         UnderWay(h, <<>>, i, n), Len(h) = i + n, SettledBut(h, i, n)
  PROVE  AllSettled(h) /\ h[Len(h)].role = "tool"
<1>1. i \in DOMAIN h /\ n = Len(h[i].calls) /\ h[i].calls # <<>>
  BY CallsTyped DEF UnderWay
<1>2. n \in DOMAIN h[i].calls BY <1>1, CallsTyped
<1>3. AllSettled(h) BY <1>1, CallsTyped DEF SettledBut, AllSettled
<1>4. Settled(h, i, n) BY <1>1, <1>2, <1>3 DEF AllSettled
<1> QED BY <1>3, <1>4 DEF Settled

(* A history that is complete is sent as it is or with the breaker's prompt. *)
LEMMA ReplyNext ==
  ASSUME NEW h \in Seq(Messages), Ordered(h), AllSettled(h), h[Len(h)].role \in {"user", "tool"},
         NextIteration(h)
  PROVE  ReplyInv'
<1> DEFINE b == Message("user", "breaker")
<1>1. b \in Messages /\ b.role = "user" /\ b.calls = <<>>
  BY MessagesTyped DEF Message
<1>2. pc' = "infer" /\ history' \in {h, Append(h, b)} BY DEF NextIteration
<1> HIDE DEF b
<1>3. Ordered(history') /\ AllSettled(history')
  BY <1>1, <1>2, OrderedAppend, AllSettledAppend
<1>4. history'[Len(history')].role \in {"user", "tool"} BY <1>1, <1>2, AppendIs
<1> QED BY <1>2, <1>3, <1>4 DEF ReplyInv

LEMMA ReplyInfer == TypeOK /\ ReplyInv /\ Infer => ReplyInv'
<1> SUFFICES ASSUME TypeOK, ReplyInv, Infer PROVE ReplyInv' OBVIOUS
<1>0. /\ history \in Seq(Messages) /\ Ordered(history) /\ AllSettled(history) /\ iter \in Nat
  BY DEF TypeOK, ReplyInv, Infer, InferenceFails, InferTalk, InferCalls, BreakerTalk
<1>1. CASE InferenceFails BY <1>1 DEF InferenceFails, Return, ReplyInv
<1>2. CASE InferTalk
  <2>1. PICK a, w \in Messages :
          /\ a.role = "assistant" /\ a.calls = <<>> /\ w.role = "user" /\ w.calls = <<>>
          /\ NextIteration(Append(Append(history, a), w))
    BY <1>2, TalkAdds
  <2> DEFINE h == Append(Append(history, a), w)
  <2>2. Append(history, a) \in Seq(Messages) /\ h \in Seq(Messages)
    BY <1>0, AppendIs
  <2>3. AllSettled(h) BY <1>0, <2>1, <2>2, AllSettledAppend
  <2>4. Ordered(h) BY <1>0, <2>1, OrderedTalk
  <2>5. h[Len(h)].role = "user" BY <2>1, <2>2, AppendIs
  <2> HIDE DEF h
  <2>6. NextIteration(h) BY <2>1 DEF h
  <2> QED BY <2>2, <2>3, <2>4, <2>5, <2>6, ReplyNext
<1>3. CASE InferCalls
  <2>1. pc' = "dispatch" /\ history' = Append(history, Asks(pending'))
    BY <1>3, CallsAdd DEF InferCalls
  <2>2. /\ pending' # <<>> /\ Asks(pending') \in Messages
        /\ Asks(pending').role = "assistant" /\ Asks(pending').calls = pending'
    BY <1>3, CallsAdd DEF Asks
  <2>3. Ordered(history') BY <1>0, <2>1, <2>2, OrderedAppend
  <2>4. UnderWay(history', pending', Len(history) + 1, 0)
    BY <1>0, <1>3, CallsAdd, UnderWayStarts
  <2>5. SettledBut(history', Len(history) + 1, 0) BY <1>0, <2>1, <2>2, SettledStarts
  <2>6. Len(history) + 1 \in Nat /\ 0 \in Nat /\ Len(history') = (Len(history) + 1) + 0
    BY <1>0, <2>1, <2>2, AppendIs
  <2> QED BY <2>1, <2>3, <2>4, <2>5, <2>6 DEF ReplyInv
<1>4. CASE BreakerTalk
  BY <1>4 DEF BreakerTalk, InBreaker, ReplyInv
<1> QED BY <1>1, <1>2, <1>3, <1>4 DEF Infer

(* A call that is settled before the breaker is answered in its place. *)
LEMMA CallIsAnswered ==
  ASSUME TypeOK, ReplyInv, pc = "dispatch", ~InBreaker, pending # <<>>,
         pc' = "dispatch", iter' = iter, pending' = Tail(pending),
         NEW text \in {"result", "error"}, history' = Answered(call, text)
  PROVE  ReplyInv'
<1>1. history \in Seq(Messages) /\ pending \in Seq(Calls) /\ Tail(pending) \in Seq(Calls)
  BY HeadTyped DEF TypeOK
<1>2. PICK m \in Messages : /\ m.calls = <<>> /\ m.role = "tool" /\ m.id = call.id
                            /\ history' = Append(history, m)
  BY AnswerIs
<1>3. PICK i, n \in Nat : /\ UnderWay(history, pending, i, n) /\ Len(history) = i + n
                          /\ SettledBut(history, i, n)
  BY DEF ReplyInv
<1>4. /\ UnderWay(history, Tail(pending), i, n + 1)
      /\ n + 1 \in DOMAIN history[i].calls /\ call = history[i].calls[n + 1]
  BY <1>1, <1>3, UnderWaySettle DEF call
<1>5. n + 1 \in Nat /\ i \in DOMAIN history /\ i \in 1..Len(history)
  BY <1>1, <1>3 DEF UnderWay
<1>6. UnderWay(history', pending', i, n + 1) BY <1>1, <1>2, <1>4, <1>5, UnderWayAppend
<1>7. SettledBut(history', i, n + 1) BY <1>1, <1>2, <1>3, <1>4, <1>5, SettledNext
<1>8. Ordered(history')
  <2>1. (Len(history) + 1) - i = n + 1 BY <1>3
  <2>2. Ordered(history) BY DEF ReplyInv
  <2> QED BY <1>1, <1>2, <1>4, <1>5, <2>1, <2>2, OrderedAppend
<1>9. Len(history') = i + (n + 1) BY <1>1, <1>2, <1>3, AppendIs
<1> QED BY <1>5, <1>6, <1>7, <1>8, <1>9 DEF ReplyInv

LEMMA ReplyDispatch == TypeOK /\ ReplyInv /\ Dispatch => ReplyInv'
<1> SUFFICES ASSUME TypeOK, ReplyInv, Dispatch PROVE ReplyInv' OBVIOUS
<1>1. CASE UnknownCall \/ ReadOk
  BY <1>1, CallIsAnswered DEF UnknownCall, ReadOk, Dispatching
<1>2. CASE BreakerSkips
  BY <1>2 DEF BreakerSkips, Dispatching, InBreaker, ReplyInv
<1>3. CASE ReadFails \/ NoopCall \/ SubmitCall \/ SubmitRefused \/ Fallback
  <2>1. pc' \in {"done", "post"}
    BY <1>3 DEF ReadFails, NoopCall, SubmitCall, SubmitRefused, Fallback, Submit, Return
  <2> QED BY <2>1 DEF ReplyInv
<1>4. CASE EndOfCalls
  <2>1. pending = <<>> /\ NextIteration(history) /\ pc = "dispatch" /\ ~InBreaker
    BY <1>4 DEF EndOfCalls
  <2>2. PICK i, n \in Nat : /\ UnderWay(history, <<>>, i, n) /\ Len(history) = i + n
                            /\ SettledBut(history, i, n)
    BY <2>1 DEF ReplyInv
  <2>3. history \in Seq(Messages) /\ Ordered(history) BY <2>1 DEF TypeOK, ReplyInv
  <2>4. AllSettled(history) /\ history[Len(history)].role = "tool"
    BY <2>2, <2>3, SettledEnds
  <2> QED BY <2>1, <2>3, <2>4, ReplyNext
<1> QED BY <1>1, <1>2, <1>3, <1>4 DEF Dispatch

LEMMA ReplyPost == Post => ReplyInv'
<1> SUFFICES ASSUME Post PROVE ReplyInv' OBVIOUS
<1>1. pc' \in {"label", "done"}
  BY DEF Post, PostAccepted, PostFails, AddLabel, Submitted, Return
<1> QED BY <1>1 DEF ReplyInv

LEMMA ReplyInit == Init => ReplyInv
<1> SUFFICES ASSUME Init PROVE ReplyInv OBVIOUS
<1>1. /\ pc = "infer" /\ DOMAIN history = 1..2 /\ Len(history) = 2 /\ history # <<>>
      /\ history[1].role = "system" /\ history[2].role = "user"
      /\ \A i \in DOMAIN history : history[i].calls = <<>>
  BY DEF Init, Message
<1>2. Ordered(history)
  <2>1. \A j \in DOMAIN history : history[j].role \notin {"tool", "assistant"} BY <1>1
  <2> QED BY <1>1, <2>1 DEF Ordered
<1>3. AllSettled(history) BY <1>1 DEF AllSettled
<1> QED BY <1>1, <1>2, <1>3 DEF ReplyInv

LEMMA ReplyStep == TypeOK /\ ReplyInv /\ [Next]_vars => ReplyInv'
<1> SUFFICES ASSUME TypeOK, ReplyInv, [Next]_vars PROVE ReplyInv' OBVIOUS
<1>1. CASE Infer BY <1>1, ReplyInfer
<1>2. CASE Dispatch BY <1>2, ReplyDispatch
<1>3. CASE Post BY <1>3, ReplyPost
<1>4. CASE UNCHANGED vars BY <1>4 DEF vars, ReplyInv, InBreaker
<1> QED BY <1>1, <1>2, <1>3, <1>4 DEF Next, Finished

LEMMA ReplyInvariant == Spec => []ReplyInv
BY ReplyInit, ReplyStep, TypeCorrect, PTL DEF Spec

(* Every request that goes out is one the chat API takes: each call of the   *)
(* LLM is answered right behind it, in order, whatever mixture of unknown    *)
(* tools, talk and empty answers came before.                                *)
THEOREM RequestsAreWellFormed == Spec => []WellFormedRequest
<1>1. TypeOK /\ ReplyInv => WellFormedRequest
  <2> SUFFICES ASSUME TypeOK, ReplyInv, pc = "infer" PROVE WellFormedRequest
    BY DEF WellFormedRequest
  <2> DEFINE q == ToMessageParams(history)
  <2>1. history \in Seq(Messages) /\ history # <<>> BY DEF TypeOK, ReplyInv, Ordered
  <2>2. DOMAIN q = DOMAIN history /\ Len(q) = Len(history) /\ Len(history) \in Nat \ {0}
    BY <2>1 DEF ToMessageParams
  <2>3. \A i \in DOMAIN history :
          /\ q[i].role = history[i].role /\ q[i].calls = history[i].calls /\ q[i].id = history[i].id
          /\ q[i].role = "assistant" /\ q[i].content = {} => history[i].text = NoText
    BY DEF ToMessageParams, Param
  <2> HIDE DEF q
  <2>4. q[1].role = "system" /\ q[Len(q)].role \in {"user", "tool"}
    BY <2>1, <2>2, <2>3 DEF ReplyInv, Ordered
  <2>5. \A i \in DOMAIN q : \A k \in DOMAIN q[i].calls :
          /\ i + k \in DOMAIN q
          /\ q[i + k].role = "tool"
          /\ q[i + k].id = q[i].calls[k].id
    BY <2>2, <2>3 DEF ReplyInv, AllSettled, Settled
  <2>6. \A j \in DOMAIN q : q[j].role = "tool" =>
          \E i \in 1..(j - 1) : j - i \in DOMAIN q[i].calls
    <3> TAKE j \in DOMAIN q
    <3> HAVE q[j].role = "tool"
    <3>1. \E i \in 1..(j - 1) : j - i \in DOMAIN history[i].calls
      BY <2>2, <2>3 DEF ReplyInv, Ordered
    <3>2. \A i \in 1..(j - 1) : i \in DOMAIN history BY <2>1, <2>2
    <3> QED BY <2>3, <3>1, <3>2
  <2>7. \A i \in DOMAIN q :
          q[i].role = "assistant" /\ q[i].content = {} /\ q[i].calls = <<>> =>
            i + 1 \in DOMAIN q /\ q[i + 1].role = "user"
    BY <2>2, <2>3 DEF ReplyInv, Ordered
  <2> QED BY <2>4, <2>5, <2>6, <2>7 DEF WellFormedRequest, q
<1> QED BY <1>1, ReplyInvariant, TypeCorrect, PTL
-----------------------------------------------------------------------------
(* The inferences made, as the history shows them. *)
Inferred(h) == {i \in DOMAIN h : h[i].role = "assistant"}

BudgetInv ==
  /\ history # <<>>
  /\ pc = "infer" =>
       /\ Cardinality(Inferred(history)) = iter - 1
       /\ (history[Len(history)].text = "breaker") <=> InBreaker
  /\ pc \in {"dispatch", "post", "label"} => Cardinality(Inferred(history)) \in {iter - 1, iter}
  /\ pc = "dispatch" /\ ~InBreaker =>
       /\ Cardinality(Inferred(history)) = iter
       /\ history[Len(history)].text # "breaker"
  /\ pc = "done" => Cardinality(Inferred(history)) <= Breaker

LEMMA InferredFinite ==
  ASSUME NEW h \in Seq(Messages)
  PROVE  IsFiniteSet(Inferred(h)) /\ Cardinality(Inferred(h)) \in Nat
<1>1. Inferred(h) \subseteq 1..Len(h) BY DEF Inferred
<1>2. IsFiniteSet(1..Len(h)) BY FS_Interval
<1>3. IsFiniteSet(Inferred(h)) BY <1>1, <1>2, FS_Subset
<1> QED BY <1>3, FS_CardinalityType

LEMMA InferredAppend ==
  ASSUME NEW h \in Seq(Messages), NEW m \in Messages
  PROVE  /\ m.role # "assistant" => Inferred(Append(h, m)) = Inferred(h)
         /\ m.role = "assistant" =>
              Cardinality(Inferred(Append(h, m))) = Cardinality(Inferred(h)) + 1
<1>0. 1..(Len(h) + 1) = 1..Len(h) \cup {Len(h) + 1} BY AppendIs
<1>1. Inferred(Append(h, m)) =
        Inferred(h) \cup (IF m.role = "assistant" THEN {Len(h) + 1} ELSE {})
  BY <1>0, AppendIs DEF Inferred
<1>2. Len(h) + 1 \notin Inferred(h) BY AppendIs DEF Inferred
<1> QED BY <1>1, <1>2, InferredFinite, FS_AddElement

(* The next inference, from a history whose last message is not the breaker's. *)
LEMMA BudgetNext ==
  ASSUME TypeOK, ~InBreaker, NEW h \in Seq(Messages), h # <<>>, h[Len(h)].text # "breaker",
         Cardinality(Inferred(h)) = iter, NextIteration(h)
  PROVE  BudgetInv'
<1> DEFINE b == Message("user", "breaker")
<1>1. b \in Messages /\ b.role = "user" /\ b.text = "breaker"
  BY MessagesTyped DEF Message
<1>2. pc' = "infer" /\ iter' = iter + 1 /\ iter \in Nat
  BY DEF NextIteration, TypeOK
<1>3. Cardinality(Inferred(h)) = iter' - 1 BY <1>2
<1> HIDE DEF b
<1>4. CASE iter = MaxIterations
  <2>1. history' = Append(h, b) BY <1>4 DEF NextIteration, b
  <2>2. Inferred(history') = Inferred(h) BY <1>1, <2>1, InferredAppend
  <2>3. history' # <<>> /\ history'[Len(history')].text = "breaker"
    BY <1>1, <2>1, AppendIs
  <2>4. InBreaker' BY <1>2, <1>4 DEF InBreaker
  <2> QED BY <1>2, <1>3, <2>2, <2>3, <2>4 DEF BudgetInv
<1>5. CASE iter # MaxIterations
  <2>1. history' = h BY <1>5 DEF NextIteration
  <2>2. ~InBreaker' BY <1>2, <1>5 DEF InBreaker
  <2> QED BY <1>2, <1>3, <2>1, <2>2 DEF BudgetInv
<1> QED BY <1>4, <1>5

LEMMA BudgetInfer == TypeOK /\ BudgetInv /\ Infer => BudgetInv'
<1> SUFFICES ASSUME TypeOK, BudgetInv, Infer PROVE BudgetInv' OBVIOUS
<1>0. /\ pc = "infer" /\ history \in Seq(Messages) /\ history # <<>> /\ iter \in 1..Breaker
      /\ Cardinality(Inferred(history)) = iter - 1
  BY DEF TypeOK, BudgetInv, Infer, InferenceFails, InferTalk, InferCalls, BreakerTalk
<1>1. CASE InferenceFails
  <2>1. history' = history /\ pc' = "done" BY <1>1 DEF InferenceFails, Return
  <2> QED BY <1>0, <2>1 DEF BudgetInv
<1>2. CASE InferTalk
  <2>1. PICK a, w \in Messages :
          /\ a.role = "assistant" /\ w.role = "user" /\ w.text = "warning"
          /\ NextIteration(Append(Append(history, a), w))
    BY <1>2, TalkAdds
  <2> DEFINE h == Append(Append(history, a), w)
  <2>2. Append(history, a) \in Seq(Messages) /\ h \in Seq(Messages)
    BY <1>0, AppendIs
  <2>3. Cardinality(Inferred(Append(history, a))) = Cardinality(Inferred(history)) + 1
    BY <1>0, <2>1, InferredAppend
  <2>4. Inferred(h) = Inferred(Append(history, a)) BY <2>1, <2>2, InferredAppend
  <2>5. Cardinality(Inferred(h)) = iter BY <1>0, <2>3, <2>4
  <2>6. h # <<>> /\ h[Len(h)].text # "breaker" BY <2>1, <2>2, AppendIs
  <2> HIDE DEF h
  <2>7. NextIteration(h) /\ ~InBreaker BY <1>2, <2>1 DEF InferTalk, h
  <2> QED BY <2>2, <2>5, <2>6, <2>7, BudgetNext
<1>3. CASE InferCalls
  <2>1. history' = Append(history, Asks(pending')) /\ pc' = "dispatch" /\ iter' = iter
    BY <1>3, CallsAdd DEF InferCalls
  <2>2. Asks(pending') \in Messages /\ Asks(pending').role = "assistant" /\ Asks(pending').text = NoText
    BY <1>3, CallsAdd DEF Asks
  <2>3. Cardinality(Inferred(history')) = Cardinality(Inferred(history)) + 1
    BY <1>0, <2>1, <2>2, InferredAppend
  <2>4. Cardinality(Inferred(history')) = iter' BY <1>0, <2>1, <2>3
  <2>5. history' # <<>> /\ history'[Len(history')].text = NoText
    BY <1>0, <2>1, <2>2, AppendIs
  <2> QED BY <2>1, <2>4, <2>5 DEF BudgetInv, NoText
<1>4. CASE BreakerTalk
  <2>1. history' = history /\ iter' = iter /\ pc' = "dispatch" /\ InBreaker /\ InBreaker'
    BY <1>4 DEF BreakerTalk, InBreaker
  <2> QED BY <1>0, <2>1 DEF BudgetInv
<1> QED BY <1>1, <1>2, <1>3, <1>4 DEF Infer

(* While calls are settled or a comment is posted, nothing is inferred. *)
LEMMA BudgetSame ==
  ASSUME TypeOK, BudgetInv, pc \in {"dispatch", "post", "label"}, iter' = iter,
         \/ history' = history
         \/ pending # <<>> /\ \E text \in {"result", "error"} : history' = Answered(call, text),
         \/ pc' \in {"post", "label", "done"}
         \/ pc = "dispatch" /\ pc' = "dispatch"
  PROVE  BudgetInv'
<1>1. /\ history \in Seq(Messages) /\ history # <<>> /\ iter \in 1..Breaker
      /\ Cardinality(Inferred(history)) \in {iter - 1, iter}
  BY DEF TypeOK, BudgetInv
<1>2. /\ Inferred(history') = Inferred(history) /\ history' # <<>>
      /\ \/ history' = history
         \/ history'[Len(history')].text \in {"result", "error"}
  <2>1. CASE history' = history BY <1>1, <2>1
  <2>2. CASE history' # history
    <3>1. PICK m \in Messages : /\ m.role = "tool" /\ m.text \in {"result", "error"}
                                /\ history' = Append(history, m)
      BY <2>2, AnswerIs
    <3> QED BY <1>1, <3>1, AppendIs, InferredAppend
  <2> QED BY <2>1, <2>2
<1>3. InBreaker' <=> InBreaker BY DEF InBreaker
<1>4. CASE pc' \in {"post", "label"} BY <1>1, <1>2, <1>4 DEF BudgetInv
<1>5. CASE pc' = "done" BY <1>1, <1>2, <1>5 DEF BudgetInv
<1>6. CASE pc = "dispatch" /\ pc' = "dispatch"
  BY <1>1, <1>2, <1>3, <1>6 DEF BudgetInv
<1> QED BY <1>4, <1>5, <1>6

LEMMA BudgetDispatch == TypeOK /\ BudgetInv /\ Dispatch => BudgetInv'
<1> SUFFICES ASSUME TypeOK, BudgetInv, Dispatch PROVE BudgetInv' OBVIOUS
<1>1. CASE EndOfCalls
  <2>1. ~InBreaker /\ pc = "dispatch" /\ NextIteration(history) BY <1>1 DEF EndOfCalls
  <2> QED BY <2>1, BudgetNext DEF BudgetInv, TypeOK
<1>2. CASE Fallback
  BY <1>2, BudgetSame DEF Fallback, Submit, Return
<1>3. CASE SubmitCall
  BY <1>3, BudgetSame DEF SubmitCall, Dispatching, Submit, Return
<1>4. CASE UnknownCall \/ ReadOk \/ ReadFails \/ BreakerSkips \/ NoopCall \/ SubmitRefused
  BY <1>4, BudgetSame DEF UnknownCall, ReadOk, ReadFails, BreakerSkips, NoopCall, SubmitRefused,
     Dispatching, Return
<1> QED BY <1>1, <1>2, <1>3, <1>4 DEF Dispatch

LEMMA BudgetPost == TypeOK /\ BudgetInv /\ Post => BudgetInv'
BY BudgetSame DEF Post, PostAccepted, PostFails, AddLabel, Submitted, Return, IsFallback

LEMMA BudgetInit == Init => BudgetInv
<1> SUFFICES ASSUME Init PROVE BudgetInv OBVIOUS
<1>1. /\ pc = "infer" /\ iter = 1 /\ Len(history) = 2 /\ history # <<>>
      /\ history[Len(history)].text = "prompt"
  BY DEF Init, Message
<1>2. Inferred(history) = {} BY DEF Init, Message, Inferred
<1>3. ~InBreaker BY <1>1 DEF InBreaker
<1> QED BY <1>1, <1>2, <1>3, FS_EmptySet DEF BudgetInv

LEMMA BudgetStep == TypeOK /\ BudgetInv /\ [Next]_vars => BudgetInv'
<1> SUFFICES ASSUME TypeOK, BudgetInv, [Next]_vars PROVE BudgetInv' OBVIOUS
<1>1. CASE Infer BY <1>1, BudgetInfer
<1>2. CASE Dispatch BY <1>2, BudgetDispatch
<1>3. CASE Post BY <1>3, BudgetPost
<1>4. CASE UNCHANGED vars BY <1>4 DEF vars, BudgetInv, InBreaker
<1> QED BY <1>1, <1>2, <1>3, <1>4 DEF Next, Finished

LEMMA BudgetInvariant == Spec => []BudgetInv
BY BudgetInit, BudgetStep, TypeCorrect, PTL DEF Spec

(* A review never infers more than the limit and once for the breaker, as    *)
(* its own history shows, and the breaker's prompt is the last word of that  *)
(* request and of no other.                                                  *)
THEOREM BudgetIsKept == Spec => []BudgetKept
<1>1. TypeOK /\ BudgetInv => BudgetKept
  BY DEF TypeOK, BudgetInv, BudgetKept, Inferred
<1> QED BY <1>1, BudgetInvariant, TypeCorrect, PTL
=============================================================================
