----------------------------- MODULE WorkerProofs -----------------------------
(***************************************************************************)
(* Theorems about the agent's server for any messages, pushes and lives of *)
(* the process: no review is lost, no comment is repeated without an       *)
(* excuse, and an exit with code 0 has cut nobody off.                     *)
(***************************************************************************)
EXTENDS Worker, TLAPS

USE WorkerAssumption, HttpServerAssumption DEF WorkerAssumption, HttpServerAssumption

LEMMA TypeInductive == ASSUME TypeOK, [Next]_vars PROVE TypeOK'
<1> USE DEF TypeOK, HttpTypeOK, httpVars
<1>1. ASSUME NEW m \in Messages, NEW n \in 1..MaxAttempts, Push(m, n) PROVE TypeOK'
  BY <1>1 DEF Push, Accept
<1>2. ASSUME NEW a \in Requests, Handle(a) PROVE TypeOK'
  <2>1. a[1] \in Messages
    OBVIOUS
  <2>2. CASE ReadFails(a)
    BY <2>1, <2>2 DEF ReadFails, Respond, Answer
  <2>3. CASE Drop(a)
    BY <2>1, <2>3 DEF Drop, Respond, Answer
  <2>4. CASE StartReview(a)
    BY <2>4 DEF StartReview
  <2>5. CASE ReviewComments(a)
    BY <2>5 DEF ReviewComments
  <2>6. CASE ReviewSucceeds(a)
    BY <2>1, <2>6 DEF ReviewSucceeds, Respond, Answer
  <2>7. CASE ReviewFails(a)
    <3>1. Respond(a, "failed", 500)
      BY <2>7 DEF ReviewFails
    <3>2. CASE UNCHANGED <<posted, lost>>
      BY <2>1, <3>1, <3>2 DEF Respond, Answer
    <3>3. CASE posted' = [posted EXCEPT ![a] = TRUE] /\ lost' = [lost EXCEPT ![a] = TRUE]
      BY <2>1, <3>1, <3>3 DEF Respond, Answer
    <3> QED
      BY <2>7, <3>2, <3>3 DEF ReviewFails
  <2> QED
    BY <1>2, <2>2, <2>3, <2>4, <2>5, <2>6, <2>7 DEF Handle
<1>3. ASSUME NEW a \in Requests, TimesOut(a) PROVE TypeOK'
  BY <1>3 DEF TimesOut, HangUp, workVars
<1>4. CASE Lifecycle
  BY <1>4 DEF Lifecycle, Signal, Shutdown, Drained, DrainTimeout, ListenFails, ReturnsWith,
              Exit, Kill, Ends, Restart, workVars
<1>5. CASE UNCHANGED vars
  BY <1>5 DEF vars
<1> QED
  BY <1>1, <1>2, <1>3, <1>4, <1>5 DEF Next

(* The state of the server, of its handlers and of the subscription is well  *)
(* typed.                                                                    *)
THEOREM TypeCorrect == Spec => []TypeOK
<1>1. Init => TypeOK
  BY DEF Init, TypeOK, HttpInit, HttpTypeOK
<1>2. TypeOK /\ [Next]_vars => TypeOK'
  BY TypeInductive
<1> QED
  BY <1>1, <1>2, PTL DEF Spec
-----------------------------------------------------------------------------
(* The stage of a handler and what it has left outside agree with the state  *)
(* of its connection and the reply.                                          *)
HandlerAt(a) ==
  /\ conn[a] = "none" <=> work[a] = "none"
  /\ conn[a] = "none" => ~gone[a]
  /\ conn[a] = "answered" <=> work[a] \in {"discarded", "reviewed", "failed"}
  /\ reply[a] = 200 <=> work[a] \in {"discarded", "reviewed"}
HandlerInv == \A a \in Requests : HandlerAt(a)

(* Only pull requests are reviewed; one is discarded only if nobody listens. *)
KindAt(a) ==
  /\ work[a] \in {"reviewing", "commented", "reviewed", "failed"} => Kind[a[1]] = "pull request"
  /\ work[a] = "discarded" => gone[a] \/ Kind[a[1]] # "pull request"
KindInv == \A a \in Requests : KindAt(a)

(* A comment is out, and a review fails after it only when GitHub's answer   *)
(* was lost.                                                                 *)
CommentInv ==
  \A a \in Requests :
    /\ posted[a] => work[a] \in {"commented", "reviewed", "failed"}
    /\ posted[a] /\ work[a] = "failed" => lost[a]
    /\ lost[a] => posted[a] /\ work[a] = "failed"

(* The subscription knows of an answer only from a push it had not given up. *)
AckInv ==
  /\ \A a \in Requests : reply[a] = 200 /\ ~gone[a] => acked[a[1]]
  /\ \A m \in Messages : acked[m] =>
       \E n \in 1..MaxAttempts : reply[<<m, n>>] = 200 /\ ~gone[<<m, n>>]

(* Pushes of a message follow each other: those before one that has begun    *)
(* are refused or lost, and stay so, though their handlers may still run.    *)
OrderInv ==
  \A a \in Requests : conn[a] # "none" =>
    \A i \in 1..(a[2] - 1) : StatusOf(<<a[1], i>>) \in {"refused", "lost"}

WorkerInv == TypeOK /\ HandlerInv /\ KindInv /\ CommentInv /\ AckInv /\ OrderInv

LEMMA Pairs ==
  /\ \A a \in Requests : a[1] \in Messages /\ a[2] \in 1..MaxAttempts /\ a = <<a[1], a[2]>>
  /\ \A m \in Messages, n \in 1..MaxAttempts :
       /\ <<m, n>> \in Requests /\ <<m, n>>[1] = m /\ <<m, n>>[2] = n
       /\ \A i \in 1..(n - 1) : i \in 1..MaxAttempts /\ i # n
OBVIOUS

LEMMA WorkerInitial == Init => WorkerInv
<1> SUFFICES ASSUME Init PROVE WorkerInv
  OBVIOUS
<1>1. TypeOK
  BY DEF Init, TypeOK, HttpInit, HttpTypeOK
<1>2. HandlerInv /\ KindInv /\ CommentInv /\ AckInv /\ OrderInv
  BY Pairs DEF Init, HttpInit, HandlerInv, HandlerAt, KindInv, KindAt, CommentInv, AckInv, OrderInv
<1> QED
  BY <1>1, <1>2 DEF WorkerInv

(* A handler answers: the push is over, and the subscription may know. *)
LEMMA RespondStep ==
  ASSUME TypeOK, NEW a \in Requests, NEW end, NEW status, Respond(a, end, status)
  PROVE  /\ conn[a] = "open" /\ UNCHANGED <<life, exit, lives, gone>>
         /\ \A b \in Requests : /\ conn'[b]  = IF b = a THEN "answered" ELSE conn[b]
                                /\ work'[b]  = IF b = a THEN end ELSE work[b]
                                /\ reply'[b] = IF b = a THEN status ELSE reply[b]
         /\ \A m \in Messages :
              acked'[m] <=> acked[m] \/ (m = a[1] /\ status = 200 /\ ~gone[a])
<1> USE DEF TypeOK, HttpTypeOK
<1>1. a[1] \in Messages
  BY Pairs
<1>2. ASSUME NEW m \in Messages
      PROVE  acked'[m] <=> acked[m] \/ (m = a[1] /\ status = 200 /\ ~gone[a])
  <2> DEFINE known == acked[a[1]] \/ (status = 200 /\ ~gone[a])
  <2>1. acked' = [acked EXCEPT ![a[1]] = known]
    BY DEF Respond
  <2>2. CASE m = a[1]
    <3>1. acked'[m] = known
      <4> HIDE DEF known
      <4> QED
        BY <1>1, <2>1, <2>2
    <3> QED
      BY <2>2, <3>1
  <2>3. CASE m # a[1]
    <3>1. acked'[m] = acked[m]
      <4> HIDE DEF known
      <4> QED
        BY <2>1, <2>3
    <3> QED
      BY <2>3, <3>1
  <2> QED
    BY <2>2, <2>3
<1> QED
  BY <1>2 DEF Respond, Answer

(* A push that is refused or lost stays so in every step. *)
LEMMA OverStaysOver ==
  ASSUME TypeOK, [Next]_vars, NEW a \in Requests, StatusOf(a) \in {"refused", "lost"}
  PROVE  StatusOf(a)' \in {"refused", "lost"}
<1> DEFINE Ended == conn[a] # "none" /\ (gone[a] \/ conn[a] = "dropped" \/ (conn[a] = "answered" /\ reply[a] # 200))
<1> USE DEF TypeOK, HttpTypeOK, httpVars
<1>1. Ended
  BY DEF StatusOf
<1>2. Ended'
  <2>1. ASSUME NEW m \in Messages, NEW n \in 1..MaxAttempts, Push(m, n) PROVE Ended'
    BY <1>1, <2>1, Pairs DEF Push, Accept
  <2>2. ASSUME NEW b \in Requests, NEW end, NEW status, Respond(b, end, status) PROVE Ended'
    BY <1>1, <2>2, RespondStep
  <2>3. ASSUME NEW b \in Requests, Handle(b) PROVE Ended'
    <3>1. CASE StartReview(b) \/ ReviewComments(b)
      <4>1. conn' = conn /\ gone' = gone /\ reply' = reply
        BY <3>1 DEF StartReview, ReviewComments
      <4> QED
        BY <1>1, <4>1
    <3>2. CASE ReadFails(b) \/ Drop(b)
      BY <2>2, <3>2 DEF ReadFails, Drop
    <3>3. CASE ReviewSucceeds(b) \/ ReviewFails(b)
      BY <2>2, <3>3 DEF ReviewSucceeds, ReviewFails
    <3> QED
      BY <2>3, <3>1, <3>2, <3>3 DEF Handle
  <2>4. ASSUME NEW b \in Requests, TimesOut(b) PROVE Ended'
    BY <1>1, <2>4 DEF TimesOut, HangUp, workVars
  <2>5. CASE Lifecycle
    BY <1>1, <2>5 DEF Lifecycle, Signal, Shutdown, Drained, DrainTimeout, ListenFails, ReturnsWith,
                      Exit, Kill, Ends, Restart, workVars
  <2>6. CASE UNCHANGED vars
    BY <1>1, <2>6 DEF vars
  <2> QED
    BY <2>1, <2>3, <2>4, <2>5, <2>6 DEF Next
<1> QED
  BY <1>2 DEF StatusOf

(* Before a push begins, all earlier ones of its message are over. *)
LEMMA PushInOrder ==
  ASSUME WorkerInv, NEW m \in Messages, NEW n \in 1..MaxAttempts, Push(m, n), NEW i \in 1..(n - 1)
  PROVE  StatusOf(<<m, i>>) \in {"refused", "lost"}
<1> DEFINE last == <<m, n - 1>>
<1>1. n > 1 /\ n - 1 \in 1..MaxAttempts /\ last \in Requests /\ i \in 1..(n - 1)
  OBVIOUS
<1>2. Over(last) /\ ~acked[m]
  BY <1>1 DEF Push
<1>3. conn[last] # "none"
  BY <1>1, <1>2 DEF Over, WorkerInv, HandlerInv, HandlerAt
<1>4. StatusOf(last) \in {"refused", "lost"}
  <2>1. reply[last] = 200 => gone[last]
    BY <1>1, <1>2 DEF WorkerInv, AckInv
  <2> QED
    BY <1>2, <1>3, <2>1 DEF Over, StatusOf
<1>5. CASE i = n - 1
  BY <1>4, <1>5
<1>6. CASE i # n - 1
  <2>1. i \in 1..(last[2] - 1)
    BY <1>6
  <2> QED
    BY <1>1, <1>3, <2>1 DEF WorkerInv, OrderInv
<1> QED
  BY <1>5, <1>6

LEMMA OrderInductive ==
  ASSUME WorkerInv, [Next]_vars
  PROVE  OrderInv'
<1> SUFFICES ASSUME NEW a \in Requests, conn'[a] # "none", NEW i \in 1..(a[2] - 1)
             PROVE  StatusOf(<<a[1], i>>)' \in {"refused", "lost"}
  BY DEF OrderInv
<1>1. <<a[1], i>> \in Requests
  BY Pairs
<1>2. CASE conn[a] # "none"
  BY <1>1, <1>2, OverStaysOver DEF WorkerInv, OrderInv
<1>3. CASE conn[a] = "none"
  <2>1. PICK m \in Messages, n \in 1..MaxAttempts : Push(m, n) /\ a = <<m, n>>
    <3> USE DEF WorkerInv, TypeOK, HttpTypeOK, httpVars
    <3>1. ASSUME NEW m \in Messages, NEW n \in 1..MaxAttempts, Push(m, n) PROVE a = <<m, n>>
      BY <1>3, <3>1 DEF Push, Accept
    <3>2. ASSUME NEW b \in Requests, Handle(b) PROVE FALSE
      <4>1. CASE StartReview(b) \/ ReviewComments(b)
        BY <1>3, <4>1 DEF StartReview, ReviewComments
      <4>2. CASE ReadFails(b) \/ Drop(b) \/ ReviewSucceeds(b) \/ ReviewFails(b)
        BY <1>3, <4>2 DEF ReadFails, Drop, ReviewSucceeds, ReviewFails, Respond, Answer
      <4> QED
        BY <3>2, <4>1, <4>2 DEF Handle
    <3>3. ASSUME NEW b \in Requests, TimesOut(b) PROVE FALSE
      BY <1>3, <3>3 DEF TimesOut, HangUp
    <3>4. CASE Lifecycle
      BY <1>3, <3>4 DEF Lifecycle, Signal, Shutdown, Drained, DrainTimeout, ListenFails, ReturnsWith,
                        Exit, Kill, Ends, Restart
    <3>5. CASE UNCHANGED vars
      BY <1>3, <3>5 DEF vars
    <3> QED
      BY <3>1, <3>2, <3>3, <3>4, <3>5 DEF Next
  <2>2. StatusOf(<<a[1], i>>) \in {"refused", "lost"}
    BY <2>1, PushInOrder
  <2> QED
    BY <1>1, <2>2, OverStaysOver DEF WorkerInv
<1> QED
  BY <1>2, <1>3

(* The end of a handler and its answer fit each other, and the push. *)
Fits(a, end, status) ==
  \/ end = "discarded" /\ status = 200 /\ (gone[a] \/ Kind[a[1]] # "pull request")
  \/ end = "reviewed" /\ status = 200 /\ Kind[a[1]] = "pull request"
  \/ end = "failed" /\ status = 500 /\ Kind[a[1]] = "pull request"

(* Another handler's step leaves what is said of this one. *)
LEMMA SameHandler ==
  ASSUME NEW b, work'[b] = work[b], gone'[b] = gone[b]
  PROVE  /\ KindAt(b) => KindAt(b)'
         /\ HandlerAt(b) /\ conn'[b] = conn[b] /\ reply'[b] = reply[b] => HandlerAt(b)'
<1>1. KindAt(b) => KindAt(b)'
  BY DEF KindAt
<1>2. ASSUME HandlerAt(b), conn'[b] = conn[b], reply'[b] = reply[b] PROVE HandlerAt(b)'
  BY <1>2 DEF HandlerAt
<1> QED
  BY <1>1, <1>2

(* An answer that fits the end of its handler. *)
LEMMA RespondKeepsHandler ==
  ASSUME TypeOK, HandlerInv, KindInv, NEW a \in Requests, NEW end, NEW status, Respond(a, end, status),
         Fits(a, end, status)
  PROVE  HandlerInv' /\ KindInv'
<1>1. /\ conn[a] = "open" /\ gone' = gone
      /\ \A b \in Requests : /\ conn'[b]  = IF b = a THEN "answered" ELSE conn[b]
                             /\ work'[b]  = IF b = a THEN end ELSE work[b]
                             /\ reply'[b] = IF b = a THEN status ELSE reply[b]
  BY RespondStep
<1>2. HandlerInv'
  <2> SUFFICES ASSUME NEW b \in Requests PROVE HandlerAt(b)'
    BY DEF HandlerInv
  <2>1. CASE b = a
    <3>1. conn'[b] = "answered" /\ work'[b] = end /\ reply'[b] = status
      BY <1>1, <2>1
    <3>2. \/ end \in {"discarded", "reviewed"} /\ status = 200
          \/ end = "failed" /\ status = 500
      BY DEF Fits
    <3> QED
      BY <3>1, <3>2 DEF HandlerAt
  <2>2. CASE b # a
    BY <1>1, <2>2, SameHandler DEF HandlerInv
  <2> QED
    BY <2>1, <2>2
<1>3. KindInv'
  <2> SUFFICES ASSUME NEW b \in Requests PROVE KindAt(b)'
    BY DEF KindInv
  <2>1. CASE b = a
    BY <1>1, <2>1 DEF KindInv, KindAt, Fits
  <2>2. CASE b # a
    BY <1>1, <2>2, SameHandler DEF KindInv
  <2> QED
    BY <2>1, <2>2
<1> QED
  BY <1>2, <1>3

(* Whatever it is, the subscription knows of it only if it still listens. *)
LEMMA RespondKeepsAck ==
  ASSUME TypeOK, HandlerInv, AckInv, NEW a \in Requests, NEW end, NEW status, Respond(a, end, status)
  PROVE  AckInv'
<1>1. /\ conn[a] = "open" /\ gone' = gone
      /\ \A b \in Requests : reply'[b] = IF b = a THEN status ELSE reply[b]
      /\ \A m \in Messages :
           acked'[m] <=> acked[m] \/ (m = a[1] /\ status = 200 /\ ~gone[a])
  BY RespondStep
<1>2. ASSUME NEW b \in Requests, reply'[b] = 200, ~gone'[b] PROVE acked'[b[1]]
  BY <1>1, <1>2, Pairs DEF AckInv
<1>3. ASSUME NEW m \in Messages, acked'[m]
      PROVE  \E n \in 1..MaxAttempts : reply'[<<m, n>>] = 200 /\ ~gone'[<<m, n>>]
  <2>1. CASE acked[m]
    <3>1. PICK n \in 1..MaxAttempts : reply[<<m, n>>] = 200 /\ ~gone[<<m, n>>]
      BY <2>1 DEF AckInv
    <3>2. <<m, n>> \in Requests /\ conn[<<m, n>>] = "answered"
      BY <3>1, Pairs DEF HandlerInv, HandlerAt
    <3> QED
      BY <1>1, <3>1, <3>2
  <2>2. CASE m = a[1] /\ status = 200 /\ ~gone[a]
    <3>1. a[2] \in 1..MaxAttempts /\ <<m, a[2]>> = a
      BY <2>2, Pairs
    <3> QED
      BY <1>1, <2>2, <3>1
  <2> QED
    BY <1>1, <1>3, <2>1, <2>2
<1> QED
  BY <1>2, <1>3 DEF AckInv

(* The comment, and what is known of it, may change with the answer. *)
LEMMA RespondKeepsComment ==
  ASSUME TypeOK, CommentInv, NEW a \in Requests, NEW end, NEW status, Respond(a, end, status),
         \A b \in Requests : b # a => posted'[b] = posted[b] /\ lost'[b] = lost[b],
         \/ ~posted'[a] /\ ~lost'[a]
         \/ end = "failed" /\ posted'[a] /\ lost'[a]
         \/ end = "reviewed" /\ posted'[a] /\ ~lost'[a]
  PROVE  CommentInv'
<1>1. \A b \in Requests : work'[b]  = IF b = a THEN end ELSE work[b]
  BY RespondStep
<1> QED
  BY <1>1 DEF CommentInv

LEMMA WorkerInductive ==
  ASSUME WorkerInv, [Next]_vars
  PROVE  WorkerInv'
<1>1. TypeOK /\ HandlerInv /\ KindInv /\ CommentInv /\ AckInv
  BY DEF WorkerInv
<1>2. TypeOK' /\ OrderInv'
  BY <1>1, TypeInductive, OrderInductive
<1>3. HandlerInv' /\ KindInv' /\ CommentInv' /\ AckInv'
  <2>1. ASSUME NEW m \in Messages, NEW n \in 1..MaxAttempts, Push(m, n)
        PROVE  HandlerInv' /\ KindInv' /\ CommentInv' /\ AckInv'
    <3> DEFINE a == <<m, n>>
    <3>1. /\ conn[a] = "none" /\ UNCHANGED <<gone, posted, reply, lost, acked>>
          /\ \A b \in Requests : /\ conn'[b] = IF b = a THEN "open" ELSE conn[b]
                                 /\ work'[b] = IF b = a THEN "handling" ELSE work[b]
      BY <1>1, <2>1 DEF Push, Accept, TypeOK, HttpTypeOK, httpVars
    <3>2. a \in Requests
      OBVIOUS
    <3> HIDE DEF a
    <3>3. HandlerInv'
      BY <1>1, <3>1, <3>2 DEF HandlerInv, HandlerAt
    <3>4. KindInv'
      BY <1>1, <3>1, <3>2 DEF KindInv, KindAt
    <3>5. CommentInv'
      BY <1>1, <3>1, <3>2 DEF CommentInv, HandlerInv, HandlerAt
    <3>6. AckInv'
      BY <1>1, <3>1 DEF AckInv
    <3> QED
      BY <3>3, <3>4, <3>5, <3>6
  <2>2. ASSUME NEW a \in Requests, Handle(a)
        PROVE  HandlerInv' /\ KindInv' /\ CommentInv' /\ AckInv'
    <3>1. CASE StartReview(a)
      <4>1. /\ UNCHANGED <<conn, gone, posted, reply, lost, acked>>
            /\ work[a] = "handling" /\ Kind[a[1]] = "pull request"
            /\ \A b \in Requests : work'[b] = IF b = a THEN "reviewing" ELSE work[b]
        BY <1>1, <3>1 DEF StartReview, TypeOK, HttpTypeOK, httpVars
      <4>2. HandlerInv'
        <5> SUFFICES ASSUME NEW b \in Requests PROVE HandlerAt(b)'
          BY DEF HandlerInv
        <5>1. CASE b = a
          BY <1>1, <4>1, <5>1 DEF HandlerInv, HandlerAt
        <5>2. CASE b # a
          BY <1>1, <4>1, <5>2, SameHandler DEF HandlerInv
        <5> QED
          BY <5>1, <5>2
      <4>3. KindInv'
        BY <1>1, <4>1 DEF KindInv, KindAt
      <4>4. CommentInv'
        BY <1>1, <4>1 DEF CommentInv
      <4>5. AckInv'
        BY <1>1, <4>1 DEF AckInv
      <4> QED
        BY <4>2, <4>3, <4>4, <4>5
    <3>2. CASE ReviewComments(a)
      <4>1. /\ UNCHANGED <<conn, gone, reply, lost, acked>> /\ work[a] = "reviewing"
            /\ \A b \in Requests : /\ work'[b] = IF b = a THEN "commented" ELSE work[b]
                                   /\ posted'[b] = IF b = a THEN TRUE ELSE posted[b]
        BY <1>1, <3>2 DEF ReviewComments, TypeOK, HttpTypeOK, httpVars
      <4>2. HandlerInv'
        <5> SUFFICES ASSUME NEW b \in Requests PROVE HandlerAt(b)'
          BY DEF HandlerInv
        <5>1. CASE b = a
          BY <1>1, <4>1, <5>1 DEF HandlerInv, HandlerAt
        <5>2. CASE b # a
          BY <1>1, <4>1, <5>2, SameHandler DEF HandlerInv
        <5> QED
          BY <5>1, <5>2
      <4>3. KindInv'
        BY <1>1, <4>1 DEF KindInv, KindAt
      <4>4. CommentInv'
        BY <1>1, <4>1 DEF CommentInv
      <4>5. AckInv'
        BY <1>1, <4>1 DEF AckInv
      <4> QED
        BY <4>2, <4>3, <4>4, <4>5
    <3>3. CASE ReadFails(a) \/ Drop(a)
      <4>1. /\ Respond(a, "discarded", 200) /\ UNCHANGED <<posted, lost>>
            /\ gone[a] \/ Kind[a[1]] # "pull request"
            /\ work[a] = "handling"
        BY <3>3 DEF ReadFails, Drop
      <4>2. ~posted[a] /\ ~lost[a]
        BY <1>1, <4>1 DEF CommentInv
      <4>3. Fits(a, "discarded", 200)
        BY <4>1 DEF Fits
      <4>4. CommentInv'
        BY <1>1, <4>1, <4>2, RespondKeepsComment
      <4> QED
        BY <1>1, <4>1, <4>3, <4>4, RespondKeepsHandler, RespondKeepsAck
    <3>4. CASE ReviewSucceeds(a)
      <4>1. /\ Respond(a, "reviewed", 200) /\ UNCHANGED <<posted, lost>>
            /\ work[a] \in {"reviewing", "commented"}
        BY <3>4 DEF ReviewSucceeds
      <4>2. ~lost[a]
        BY <1>1, <4>1 DEF CommentInv
      <4>3. Fits(a, "reviewed", 200)
        BY <1>1, <4>1 DEF Fits, KindInv, KindAt
      <4>4. CommentInv'
        BY <1>1, <4>1, <4>2, RespondKeepsComment
      <4> QED
        BY <1>1, <4>1, <4>3, <4>4, RespondKeepsHandler, RespondKeepsAck
    <3>5. CASE ReviewFails(a)
      <4>1. Respond(a, "failed", 500) /\ work[a] = "reviewing"
        BY <3>5 DEF ReviewFails
      <4>2. ~posted[a] /\ ~lost[a]
        BY <1>1, <4>1 DEF CommentInv
      <4>3. Fits(a, "failed", 500)
        BY <1>1, <4>1 DEF Fits, KindInv, KindAt
      <4>4. CommentInv'
        <5>1. CASE UNCHANGED <<posted, lost>>
          BY <1>1, <4>1, <4>2, <5>1, RespondKeepsComment
        <5>2. CASE posted' = [posted EXCEPT ![a] = TRUE] /\ lost' = [lost EXCEPT ![a] = TRUE]
          <6>1. /\ \A b \in Requests : b # a => posted'[b] = posted[b] /\ lost'[b] = lost[b]
                /\ posted'[a] /\ lost'[a]
            BY <1>1, <5>2 DEF TypeOK
          <6> QED
            BY <1>1, <4>1, <6>1, RespondKeepsComment
        <5> QED
          BY <3>5, <5>1, <5>2 DEF ReviewFails
      <4> QED
        BY <1>1, <4>1, <4>3, <4>4, RespondKeepsHandler, RespondKeepsAck
    <3> QED
      BY <2>2, <3>1, <3>2, <3>3, <3>4, <3>5 DEF Handle
  <2>3. ASSUME NEW a \in Requests, TimesOut(a)
        PROVE  HandlerInv' /\ KindInv' /\ CommentInv' /\ AckInv'
    <3>1. /\ UNCHANGED <<conn, work, posted, reply, lost, acked>> /\ conn[a] = "open"
          /\ \A b \in Requests : gone'[b] = IF b = a THEN TRUE ELSE gone[b]
      BY <1>1, <2>3 DEF TimesOut, HangUp, workVars, TypeOK, HttpTypeOK, httpVars
    <3>2. HandlerInv'
      <4> SUFFICES ASSUME NEW b \in Requests PROVE HandlerAt(b)'
        BY DEF HandlerInv
      <4>1. CASE b = a
        BY <1>1, <3>1, <4>1 DEF HandlerInv, HandlerAt
      <4>2. CASE b # a
        BY <1>1, <3>1, <4>2, SameHandler DEF HandlerInv
      <4> QED
        BY <4>1, <4>2
    <3>3. KindInv'
      BY <1>1, <3>1 DEF KindInv, KindAt
    <3>4. CommentInv'
      BY <1>1, <3>1 DEF CommentInv
    <3>5. ASSUME NEW b \in Requests, reply[b] = 200
          PROVE  gone'[b] = gone[b]
      BY <1>1, <3>1, <3>5 DEF HandlerInv, HandlerAt
    <3>6. AckInv'
      BY <1>1, <3>1, <3>5, Pairs DEF AckInv
    <3> QED
      BY <3>2, <3>3, <3>4, <3>6
  <2>4. CASE Lifecycle
    <3>1. /\ UNCHANGED <<gone, work, posted, reply, lost, acked>>
          /\ \A b \in Requests : \/ conn'[b] = conn[b]
                                 \/ conn[b] = "open" /\ conn'[b] = "dropped"
      BY <1>1, <2>4 DEF Lifecycle, Signal, Shutdown, Drained, DrainTimeout, ListenFails, ReturnsWith,
                  Exit, Kill, Ends, Restart, workVars, TypeOK, HttpTypeOK, httpVars
    <3>2. HandlerInv'
      BY <1>1, <3>1 DEF HandlerInv, HandlerAt
    <3>3. KindInv'
      BY <1>1, <3>1 DEF KindInv, KindAt
    <3>4. CommentInv'
      BY <1>1, <3>1 DEF CommentInv
    <3>5. AckInv'
      BY <1>1, <3>1 DEF AckInv
    <3> QED
      BY <3>2, <3>3, <3>4, <3>5
  <2>5. CASE UNCHANGED vars
    <3>1. HandlerInv'
      BY <1>1, <2>5 DEF vars, HandlerInv, HandlerAt
    <3>2. KindInv'
      BY <1>1, <2>5 DEF vars, KindInv, KindAt
    <3>3. CommentInv'
      BY <1>1, <2>5 DEF vars, CommentInv
    <3>4. AckInv'
      BY <1>1, <2>5 DEF vars, AckInv
    <3> QED
      BY <3>1, <3>2, <3>3, <3>4
  <2> QED
    BY <2>1, <2>2, <2>3, <2>4, <2>5 DEF Next
<1> QED
  BY <1>2, <1>3 DEF WorkerInv

LEMMA WorkerInvariant == Spec => []WorkerInv
<1>1. WorkerInv /\ [Next]_vars => WorkerInv'
  BY WorkerInductive
<1> QED
  BY WorkerInitial, <1>1, PTL DEF Spec
-----------------------------------------------------------------------------
(* No review is lost: a message that the subscription holds for done, and    *)
(* that is a pull request, has a review that came to its end.                *)
THEOREM NoReviewIsLost == Spec => []AckedIsSettled
<1>1. WorkerInv => AckedIsSettled
  <2> SUFFICES ASSUME WorkerInv, NEW m \in Messages, acked[m], Kind[m] = "pull request"
               PROVE  \E n \in 1..MaxAttempts : work[<<m, n>>] = "reviewed"
    BY DEF AckedIsSettled
  <2>1. PICK n \in 1..MaxAttempts : reply[<<m, n>>] = 200 /\ ~gone[<<m, n>>]
    BY DEF WorkerInv, AckInv
  <2>2. <<m, n>> \in Requests /\ <<m, n>>[1] = m
    BY Pairs
  <2>3. work[<<m, n>>] \in {"discarded", "reviewed"}
    BY <2>1, <2>2 DEF WorkerInv, HandlerInv, HandlerAt
  <2>4. work[<<m, n>>] # "discarded"
    BY <2>1, <2>2 DEF WorkerInv, KindInv, KindAt
  <2> QED
    BY <2>3, <2>4
<1> QED
  BY WorkerInvariant, <1>1, PTL

(* No pull request is commented on again but for an answer that was lost.    *)
THEOREM DuplicatesHaveAnExcuse == Spec => []DuplicatesAreExcused
<1>1. WorkerInv => DuplicatesAreExcused
  <2> SUFFICES ASSUME WorkerInv, NEW m \in Messages, NEW i \in 1..MaxAttempts, NEW j \in 1..MaxAttempts,
                      i < j, posted[<<m, i>>], posted[<<m, j>>]
               PROVE  lost[<<m, i>>] \/ gone[<<m, i>>] \/ conn[<<m, i>>] = "dropped"
    BY DEF DuplicatesAreExcused
  <2>1. /\ <<m, i>> \in Requests /\ <<m, j>> \in Requests
        /\ <<m, j>>[1] = m /\ <<m, j>>[2] = j /\ i \in 1..(j - 1)
    OBVIOUS
  <2>2. conn[<<m, j>>] # "none"
    BY <2>1 DEF WorkerInv, HandlerInv, HandlerAt, CommentInv
  <2>3. StatusOf(<<m, i>>) \in {"refused", "lost"}
    BY <2>1, <2>2 DEF WorkerInv, OrderInv
  <2> QED
    BY <2>1, <2>3 DEF WorkerInv, HandlerInv, HandlerAt, CommentInv, StatusOf, TypeOK, HttpTypeOK
<1> QED
  BY WorkerInvariant, <1>1, PTL
-----------------------------------------------------------------------------
(* Only a drain that found every handler back ends a life with "ok". *)
LifeInv ==
  /\ life \in {"serving", "draining"} => exit = "none"
  /\ exit = "ok" => \A a \in Requests : conn[a] # "open"

LEMMA HandlersKeepLife ==
  ASSUME NEW a \in Requests, Handle(a) \/ TimesOut(a)
  PROVE  /\ UNCHANGED <<life, exit>>
         /\ conn' = conn \/ (conn[a] = "open" /\ conn' = [conn EXCEPT ![a] = "answered"])
BY DEF Handle, ReadFails, Drop, StartReview, ReviewComments, ReviewSucceeds, ReviewFails, Respond, Answer,
       TimesOut, HangUp, httpVars

LEMMA LifeInductive ==
  ASSUME TypeOK, LifeInv, [Next]_vars
  PROVE  LifeInv'
<1>1. ASSUME NEW m \in Messages, NEW n \in 1..MaxAttempts, Push(m, n) PROVE LifeInv'
  BY <1>1 DEF LifeInv, Push, Accept
<1>2. ASSUME NEW a \in Requests, Handle(a) \/ TimesOut(a) PROVE LifeInv'
  BY <1>2, HandlersKeepLife DEF LifeInv, TypeOK, HttpTypeOK
<1>3. CASE Lifecycle
  BY <1>3 DEF LifeInv, TypeOK, HttpTypeOK, Open, Lifecycle, Signal, Shutdown, Drained, DrainTimeout,
              ListenFails, ReturnsWith, Exit, Kill, Ends, Restart
<1>4. CASE UNCHANGED vars
  BY <1>4 DEF LifeInv, vars
<1> QED
  BY <1>1, <1>2, <1>3, <1>4 DEF Next

(* A process that exits with code 0 has cut off no request it had accepted. *)
THEOREM CleanExitIsClean == Spec => CleanExitDropsNothing
<1>1. Init => LifeInv
  BY DEF Init, HttpInit, LifeInv
<1>2. TypeOK /\ LifeInv /\ [Next]_vars => LifeInv'
  BY LifeInductive
<1>3. TypeOK /\ LifeInv /\ [Next]_vars => [life' = "exited" /\ exit' = "ok" => conn' = conn]_vars
  <2> SUFFICES ASSUME TypeOK, LifeInv, Next, life' = "exited", exit' = "ok" PROVE conn' = conn
    OBVIOUS
  <2>1. ASSUME NEW m \in Messages, NEW n \in 1..MaxAttempts, Push(m, n) PROVE FALSE
    BY <2>1 DEF Push, Accept
  <2>2. ASSUME NEW a \in Requests, Handle(a) \/ TimesOut(a) PROVE conn' = conn
    BY <2>2, HandlersKeepLife DEF LifeInv
  <2>3. CASE Lifecycle
    <3>1. CASE Exit
      BY <3>1 DEF LifeInv, TypeOK, HttpTypeOK, Exit, Ends
    <3>2. CASE Signal \/ Shutdown \/ ListenFails \/ Kill \/ Restart
      BY <3>2 DEF Signal, Shutdown, Drained, DrainTimeout, ListenFails, ReturnsWith, Kill, Ends, Restart
    <3> QED
      BY <2>3, <3>1, <3>2 DEF Lifecycle
  <2> QED
    BY <2>1, <2>2, <2>3 DEF Next
<1> QED
  BY <1>1, <1>2, <1>3, TypeCorrect, PTL DEF Spec, CleanExitDropsNothing
-----------------------------------------------------------------------------
(***************************************************************************)
(* The agent's server is an at-least-once stage behind its subscription,   *)
(* for any messages, pushes and lives of the process: every step of Worker *)
(* is a step of Stage or leaves it alone.                                  *)
(***************************************************************************)
(* The stage's variables, as IsAStage maps them. *)
Wanted == [m \in Messages |-> Kind[m] = "pull request"]
Status == [a \in Requests |-> StatusOf(a)]
Done   == {a \in Requests : posted[a] \/ work[a] = "reviewed"}
Unsure == {a \in Requests : lost[a]}

StageVars == <<Wanted, Status, Done, Unsure>>

LEMMA SameAttempts == Intake!Attempts = Requests
BY DEF Intake!Attempts

LEMMA StatusIs ==
  ASSUME NEW a \in Requests
  PROVE  Status[a] = StatusOf(a) /\ Status'[a] = StatusOf(a)'
BY DEF Status

LEMMA StageInitially == Init => Intake!Init
<1> SUFFICES ASSUME Init PROVE Intake!Init
  OBVIOUS
<1>1. \A a \in Requests : StatusOf(a) = "none"
  BY DEF Init, HttpInit, StatusOf
<1>2. Done = {} /\ Unsure = {}
  BY DEF Init, Done, Unsure
<1>3. Wanted \in [Messages -> BOOLEAN]
  BY DEF Wanted
<1> QED
  BY <1>1, <1>2, <1>3, SameAttempts DEF Intake!Init, Done, Unsure, Wanted

(* A step that changes nothing the stage can see, or one attempt of it. *)
LEMMA StutterStep ==
  ASSUME UNCHANGED <<conn, gone, reply, posted, work, lost>>
  PROVE  UNCHANGED StageVars
BY DEF StageVars, Wanted, Status, Done, Unsure, StatusOf

LEMMA PushBegins ==
  ASSUME WorkerInv, NEW m \in Messages, NEW n \in 1..MaxAttempts, Push(m, n)
  PROVE  Intake!Begin(<<m, n>>)
<1> DEFINE a == <<m, n>>
<1>1. a \in Requests /\ a[1] = m /\ a[2] = n
  OBVIOUS
<1>2. /\ conn[a] = "none" /\ UNCHANGED <<gone, posted, reply, lost>>
      /\ \A b \in Requests : /\ conn'[b] = IF b = a THEN "open" ELSE conn[b]
                             /\ work'[b] = IF b = a THEN "handling" ELSE work[b]
  BY <1>1 DEF Push, Accept, WorkerInv, TypeOK, HttpTypeOK, httpVars
<1>3. ~gone[a] /\ work[a] = "none"
  BY <1>1, <1>2 DEF WorkerInv, HandlerInv, HandlerAt
<1>4. StatusOf(a) = "none" /\ StatusOf(a)' = "open"
  BY <1>1, <1>2, <1>3 DEF StatusOf
<1>5. \A b \in Requests : b # a => StatusOf(b)' = StatusOf(b)
  BY <1>1, <1>2 DEF StatusOf
<1>6. Status' = [Status EXCEPT ![a] = "open"]
  BY <1>1, <1>4, <1>5 DEF Status
<1>7. Done' = Done /\ Unsure' = Unsure
  BY <1>1, <1>2, <1>3 DEF Done, Unsure
<1>8. \A i \in 1..(a[2] - 1) : Status[<<a[1], i>>] \in {"refused", "lost"}
  BY <1>1, PushInOrder, Pairs DEF Status
<1>9. Status[a] = "none"
  BY <1>1, <1>4, StatusIs
<1> QED
  BY <1>6, <1>7, <1>8, <1>9 DEF Intake!Begin, Intake!Becomes, Status, Done, Unsure

(* The answer reaches the subscription, or the push was lost before. *)
LEMMA RespondStatus ==
  ASSUME WorkerInv, NEW a \in Requests, NEW end, NEW status, Respond(a, end, status)
  PROVE  /\ gone[a] => Status[a] = "lost" /\ Status' = Status
         /\ ~gone[a] => /\ Status[a] = "open"
                        /\ Status' = [Status EXCEPT ![a] = IF status = 200 THEN "acked" ELSE "refused"]
<1>1. /\ conn[a] = "open" /\ gone' = gone
      /\ \A b \in Requests : /\ conn'[b]  = IF b = a THEN "answered" ELSE conn[b]
                             /\ reply'[b] = IF b = a THEN status ELSE reply[b]
  BY RespondStep DEF WorkerInv
<1>2. \A b \in Requests : b # a => StatusOf(b)' = StatusOf(b)
  BY <1>1 DEF StatusOf
<1>3. CASE gone[a]
  <2>1. StatusOf(a) = "lost" /\ StatusOf(a)' = "lost"
    BY <1>1, <1>3 DEF StatusOf
  <2> QED
    BY <1>2, <1>3, <2>1 DEF Status
<1>4. CASE ~gone[a]
  <2>1. StatusOf(a) = "open" /\ StatusOf(a)' = IF status = 200 THEN "acked" ELSE "refused"
    BY <1>1, <1>4 DEF StatusOf
  <2> QED
    BY <1>2, <1>4, <2>1 DEF Status
<1> QED
  BY <1>3, <1>4

(* The two ways a job gets done, in the terms of the stage. *)
LEMMA MapsTo ==
  ASSUME NEW a \in Requests, Wanted[a[1]], a \notin Done, Status[a] \in {"open", "lost"}, Status' = Status,
         Done' = Done \cup {a}, Unsure' \in {Unsure, Unsure \cup {a}}
  PROVE  Intake!Do(a)
BY DEF Intake!Do, Wanted, Status, Done, Unsure

LEMMA DropIsAStep ==
  ASSUME WorkerInv, NEW a \in Requests, ReadFails(a) \/ Drop(a)
  PROVE  Intake!Acknowledge(a) \/ UNCHANGED StageVars
<1>1. /\ Respond(a, "discarded", 200) /\ UNCHANGED <<posted, lost>> /\ work[a] = "handling"
      /\ gone[a] \/ Kind[a[1]] # "pull request"
  BY DEF ReadFails, Drop
<1>2. \A b \in Requests : work'[b] = IF b = a THEN "discarded" ELSE work[b]
  <2>1. TypeOK /\ Respond(a, "discarded", 200)
    BY <1>1 DEF WorkerInv
  <2> QED
    BY <2>1, RespondStep
<1>3. Done' = Done /\ Unsure' = Unsure /\ Wanted' = Wanted
  BY <1>1, <1>2 DEF Done, Unsure, Wanted
<1>4. CASE gone[a]
  BY <1>1, <1>3, <1>4, RespondStatus DEF StageVars
<1>5. CASE ~gone[a]
  <2>1. Status[a] = "open" /\ Status' = [Status EXCEPT ![a] = "acked"]
    BY <1>1, <1>5, RespondStatus
  <2>2. ~Wanted[a[1]]
    BY <1>1, <1>5, Pairs DEF Wanted
  <2> QED
    BY <1>3, <2>1, <2>2 DEF Intake!Acknowledge, Intake!Becomes, Status, Done, Unsure, Wanted
<1> QED
  BY <1>4, <1>5

LEMMA CommentIsAStep ==
  ASSUME WorkerInv, NEW a \in Requests, ReviewComments(a)
  PROVE  Intake!Do(a)
<1>1. /\ UNCHANGED <<conn, gone, reply, lost>> /\ work[a] = "reviewing" /\ conn[a] = "open"
      /\ \A b \in Requests : /\ work'[b] = IF b = a THEN "commented" ELSE work[b]
                             /\ posted'[b] = IF b = a THEN TRUE ELSE posted[b]
  BY DEF ReviewComments, WorkerInv, TypeOK, HttpTypeOK, httpVars
<1>2. ~posted[a]
  BY <1>1 DEF WorkerInv, CommentInv
<1>3. Wanted[a[1]]
  BY <1>1, Pairs DEF WorkerInv, KindInv, KindAt, Wanted
<1>4. a \notin Done /\ Done' = Done \cup {a} /\ Unsure' = Unsure
  BY <1>1, <1>2 DEF Done, Unsure
<1>5. Status' = Status
  BY <1>1 DEF Status, StatusOf
<1>6. StatusOf(a) \in {"open", "lost"}
  BY <1>1 DEF StatusOf
<1> QED
  BY <1>3, <1>4, <1>5, <1>6, StatusIs, MapsTo

LEMMA SuccessIsAStep ==
  ASSUME WorkerInv, NEW a \in Requests, ReviewSucceeds(a)
  PROVE  Intake!Acknowledge(a) \/ Intake!Do(a) \/ UNCHANGED StageVars
<1>1. Respond(a, "reviewed", 200) /\ UNCHANGED <<posted, lost>> /\ work[a] \in {"reviewing", "commented"}
  BY DEF ReviewSucceeds
<1>2. \A b \in Requests : work'[b] = IF b = a THEN "reviewed" ELSE work[b]
  BY <1>1, RespondStep DEF WorkerInv
<1>3. Wanted[a[1]] /\ Wanted' = Wanted
  BY <1>1, Pairs DEF WorkerInv, KindInv, KindAt, Wanted
<1>4. Done' = Done \cup {a} /\ Unsure' = Unsure
  BY <1>1, <1>2 DEF Done, Unsure
<1>5. CASE ~gone[a]
  <2>1. Status[a] = "open" /\ Status' = [Status EXCEPT ![a] = "acked"]
    BY <1>1, <1>5, RespondStatus
  <2> QED
    BY <1>3, <1>4, <2>1 DEF Intake!Acknowledge, Intake!Becomes, Status, Done, Unsure, Wanted
<1>6. CASE gone[a]
  <2>1. Status[a] = "lost" /\ Status' = Status
    BY <1>1, <1>6, RespondStatus
  <2>2. CASE a \in Done
    BY <1>3, <1>4, <2>1, <2>2 DEF StageVars
  <2>3. CASE a \notin Done
    BY <1>3, <1>4, <2>1, <2>3, MapsTo
  <2> QED
    BY <2>2, <2>3
<1> QED
  BY <1>5, <1>6

LEMMA FailureIsAStep ==
  ASSUME WorkerInv, NEW a \in Requests, ReviewFails(a)
  PROVE  Intake!Refuse(a) \/ Intake!Do(a) \/ UNCHANGED StageVars
<1>1. /\ Respond(a, "failed", 500) /\ work[a] = "reviewing"
      /\ \/ UNCHANGED <<posted, lost>>
         \/ posted' = [posted EXCEPT ![a] = TRUE] /\ lost' = [lost EXCEPT ![a] = TRUE]
  BY DEF ReviewFails
<1>2. \A b \in Requests : work'[b] = IF b = a THEN "failed" ELSE work[b]
  BY <1>1, RespondStep DEF WorkerInv
<1>3. Wanted[a[1]] /\ Wanted' = Wanted
  BY <1>1, Pairs DEF WorkerInv, KindInv, KindAt, Wanted
<1>4. a \notin Done
  BY <1>1 DEF WorkerInv, CommentInv, Done
<1>5. \/ Done' = Done /\ Unsure' = Unsure
      \/ Done' = Done \cup {a} /\ Unsure' = Unsure \cup {a}
  <2>1. CASE UNCHANGED <<posted, lost>>
    BY <1>1, <1>2, <2>1 DEF Done, Unsure
  <2>2. CASE posted' = [posted EXCEPT ![a] = TRUE] /\ lost' = [lost EXCEPT ![a] = TRUE]
    <3>1. \A b \in Requests : /\ posted'[b] = IF b = a THEN TRUE ELSE posted[b]
                             /\ lost'[b] = IF b = a THEN TRUE ELSE lost[b]
      BY <2>2 DEF WorkerInv, TypeOK
    <3> QED
      BY <1>1, <1>2, <3>1 DEF Done, Unsure
  <2> QED
    BY <1>1, <2>1, <2>2
<1>6. CASE ~gone[a]
  <2>1. Status[a] = "open" /\ Status' = [Status EXCEPT ![a] = "refused"]
    BY <1>1, <1>6, RespondStatus
  <2> QED
    BY <1>3, <1>4, <1>5, <2>1 DEF Intake!Refuse, Intake!Becomes, Status, Done, Unsure, Wanted
<1>7. CASE gone[a]
  <2>1. Status[a] = "lost" /\ Status' = Status
    BY <1>1, <1>7, RespondStatus
  <2>2. CASE Done' = Done /\ Unsure' = Unsure
    BY <1>3, <2>1, <2>2 DEF StageVars
  <2>3. CASE Done' = Done \cup {a} /\ Unsure' = Unsure \cup {a}
    BY <1>3, <1>4, <2>1, <2>3, MapsTo
  <2> QED
    BY <1>5, <2>2, <2>3
<1> QED
  BY <1>6, <1>7

(* Some pushes are cut off: the subscription gives up on one, or the process *)
(* ends under all of them.                                                   *)
LEMMA CutOff ==
  ASSUME UNCHANGED <<posted, work, lost>>,
         \A b \in Requests : StatusOf(b)' = StatusOf(b) \/ (StatusOf(b) = "open" /\ StatusOf(b)' = "lost")
  PROVE  Intake!Lose \/ UNCHANGED StageVars
<1> DEFINE A == {b \in Requests : StatusOf(b) = "open" /\ StatusOf(b)' = "lost"}
<1>1. Done' = Done /\ Unsure' = Unsure /\ Wanted' = Wanted
  BY DEF Done, Unsure, Wanted
<1>2. CASE A = {}
  <2>1. Status' = Status
    BY <1>2 DEF Status
  <2> QED
    BY <1>1, <2>1 DEF StageVars
<1>3. CASE A # {}
  <2>1. A \in SUBSET {b \in Requests : Status[b] = "open"}
    BY StatusIs
  <2>2. Status' = [b \in Requests |-> IF b \in A THEN "lost" ELSE Status[b]]
    BY DEF Status
  <2>3. \A b \in A : Status[b] = "open"
    BY <2>1
  <2> HIDE DEF A
  <2>4. Intake!LoseAll(A)
    BY <1>1, <2>2, <2>3, SameAttempts DEF Intake!LoseAll, Status, Done, Unsure, Wanted
  <2>5. A \in SUBSET {b \in Intake!Attempts : [c \in Requests |-> StatusOf(c)][b] = "open"}
    BY <2>1, SameAttempts DEF Status
  <2> QED
    BY <1>3, <2>4, <2>5 DEF Intake!Lose
<1> QED
  BY <1>2, <1>3

LEMMA StepIsAStep ==
  ASSUME WorkerInv, [Next]_vars
  PROVE  [Intake!Next]_(Intake!vars)
<1> DEFINE Steps == Intake!Next \/ UNCHANGED StageVars
<1>1. SUFFICES Steps
  BY DEF Intake!vars, StageVars, Wanted, Status, Done, Unsure
<1>2. ASSUME NEW a \in Requests, Intake!Step(a) PROVE Intake!Next
  BY <1>2, SameAttempts DEF Intake!Next
<1>3. ASSUME NEW m \in Messages, NEW n \in 1..MaxAttempts, Push(m, n) PROVE Steps
  <2>1. <<m, n>> \in Requests
    OBVIOUS
  <2> QED
    BY <1>2, <1>3, <2>1, PushBegins DEF Intake!Step
<1>4. ASSUME NEW a \in Requests, Handle(a) PROVE Steps
  <2>1. CASE StartReview(a)
    <3>1. UNCHANGED <<conn, gone, reply, posted, lost>>
      BY <2>1 DEF StartReview, httpVars
    <3>2. work[a] = "handling" /\ work' = [work EXCEPT ![a] = "reviewing"] /\ TypeOK
      BY <2>1 DEF StartReview, WorkerInv
    <3>3. \A b \in Requests : work'[b] = "reviewed" <=> work[b] = "reviewed"
      BY <3>2 DEF TypeOK
    <3>4. Status' = Status /\ Done' = Done /\ Unsure' = Unsure /\ Wanted' = Wanted
      BY <3>1, <3>3 DEF Status, StatusOf, Done, Unsure, Wanted
    <3> QED
      BY <3>4 DEF StageVars
  <2>2. CASE ReadFails(a) \/ Drop(a)
    BY <1>2, <2>2, DropIsAStep DEF Intake!Step
  <2>3. CASE ReviewComments(a)
    BY <1>2, <2>3, CommentIsAStep DEF Intake!Step
  <2>4. CASE ReviewSucceeds(a)
    BY <1>2, <2>4, SuccessIsAStep DEF Intake!Step
  <2>5. CASE ReviewFails(a)
    BY <1>2, <2>5, FailureIsAStep DEF Intake!Step
  <2> QED
    BY <1>4, <2>1, <2>2, <2>3, <2>4, <2>5 DEF Handle
<1>5. ASSUME NEW a \in Requests, TimesOut(a) PROVE Steps
  <2>1. /\ UNCHANGED <<conn, work, posted, reply, lost>> /\ conn[a] = "open" /\ ~gone[a]
        /\ \A b \in Requests : gone'[b] = IF b = a THEN TRUE ELSE gone[b]
    BY <1>5 DEF TimesOut, HangUp, workVars, WorkerInv, TypeOK, HttpTypeOK, httpVars
  <2>2. StatusOf(a) = "open" /\ StatusOf(a)' = "lost"
    BY <2>1 DEF StatusOf
  <2>3. \A b \in Requests : b # a => StatusOf(b)' = StatusOf(b)
    BY <2>1 DEF StatusOf
  <2> QED
    BY <2>1, <2>2, <2>3, CutOff DEF Intake!Next
<1>6. CASE Lifecycle
  <2>1. /\ UNCHANGED <<gone, work, posted, reply, lost>>
        /\ \A b \in Requests : \/ conn'[b] = conn[b]
                               \/ conn[b] = "open" /\ conn'[b] = "dropped"
    BY <1>6 DEF Lifecycle, Signal, Shutdown, Drained, DrainTimeout, ListenFails, ReturnsWith,
                Exit, Kill, Ends, Restart, workVars, WorkerInv, TypeOK, HttpTypeOK, httpVars
  <2>2. \A b \in Requests : \/ StatusOf(b)' = StatusOf(b)
                            \/ StatusOf(b) = "open" /\ StatusOf(b)' = "lost"
    BY <2>1 DEF StatusOf
  <2> QED
    BY <2>1, <2>2, CutOff DEF Intake!Next
<1>7. CASE UNCHANGED vars
  BY <1>7, StutterStep DEF vars
<1> QED
  BY <1>3, <1>4, <1>5, <1>6, <1>7 DEF Next

(* The server is an at-least-once stage: no review is acknowledged that has  *)
(* not come to its end, and none is refused whose comment is known to be out *)
(* -- for any interleaving of pushes, time-outs, drains, kills and restarts. *)
THEOREM ImplementsStage == Spec => IsAStage
<1>1. Init => Intake!Init
  BY StageInitially
<1>2. WorkerInv /\ [Next]_vars => [Intake!Next]_(Intake!vars)
  BY StepIsAStep
<1> QED
  BY <1>1, <1>2, WorkerInvariant, PTL DEF Spec, IsAStage, Intake!Spec
=============================================================================
