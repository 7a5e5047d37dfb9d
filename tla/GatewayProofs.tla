----------------------------- MODULE GatewayProofs -----------------------------
(***************************************************************************)
(* Theorems about the gateway for any events, deliveries and lives of the  *)
(* process: what it acknowledges is in the topic, only wanted events are,  *)
(* and a process that ends in order loses nothing it had taken.            *)
(***************************************************************************)
EXTENDS Gateway, TLAPS

LEMMA Constants ==
  MaxAttempts \in Nat /\ Requests = Events \X (1..MaxAttempts) /\ MaxLives \in Nat \ {0}
BY GatewayAssumption, HttpServerAssumption DEF GatewayAssumption, HttpServerAssumption

USE Constants

LEMMA Pairs ==
  /\ \A r \in Requests : r[1] \in Events /\ r[2] \in 1..MaxAttempts /\ r = <<r[1], r[2]>>
  /\ \A e \in Events, n \in 1..MaxAttempts :
       /\ <<e, n>> \in Requests /\ <<e, n>>[1] = e /\ <<e, n>>[2] = n
       /\ \A i \in 1..(n - 1) : i \in 1..MaxAttempts /\ i # n
OBVIOUS

(* A check that fails refuses: the delivery does not pass. *)
LEMMA ChecksFail ==
  ASSUME NEW d, NEW i \in DOMAIN Checks(d), ~Checks(d)[i][1]
  PROVE  ~Passes(d) /\ Checks(d)[i][2] \in {202, 400, 401, 403, 405}
<1>1. ~Passes(d)
  BY DEF Passes
<1>2. i \in 1..6
  BY DEF Checks
<1> QED
  BY <1>1, <1>2 DEF Checks

(* What passes is an opened pull request of the allowed repository, in a     *)
(* signed delivery if signatures are verified.                               *)
LEMMA PassesAll ==
  ASSUME NEW d, Passes(d)
  PROVE  /\ d.post /\ d.pullRequest /\ d.parses /\ d.opened /\ d.allowedRepo
         /\ d.signed \/ DisableVerification
<1>1. DOMAIN Checks(d) = 1..6
  BY DEF Checks
<1>2. \A i \in 1..6 : Checks(d)[i][1]
  BY <1>1 DEF Passes
<1>3. Checks(d)[1][1] /\ Checks(d)[2][1] /\ Checks(d)[3][1] /\ Checks(d)[4][1] /\ Checks(d)[5][1] /\ Checks(d)[6][1]
  BY <1>2
<1> QED
  BY <1>3 DEF Checks
-----------------------------------------------------------------------------
(* The stage of a handler agrees with its connection and its reply. *)
HandlerAt(r) ==
  /\ conn[r] = "none" <=> work[r] = "none"
  /\ conn[r] = "none" => ~gone[r]
  /\ conn[r] = "answered" <=> work[r] = "done"
  /\ work[r] # "done" => reply[r] = 0
HandlerInv == \A r \in Requests : HandlerAt(r)

(* The result of a message agrees with its handler and with the topic, and a *)
(* handler that is done knew the result, unless its client had given up.     *)
ResultAt(r) ==
  /\ work[r] \in {"none", "reading"} => result[r] = "none"
  /\ result[r] = "ok" => r \in topic
  /\ r \in topic => result[r] \in {"ok", "error"}
  /\ reply[r] = 200 => result[r] = "ok"
  /\ work[r] = "done" /\ ~gone[r] /\ reply[r] # 200 => result[r] \in {"none", "error"}
ResultInv == \A r \in Requests : ResultAt(r)

(* Only a delivery that passes the checks gets as far as a result. *)
WantedInv == \A r \in Requests : result[r] # "none" => Passes(delivery[r[1]])

(* A publisher that is closed and a process that has ended hold nothing. *)
ProcessInv ==
  /\ publisher = "closed" => bundle = {}
  /\ life = "exited" => bundle = {} /\ \A r \in Requests : conn[r] # "open"

GatewayInv == TypeOK /\ HandlerInv /\ ResultInv /\ WantedInv /\ ProcessInv

LEMMA GatewayInitial == Init => GatewayInv
<1> SUFFICES ASSUME Init PROVE GatewayInv
  OBVIOUS
<1>1. TypeOK
  BY DEF Init, TypeOK, HttpInit, HttpTypeOK
<1>2. HandlerInv /\ ResultInv /\ WantedInv /\ ProcessInv
  BY DEF Init, HttpInit, HandlerInv, HandlerAt, ResultInv, ResultAt, WantedInv, ProcessInv
<1> QED
  BY <1>1, <1>2 DEF GatewayInv

LEMMA TypeInductive == ASSUME TypeOK, ResultInv, [Next]_vars PROVE TypeOK'
<1>1. ASSUME NEW e \in Events, NEW n \in 1..MaxAttempts, Deliver(e, n) PROVE TypeOK'
  BY <1>1 DEF TypeOK, HttpTypeOK, Deliver, Accept, pubVars
<1>2. ASSUME NEW r \in Requests, NEW status \in {200, 202, 400, 401, 403, 405, 500}, Respond(r, status)
      PROVE  TypeOK'
  BY <1>2 DEF TypeOK, HttpTypeOK, Respond, Answer, pubVars
<1>3. ASSUME NEW r \in Requests, Handle(r) PROVE TypeOK'
  <2>1. CASE Refuse(r)
    <3>1. PICK i \in DOMAIN Checks(delivery[r[1]]) :
            ~Checks(delivery[r[1]])[i][1] /\ Respond(r, Checks(delivery[r[1]])[i][2])
      BY <2>1 DEF Refuse
    <3>2. Checks(delivery[r[1]])[i][2] \in {200, 202, 400, 401, 403, 405, 500}
      BY <3>1, ChecksFail
    <3> QED
      BY <1>2, <3>1, <3>2
  <2>2. CASE ReadFails(r) \/ Published(r) \/ PublishFails(r)
    BY <1>2, <2>2 DEF ReadFails, Published, PublishFails
  <2>3. CASE Publish(r)
    <3>1. /\ work' = [work EXCEPT ![r] = "publishing"]
          /\ UNCHANGED <<life, exit, lives, conn, gone, delivery, reply, publisher, topic>>
      BY <2>3 DEF Publish, httpVars
    <3>2. \/ bundle' = bundle \cup {r} /\ result' = [result EXCEPT ![r] = "pending"]
          \/ bundle' = bundle /\ result' = [result EXCEPT ![r] = "error"] /\ publisher # "open"
      BY <2>3 DEF Publish
    <3>3. r \notin bundle
      BY <2>3 DEF TypeOK, Publish, ResultInv, ResultAt
    <3>4. TypeOK'
      <4>1. CASE bundle' = bundle \cup {r} /\ result' = [result EXCEPT ![r] = "pending"]
        BY <3>1, <4>1 DEF TypeOK, HttpTypeOK
      <4>2. CASE bundle' = bundle /\ result' = [result EXCEPT ![r] = "error"] /\ publisher # "open"
        BY <3>1, <3>3, <4>2 DEF TypeOK, HttpTypeOK
      <4> QED
        BY <3>2, <4>1, <4>2
    <3> QED
      BY <3>4
  <2> QED
    BY <1>3, <2>1, <2>2, <2>3 DEF Handle
<1>4. ASSUME NEW r \in Requests, Sent(r) PROVE TypeOK'
  BY <1>4 DEF TypeOK, HttpTypeOK, Sent, httpVars
<1>5. ASSUME NEW r \in Requests, TimesOut(r) PROVE TypeOK'
  BY <1>5 DEF TypeOK, HttpTypeOK, TimesOut, HangUp, gatewayVars, pubVars
<1>6. CASE ListenAndServe \/ Stop \/ Closed \/ FailsToStart
  BY <1>6 DEF TypeOK, HttpTypeOK, httpVars, gatewayVars, pubVars, ListenAndServe, Signal, Shutdown, Drained,
              DrainTimeout, ListenFails, ReturnsWith, Stop, Closed, FailsToStart
<1>7. CASE ProcessEnds \/ ProcessStarts
  BY <1>7 DEF TypeOK, HttpTypeOK, ProcessEnds, ProcessStarts, Exit, Kill, Ends, Restart
<1>8. CASE UNCHANGED vars
  BY <1>8 DEF TypeOK, HttpTypeOK, vars, httpVars, gatewayVars, pubVars
<1> QED
  BY <1>1, <1>3, <1>4, <1>5, <1>6, <1>7, <1>8 DEF Next

(* Another handler's step leaves what is said of this one. *)
LEMMA SameHandler ==
  ASSUME NEW r, conn'[r] = conn[r], work'[r] = work[r], gone'[r] = gone[r], reply'[r] = reply[r]
  PROVE  /\ HandlerAt(r) => HandlerAt(r)'
         /\ ResultAt(r) /\ result'[r] = result[r] /\ (r \in topic' <=> r \in topic) => ResultAt(r)'
<1>1. ASSUME HandlerAt(r) PROVE HandlerAt(r)'
  BY <1>1 DEF HandlerAt
<1>2. ASSUME ResultAt(r), result'[r] = result[r], r \in topic' <=> r \in topic PROVE ResultAt(r)'
  BY <1>2 DEF ResultAt
<1> QED
  BY <1>1, <1>2

(* A handler answers. *)
LEMMA RespondStep ==
  ASSUME TypeOK, NEW r \in Requests, NEW status, Respond(r, status)
  PROVE  /\ conn[r] = "open"
         /\ UNCHANGED <<life, exit, lives, gone, delivery, publisher, bundle, result, topic>>
         /\ \A q \in Requests : /\ conn'[q]  = IF q = r THEN "answered" ELSE conn[q]
                                /\ work'[q]  = IF q = r THEN "done" ELSE work[q]
                                /\ reply'[q] = IF q = r THEN status ELSE reply[q]
BY DEF Respond, Answer, TypeOK, HttpTypeOK, pubVars

(* An answer that fits the result keeps the invariant. *)
LEMMA RespondKeeps ==
  ASSUME GatewayInv, NEW r \in Requests, NEW status, Respond(r, status),
         status = 200 => result[r] = "ok",
         ~gone[r] /\ status # 200 => result[r] \in {"none", "error"}
  PROVE  HandlerInv' /\ ResultInv' /\ WantedInv' /\ ProcessInv'
<1>1. TypeOK /\ HandlerInv /\ ResultInv /\ WantedInv /\ ProcessInv
  BY DEF GatewayInv
<1>2. /\ conn[r] = "open"
      /\ UNCHANGED <<life, gone, delivery, publisher, bundle, result, topic>>
      /\ \A q \in Requests : /\ conn'[q]  = IF q = r THEN "answered" ELSE conn[q]
                             /\ work'[q]  = IF q = r THEN "done" ELSE work[q]
                             /\ reply'[q] = IF q = r THEN status ELSE reply[q]
  BY <1>1, RespondStep
<1>3. ASSUME NEW q \in Requests PROVE HandlerAt(q)' /\ ResultAt(q)'
  <2>1. CASE q # r
    BY <1>1, <1>2, <1>3, <2>1, SameHandler DEF HandlerInv, ResultInv
  <2>2. CASE q = r
    <3>1. conn'[q] = "answered" /\ work'[q] = "done" /\ reply'[q] = status /\ gone'[q] = gone[q]
      BY <1>2, <2>2
    <3>2. ResultAt(q) /\ result' = result /\ topic' = topic
      BY <1>1, <1>2 DEF ResultInv
    <3>3. HandlerAt(q)'
      BY <3>1 DEF HandlerAt
    <3>4. ResultAt(q)'
      BY <2>2, <3>1, <3>2 DEF ResultAt
    <3> QED
      BY <3>3, <3>4
  <2> QED
    BY <2>1, <2>2
<1>4. WantedInv'
  BY <1>1, <1>2 DEF WantedInv
<1>5. ProcessInv'
  BY <1>1, <1>2 DEF ProcessInv
<1> QED
  BY <1>3, <1>4, <1>5 DEF HandlerInv, ResultInv

LEMMA GatewayInductive ==
  ASSUME GatewayInv, [Next]_vars
  PROVE  GatewayInv'
<1>1. TypeOK /\ HandlerInv /\ ResultInv /\ WantedInv /\ ProcessInv
  BY DEF GatewayInv
<1>2. TypeOK'
  BY <1>1, TypeInductive
<1> DEFINE Rest == HandlerInv /\ ResultInv /\ WantedInv /\ ProcessInv
<1>3. ASSUME NEW e \in Events, NEW n \in 1..MaxAttempts, Deliver(e, n) PROVE Rest'
  <2> DEFINE r == <<e, n>>
  <2>1. r \in Requests
    OBVIOUS
  <2>2. /\ conn[r] = "none" /\ life = "serving"
        /\ UNCHANGED <<life, gone, delivery, reply, publisher, bundle, result, topic>>
        /\ \A q \in Requests : /\ conn'[q] = IF q = r THEN "open" ELSE conn[q]
                               /\ work'[q] = IF q = r THEN "reading" ELSE work[q]
    BY <1>1, <1>3 DEF Deliver, Accept, pubVars, TypeOK, HttpTypeOK
  <2> HIDE DEF r
  <2>3. ASSUME NEW q \in Requests PROVE HandlerAt(q)' /\ ResultAt(q)'
    <3>1. CASE q # r
      BY <1>1, <2>2, <2>3, <3>1, SameHandler DEF HandlerInv, ResultInv
    <3>2. CASE q = r
      <4>1. conn'[q] = "open" /\ work'[q] = "reading" /\ reply'[q] = reply[q] /\ result' = result /\ topic' = topic
        BY <2>2, <3>2
      <4>2. HandlerAt(q) /\ ResultAt(q) /\ conn[q] = "none"
        BY <1>1, <2>2, <3>2 DEF HandlerInv, ResultInv
      <4>3. HandlerAt(q)'
        BY <4>1, <4>2 DEF HandlerAt
      <4>4. ResultAt(q)'
        BY <4>1, <4>2 DEF HandlerAt, ResultAt
      <4> QED
        BY <4>3, <4>4
    <3> QED
      BY <3>1, <3>2
  <2>4. WantedInv'
    BY <1>1, <2>2 DEF WantedInv
  <2>5. ProcessInv'
    BY <1>1, <2>2 DEF ProcessInv
  <2> QED
    BY <2>3, <2>4, <2>5 DEF HandlerInv, ResultInv
<1>4. ASSUME NEW r \in Requests, Handle(r) PROVE Rest'
  <2>1. CASE Refuse(r)
    <3>1. PICK i \in DOMAIN Checks(delivery[r[1]]) :
            ~Checks(delivery[r[1]])[i][1] /\ Respond(r, Checks(delivery[r[1]])[i][2])
      BY <2>1 DEF Refuse
    <3>2. Checks(delivery[r[1]])[i][2] # 200
      BY <3>1, ChecksFail
    <3>3. result[r] = "none"
      BY <1>1, <2>1 DEF Refuse, ResultInv, ResultAt
    <3> QED
      BY <3>1, <3>2, <3>3, RespondKeeps
  <2>2. CASE ReadFails(r)
    <3>1. Respond(r, 400) /\ gone[r]
      BY <2>2 DEF ReadFails
    <3> QED
      BY <3>1, RespondKeeps
  <2>3. CASE Publish(r)
    <3>1. /\ UNCHANGED <<life, conn, gone, delivery, reply, publisher, topic>>
          /\ work[r] = "reading" /\ conn[r] = "open" /\ Passes(delivery[r[1]])
          /\ \A q \in Requests : work'[q] = IF q = r THEN "publishing" ELSE work[q]
      BY <1>1, <2>3 DEF Publish, httpVars, TypeOK
    <3>2. /\ \A q \in Requests : q # r => result'[q] = result[q]
          /\ result'[r] \in {"pending", "error"}
          /\ bundle' # bundle => publisher = "open"
      BY <1>1, <2>3 DEF Publish, TypeOK
    <3>3. ASSUME NEW q \in Requests PROVE HandlerAt(q)' /\ ResultAt(q)'
      <4>1. CASE q # r
        BY <1>1, <3>1, <3>2, <3>3, <4>1, SameHandler DEF HandlerInv, ResultInv
      <4>2. CASE q = r
        <5>1. HandlerAt(q) /\ ResultAt(q)
          BY <1>1 DEF HandlerInv, ResultInv
        <5>2. conn[q] = "open" /\ work[q] = "reading" /\ work'[q] = "publishing" /\ UNCHANGED <<conn, gone, reply, topic>>
          BY <3>1, <4>2
        <5>3. result'[q] \in {"pending", "error"}
          BY <3>2, <4>2
        <5>4. HandlerAt(q)'
          BY <5>1, <5>2 DEF HandlerAt
        <5>5. ResultAt(q)'
          BY <5>1, <5>2, <5>3 DEF HandlerAt, ResultAt
        <5> QED
          BY <5>4, <5>5
      <4> QED
        BY <4>1, <4>2
    <3>4. WantedInv'
      BY <1>1, <3>1, <3>2 DEF WantedInv
    <3>5. ProcessInv'
      BY <1>1, <3>1, <3>2 DEF ProcessInv
    <3> QED
      BY <3>3, <3>4, <3>5 DEF HandlerInv, ResultInv
  <2>4. CASE Published(r)
    <3>1. Respond(r, 200) /\ result[r] = "ok"
      BY <2>4 DEF Published
    <3> QED
      BY <3>1, RespondKeeps
  <2>5. CASE PublishFails(r)
    <3>1. Respond(r, 500) /\ (result[r] = "error" \/ gone[r])
      BY <2>5 DEF PublishFails
    <3> QED
      BY <3>1, RespondKeeps
  <2> QED
    BY <1>4, <2>1, <2>2, <2>3, <2>4, <2>5 DEF Handle
<1>5. ASSUME NEW r \in Requests, Sent(r) PROVE Rest'
  <2>1. /\ UNCHANGED <<life, conn, gone, delivery, work, reply, publisher>>
        /\ bundle' \subseteq bundle /\ result[r] = "pending"
        /\ \A q \in Requests : q # r => result'[q] = result[q] /\ (q \in topic' <=> q \in topic)
        /\ \/ result'[r] = "ok" /\ r \in topic'
           \/ result'[r] = "error"
    BY <1>1, <1>5 DEF Sent, httpVars, TypeOK
  <2>2. ASSUME NEW q \in Requests PROVE HandlerAt(q)' /\ ResultAt(q)'
    <3>1. CASE q # r
      BY <1>1, <2>1, <2>2, <3>1, SameHandler DEF HandlerInv, ResultInv
    <3>2. CASE q = r
      <4>1. HandlerAt(q)'
        BY <1>1, <2>1, SameHandler DEF HandlerInv
      <4>2. ResultAt(q)'
        BY <1>1, <2>1, <3>2 DEF ResultInv, ResultAt
      <4> QED
        BY <4>1, <4>2
    <3> QED
      BY <3>1, <3>2
  <2>3. WantedInv'
    BY <1>1, <2>1 DEF WantedInv
  <2>4. ProcessInv'
    BY <1>1, <2>1 DEF ProcessInv
  <2> QED
    BY <2>2, <2>3, <2>4 DEF HandlerInv, ResultInv
<1>6. ASSUME NEW r \in Requests, TimesOut(r) PROVE Rest'
  <2>1. /\ UNCHANGED <<life, conn, delivery, work, reply, publisher, bundle, result, topic>>
        /\ conn[r] = "open"
        /\ \A q \in Requests : gone'[q] = IF q = r THEN TRUE ELSE gone[q]
    BY <1>1, <1>6 DEF TimesOut, HangUp, gatewayVars, pubVars, TypeOK, HttpTypeOK
  <2>2. ASSUME NEW q \in Requests PROVE HandlerAt(q)' /\ ResultAt(q)'
    <3>1. CASE q # r
      BY <1>1, <2>1, <2>2, <3>1, SameHandler DEF HandlerInv, ResultInv
    <3>2. CASE q = r
      <4>1. HandlerAt(q)'
        BY <1>1, <2>1, <3>2 DEF HandlerInv, HandlerAt
      <4>2. ResultAt(q)'
        BY <1>1, <2>1, <3>2 DEF ResultInv, ResultAt
      <4> QED
        BY <4>1, <4>2
    <3> QED
      BY <3>1, <3>2
  <2>3. WantedInv' /\ ProcessInv'
    BY <1>1, <2>1 DEF WantedInv, ProcessInv
  <2> QED
    BY <2>2, <2>3 DEF HandlerInv, ResultInv
<1>7. ASSUME ListenAndServe \/ Stop \/ Closed \/ ProcessEnds \/ ProcessStarts \/ FailsToStart PROVE Rest'
  <2>1. /\ UNCHANGED <<gone, delivery, work, reply, result, topic>>
        /\ \A q \in Requests : \/ conn'[q] = conn[q]
                               \/ conn[q] = "open" /\ conn'[q] = "dropped"
    BY <1>1, <1>7
    DEF ListenAndServe, Signal, Shutdown, Drained, DrainTimeout, ListenFails, ReturnsWith, Stop, Closed,
        ProcessEnds, Exit, Kill, Ends, ProcessStarts, Restart, FailsToStart, httpVars, gatewayVars, pubVars,
        TypeOK, HttpTypeOK
  <2>2. ASSUME NEW q \in Requests PROVE HandlerAt(q)' /\ ResultAt(q)'
    <3>1. CASE conn'[q] = conn[q]
      BY <1>1, <2>1, <2>2, <3>1, SameHandler DEF HandlerInv, ResultInv
    <3>2. CASE conn[q] = "open" /\ conn'[q] = "dropped"
      <4>1. HandlerAt(q)'
        BY <1>1, <2>1, <3>2 DEF HandlerInv, HandlerAt
      <4>2. ResultAt(q)'
        BY <1>1, <2>1 DEF ResultInv, ResultAt
      <4> QED
        BY <4>1, <4>2
    <3> QED
      BY <2>1, <3>1, <3>2
  <2>3. WantedInv'
    BY <1>1, <2>1 DEF WantedInv
  <2>4. ProcessInv'
    <3>1. CASE ListenAndServe \/ Stop \/ Closed \/ FailsToStart
      BY <1>1, <3>1
      DEF ProcessInv, ListenAndServe, Signal, Shutdown, Drained, DrainTimeout, ListenFails, ReturnsWith, Stop,
          Closed, FailsToStart, httpVars, gatewayVars, pubVars
    <3>2. CASE ProcessEnds
      BY <1>1, <3>2 DEF ProcessInv, ProcessEnds, Exit, Kill, Ends
    <3>3. CASE ProcessStarts
      BY <3>3 DEF ProcessInv, ProcessStarts, Restart
    <3> QED
      BY <1>7, <3>1, <3>2, <3>3
  <2>5. HandlerInv' /\ ResultInv'
    BY <2>2 DEF HandlerInv, ResultInv
  <2> QED
    BY <2>3, <2>4, <2>5
<1>8. ASSUME UNCHANGED vars PROVE Rest'
  <2>1. UNCHANGED <<life, conn, gone, delivery, work, reply, publisher, bundle, result, topic>>
    BY <1>8 DEF vars, httpVars, gatewayVars, pubVars
  <2>2. HandlerInv' /\ ResultInv'
    BY <1>1, <2>1, SameHandler DEF HandlerInv, ResultInv
  <2>3. WantedInv' /\ ProcessInv'
    BY <1>1, <2>1 DEF WantedInv, ProcessInv
  <2> QED
    BY <2>2, <2>3
<1> QED
  BY <1>2, <1>3, <1>4, <1>5, <1>6, <1>7, <1>8 DEF Next, GatewayInv

LEMMA GatewayInvariant == Spec => []GatewayInv
<1>1. GatewayInv /\ [Next]_vars => GatewayInv'
  BY GatewayInductive
<1> QED
  BY GatewayInitial, <1>1, PTL DEF Spec
-----------------------------------------------------------------------------
(* The state of the server, its handlers, the publisher and the topic is     *)
(* well typed, and the publisher holds only messages that are pending.       *)
THEOREM TypeCorrect == Spec => []TypeOK
<1>1. GatewayInv => TypeOK
  BY DEF GatewayInv
<1> QED
  BY GatewayInvariant, <1>1, PTL

(* The gateway's 200 never comes before the message is in the topic.         *)
THEOREM AnswersAreTrue == Spec => []AcknowledgedIsPublished
<1>1. GatewayInv => AcknowledgedIsPublished
  BY DEF GatewayInv, ResultInv, ResultAt, AcknowledgedIsPublished
<1> QED
  BY GatewayInvariant, <1>1, PTL

(* Nothing gets into the topic past a check of handleWebhook. *)
THEOREM NothingUnwantedIsPublished == Spec => []OnlyWantedIsPublished
<1>1. GatewayInv => OnlyWantedIsPublished
  <2> SUFFICES ASSUME GatewayInv, NEW r \in topic PROVE Passes(delivery[r[1]])
    BY PassesAll DEF OnlyWantedIsPublished
  <2>1. r \in Requests
    BY DEF GatewayInv, TypeOK
  <2>2. result[r] # "none"
    BY <2>1 DEF GatewayInv, ResultInv, ResultAt
  <2> QED
    BY <2>1, <2>2 DEF GatewayInv, WantedInv
<1> QED
  BY GatewayInvariant, <1>1, PTL

(* The deferred Close sends what the publisher holds: a process that is not  *)
(* killed ends with nothing in its hands.                                    *)
THEOREM NothingIsLostInOrder == Spec => OrderlyExitLosesNothing
<1>1. GatewayInv /\ GatewayInv' /\ [Next]_vars => [life' = "exited" /\ exit' # "killed" => bundle = {}]_vars
  <2> SUFFICES ASSUME GatewayInv, Next, life' = "exited", exit' # "killed" PROVE bundle = {}
    OBVIOUS
  <2>1. CASE life = "exited"
    BY <2>1 DEF GatewayInv, ProcessInv
  <2>2. CASE life # "exited"
    <3>1. ProcessEnds
      <4>1. ASSUME NEW e \in Events, NEW n \in 1..MaxAttempts, Deliver(e, n) PROVE FALSE
        BY <2>2, <4>1 DEF Deliver, Accept
      <4>2. ASSUME NEW r \in Requests, Handle(r) \/ Sent(r) \/ TimesOut(r) PROVE FALSE
        BY <2>2, <4>2 DEF Handle, Refuse, ReadFails, Publish, Published, PublishFails, Respond, Answer,
                          Sent, TimesOut, HangUp, httpVars
      <4>3. ListenAndServe \/ Stop \/ Closed \/ ProcessStarts \/ FailsToStart => FALSE
        BY <2>2 DEF ListenAndServe, Signal, Shutdown, Drained, DrainTimeout, ListenFails, ReturnsWith,
                    Stop, Closed, ProcessStarts, Restart, FailsToStart, httpVars
      <4> QED
        BY <4>1, <4>2, <4>3 DEF Next
    <3>2. publisher = "closed"
      BY <3>1 DEF ProcessEnds, Kill, Ends
    <3> QED
      BY <3>2 DEF GatewayInv, ProcessInv
  <2> QED
    BY <2>1, <2>2
<1> QED
  BY GatewayInvariant, <1>1, PTL DEF Spec, OrderlyExitLosesNothing
-----------------------------------------------------------------------------
(***************************************************************************)
(* The gateway is an at-least-once stage between GitHub and the topic, for *)
(* any events, deliveries and lives of the process.  What every stage      *)
(* guarantees then holds of the gateway.                                   *)
(***************************************************************************)
(* The stage's variables, as IsAStage maps them. *)
Wanted == [e \in Events |-> Passes(delivery[e])]
Status == [r \in Requests |-> StatusOf(r)]
Unsure == {r \in topic : result[r] = "error"}

StageVars == <<Wanted, Status, topic, Unsure>>

IntakeP == INSTANCE StageProofs WITH
  Items  <- Events,
  wanted <- [e \in Events |-> Passes(delivery[e])],
  status <- [r \in Requests |-> StatusOf(r)],
  done   <- topic,
  unsure <- {r \in topic : result[r] = "error"}

LEMMA SameAttempts == Intake!Attempts = Requests
BY DEF Intake!Attempts

LEMMA StatusIs ==
  ASSUME NEW r \in Requests
  PROVE  Status[r] = StatusOf(r) /\ Status'[r] = StatusOf(r)'
BY DEF Status

LEMMA StageInitially == Init => Intake!Init
<1> SUFFICES ASSUME Init PROVE Intake!Init
  OBVIOUS
<1>1. \A r \in Requests : StatusOf(r) = "none"
  BY DEF Init, HttpInit, StatusOf
<1>2. topic = {} /\ Unsure = {}
  BY DEF Init, Unsure
<1>3. Wanted \in [Events -> BOOLEAN]
  BY DEF Wanted, Passes
<1> QED
  BY <1>1, <1>2, <1>3, SameAttempts DEF Intake!Init, Unsure, Wanted

(* A delivery begins when those of its event before it are over. *)
LEMMA DeliverBegins ==
  ASSUME GatewayInv, NEW e \in Events, NEW n \in 1..MaxAttempts, Deliver(e, n)
  PROVE  Intake!Begin(<<e, n>>)
<1> DEFINE r == <<e, n>>
<1>1. r \in Requests /\ r[1] = e /\ r[2] = n
  OBVIOUS
<1>2. /\ conn[r] = "none" /\ UNCHANGED <<gone, delivery, reply, result, topic>>
      /\ \A q \in Requests : conn'[q] = IF q = r THEN "open" ELSE conn[q]
  BY <1>1 DEF Deliver, Accept, GatewayInv, TypeOK, HttpTypeOK, pubVars
<1>3. ~gone[r]
  BY <1>1, <1>2 DEF GatewayInv, HandlerInv, HandlerAt
<1>4. StatusOf(r) = "none" /\ StatusOf(r)' = "open"
  BY <1>1, <1>2, <1>3 DEF StatusOf
<1>5. \A q \in Requests : q # r => StatusOf(q)' = StatusOf(q)
  BY <1>1, <1>2 DEF StatusOf, Delivered
<1>6. Status' = [Status EXCEPT ![r] = "open"]
  BY <1>1, <1>4, <1>5 DEF Status
<1>7. topic' = topic /\ Unsure' = Unsure /\ Wanted' = Wanted
  BY <1>2 DEF Unsure, Wanted
<1>8. \A i \in 1..(r[2] - 1) : Status[<<r[1], i>>] \in {"refused", "lost"}
  <2>1. ASSUME NEW i \in 1..(n - 1) PROVE StatusOf(<<e, i>>) \in {"refused", "lost"}
    <3>1. <<e, i>> \in Requests /\ Over(<<e, i>>) /\ ~Delivered(<<e, i>>)
      BY DEF Deliver
    <3>2. conn[<<e, i>>] # "none"
      BY <3>1 DEF Over, GatewayInv, HandlerInv, HandlerAt
    <3> QED
      BY <3>1, <3>2 DEF Over, StatusOf
  <2>2. \A i \in 1..(n - 1) : <<e, i>> \in Requests
    BY Pairs
  <2> QED
    BY <1>1, <2>1, <2>2 DEF Status
<1>9. Status[r] = "none"
  BY <1>1, <1>4, StatusIs
<1> QED
  BY <1>6, <1>7, <1>8, <1>9 DEF Intake!Begin, Intake!Becomes, Status, Unsure, Wanted

(* The answer reaches GitHub, or the delivery was lost before. *)
LEMMA RespondStatus ==
  ASSUME TypeOK, NEW r \in Requests, NEW status, Respond(r, status)
  PROVE  /\ topic' = topic /\ Unsure' = Unsure /\ Wanted' = Wanted
         /\ gone[r] => Status[r] = "lost" /\ Status' = Status
         /\ ~gone[r] => /\ Status[r] = "open"
                        /\ Status' = [Status EXCEPT ![r] = IF status \in {200, 202} THEN "acked" ELSE "refused"]
<1>1. /\ conn[r] = "open" /\ UNCHANGED <<gone, delivery, result, topic>>
      /\ \A q \in Requests : /\ conn'[q]  = IF q = r THEN "answered" ELSE conn[q]
                             /\ reply'[q] = IF q = r THEN status ELSE reply[q]
  BY RespondStep
<1>2. \A q \in Requests : q # r => StatusOf(q)' = StatusOf(q)
  BY <1>1 DEF StatusOf, Delivered
<1>3. topic' = topic /\ Unsure' = Unsure /\ Wanted' = Wanted
  BY <1>1 DEF Unsure, Wanted
<1>4. CASE gone[r]
  <2>1. StatusOf(r) = "lost" /\ StatusOf(r)' = "lost"
    BY <1>1, <1>4 DEF StatusOf
  <2> QED
    BY <1>2, <1>3, <1>4, <2>1 DEF Status
<1>5. CASE ~gone[r]
  <2>1. StatusOf(r) = "open" /\ StatusOf(r)' = IF status \in {200, 202} THEN "acked" ELSE "refused"
    BY <1>1, <1>5 DEF StatusOf, Delivered
  <2> QED
    BY <1>2, <1>3, <1>5, <2>1 DEF Status
<1> QED
  BY <1>4, <1>5

(* An answer is a step of the stage if it fits what is in the topic. *)
LEMMA RespondIsAStep ==
  ASSUME GatewayInv, NEW r \in Requests, NEW status, Respond(r, status),
         ~gone[r] /\ status \in {200, 202} /\ Wanted[r[1]] => r \in topic,
         ~gone[r] /\ status \notin {200, 202} /\ r \in topic => r \in Unsure
  PROVE  Intake!Acknowledge(r) \/ Intake!Refuse(r) \/ UNCHANGED StageVars
<1>1. TypeOK
  BY DEF GatewayInv
<1>2. topic' = topic /\ Unsure' = Unsure /\ Wanted' = Wanted
  BY <1>1, RespondStatus
<1>3. CASE gone[r]
  BY <1>1, <1>2, <1>3, RespondStatus DEF StageVars
<1>4. CASE ~gone[r] /\ status \in {200, 202}
  <2>1. Status[r] = "open" /\ Status' = [Status EXCEPT ![r] = "acked"]
    BY <1>1, <1>4, RespondStatus
  <2>2. topic = IF Wanted[r[1]] THEN topic \cup {r} ELSE topic
    BY <1>4
  <2> QED
    BY <1>2, <2>1, <2>2 DEF Intake!Acknowledge, Intake!Becomes, Status, Unsure, Wanted
<1>5. CASE ~gone[r] /\ status \notin {200, 202}
  <2>1. Status[r] = "open" /\ Status' = [Status EXCEPT ![r] = "refused"]
    BY <1>1, <1>5, RespondStatus
  <2>2. r \in topic => r \in Unsure
    BY <1>5
  <2> QED
    BY <1>2, <2>1, <2>2 DEF Intake!Refuse, Intake!Becomes, Status, Unsure, Wanted
<1> QED
  BY <1>3, <1>4, <1>5

LEMMA HandleIsAStep ==
  ASSUME GatewayInv, NEW r \in Requests, Handle(r)
  PROVE  Intake!Acknowledge(r) \/ Intake!Refuse(r) \/ UNCHANGED StageVars
<1>1. TypeOK /\ HandlerInv /\ ResultInv /\ WantedInv /\ ResultAt(r) /\ r[1] \in Events
  BY Pairs DEF GatewayInv, ResultInv
<1>2. CASE Refuse(r)
  <2>1. PICK i \in DOMAIN Checks(delivery[r[1]]) :
          ~Checks(delivery[r[1]])[i][1] /\ Respond(r, Checks(delivery[r[1]])[i][2])
    BY <1>2 DEF Refuse
  <2>2. ~Wanted[r[1]]
    BY <1>1, <2>1, ChecksFail DEF Wanted
  <2>3. r \notin topic
    BY <1>1, <1>2 DEF Refuse, ResultAt
  <2> QED
    BY <2>1, <2>2, <2>3, RespondIsAStep
<1>3. CASE ReadFails(r)
  <2>1. Respond(r, 400) /\ gone[r]
    BY <1>3 DEF ReadFails
  <2> QED
    BY <2>1, RespondIsAStep
<1>4. CASE Publish(r)
  <2>1. /\ UNCHANGED <<conn, gone, delivery, reply, topic>> /\ work[r] = "reading"
        /\ \A q \in Requests : q # r => result'[q] = result[q]
    BY <1>1, <1>4 DEF Publish, httpVars, TypeOK
  <2>2. r \notin topic
    BY <1>1, <2>1 DEF ResultAt
  <2>3. Status' = Status /\ Wanted' = Wanted
    BY <2>1 DEF Status, StatusOf, Delivered, Wanted
  <2>4. Unsure' = Unsure
    BY <1>1, <2>1, <2>2 DEF Unsure, TypeOK
  <2> QED
    BY <2>1, <2>3, <2>4 DEF StageVars
<1>5. CASE Published(r)
  <2>1. Respond(r, 200) /\ result[r] = "ok"
    BY <1>5 DEF Published
  <2>2. r \in topic
    BY <1>1, <2>1 DEF ResultAt
  <2> QED
    BY <2>1, <2>2, RespondIsAStep
<1>6. CASE PublishFails(r)
  <2>1. Respond(r, 500) /\ (result[r] = "error" \/ gone[r])
    BY <1>6 DEF PublishFails
  <2>2. ~gone[r] /\ r \in topic => r \in Unsure
    BY <2>1 DEF Unsure
  <2> QED
    BY <2>1, <2>2, RespondIsAStep
<1> QED
  BY <1>2, <1>3, <1>4, <1>5, <1>6 DEF Handle

(* Pub/Sub stores a message, or does not. *)
LEMMA SentIsAStep ==
  ASSUME GatewayInv, NEW r \in Requests, Sent(r)
  PROVE  Intake!Do(r) \/ UNCHANGED StageVars
<1>1. TypeOK /\ HandlerAt(r) /\ ResultAt(r) /\ r[1] \in Events
  BY Pairs DEF GatewayInv, HandlerInv, ResultInv
<1>2. /\ UNCHANGED <<conn, gone, delivery, work, reply>> /\ result[r] = "pending"
      /\ \A q \in Requests : q # r => result'[q] = result[q]
      /\ \/ result'[r] = "ok" /\ topic' = topic \cup {r}
         \/ result'[r] = "error" /\ topic' = topic \cup {r}
         \/ result'[r] = "error" /\ topic' = topic
  BY <1>1 DEF Sent, httpVars, TypeOK
<1>3. r \notin topic
  BY <1>1, <1>2 DEF ResultAt
<1>4. Status' = Status /\ Wanted' = Wanted
  BY <1>2 DEF Status, StatusOf, Delivered, Wanted
<1>5. CASE topic' = topic
  <2>1. Unsure' = Unsure
    BY <1>1, <1>2, <1>3, <1>5 DEF Unsure, TypeOK
  <2> QED
    BY <1>4, <1>5, <2>1 DEF StageVars
<1>6. CASE topic' = topic \cup {r}
  <2>1. Unsure' \in {Unsure, Unsure \cup {r}}
    <3>1. CASE result'[r] = "ok"
      BY <1>1, <1>2, <1>3, <1>6, <3>1 DEF Unsure, TypeOK
    <3>2. CASE result'[r] = "error"
      BY <1>1, <1>2, <1>3, <1>6, <3>2 DEF Unsure, TypeOK
    <3> QED
      BY <1>2, <3>1, <3>2
  <2>2. Wanted[r[1]]
    BY <1>1, <1>2 DEF GatewayInv, WantedInv, Wanted
  <2>3. StatusOf(r) \in {"open", "lost"}
    <3>1. conn[r] # "none"
      BY <1>1, <1>2 DEF HandlerAt, ResultAt
    <3>2. conn[r] = "answered" => gone[r]
      BY <1>1, <1>2 DEF HandlerAt, ResultAt
    <3>3. conn[r] \in {"none", "open", "answered", "dropped"}
      BY <1>1 DEF TypeOK, HttpTypeOK
    <3> QED
      BY <3>1, <3>2, <3>3 DEF StatusOf
  <2>4. Status[r] \in {"open", "lost"}
    BY <2>3, StatusIs
  <2> QED
    BY <1>3, <1>4, <1>6, <2>1, <2>2, <2>4 DEF Intake!Do, Status, Unsure, Wanted
<1> QED
  BY <1>2, <1>5, <1>6

(* Some deliveries are cut off: GitHub gives up on one, or the process ends  *)
(* under all of them.                                                        *)
LEMMA CutOff ==
  ASSUME UNCHANGED <<delivery, result, topic>>,
         \A q \in Requests : StatusOf(q)' = StatusOf(q) \/ (StatusOf(q) = "open" /\ StatusOf(q)' = "lost")
  PROVE  Intake!Lose \/ UNCHANGED StageVars
<1> DEFINE A == {q \in Requests : StatusOf(q) = "open" /\ StatusOf(q)' = "lost"}
<1>1. topic' = topic /\ Unsure' = Unsure /\ Wanted' = Wanted
  BY DEF Unsure, Wanted
<1>2. CASE A = {}
  <2>1. Status' = Status
    BY <1>2 DEF Status
  <2> QED
    BY <1>1, <2>1 DEF StageVars
<1>3. CASE A # {}
  <2>1. A \in SUBSET {q \in Requests : Status[q] = "open"}
    BY StatusIs
  <2>2. Status' = [q \in Requests |-> IF q \in A THEN "lost" ELSE Status[q]]
    BY DEF Status
  <2>3. \A q \in A : Status[q] = "open"
    BY <2>1
  <2> HIDE DEF A
  <2>4. Intake!LoseAll(A)
    BY <1>1, <2>2, <2>3, SameAttempts DEF Intake!LoseAll, Status, Unsure, Wanted
  <2>5. A \in SUBSET {q \in Intake!Attempts : [s \in Requests |-> StatusOf(s)][q] = "open"}
    BY <2>1, SameAttempts DEF Status
  <2> QED
    BY <1>3, <2>4, <2>5 DEF Intake!Lose
<1> QED
  BY <1>2, <1>3

LEMMA StepIsAStep ==
  ASSUME GatewayInv, [Next]_vars
  PROVE  [Intake!Next]_(Intake!vars)
<1> DEFINE Steps == Intake!Next \/ UNCHANGED StageVars
<1>1. SUFFICES Steps
  BY DEF Intake!vars, StageVars, Wanted, Status, Unsure
<1>2. ASSUME NEW r \in Requests, Intake!Step(r) PROVE Intake!Next
  BY <1>2, SameAttempts DEF Intake!Next
<1>3. ASSUME NEW e \in Events, NEW n \in 1..MaxAttempts, Deliver(e, n) PROVE Steps
  <2>1. <<e, n>> \in Requests
    OBVIOUS
  <2> QED
    BY <1>2, <1>3, <2>1, DeliverBegins DEF Intake!Step
<1>4. ASSUME NEW r \in Requests, Handle(r) PROVE Steps
  BY <1>2, <1>4, HandleIsAStep DEF Intake!Step
<1>5. ASSUME NEW r \in Requests, Sent(r) PROVE Steps
  BY <1>2, <1>5, SentIsAStep DEF Intake!Step
<1>6. ASSUME NEW r \in Requests, TimesOut(r) PROVE Steps
  <2>1. /\ UNCHANGED <<conn, delivery, reply, result, topic>> /\ conn[r] = "open" /\ ~gone[r]
        /\ \A q \in Requests : gone'[q] = IF q = r THEN TRUE ELSE gone[q]
    BY <1>6 DEF TimesOut, HangUp, gatewayVars, pubVars, GatewayInv, TypeOK, HttpTypeOK
  <2>2. StatusOf(r) = "open" /\ StatusOf(r)' = "lost"
    BY <2>1 DEF StatusOf
  <2>3. \A q \in Requests : q # r => StatusOf(q)' = StatusOf(q)
    BY <2>1 DEF StatusOf, Delivered
  <2> QED
    BY <2>1, <2>2, <2>3, CutOff DEF Intake!Next
<1>7. CASE ListenAndServe \/ Stop \/ Closed \/ ProcessEnds \/ ProcessStarts \/ FailsToStart
  <2>1. /\ UNCHANGED <<gone, delivery, reply, result, topic>>
        /\ \A q \in Requests : \/ conn'[q] = conn[q]
                               \/ conn[q] = "open" /\ conn'[q] = "dropped"
    BY <1>7
    DEF ListenAndServe, Signal, Shutdown, Drained, DrainTimeout, ListenFails, ReturnsWith, Stop, Closed,
        ProcessEnds, Exit, Kill, Ends, ProcessStarts, Restart, FailsToStart, httpVars, gatewayVars, pubVars,
        GatewayInv, TypeOK, HttpTypeOK
  <2>2. \A q \in Requests : \/ StatusOf(q)' = StatusOf(q)
                            \/ StatusOf(q) = "open" /\ StatusOf(q)' = "lost"
    BY <2>1 DEF StatusOf, Delivered
  <2> QED
    BY <2>1, <2>2, CutOff DEF Intake!Next
<1>8. CASE UNCHANGED vars
  <2>1. UNCHANGED <<conn, gone, delivery, reply, result, topic>>
    BY <1>8 DEF vars, httpVars, gatewayVars, pubVars
  <2> QED
    BY <2>1 DEF StageVars, Wanted, Status, Unsure, StatusOf, Delivered
<1> QED
  BY <1>3, <1>4, <1>5, <1>6, <1>7, <1>8 DEF Next

(* The gateway is an at-least-once stage: what it acknowledges is stored, and *)
(* what it knows to be stored it does not refuse -- for any interleaving of   *)
(* deliveries, time-outs, Pub/Sub's answers, drains, kills and restarts.      *)
THEOREM ImplementsStage == Spec => IsAStage
<1>1. Init => Intake!Init
  BY StageInitially
<1>2. GatewayInv /\ [Next]_vars => [Intake!Next]_(Intake!vars)
  BY StepIsAStep
<1> QED
  BY <1>1, <1>2, GatewayInvariant, PTL DEF Spec, IsAStage, Intake!Spec

(* Unless it is redelivered by hand after a 200 (see module Gateway), an     *)
(* event is in the topic twice only if GitHub could not know of the first    *)
(* time; this is what the order of attempts in any stage comes to here.      *)
THEOREM DuplicatesHaveAnExcuse == Spec => []DuplicatesAreExcused
<1>1. IsAStage => []IntakeP!StageInv
  <2>1. IntakeP!Spec => []IntakeP!StageInv
    BY IntakeP!StageIsSafe
  <2>2. Intake!Init => IntakeP!Init
    BY DEF Intake!Init, Intake!Attempts, IntakeP!Init, IntakeP!Attempts
  <2>3. [Intake!Next]_(Intake!vars) => [IntakeP!Next]_(IntakeP!vars)
    BY DEF Intake!Next, Intake!vars, Intake!Attempts, Intake!Step, Intake!Begin, Intake!Do,
           Intake!Acknowledge, Intake!Refuse, Intake!Becomes, Intake!Lose, Intake!LoseAll,
           IntakeP!Next, IntakeP!vars, IntakeP!Attempts, IntakeP!Step, IntakeP!Begin, IntakeP!Do,
           IntakeP!Acknowledge, IntakeP!Refuse, IntakeP!Becomes, IntakeP!Lose, IntakeP!LoseAll
  <2> QED
    BY <2>1, <2>2, <2>3, PTL DEF IsAStage, Intake!Spec, IntakeP!Spec
<1>2. IntakeP!StageInv => DuplicatesAreExcused
  <2> SUFFICES ASSUME IntakeP!StageInv, NEW e \in Events, NEW i \in 1..MaxAttempts, NEW j \in 1..MaxAttempts,
                      i < j, <<e, i>> \in topic, <<e, j>> \in topic
               PROVE  gone[<<e, i>>] \/ conn[<<e, i>>] = "dropped" \/ result[<<e, i>>] = "error"
    BY DEF DuplicatesAreExcused
  <2>1. <<e, i>> \in Requests /\ <<e, j>> \in Requests /\ i \in 1..(j - 1)
    OBVIOUS
  <2>2. StatusOf(<<e, j>>) # "none"
    BY <2>1 DEF IntakeP!StageInv, IntakeP!DoneInv
  <2>3. StatusOf(<<e, i>>) \in {"refused", "lost"}
    BY <2>1, <2>2 DEF IntakeP!StageInv, IntakeP!OrderInv, IntakeP!Attempts
  <2>4. CASE StatusOf(<<e, i>>) = "refused"
    BY <2>1, <2>4 DEF IntakeP!StageInv, IntakeP!AnswerInv, IntakeP!Attempts
  <2>5. CASE StatusOf(<<e, i>>) = "lost"
    BY <2>5 DEF StatusOf
  <2> QED
    BY <2>3, <2>4, <2>5
<1> QED
  BY ImplementsStage, <1>1, <1>2, PTL
=============================================================================
