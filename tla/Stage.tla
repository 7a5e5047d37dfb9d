-------------------------------- MODULE Stage --------------------------------
(***************************************************************************)
(* What the gateway and the agent both promise to the sender in front of   *)
(* them, GitHub or the subscription: at-least-once processing. An item is  *)
(* sent again until an attempt at it is acknowledged, and then no more (a  *)
(* webhook redelivered by hand is another item); an attempt at an item the *)
(* stage wants is acknowledged only when its job is done, and one whose    *)
(* job is known to be done is never refused.                               *)
(*                                                                         *)
(* The job is the message in the topic, for the gateway, and the review,   *)
(* for the agent.  Either may be done though the stage behind it reported  *)
(* an error, and then the attempt is unsure of it.                         *)
(***************************************************************************)
EXTENDS Naturals

CONSTANTS Items,        \* what the sender has to send
          MaxAttempts   \* bound: attempts at one item

Attempts == Items \X (1..MaxAttempts)

VARIABLES
  wanted,   \* the stage has a job to do for the item
  status,   \* an attempt: "none" yet, "open", "acked", "refused", or "lost" when
            \* the sender has given up or the process has gone
  done,     \* attempts whose job is done
  unsure    \* those of them that were told otherwise

vars == <<wanted, status, done, unsure>>

Init == /\ wanted \in [Items -> BOOLEAN]
        /\ status = [a \in Attempts |-> "none"]
        /\ done = {} /\ unsure = {}

Becomes(a, s) == status' = [status EXCEPT ![a] = s]

Begin(a) == /\ status[a] = "none"
            /\ \A i \in 1..(a[2] - 1) : status[<<a[1], i>>] \in {"refused", "lost"}
            /\ Becomes(a, "open")
            /\ UNCHANGED <<wanted, done, unsure>>

(* A lost attempt may still be at work, with nobody to answer. *)
Do(a) == /\ wanted[a[1]] /\ a \notin done
         /\ status[a] \in {"open", "lost"}
         /\ done' = done \cup {a}
         /\ unsure' \in {unsure, unsure \cup {a}}
         /\ UNCHANGED <<wanted, status>>

Acknowledge(a) == /\ status[a] = "open" /\ Becomes(a, "acked")
                  /\ done' = IF wanted[a[1]] THEN done \cup {a} ELSE done
                  /\ UNCHANGED <<wanted, unsure>>

RefuseDone(a) ==    \* mutant: the stage fails after its job is done
  /\ status[a] = "open" /\ Becomes(a, "refused")
  /\ UNCHANGED <<wanted, done, unsure>>
Refuse(a) ==
  /\ status[a] = "open" /\ Becomes(a, "refused")
  /\ \/ (a \in done => a \in unsure) /\ UNCHANGED <<done, unsure>>
     \/ /\ wanted[a[1]] /\ a \notin done
        /\ done' = done \cup {a} /\ unsure' = unsure \cup {a}
  /\ UNCHANGED wanted

(* Senders give up one by one; a process takes all its open attempts with it. *)
LoseAll(A) == /\ \A a \in A : status[a] = "open"
              /\ status' = [a \in Attempts |-> IF a \in A THEN "lost" ELSE status[a]]
              /\ UNCHANGED <<wanted, done, unsure>>
Lose == \E A \in SUBSET {a \in Attempts : status[a] = "open"} : A # {} /\ LoseAll(A)

Step(a) == Begin(a) \/ Do(a) \/ Acknowledge(a) \/ Refuse(a)

Next == (\E a \in Attempts : Step(a)) \/ Lose

Spec == Init /\ [][Next]_vars
=============================================================================
