----------------------------- MODULE StageProofs -----------------------------
(***************************************************************************)
(* What every at-least-once stage guarantees, for any items and any number *)
(* of attempts.  Module PipelineProofs uses it for both stages.            *)
(***************************************************************************)
EXTENDS Stage, TLAPS

Statuses == {"none", "open", "acked", "refused", "lost"}

TypeInv == status \in [Attempts -> Statuses]

(* What the sender knows of an attempt is true, but for what the stage       *)
(* itself was told wrong.                                                    *)
AnswerInv ==
  \A a \in Attempts : /\ status[a] = "acked" /\ wanted[a[1]] => a \in done
                      /\ status[a] = "refused" /\ a \in done => a \in unsure

(* Attempts at an item follow each other, and each has been given up before  *)
(* the next; this makes AnswerInv say something of two attempts that both    *)
(* have done the job.                                                        *)
OrderInv ==
  \A a \in Attempts : status[a] # "none" =>
    \A i \in 1..(a[2] - 1) : status[<<a[1], i>>] \in {"refused", "lost"}

DoneInv == \A a \in done : a \in Attempts /\ status[a] # "none" /\ wanted[a[1]]

StageInv == TypeInv /\ AnswerInv /\ OrderInv /\ DoneInv
-----------------------------------------------------------------------------
(* The attempts at an item before one of them are attempts, too. *)
LEMMA Earlier ==
  ASSUME MaxAttempts \in Nat,
         NEW a \in Attempts, NEW i \in 1..(a[2] - 1)
  PROVE  <<a[1], i>> \in Attempts /\ <<a[1], i>> # a
<1>1. a[1] \in Items /\ a[2] \in 1..MaxAttempts /\ a = <<a[1], a[2]>>
  BY DEF Attempts
<1>2. i \in 1..MaxAttempts /\ i # a[2]
  BY <1>1
<1> QED
  BY <1>1, <1>2 DEF Attempts

LEMMA StageInitial == Init => StageInv
BY DEF Init, StageInv, TypeInv, AnswerInv, OrderInv, DoneInv, Statuses

(* An attempt that has been refused or lost stays so, whatever status the    *)
(* one at hand becomes.                                                      *)
LEMMA BecomesKeepsOrder ==
  ASSUME MaxAttempts \in Nat, TypeInv, OrderInv,
         NEW a \in Attempts, NEW s \in Statuses, Becomes(a, s),
         status[a] \in {"none", "open"},
         status[a] = "none" =>
           \A i \in 1..(a[2] - 1) : status[<<a[1], i>>] \in {"refused", "lost"}
  PROVE  OrderInv' /\ TypeInv'
<1>1. TypeInv'
  BY DEF TypeInv, Becomes
<1>2. \A b \in Attempts : status'[b] = IF b = a THEN s ELSE status[b]
  BY DEF TypeInv, Becomes
<1>3. ASSUME NEW b \in Attempts, status'[b] # "none", NEW i \in 1..(b[2] - 1)
      PROVE  status'[<<b[1], i>>] \in {"refused", "lost"}
  <2>1. <<b[1], i>> \in Attempts
    BY Earlier
  <2>2. status[<<b[1], i>>] \in {"refused", "lost"}
    BY <1>2, <1>3 DEF OrderInv
  <2>3. <<b[1], i>> # a
    BY <2>2
  <2> QED
    BY <1>2, <2>1, <2>2, <2>3
<1>4. OrderInv'
  BY <1>3 DEF OrderInv
<1> QED
  BY <1>1, <1>4

LEMMA StageInductive ==
  ASSUME MaxAttempts \in Nat, StageInv, [Next]_vars
  PROVE  StageInv'
<1> USE DEF StageInv
<1>1. ASSUME NEW a \in Attempts, Begin(a) PROVE StageInv'
  <2>1. OrderInv' /\ TypeInv'
    BY <1>1, BecomesKeepsOrder DEF Begin, Statuses
  <2>2. \A b \in Attempts : status'[b] = IF b = a THEN "open" ELSE status[b]
    BY <1>1 DEF Begin, Becomes, TypeInv
  <2>3. AnswerInv' /\ DoneInv'
    BY <1>1, <2>2 DEF Begin, AnswerInv, DoneInv
  <2> QED
    BY <2>1, <2>3
<1>2. ASSUME NEW a \in Attempts, Do(a) PROVE StageInv'
  BY <1>2 DEF Do, TypeInv, AnswerInv, OrderInv, DoneInv
<1>3. ASSUME NEW a \in Attempts, Acknowledge(a) PROVE StageInv'
  <2>1. OrderInv' /\ TypeInv'
    BY <1>3, BecomesKeepsOrder DEF Acknowledge, Statuses
  <2>2. \A b \in Attempts : status'[b] = IF b = a THEN "acked" ELSE status[b]
    BY <1>3 DEF Acknowledge, Becomes, TypeInv
  <2>3. AnswerInv' /\ DoneInv'
    BY <1>3, <2>2 DEF Acknowledge, AnswerInv, DoneInv
  <2> QED
    BY <2>1, <2>3
<1>4. ASSUME NEW a \in Attempts, Refuse(a) PROVE StageInv'
  <2>1. OrderInv' /\ TypeInv'
    BY <1>4, BecomesKeepsOrder DEF Refuse, Statuses
  <2>2. \A b \in Attempts : status'[b] = IF b = a THEN "refused" ELSE status[b]
    BY <1>4 DEF Refuse, Becomes, TypeInv
  <2>3. AnswerInv' /\ DoneInv'
    BY <1>4, <2>2 DEF Refuse, AnswerInv, DoneInv
  <2> QED
    BY <2>1, <2>3
<1>5. ASSUME NEW A \in SUBSET Attempts, LoseAll(A) PROVE StageInv'
  <2>1. \A b \in Attempts : status'[b] = IF b \in A THEN "lost" ELSE status[b]
    BY <1>5 DEF LoseAll
  <2>2. TypeInv' /\ AnswerInv' /\ DoneInv'
    BY <1>5, <2>1 DEF LoseAll, TypeInv, AnswerInv, DoneInv, Statuses
  <2>3. ASSUME NEW b \in Attempts, status'[b] # "none", NEW i \in 1..(b[2] - 1)
        PROVE  status'[<<b[1], i>>] \in {"refused", "lost"}
    <3>1. <<b[1], i>> \in Attempts
      BY Earlier
    <3>2. status[b] # "none"
      BY <1>5, <2>1, <2>3 DEF LoseAll
    <3> QED
      BY <2>1, <3>1, <3>2 DEF OrderInv
  <2> QED
    BY <2>2, <2>3 DEF OrderInv
<1>6. CASE UNCHANGED vars
  BY <1>6 DEF vars, TypeInv, AnswerInv, OrderInv, DoneInv
<1> QED
  BY <1>1, <1>2, <1>3, <1>4, <1>5, <1>6 DEF Next, Step, Lose

(* In every behaviour of a stage: an acknowledged attempt has done what was  *)
(* wanted, and of two attempts that did the job the earlier was lost or      *)
(* unsure.                                                                   *)
THEOREM StageIsSafe == ASSUME MaxAttempts \in Nat PROVE Spec => []StageInv
<1>1. StageInv /\ [Next]_vars => StageInv'
  BY StageInductive
<1> QED
  BY StageInitial, <1>1, PTL DEF Spec
=============================================================================
