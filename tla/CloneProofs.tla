----------------------------- MODULE CloneProofs -----------------------------
(***************************************************************************)
(* Theorems about Clone for any number of processes, callers and crashes.  *)
(***************************************************************************)
EXTENDS Clone, TLAPS

USE CloneAssumption DEF CloneAssumption

LEMMA CountUp == /\ \A n \in Nat : n + 1 \in Nat
                 /\ 0 + 1 = 1
                 /\ \A m \in Nat : \A n \in 0..m : n < m => n + 1 \in 0..m
OBVIOUS

(* The variables of the shared clone keep their types. *)
THEOREM TypeCorrect == Spec => []TypeOK
<1>1. Init => TypeOK
  BY DEF Init, TypeOK, None, Running
<1>2. TypeOK /\ [Next]_vars => TypeOK'
  <2> SUFFICES ASSUME TypeOK, [Next]_vars PROVE TypeOK' OBVIOUS
  <2> USE DEF TypeOK, None, Running
  <2>1. CASE \E c \in Callers : Refuse(c) \/ Ensure(c) \/ Step(c) \/ Cancel(c)
    <3>1. PICK c \in Callers : Refuse(c) \/ Ensure(c) \/ Step(c) \/ Cancel(c) BY <2>1
    <3>2. CASE Ensure(c) BY <3>2 DEF Ensure, Goto
    <3>3. CASE StatExists(c) BY <3>3 DEF StatExists, Finish, Goto
    <3>4. CASE StatAbsent(c)
      <4>1. clones' \in [Procs -> Nat]
        <5>1. Home[c] \in Procs OBVIOUS
        <5>2. clones[Home[c]] \in Nat BY <5>1
        <5>3. clones[Home[c]] + 1 \in Nat BY <5>2, CountUp, Zenon
        <5> QED BY <3>4, <5>3 DEF StatAbsent
      <4> QED BY <3>4, <4>1 DEF StatAbsent, Goto
    <3>5. CASE GitFailsEarly(c) BY <3>5 DEF GitFailsEarly, Finish, Goto
    <3>6. CASE GitEnters(c) BY <3>6 DEF GitEnters, Joins, Goto, proc
    <3>7. CASE GitSucceeds(c) BY <3>7 DEF GitSucceeds, Interrupted, Finish, Goto
    <3>8. CASE GitFails(c) BY <3>8 DEF GitFails, Finish, Goto
    <3>9. CASE GitKilled(c) BY <3>9 DEF GitKilled, Interrupted, Finish, Goto
    <3>14. CASE GitWrites(c) BY <3>14 DEF GitWrites, proc
    <3>10. CASE Return(c) BY <3>10 DEF Return, Goto, proc
    <3>11. CASE Read(c)
      <4>1. PICK a \in Manifest \cup Listing : answer' = [answer EXCEPT ![c] = a]
        BY <3>11 DEF Read
      <4>2. a \in {"manifest", "new submission", "plugins", "some plugins", "no plugins", "error"}
        BY DEF Manifest, Listing
      <4> QED BY <3>11, <4>1, <4>2 DEF Read, Goto, proc
    <3>12. CASE Cancel(c) BY <3>12 DEF Cancel, proc
    <3>13. CASE Refuse(c) BY <3>13 DEF Refuse, Goto, proc
    <3> QED BY <3>1, <3>2, <3>3, <3>4, <3>5, <3>6, <3>7, <3>8, <3>9, <3>10, <3>11, <3>12, <3>13,
            <3>14 DEF Step, Git
  <2>2. CASE \E p \in Procs : Crash(p)
    <3>1. PICK p \in Procs : Crash(p) BY <2>2
    <3>2. crashes' \in [Procs -> 0..MaxCrashes]
      <4>0. crashes[p] \in 0..MaxCrashes /\ crashes[p] < MaxCrashes BY <3>1 DEF Crash
      <4>1. crashes[p] + 1 \in 0..MaxCrashes
        <5>1. MaxCrashes \in Nat OBVIOUS
        <5> QED BY <4>0, <5>1, CountUp, Zenon
      <4> QED BY <3>1, <4>1 DEF Crash
    <3>3. clones' \in [Procs -> Nat] /\ once' \in [Procs -> {"fresh", "busy", "done"}]
      BY <3>1 DEF Crash
    <3>4. /\ cloneDone' \in [Procs -> BOOLEAN]
          /\ cloneErr' \in [Procs -> {None, "failed", "killed", "exists"}]
      BY <3>1 DEF Crash
    <3>5. pc' \in [Callers -> Running \cup {"idle", "refused", "ok", "failed", "read"}]
      BY <3>1 DEF Crash
    <3>6. cancelled' \in [Callers -> BOOLEAN]
      <4>1. \A c \in Callers : (Home[c] # p /\ cancelled[c]) \in BOOLEAN OBVIOUS
      <4> QED BY <3>1, <4>1 DEF Crash
    <3>7. answer' \in [Callers -> {None, "manifest", "new submission", "plugins",
                                  "some plugins", "no plugins", "error"}]
      BY <3>1 DEF Crash
    <3>8. disk' \in {"absent", "empty", "partial", "complete"}
      BY <3>1 DEF Crash, Interrupted
    <3> QED BY <3>2, <3>3, <3>4, <3>5, <3>6, <3>7, <3>8
  <2>3. CASE UNCHANGED vars BY <2>3 DEF vars
  <2> QED BY <2>1, <2>2, <2>3 DEF Next
<1> QED BY <1>1, <1>2, PTL DEF Spec
-----------------------------------------------------------------------------
(***************************************************************************)
(* Why the clone is safe.  A caller inside the function of the Once holds  *)
(* it busy, so it is alone there, and it starts git at most once; results  *)
(* are read only behind a Once that is done.  A git that is alone in its   *)
(* directory has not finished, so the directory is not whole; gits that    *)
(* have met are of two processes.                                          *)
(***************************************************************************)
OnceInv ==
  /\ \A c \in Callers : Cloning(c) => once[Home[c]] = "busy"
  /\ \A c, d \in Callers : Cloning(c) /\ Cloning(d) /\ Home[c] = Home[d] => c = d

CountInv ==
  /\ \A p \in Procs : clones[p] \in {0, 1} /\ (once[p] = "fresh" => clones[p] = 0)
  /\ \A c \in Callers : pc[c] = "stat" => clones[Home[c]] = 0

ResultInv ==
  \A c \in Callers :
    /\ Succeeded(c) => once[Home[c]] = "done" /\ cloneDone[Home[c]]
    /\ pc[c] = "failed" => once[Home[c]] = "done" /\ ~cloneDone[Home[c]]

GitInv ==
  /\ \A c \in Callers : pc[c] = "git" => disk \in {"empty", "partial"}
  /\ \A c, d \in Callers : pc[c] = "git" /\ AtWork(d) => c = d
  /\ Alone => \A c \in Callers : pc[c] # "shared"

CloneInv == OnceInv /\ CountInv /\ ResultInv /\ GitInv

LEMMA InitInv == Init => CloneInv
BY DEF Init, CloneInv, OnceInv, CountInv, ResultInv, GitInv, AtWork, Cloning, Succeeded

LEMMA EnsureInv == ASSUME TypeOK, CloneInv, NEW c \in Callers, Ensure(c) PROVE CloneInv'
<1> USE DEF TypeOK, CloneInv, Cloning, Succeeded, Ensure, Goto
<1>0. Home[c] \in Procs /\ disk' = disk /\ cloneDone' = cloneDone
  OBVIOUS
<1>1. CASE once[Home[c]] = "fresh"
  <2>1. /\ once' = [once EXCEPT ![Home[c]] = "busy"]
        /\ pc' = [pc EXCEPT ![c] = "stat"]
    BY <1>1
  <2>2. \A d \in Callers : Home[d] = Home[c] => ~Cloning(d)
    BY <1>1 DEF OnceInv
  <2>3. OnceInv' BY <1>0, <2>1, <2>2 DEF OnceInv
  <2>4. CountInv' BY <1>0, <1>1, <2>1 DEF CountInv
  <2>5. ResultInv' BY <1>0, <1>1, <2>1 DEF ResultInv
  <2>6. GitInv' BY <1>0, <2>1 DEF GitInv, AtWork
  <2> QED BY <2>3, <2>4, <2>5, <2>6
<1>2. CASE once[Home[c]] # "fresh"
  <2>1. once' = once /\ pc' = [pc EXCEPT ![c] = "waiting"]
    BY <1>2
  <2>2. OnceInv' BY <2>1 DEF OnceInv
  <2>3. CountInv' BY <2>1 DEF CountInv
  <2>4. ResultInv' BY <1>0, <2>1 DEF ResultInv
  <2>5. GitInv' BY <1>0, <2>1 DEF GitInv, AtWork
  <2> QED BY <2>2, <2>3, <2>4, <2>5
<1> QED BY <1>1, <1>2

LEMMA StatAbsentInv == ASSUME TypeOK, CloneInv, NEW c \in Callers, StatAbsent(c) PROVE CloneInv'
<1> USE DEF TypeOK, CloneInv, Cloning, Succeeded, StatAbsent, Goto
<1>0. pc' = [pc EXCEPT ![c] = "spawn"] /\ Home[c] \in Procs OBVIOUS
<1>1. OnceInv'
  <2>1. once' = once /\ OnceInv OBVIOUS
  <2>2. \A d \in Callers : Cloning(d)' => Cloning(d) BY <1>0
  <2> HIDE DEF TypeOK, CloneInv, Cloning, StatAbsent
  <2> QED BY <2>1, <2>2 DEF OnceInv
<1>2. CountInv'
  <2>1. clones[Home[c]] = 0 /\ once[Home[c]] = "busy" BY DEF CountInv, OnceInv
  <2>2. clones' = [clones EXCEPT ![Home[c]] = 1]
    <3>1. clones' = [clones EXCEPT ![Home[c]] = clones[Home[c]] + 1] OBVIOUS
    <3> QED BY <2>1, <3>1, CountUp, Zenon
  <2>3. \A d \in Callers : pc'[d] = "stat" => Home[d] # Home[c] BY DEF OnceInv
  <2>4. \A p \in Procs : clones'[p] = IF p = Home[c] THEN 1 ELSE clones[p]
    BY <2>2
  <2>5. \A p \in Procs : clones'[p] \in {0, 1} /\ (once'[p] = "fresh" => clones'[p] = 0)
    BY <2>1, <2>4 DEF CountInv
  <2>6. \A d \in Callers : pc'[d] = "stat" => clones'[Home[d]] = 0
    BY <1>0, <2>3, <2>4 DEF CountInv
  <2> QED BY <2>5, <2>6 DEF CountInv
<1>3. ResultInv' BY DEF ResultInv
<1>4. GitInv' BY DEF GitInv, AtWork
<1> QED BY <1>1, <1>2, <1>3, <1>4

(* Leaving the function: the directory may change only under the hands of    *)
(* the caller that was cloning.                                              *)
LEMMA FinishInv ==
  ASSUME TypeOK, CloneInv, NEW c \in Callers, Cloning(c),
         NEW done \in BOOLEAN, NEW err, Finish(c, done, err),
         AtWork(c) \/ UNCHANGED disk
  PROVE  CloneInv'
<1> USE DEF TypeOK, CloneInv, Cloning, Succeeded, Finish, Goto
<1>1. OnceInv' BY DEF OnceInv
<1>2. CountInv' BY DEF CountInv
<1>3. ResultInv' BY DEF ResultInv, OnceInv
<1>4. GitInv' BY DEF GitInv, AtWork
<1> QED BY <1>1, <1>2, <1>3, <1>4

(* A git that enters meets whoever is at work, which is another process.     *)
LEMMA GitEntersInv == ASSUME TypeOK, CloneInv, NEW c \in Callers, GitEnters(c) PROVE CloneInv'
<1> USE DEF CloneInv
<1>0. /\ UNCHANGED <<once, cloneDone, clones>> /\ disk' = "empty" /\ pc[c] = "spawn"
      /\ \A d \in Callers : pc'[d] = IF d = c THEN IF \E e \in Callers : AtWork(e) THEN "shared" ELSE "git"
                                   ELSE IF AtWork(d) THEN "shared" ELSE pc[d]
  BY DEF GitEnters, Joins, Goto, proc, TypeOK
<1>1. \A d \in Callers : /\ Cloning(d)' = Cloning(d) /\ Succeeded(d)' = Succeeded(d)
                         /\ pc'[d] = "stat" <=> pc[d] = "stat"
                         /\ pc'[d] = "failed" <=> pc[d] = "failed"
  BY <1>0 DEF Cloning, Succeeded, AtWork
<1>2. OnceInv' BY <1>0, <1>1 DEF OnceInv
<1>3. CountInv' BY <1>0, <1>1 DEF CountInv
<1>4. ResultInv' BY <1>0, <1>1 DEF ResultInv
<1>5. GitInv'
  <2>1. \A d \in Callers : pc'[d] = "git" => d = c /\ \A e \in Callers : ~AtWork(e)
    BY <1>0 DEF AtWork
  <2>2. \A d, e \in Callers : pc'[d] = "git" /\ AtWork(e)' => d = e
    BY <1>0, <2>1 DEF AtWork
  <2>3. ASSUME Alone PROVE \A d \in Callers : pc'[d] # "shared"
    <3>1. \A e \in Callers : ~AtWork(e)
      BY <1>0, <2>3 DEF OnceInv, Cloning, AtWork, Alone
    <3> QED BY <1>0, <3>1 DEF AtWork
  <2> QED BY <1>0, <2>1, <2>2, <2>3 DEF GitInv
<1> QED BY <1>2, <1>3, <1>4, <1>5

LEMMA GitWritesInv == ASSUME TypeOK, CloneInv, NEW c \in Callers, GitWrites(c) PROVE CloneInv'
<1>1. UNCHANGED <<pc, once, cloneDone, clones>> /\ disk' = "partial" BY DEF GitWrites, proc
<1> QED BY <1>1 DEF CloneInv, OnceInv, CountInv, ResultInv, GitInv, AtWork, Cloning, Succeeded

LEMMA ReturnInv == ASSUME TypeOK, CloneInv, NEW c \in Callers, Return(c) \/ Read(c) \/ Cancel(c) \/ Refuse(c)
                   PROVE  CloneInv'
<1> USE DEF TypeOK, CloneInv, Cloning, Succeeded
<1>0. /\ UNCHANGED <<disk, once, cloneDone, clones>>
      /\ \/ UNCHANGED pc
         \/ \E l \in {"ok", "failed", "read", "refused"} : pc' = [pc EXCEPT ![c] = l]
  BY DEF Return, Read, Cancel, Refuse, Goto, proc
<1>1. OnceInv'
  <2>1. \A d \in Callers : Cloning(d)' => Cloning(d) BY <1>0
  <2> QED BY <1>0, <2>1 DEF OnceInv
<1>2. CountInv' BY <1>0 DEF CountInv
<1>3. ResultInv'
  <2>1. CASE Return(c) BY <2>1 DEF ResultInv, Return, Goto, proc
  <2>2. CASE Read(c) BY <2>2 DEF ResultInv, Read, Goto, proc
  <2>3. CASE Cancel(c) BY <2>3 DEF ResultInv, Cancel, proc
  <2>4. CASE Refuse(c) BY <2>4 DEF ResultInv, Refuse, Goto, proc
  <2> QED BY <2>1, <2>2, <2>3, <2>4
<1>4. GitInv' BY <1>0 DEF GitInv, AtWork
<1> QED BY <1>1, <1>2, <1>3, <1>4

LEMMA CrashInv == ASSUME TypeOK, CloneInv, NEW p \in Procs, Crash(p) PROVE CloneInv'
<1> USE DEF TypeOK, CloneInv, Cloning, Succeeded, Crash
<1>1. OnceInv' BY DEF OnceInv
<1>2. CountInv' BY DEF CountInv
<1>3. ResultInv' BY DEF ResultInv
<1>4. GitInv' BY DEF GitInv, AtWork
<1> QED BY <1>1, <1>2, <1>3, <1>4

LEMMA StepInv == TypeOK /\ CloneInv /\ [Next]_vars => CloneInv'
<1> SUFFICES ASSUME TypeOK, CloneInv, [Next]_vars PROVE CloneInv' OBVIOUS
<1>1. ASSUME NEW c \in Callers, Refuse(c) \/ Ensure(c) \/ Step(c) \/ Cancel(c) PROVE CloneInv'
  <2>1. CASE Ensure(c) BY <2>1, EnsureInv
  <2>2. CASE StatAbsent(c) BY <2>2, StatAbsentInv
  <2>3. CASE GitEnters(c) BY <2>3, GitEntersInv
  <2>10. CASE GitWrites(c) BY <2>10, GitWritesInv
  <2>4. CASE Return(c) \/ Read(c) \/ Cancel(c) \/ Refuse(c) BY <2>4, ReturnInv
  <2>5. CASE StatExists(c) BY <2>5, FinishInv DEF StatExists, Cloning
  <2>6. CASE GitFailsEarly(c) BY <2>6, FinishInv DEF GitFailsEarly, Cloning
  <2>7. CASE GitSucceeds(c) BY <2>7, FinishInv DEF GitSucceeds, AtWork, Cloning
  <2>8. CASE GitFails(c) BY <2>8, FinishInv DEF GitFails, AtWork, Cloning
  <2>9. CASE GitKilled(c) BY <2>9, FinishInv DEF GitKilled, AtWork, Cloning
  <2> QED BY <1>1, <2>1, <2>2, <2>3, <2>4, <2>5, <2>6, <2>7, <2>8, <2>9, <2>10 DEF Step, Git
<1>2. ASSUME NEW p \in Procs, Crash(p) PROVE CloneInv'
  BY <1>2, CrashInv
<1>3. CASE UNCHANGED vars
  BY <1>3 DEF vars, CloneInv, OnceInv, CountInv, ResultInv, GitInv, AtWork, Cloning, Succeeded
<1> QED BY <1>1, <1>2, <1>3 DEF Next

LEMMA CloneInvariant == Spec => []CloneInv
BY InitInv, StepInv, TypeCorrect, PTL DEF Spec

(* One git per life of a process, one caller at a time inside the Once.      *)
THEOREM ClonesOnce == Spec => []OneClonePerLife
<1>1. CloneInv => OneClonePerLife
  BY DEF CloneInv, OnceInv, CountInv, OneClonePerLife
<1> QED BY <1>1, CloneInvariant, PTL

(* No caller has its answer while another is still cloning for it.           *)
THEOREM NobodyReadsEarly == Spec => []NoReadDuringClone
<1>1. CloneInv => NoReadDuringClone
  BY DEF CloneInv, OnceInv, ResultInv, NoReadDuringClone
<1> QED BY <1>1, CloneInvariant, PTL

(* Ensure gives all callers of a process one result. *)
THEOREM CallersAgree == Spec => []Agreement
<1>1. CloneInv => Agreement
  BY DEF CloneInv, ResultInv, Agreement
<1> QED BY <1>1, CloneInvariant, PTL

(* A complete clone changes only under the hands of a git that has met       *)
(* another one, and no git gets into its directory.                          *)
LEMMA StepOnWhole ==
  ASSUME TypeOK, CloneInv, Next, disk = "complete", \A c \in Callers : pc[c] # "shared"
  PROVE  disk' = "complete" /\ \A c \in Callers : ~AtWork(c)'
<1>1. \A c \in Callers : ~AtWork(c) BY DEF CloneInv, GitInv, AtWork
<1>2. ASSUME NEW c \in Callers, Refuse(c) \/ Ensure(c) \/ Step(c) \/ Cancel(c)
      PROVE  /\ disk' = "complete"
             /\ UNCHANGED pc \/ \E l : l \notin {"git", "shared"} /\ pc' = [pc EXCEPT ![c] = l]
  <2>1. CASE Refuse(c) BY <2>1 DEF Refuse, Goto
  <2>2. CASE Ensure(c) BY <2>2 DEF Ensure, Goto
  <2>3. CASE Cancel(c) BY <2>3 DEF Cancel
  <2>4. CASE StatExists(c) BY <2>4 DEF StatExists, Finish, Goto
  <2>5. CASE GitFailsEarly(c) BY <2>5 DEF GitFailsEarly, Finish, Goto
  <2>6. CASE Return(c) BY <2>6 DEF Return, Goto
  <2>7. CASE Read(c) BY <2>7 DEF Read, Goto
  <2>8. ~StatAbsent(c) /\ ~GitEnters(c) BY DEF StatAbsent, GitEnters
  <2>9. ~GitWrites(c) /\ ~GitSucceeds(c) /\ ~GitFails(c) /\ ~GitKilled(c)
    BY <1>1 DEF GitWrites, GitSucceeds, GitFails, GitKilled
  <2> QED BY <1>2, <2>1, <2>2, <2>3, <2>4, <2>5, <2>6, <2>7, <2>8, <2>9 DEF Step, Git
<1>3. ASSUME NEW p \in Procs, Crash(p)
      PROVE  disk' = "complete" /\ \A c \in Callers : ~AtWork(c)'
  BY <1>1, <1>3 DEF Crash, AtWork
<1>4. ASSUME NEW c \in Callers, Refuse(c) \/ Ensure(c) \/ Step(c) \/ Cancel(c)
      PROVE  \A d \in Callers : ~AtWork(d)'
  BY <1>1, <1>2, <1>4 DEF AtWork, TypeOK
<1> QED BY <1>2, <1>3, <1>4 DEF Next

(* A process that shares the directory with no other keeps its complete      *)
(* clone through crashes, restarts, cancelled requests and failures of git.  *)
THEOREM OneProcessKeepsIt == Spec => LoneCloneStays
<1>1. TypeOK /\ CloneInv /\ [Next]_vars => [Alone /\ disk = "complete" => disk' = "complete"]_vars
  <2> SUFFICES ASSUME TypeOK, CloneInv, Next, Alone, disk = "complete" PROVE disk' = "complete"
    OBVIOUS
  <2>1. \A c \in Callers : pc[c] # "shared" BY DEF CloneInv, GitInv
  <2> QED BY <2>1, StepOnWhole
<1> QED BY <1>1, CloneInvariant, TypeCorrect, PTL DEF Spec, LoneCloneStays

(* Of any processes, none gets into a complete clone once the gits that were *)
(* at work in its directory are over.                                        *)
THEOREM LateGitsDoNoHarm == Spec => SettledCloneStays
<1>1. TypeOK /\ CloneInv /\ [Next]_vars => [Settled => Settled']_vars
  <2> SUFFICES ASSUME TypeOK, CloneInv, Next, Settled PROVE Settled'
    OBVIOUS
  <2>1. disk = "complete" /\ \A c \in Callers : pc[c] # "shared" BY DEF Settled, AtWork
  <2> QED BY <2>1, StepOnWhole DEF Settled, AtWork
<1> QED BY <1>1, CloneInvariant, TypeCorrect, PTL DEF Spec, SettledCloneStays
-----------------------------------------------------------------------------
(***************************************************************************)
(* Why an undisturbed process reads a whole clone: there is no directory   *)
(* before its git, so a Once that is done with success is one whose git    *)
(* has made a whole clone; GitInv and OnceInv make that git the only one   *)
(* in the directory, and a git that fails, or is killed, leaves an error.  *)
(***************************************************************************)
WholeAt(c) ==
  /\ answer[c] \notin {"new submission", "some plugins", "no plugins"}
  /\ Succeeded(c) => disk = "complete"
  /\ pc[c] \in {"stat", "spawn"} => disk = "absent"

WholeInv ==
  Undisturbed =>
    /\ \A p \in Procs : /\ once[p] = "fresh" => disk = "absent"
                        /\ once[p] = "done" /\ cloneDone[p] => disk = "complete"
    /\ \A c \in Callers : WholeAt(c)

(* A crash is counted for good. *)
LEMMA UndisturbedBefore ==
  ASSUME TypeOK, [Next]_vars, Undisturbed'
  PROVE  /\ Undisturbed
         /\ (\E c \in Callers : Refuse(c) \/ Ensure(c) \/ Step(c) \/ Cancel(c)) \/ UNCHANGED vars
<1>1. ASSUME NEW p \in Procs PROVE ~Crash(p)
  <2>1. SUFFICES ASSUME Crash(p) PROVE FALSE OBVIOUS
  <2>2. crashes \in [Procs -> 0..MaxCrashes] /\ crashes' = [crashes EXCEPT ![p] = crashes[p] + 1]
    BY <2>1 DEF Crash, TypeOK
  <2>3. crashes'[p] = 0 BY DEF Undisturbed
  <2> QED BY <2>2, <2>3
<1>2. (\E c \in Callers : Refuse(c) \/ Ensure(c) \/ Step(c) \/ Cancel(c)) \/ UNCHANGED vars
  BY <1>1 DEF Next
<1>3. UNCHANGED crashes
  BY <1>2 DEF Refuse, Ensure, Step, StatExists, StatAbsent, Git, GitFailsEarly, GitEnters, GitWrites,
         GitSucceeds, GitFails, GitKilled, Return, Read, Finish, Cancel, vars
<1> QED BY <1>2, <1>3 DEF Undisturbed

(* Leaving the function: with success, behind a whole clone only. *)
LEMMA FinishWhole ==
  ASSUME TypeOK, CloneInv, WholeInv, Undisturbed,
         NEW c \in Callers, Cloning(c), NEW done \in BOOLEAN, NEW err, Finish(c, done, err),
         done => disk' = "complete"
  PROVE  WholeInv'
<1> DEFINE p == Home[c]
<1>1. /\ \A q \in Procs : q = p
      /\ \A d \in Callers : Cloning(d) => d = c
      /\ once[p] = "busy" /\ \A d \in Callers : ~Succeeded(d)
  BY DEF Undisturbed, Alone, CloneInv, OnceInv, ResultInv
<1>2. /\ once'[p] = "done" /\ cloneDone'[p] = done /\ UNCHANGED answer
      /\ \A d \in Callers : pc'[d] = IF d = c THEN "waiting" ELSE pc[d]
  BY DEF Finish, Goto, TypeOK
<1>3. \A q \in Procs : once'[q] = "done" /\ (cloneDone'[q] => disk' = "complete")
  BY <1>1, <1>2
<1>4. ASSUME NEW d \in Callers PROVE WholeAt(d)'
  <2>1. ~Succeeded(d)' /\ pc'[d] \notin {"stat", "spawn"}
    BY <1>1, <1>2 DEF Succeeded, Cloning
  <2> QED BY <1>2, <2>1 DEF WholeAt, WholeInv
<1> QED BY <1>3, <1>4 DEF WholeInv

LEMMA InitWhole == Init => WholeInv
BY DEF Init, WholeInv, WholeAt, Succeeded, None

LEMMA StepWhole == TypeOK /\ CloneInv /\ WholeInv /\ [Next]_vars => WholeInv'
<1> SUFFICES ASSUME TypeOK, CloneInv, WholeInv, [Next]_vars, Undisturbed' PROVE WholeInv'
  BY DEF WholeInv
<1>1. Undisturbed BY UndisturbedBefore
<1>2. CASE UNCHANGED vars
  BY <1>1, <1>2 DEF vars, WholeInv, WholeAt, Succeeded
<1>3. ASSUME NEW c \in Callers, Refuse(c) \/ Ensure(c) \/ Return(c) \/ Cancel(c) \/ StatAbsent(c)
      PROVE  WholeInv'
  <2>1. /\ UNCHANGED <<disk, cloneDone, answer>>
        /\ \/ UNCHANGED pc
           \/ \E l \in {"refused", "stat", "spawn", "waiting", "ok", "failed"} :
                /\ \A d \in Callers : pc'[d] = IF d = c THEN l ELSE pc[d]
                /\ l = "ok" => once[Home[c]] = "done" /\ cloneDone[Home[c]]
                /\ l = "stat" => once[Home[c]] = "fresh"
                /\ l = "spawn" => disk = "absent"
    <3>1. CASE Refuse(c) BY <3>1 DEF Refuse, Goto, proc, TypeOK
    <3>2. CASE Ensure(c) BY <3>2 DEF Ensure, Goto, TypeOK
    <3>3. CASE Return(c) BY <3>3 DEF Return, Goto, proc, TypeOK
    <3>4. CASE Cancel(c) BY <3>4 DEF Cancel, proc
    <3>5. CASE StatAbsent(c) BY <3>5 DEF StatAbsent, Goto, TypeOK
    <3> QED BY <1>3, <3>1, <3>2, <3>3, <3>4, <3>5
  <2>2. \A p \in Procs : /\ once'[p] = "done" => once[p] = "done"
                         /\ once'[p] = "fresh" => once[p] = "fresh"
    BY <1>3 DEF Refuse, Ensure, Return, Cancel, StatAbsent, proc, TypeOK
  <2>3. ASSUME NEW d \in Callers PROVE WholeAt(d)'
    BY <1>1, <2>1 DEF WholeInv, WholeAt, Succeeded
  <2> QED BY <1>1, <2>1, <2>2, <2>3 DEF WholeInv
<1>4. ASSUME NEW c \in Callers, GitEnters(c) \/ GitWrites(c) PROVE WholeInv'
  <2>1. /\ Cloning(c) /\ UNCHANGED <<once, cloneDone, answer>>
        /\ \A d \in Callers : pc'[d] = pc[d] \/ pc'[d] \in {"git", "shared"}
        /\ pc'[c] \in {"git", "shared"}
    BY <1>4 DEF GitEnters, GitWrites, Joins, AtWork, Goto, proc, TypeOK, Cloning
  <2>2. /\ \A d \in Callers : Cloning(d) => d = c
        /\ \A p \in Procs : once[p] = "busy"
        /\ \A d \in Callers : ~Succeeded(d)
    BY <1>1, <2>1 DEF Undisturbed, Alone, CloneInv, OnceInv, ResultInv
  <2>3. ASSUME NEW d \in Callers PROVE WholeAt(d)'
    BY <1>1, <2>1, <2>2 DEF WholeInv, WholeAt, Succeeded, Cloning
  <2> QED BY <2>1, <2>2, <2>3 DEF WholeInv
<1>5. ASSUME NEW c \in Callers PROVE ~StatExists(c)
  BY <1>1 DEF StatExists, WholeInv, WholeAt
<1>6. ASSUME NEW c \in Callers, GitFailsEarly(c) \/ GitFails(c) \/ GitKilled(c) PROVE WholeInv'
  <2>1. Cloning(c) /\ \E err : Finish(c, FALSE, err)
    BY <1>6 DEF GitFailsEarly, GitFails, GitKilled, AtWork, Cloning
  <2> QED BY <1>1, <2>1, FinishWhole
<1>7. ASSUME NEW c \in Callers, GitSucceeds(c) PROVE WholeInv'
  <2>1. pc[c] # "shared" BY <1>1 DEF Undisturbed, CloneInv, GitInv
  <2>2. Cloning(c) /\ disk' = "complete" /\ Finish(c, TRUE, None)
    BY <1>7, <2>1 DEF GitSucceeds, AtWork, Cloning
  <2> QED BY <1>1, <2>2, FinishWhole
<1>8. ASSUME NEW c \in Callers, Read(c) PROVE WholeInv'
  <2>1. /\ pc[c] = "ok" /\ disk = "complete" /\ UNCHANGED <<disk, once, cloneDone>>
    BY <1>1, <1>8 DEF Read, proc, WholeInv, WholeAt, Succeeded
  <2>2. \A d \in Callers : pc'[d] = IF d = c THEN "read" ELSE pc[d]
    BY <1>8 DEF Read, Goto, TypeOK
  <2>3. PICK a \in {"manifest", "plugins", "error"} : answer' = [answer EXCEPT ![c] = a]
    BY <1>8, <2>1 DEF Read, Manifest, Listing
  <2>4. ASSUME NEW d \in Callers PROVE WholeAt(d)'
    BY <1>1, <2>1, <2>2, <2>3 DEF WholeInv, WholeAt, Succeeded, TypeOK
  <2> QED BY <1>1, <2>1, <2>4 DEF WholeInv
<1> QED BY <1>2, <1>3, <1>4, <1>5, <1>6, <1>7, <1>8, UndisturbedBefore DEF Step, Git

LEMMA WholeInvariant == Spec => []WholeInv
BY InitWhole, StepWhole, TypeCorrect, CloneInvariant, PTL DEF Spec

(* A process that is alone with the temp directory and not killed never      *)
(* takes a part of the index for the index, however its callers interleave.  *)
THEOREM UndisturbedIsWhole == Spec => []UndisturbedReadsAreWhole
<1>1. WholeInv => UndisturbedReadsAreWhole
  BY DEF WholeInv, WholeAt, UndisturbedReadsAreWhole
<1> QED BY <1>1, WholeInvariant, PTL
=============================================================================
