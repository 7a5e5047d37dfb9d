-------------------------------- MODULE Clone --------------------------------
(***************************************************************************)
(* The clone of krew-index that the reviews of a process share             *)
(* (internal/tools/clone.go) and the two tools that read it.               *)
(*                                                                         *)
(* A caller is one request's use of a clone-backed tool: Ensure, then the  *)
(* read.  The callers of a process share its Clone (a sync.Once and its    *)
(* result); all processes share the temp directory.  git runs under the    *)
(* context of the caller that started it: when that request is cancelled,  *)
(* or the process dies, git is killed on the spot.                         *)
(*                                                                         *)
(* External: git clone refuses a directory that is not empty, and goes     *)
(* into an empty one as it does into one that it makes.  So the gits of    *)
(* two processes can meet in a directory that one has just made.  A git    *)
(* that is killed leaves what it had written; one that fails by itself     *)
(* removes all there is, the other git's work too, unless it fails in its  *)
(* checkout, where it leaves what there is.                                *)
(***************************************************************************)
EXTENDS Naturals

CONSTANTS Procs,      \* agent processes with a common temp directory
          Callers,    \* clone-backed tool calls, one per review
          Home,       \* the process a caller runs in
          MaxCrashes  \* bound: crashes of one process

ASSUME CloneAssumption == Home \in [Callers -> Procs] /\ MaxCrashes \in Nat

None == "none"

VARIABLES
  disk,       \* os.TempDir()/krew-index: "absent", "empty", "partial" or "complete"
  once,       \* Clone.once of a process: "fresh", "busy" or "done"
  cloneDone,  \* Clone.cloneDone
  cloneErr,   \* Clone.cloneErr: None, or what became of git
  pc,         \* a caller: "idle", "refused", "waiting", "stat", "spawn", "git" (its git is
              \* at work in the directory), "shared" (and has met another one there),
              \* "ok", "failed" or "read"
  cancelled,  \* the context of the caller's request is cancelled
  answer,     \* what the tool told the LLM
  clones,     \* git processes started in this life of the process
  crashes     \* crashes of the process so far

proc == <<once, cloneDone, cloneErr, clones>>
vars == <<disk, once, cloneDone, cloneErr, pc, cancelled, answer, clones, crashes>>

Init == /\ disk = "absent"
        /\ once = [p \in Procs |-> "fresh"]
        /\ cloneDone = [p \in Procs |-> FALSE]
        /\ cloneErr = [p \in Procs |-> None]
        /\ pc = [c \in Callers |-> "idle"]
        /\ cancelled = [c \in Callers |-> FALSE]
        /\ answer = [c \in Callers |-> None]
        /\ clones = [p \in Procs |-> 0]
        /\ crashes = [p \in Procs |-> 0]
-----------------------------------------------------------------------------
Goto(c, l) == pc' = [pc EXCEPT ![c] = l]

EnsureUnlocked(c) ==    \* mutant: a flag in the place of the sync.Once
  /\ pc[c] = "idle"
  /\ once' = [once EXCEPT ![Home[c]] = IF @ = "fresh" THEN "busy" ELSE @]
  /\ Goto(c, IF once[Home[c]] = "fresh" THEN "stat" ELSE "ok")
  /\ UNCHANGED <<disk, cloneDone, cloneErr, cancelled, answer, clones, crashes>>

(* The tool checks its arguments before it touches the clone: JSON that does *)
(* not parse, or no plugin name (ValidatePluginName), ends the call.         *)
Refuse(c) == /\ pc[c] = "idle"
             /\ Goto(c, "refused")
             /\ UNCHANGED <<disk, proc, cancelled, answer, crashes>>

EnsureUnguarded(c) ==    \* mutant: the result is tested without the sync.Once
  /\ pc[c] = "idle"
  /\ IF once[Home[c]] # "done"
     THEN once' = [once EXCEPT ![Home[c]] = "busy"] /\ Goto(c, "stat")
     ELSE UNCHANGED once /\ Goto(c, "waiting")
  /\ UNCHANGED <<disk, cloneDone, cloneErr, cancelled, answer, clones, crashes>>

(* once.Do: the first caller runs the function, the others wait for its end. *)
Ensure(c) ==
  /\ pc[c] = "idle"
  /\ IF once[Home[c]] = "fresh"
     THEN once' = [once EXCEPT ![Home[c]] = "busy"] /\ Goto(c, "stat")
     ELSE UNCHANGED once /\ Goto(c, "waiting")
  /\ UNCHANGED <<disk, cloneDone, cloneErr, cancelled, answer, clones, crashes>>

FinishRetryable(c, done, err) ==    \* mutant: a failed clone leaves the Once open
  /\ once' = [once EXCEPT ![Home[c]] = IF done THEN "done" ELSE "fresh"]
  /\ cloneDone' = [cloneDone EXCEPT ![Home[c]] = done]
  /\ cloneErr' = [cloneErr EXCEPT ![Home[c]] = err]
  /\ Goto(c, "waiting")
  /\ UNCHANGED <<cancelled, answer, clones, crashes>>

(* The function returns; its caller reads the result with the others. *)
Finish(c, done, err) ==
  /\ once' = [once EXCEPT ![Home[c]] = "done"]
  /\ cloneDone' = [cloneDone EXCEPT ![Home[c]] = done]
  /\ cloneErr' = [cloneErr EXCEPT ![Home[c]] = err]
  /\ Goto(c, "waiting")
  /\ UNCHANGED <<cancelled, answer, clones, crashes>>

StatExists(c) == /\ pc[c] = "stat" /\ disk # "absent"
                 /\ Finish(c, TRUE, None)
                 /\ UNCHANGED disk

StatAbsent(c) == /\ pc[c] = "stat" /\ disk = "absent"
                 /\ Goto(c, "spawn")
                 /\ clones' = [clones EXCEPT ![Home[c]] = @ + 1]
                 /\ UNCHANGED <<disk, once, cloneDone, cloneErr, cancelled, answer, crashes>>

(* git does not come into the directory: it cannot start, the context is      *)
(* cancelled, or the directory is there since the Stat, and was not empty     *)
(* when git looked or was made between git's own look and its mkdir.          *)
GitFailsEarly(c) ==
  /\ pc[c] = "spawn"
  /\ \/ Finish(c, FALSE, "failed")
     \/ cancelled[c] /\ Finish(c, FALSE, "killed")
     \/ disk # "absent" /\ Finish(c, FALSE, "exists")
  /\ UNCHANGED disk

AtWork(c) == pc[c] \in {"git", "shared"}

Joins(c) == IF \E d \in Callers : AtWork(d)
            THEN pc' = [d \in Callers |-> IF d = c \/ AtWork(d) THEN "shared" ELSE pc[d]]
            ELSE Goto(c, "git")

GitForces(c) ==    \* mutant: the directory is removed before git runs
  /\ pc[c] = "spawn" /\ disk' = "empty"
  /\ Joins(c)
  /\ UNCHANGED <<proc, cancelled, answer, crashes>>

(* git makes the directory, or finds an empty one: from now on it looks no   *)
(* more at what is in it.                                                    *)
GitEnters(c) == /\ pc[c] = "spawn" /\ disk \in {"absent", "empty"}
                /\ disk' = "empty"
                /\ Joins(c)
                /\ UNCHANGED <<proc, cancelled, answer, crashes>>

(* git begins to write; it makes the directory again if another removed it.  *)
(* Where another git has finished, its checkout replaces the files in turn.  *)
GitWrites(c) == /\ AtWork(c)
                /\ disk \in {"absent", "empty"} \/ (pc[c] = "shared" /\ disk = "complete")
                /\ disk' = "partial"
                /\ UNCHANGED <<proc, pc, cancelled, answer, crashes>>

(* What a git leaves at its end.  Two in one directory may each undo, remove *)
(* or complete what the other has done.                                      *)
Interrupted == {disk, "partial", "complete"}

GitSucceeds(c) == /\ AtWork(c)
                  /\ disk' \in IF pc[c] = "git" THEN {"complete"} ELSE Interrupted
                  /\ Finish(c, TRUE, None)

GitFailsIgnored(c) ==    \* mutant: the error of git is dropped
  /\ AtWork(c) /\ disk' = "absent"
  /\ Finish(c, TRUE, None)

(* The directory itself stays when git had found it. *)
GitFails(c) == /\ AtWork(c)
               /\ disk' \in {"absent", "empty", "partial"} \cup (IF pc[c] = "git" THEN {} ELSE {disk})
               /\ Finish(c, FALSE, "failed")

GitKilled(c) == /\ AtWork(c) /\ cancelled[c]
                /\ disk' \in Interrupted
                /\ Finish(c, FALSE, "killed")

ReturnOwn(c) ==    \* mutant: a waiter gives up when its own context is cancelled
  /\ pc[c] = "waiting" /\ once[Home[c]] = "done"
  /\ Goto(c, IF cloneDone[Home[c]] /\ ~cancelled[c] THEN "ok" ELSE "failed")
  /\ UNCHANGED <<disk, proc, cancelled, answer, crashes>>

(* Once the function is over, every caller of the process gets its result.  *)
(* "clone not completed" is the third branch: neither done nor failed.       *)
Return(c) == /\ pc[c] = "waiting" /\ once[Home[c]] = "done"
             /\ Goto(c, IF cloneDone[Home[c]] THEN "ok" ELSE "failed")
             /\ UNCHANGED <<disk, proc, cancelled, answer, crashes>>
-----------------------------------------------------------------------------
(* fetch_plugin_manifest for a plugin that krew-index has: a missing file     *)
(* reads as a new submission, any other failure is an error.                  *)
Manifest == CASE disk = "complete" -> {"manifest", "error"}
              [] disk = "partial"  -> {"manifest", "new submission", "error"}
              [] OTHER             -> {"new submission"}

(* get_all_existing_plugins: whatever manifests parse, of those there are. *)
Listing == CASE disk = "complete" -> {"plugins", "error"}
             [] disk = "partial"  -> {"plugins", "some plugins", "no plugins", "error"}
             [] OTHER             -> {"error"}

ReadNothing(c) ==    \* mutant: a file that cannot be opened reads as an empty one
  /\ pc[c] = "ok"
  /\ answer' = [answer EXCEPT ![c] = IF disk = "complete" THEN "manifest" ELSE ""]
  /\ Goto(c, "read")
  /\ UNCHANGED <<disk, proc, cancelled, crashes>>

Read(c) == /\ pc[c] = "ok"
           /\ answer' \in {[answer EXCEPT ![c] = a] : a \in Manifest \cup Listing}
           /\ Goto(c, "read")
           /\ UNCHANGED <<disk, proc, cancelled, crashes>>
-----------------------------------------------------------------------------
Running == {"waiting", "stat", "spawn", "git", "shared"}

(* The caller's request ends early: the client went away, or its time is up. *)
Cancel(c) == /\ pc[c] \in Running /\ ~cancelled[c]
             /\ cancelled' = [cancelled EXCEPT ![c] = TRUE]
             /\ UNCHANGED <<disk, proc, pc, answer, crashes>>

(* A process dies, its git with it, and starts afresh; the temp directory    *)
(* stays.  Its requests come again.                                          *)
Crash(p) ==
  /\ crashes[p] < MaxCrashes
  /\ crashes' = [crashes EXCEPT ![p] = @ + 1]
  /\ once' = [once EXCEPT ![p] = "fresh"]
  /\ cloneDone' = [cloneDone EXCEPT ![p] = FALSE]
  /\ cloneErr' = [cloneErr EXCEPT ![p] = None]
  /\ clones' = [clones EXCEPT ![p] = 0]
  /\ pc' = [c \in Callers |-> IF Home[c] = p THEN "idle" ELSE pc[c]]
  /\ cancelled' = [c \in Callers |-> Home[c] # p /\ cancelled[c]]
  /\ answer' = [c \in Callers |-> IF Home[c] = p THEN None ELSE answer[c]]
  /\ disk' \in IF \E c \in Callers : Home[c] = p /\ AtWork(c) THEN Interrupted ELSE {disk}

Git(c)  == \/ GitFailsEarly(c) \/ GitEnters(c) \/ GitWrites(c)
           \/ GitSucceeds(c) \/ GitFails(c) \/ GitKilled(c)
Step(c) == StatExists(c) \/ StatAbsent(c) \/ Git(c) \/ Return(c) \/ Read(c)

Next == \/ \E c \in Callers : Refuse(c) \/ Ensure(c) \/ Step(c) \/ Cancel(c)
        \/ \E p \in Procs : Crash(p)

(* A goroutine that can run does, and git ends: by itself, or killed when   *)
(* the platform's request timeout cancels the context it runs under.        *)
Spec == Init /\ [][Next]_vars /\ \A c \in Callers : WF_vars(Step(c))
-----------------------------------------------------------------------------
TypeOK ==
  /\ disk \in {"absent", "empty", "partial", "complete"}
  /\ once \in [Procs -> {"fresh", "busy", "done"}]
  /\ cloneDone \in [Procs -> BOOLEAN]
  /\ cloneErr \in [Procs -> {None, "failed", "killed", "exists"}]
  /\ pc \in [Callers -> Running \cup {"idle", "refused", "ok", "failed", "read"}]
  /\ cancelled \in [Callers -> BOOLEAN]
  /\ answer \in [Callers -> {None, "manifest", "new submission", "plugins",
                            "some plugins", "no plugins", "error"}]
  /\ clones \in [Procs -> Nat] /\ crashes \in [Procs -> 0..MaxCrashes]

Cloning(c)   == pc[c] \in {"stat", "spawn", "git", "shared"}
Succeeded(c) == pc[c] \in {"ok", "read"}

(* "No re-clone is performed within a process lifetime" (clone.go:37): one   *)
(* process starts git once at most, whatever its callers do, and one caller  *)
(* at a time is inside the function of the Once.                             *)
OneClonePerLife ==
  /\ \A p \in Procs : clones[p] <= 1
  /\ \A c, d \in Callers : Cloning(c) /\ Cloning(d) /\ Home[c] = Home[d] => c = d

(* Nobody reads the directory while its own process is still filling it.     *)
NoReadDuringClone ==
  \A c, d \in Callers : Succeeded(c) /\ Home[c] = Home[d] => ~Cloning(d)

(* All the callers of a process get the same result of Ensure, however they  *)
(* and the clone interleave and whichever of them are cancelled.             *)
Agreement ==
  \A c, d \in Callers : Succeeded(c) /\ Home[c] = Home[d] => pc[d] # "failed"

(* The temp directory belongs to one process, through its lives. *)
Alone == \A p, q \in Procs : p = q

(* One process, however its callers interleave and however often it dies,    *)
(* never damages a complete clone: there is one git at a time, and none is   *)
(* started where there is a directory.                                       *)
LoneCloneStays == [][Alone /\ disk = "complete" => disk' = "complete"]_vars

(* Processes that share the directory leave a complete clone alone for good  *)
(* once no git is at work in it: not even one whose Stat saw no directory,   *)
(* and whose git comes late, gets into it.                                   *)
Settled == disk = "complete" /\ \A c \in Callers : ~AtWork(c)
SettledCloneStays == [][Settled => Settled']_vars

(* clone.go:38-39: "The clone is a shallow `git clone --depth 1` and is      *)
(* read-only after creation", by whichever process that shares its directory. *)
CompleteIsForever == [][disk = "complete" => disk' = "complete"]_vars

Undisturbed == Alone /\ \A p \in Procs : crashes[p] = 0

(* With one process that is not killed, the tools answer from a whole clone, *)
(* whichever requests are cancelled and however git fails: a plugin of the   *)
(* index is never reported as new and none is missing from the listing.      *)
UndisturbedReadsAreWhole ==
  Undisturbed => \A c \in Callers : answer[c] \notin {"new submission", "some plugins", "no plugins"}

(* A call of Ensure returns, unless its process dies first. *)
EnsureReturns ==
  \A c \in Callers : pc[c] \in Running ~> pc[c] \notin Running

(* design/AGENT_CLI.md:400, fetch_plugin_manifest: "For existing-plugin      *)
(* updates: returns the original (pre-PR) manifest."                         *)
ExistingPluginIsNotNew == \A c \in Callers : answer[c] # "new submission"

(* README.md:66: "Each review runs in isolation": a review whose clone was   *)
(* killed by a cancelled request is the review of that request.              *)
ReviewsAreIsolated ==
  \A c \in Callers : pc[c] = "failed" /\ cloneErr[Home[c]] = "killed" => cancelled[c]
=============================================================================
