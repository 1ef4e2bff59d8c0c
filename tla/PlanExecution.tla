---------------------------- MODULE PlanExecution ----------------------------
(***************************************************************************)
(* `ewb runs execute` on one plan, by any number of concurrent processes:  *)
(* the plan's lock file, its private execution root, the native child in   *)
(* its Windows job object, the capture of the child's output, the checks   *)
(* that nothing changed meanwhile, and the run record.                     *)
(*                                                                         *)
(* Plans do not share locks or roots, so one plan is enough.  Its subject  *)
(* is one that is materialized (a Git tree or an artifact).  The native    *)
(* program is the environment: it writes, forks, exits and changes its     *)
(* subject when it likes.  The two captured streams count as one, since    *)
(* the bound is on their sum.                                              *)
(***************************************************************************)
EXTENDS Naturals

CONSTANTS
  Execs,  \* the processes that execute the plan
  None,   \* no process
  Limit   \* MAX_CAPTURE_BYTES, in units of what the native program writes

ASSUME ExecutionAssumption == None \notin Execs /\ Limit \in Nat

VARIABLES
  lock,      \* the process whose lock file exists, or None
  root,      \* the process that created the execution root, or None
  intact,    \* the subject in the root is what was materialized
  launcher,  \* the staged native launcher is what the plan names
  pc,        \* pc[p]: where p is
  child,     \* child[p]: p's direct child
  kid,       \* kid[p]: a process the child started, in the job or not
  out,       \* out[p]: the bytes in p's capture files
  term,      \* term[p]: the termination p recorded
  same,      \* same[p]: p found its subject unchanged afterwards
  capture,   \* capture[p]: the bytes of the capture that is imported, or NoCapture
  result,    \* result[p]: the native result
  runs       \* the executions whose run record is in the registry

shared == <<lock, root, intact, launcher>>
process == <<child, kid, out>>
outcome == <<term, same, capture, result, runs>>
vars == <<shared, pc, process, outcome>>

NoCapture == Limit + 2
Ended == {"done", "failed", "crashed"}

Init ==
  /\ lock = None
  /\ root = None
  /\ intact = TRUE
  /\ launcher = TRUE
  /\ pc = [p \in Execs |-> "idle"]
  /\ child = [p \in Execs |-> "none"]
  /\ kid = [p \in Execs |-> "none"]
  /\ out = [p \in Execs |-> 0]
  /\ term = [p \in Execs |-> "none"]
  /\ same = [p \in Execs |-> FALSE]
  /\ capture = [p \in Execs |-> NoCapture]
  /\ result = [p \in Execs |-> "none"]
  /\ runs = {}

Goto(p, label) == pc' = [pc EXCEPT ![p] = label]

(* The labels at which p has the plan locked, has its execution root,      *)
(* and holds the launcher open against writers.                            *)
InRunDirect == {"prepare", "assign", "wait", "poll", "recheck", "measure", "close"}
Holding == InRunDirect \cup {"after", "import", "copy", "extract", "cleanup"}
Guarded == Holding \cup {"open", "guard"}
Locked == Guarded \cup {"locked", "write", "drop", "drop_done"}

-----------------------------------------------------------------------------
(* The plan is loaded, its digest compared with the reviewed one and all of*)
(* it validated, the bytes of the staged launcher included, before locking.*)
Review(p) ==
  /\ pc[p] = "idle"
  /\ Goto(p, IF launcher THEN "reviewed" ELSE "failed")
  /\ UNCHANGED <<shared, process, outcome>>

(* Mutant: a lock file that is there is opened as if it had been created. *)
AcquireShared(p) ==
  /\ pc[p] = "reviewed"
  /\ lock' = p
  /\ Goto(p, "locked")
  /\ UNCHANGED <<root, intact, launcher, process, outcome>>

(* create_new of the lock file: a plan that is executing is refused.       *)
Acquire(p) ==
  /\ pc[p] = "reviewed"
  /\ IF lock = None
     THEN lock' = p /\ Goto(p, "locked")
     ELSE Goto(p, "failed") /\ UNCHANGED lock
  /\ UNCHANGED <<root, intact, launcher, process, outcome>>

(* The manifest, recorder, adapter or invocation differ from the plan's, or*)
(* the capability is not approved.                                         *)
Refuse(p) ==
  /\ pc[p] = "locked"
  /\ Goto(p, "drop")
  /\ UNCHANGED <<shared, process, outcome>>

(* Mutant: whatever root is there is rolled back when creating it fails. *)
MaterializeRollsBack(p) ==
  /\ pc[p] = "locked"
  /\ \/ root = None /\ root' = p /\ intact' = TRUE /\ Goto(p, "open")
     \/ root' = None /\ intact' = TRUE /\ Goto(p, "drop")
  /\ UNCHANGED <<lock, launcher, process, outcome>>

(* The execution root is created by this process or not at all, filled, and*)
(* removed again when filling it fails (if that is possible).              *)
Materialize(p) ==
  /\ pc[p] = "locked"
  /\ \/ root # None /\ Goto(p, "drop") /\ UNCHANGED <<root, intact>>
     \/ root = None /\ root' = p /\ intact' = TRUE /\ Goto(p, "open")
     \/ root = None /\ root' \in {None, p} /\ intact' = TRUE /\ Goto(p, "drop")
  /\ UNCHANGED <<lock, launcher, process, outcome>>

(* The staged launcher is opened, refusing writers, and verified.          *)
OpenNative(p) ==
  /\ pc[p] = "open"
  /\ Goto(p, IF launcher THEN "prepare" ELSE "guard")
  /\ UNCHANGED <<shared, process, outcome>>

(* What a process knows goes with it, unless its run record keeps it; what *)
(* it started and is still running goes on, or dies with the job.          *)
ForgetOutcome(p) ==
  /\ out' = [out EXCEPT ![p] = 0]
  /\ term' = [term EXCEPT ![p] = "none"]
  /\ same' = [same EXCEPT ![p] = FALSE]
  /\ capture' = [capture EXCEPT ![p] = NoCapture]
  /\ result' = [result EXCEPT ![p] = "none"]
  /\ UNCHANGED runs

Forget(p) ==
  /\ child' = [child EXCEPT ![p] = IF @ = "running" THEN @ ELSE "none"]
  /\ kid' = [kid EXCEPT ![p] = IF @ = "gone" THEN "none" ELSE @]
  /\ ForgetOutcome(p)

ForgetJob(p) ==
  /\ child' = [child EXCEPT ![p] = "none"]
  /\ kid' = [kid EXCEPT ![p] = IF @ = "free" THEN @ ELSE "none"]
  /\ ForgetOutcome(p)

(* Any error returned while the root is guarded: in run_direct before the  *)
(* spawn, from polling, from syncing, or from importing.  Leaving          *)
(* run_direct closes the job, which kills what is in it.                   *)
KillJob(p) ==
  /\ child' = [child EXCEPT ![p] = IF @ = "running" THEN "killed" ELSE @]
  /\ kid' = [kid EXCEPT ![p] = IF @ = "jobbed" THEN "gone" ELSE @]

GiveUp(p) ==
  /\ pc[p] \in {"prepare", "wait", "recheck", "measure", "import"}
  /\ Goto(p, "guard")
  /\ KillJob(p)
  /\ UNCHANGED <<shared, out, outcome>>

-----------------------------------------------------------------------------
Terminate(p, how, label) ==
  /\ term' = [term EXCEPT ![p] = how]
  /\ Goto(p, label)
  /\ UNCHANGED <<same, capture, result, runs>>

DiscardCapture(p) == out' = [out EXCEPT ![p] = 0]

KillChild(p) ==
  child' = [child EXCEPT ![p] = IF @ = "running" THEN "killed" ELSE @]

Spawn(p) ==
  /\ pc[p] = "prepare"
  /\ child' = [child EXCEPT ![p] = "running"]
  /\ Goto(p, "assign")
  /\ UNCHANGED <<shared, kid, out, outcome>>

SpawnFails(p) ==
  /\ pc[p] = "prepare"
  /\ Terminate(p, "spawn_error", "after")
  /\ UNCHANGED <<shared, process>>

(* The child is already running when it is assigned to its job.            *)
AssignJob(p) ==
  /\ pc[p] = "assign"
  /\ Goto(p, "wait")
  /\ UNCHANGED <<shared, process, outcome>>

(* Assignment fails: the child is killed, unless it has already ended, and *)
(* its output is discarded.                                                *)
AssignFails(p) ==
  /\ pc[p] = "assign"
  /\ KillChild(p)
  /\ DiscardCapture(p)
  /\ Terminate(p, "spawn_error", "after")
  /\ UNCHANGED <<shared, kid>>

(* Mutant: the loop is left without a termination. *)
PollExitedUnrecorded(p) ==
  /\ pc[p] = "wait"
  /\ child[p] = "exited"
  /\ Goto(p, "recheck")
  /\ UNCHANGED <<shared, process, outcome>>

PollExited(p) ==
  /\ pc[p] = "wait"
  /\ child[p] = "exited"
  /\ Terminate(p, "exited", "recheck")
  /\ UNCHANGED <<shared, process>>

PollRunning(p) ==
  /\ pc[p] = "wait"
  /\ child[p] = "running"
  /\ Goto(p, "poll")
  /\ UNCHANGED <<shared, process, outcome>>

(* Not exited at the last look: too much output, then too much time, end   *)
(* the child; else it is looked at again.                                  *)
PollOverflow(p) ==
  /\ pc[p] = "poll"
  /\ out[p] > Limit
  /\ KillChild(p)
  /\ Terminate(p, "interrupted", "recheck")
  /\ UNCHANGED <<shared, kid, out>>

(* Mutant: a child that is over its time is recorded as exited. *)
PollTimeoutAsExit(p) ==
  /\ pc[p] = "poll"
  /\ out[p] <= Limit
  /\ KillChild(p)
  /\ Terminate(p, "exited", "recheck")
  /\ UNCHANGED <<shared, kid, out>>

(* Mutant: the time is never looked at. *)
PollNoTimeout(p) == FALSE

PollTimeout(p) ==
  /\ pc[p] = "poll"
  /\ out[p] <= Limit
  /\ KillChild(p)
  /\ Terminate(p, "timed_out", "recheck")
  /\ UNCHANGED <<shared, kid, out>>

PollAgain(p) ==
  /\ pc[p] = "poll"
  /\ out[p] <= Limit
  /\ Goto(p, "wait")
  /\ UNCHANGED <<shared, process, outcome>>

(* The application directory, the search path or the empty PATH changed    *)
(* while the child ran: the run counts as interrupted.                     *)
RecheckInventory(p) ==
  /\ pc[p] = "recheck"
  /\ \E how \in {term[p], "interrupted"} : Terminate(p, how, "measure")
  /\ UNCHANGED <<shared, process>>

(* Mutant: the size is only looked at while the child runs. *)
MeasureSkipped(p) ==
  /\ pc[p] = "measure"
  /\ capture' = [capture EXCEPT ![p] = 0]
  /\ Goto(p, "close")
  /\ UNCHANGED <<shared, process, term, same, result, runs>>

(* The final length of the capture decides whether it is kept (capture is  *)
(* provisionally 0 until it is imported) or discarded.                     *)
Measure(p) ==
  /\ pc[p] = "measure"
  /\ IF out[p] > Limit
     THEN /\ term' = [term EXCEPT ![p] = "interrupted"]
          /\ DiscardCapture(p)
          /\ UNCHANGED capture
     ELSE capture' = [capture EXCEPT ![p] = 0] /\ UNCHANGED <<term, out>>
  /\ Goto(p, "close")
  /\ UNCHANGED <<shared, child, kid, same, result, runs>>

(* Mutant: the job is kept open when run_direct returns. *)
CloseJobNever(p) ==
  /\ pc[p] = "close"
  /\ Goto(p, "after")
  /\ UNCHANGED <<shared, process, outcome>>

CloseJob(p) ==
  /\ pc[p] = "close"
  /\ KillJob(p)
  /\ Goto(p, "after")
  /\ UNCHANGED <<shared, out, outcome>>

-----------------------------------------------------------------------------
(* The subject is verified again; the launcher cannot have changed.        *)
VerifySubject(p) ==
  /\ pc[p] = "after"
  /\ same' = [same EXCEPT ![p] = intact]
  /\ Goto(p, IF capture[p] = NoCapture THEN "extract" ELSE "import")
  /\ UNCHANGED <<shared, process, term, capture, result, runs>>

BeginImport(p) ==
  /\ pc[p] = "import"
  /\ capture' = [capture EXCEPT ![p] = out[p]]
  /\ Goto(p, "copy")
  /\ UNCHANGED <<shared, process, term, same, result, runs>>

(* The length is noted before the copy; a capture that grew meanwhile fails*)
(* the whole execution.                                                    *)
EndImport(p) ==
  /\ pc[p] = "copy"
  /\ IF out[p] = capture[p]
     THEN Goto(p, "extract") /\ DiscardCapture(p)
     ELSE Goto(p, "guard") /\ UNCHANGED out
  /\ UNCHANGED <<shared, child, kid, outcome>>

(* Native observations are projected from the imported bytes of an exited  *)
(* child; a changed subject withdraws them.                                *)
Extract(p) ==
  /\ pc[p] = "extract"
  /\ result' \in {[result EXCEPT ![p] = "not_reported"]} \cup
       (IF term[p] = "exited" /\ capture[p] # NoCapture /\ same[p]
        THEN {[result EXCEPT ![p] = "reported"]} ELSE {})
  /\ Goto(p, "cleanup")
  /\ UNCHANGED <<shared, process, term, same, capture, runs>>

RemoveRoot == root' = None /\ intact' = TRUE

(* The root must go before a run is recorded; if it cannot, there is no    *)
(* record, and the root stays.                                             *)
CleanupRoot(p) ==
  /\ pc[p] = "cleanup"
  /\ \/ RemoveRoot /\ Goto(p, "write")
     \/ UNCHANGED <<root, intact>> /\ Goto(p, "drop")
  /\ UNCHANGED <<lock, launcher, process, outcome>>

(* The guard of the root removes it on an error, if it can.                *)
GuardCleanup(p) ==
  /\ pc[p] = "guard"
  /\ RemoveRoot \/ UNCHANGED <<root, intact>>
  /\ Goto(p, "drop")
  /\ UNCHANGED <<lock, launcher, process, outcome>>

(* The run is validated as a whole, the staged launcher's bytes included,  *)
(* and written; either may fail.                                           *)
WriteRun(p) ==
  /\ pc[p] = "write"
  /\ \/ launcher /\ runs' = runs \cup {p} /\ Goto(p, "drop_done")
     \/ UNCHANGED runs /\ Goto(p, "drop")
  /\ UNCHANGED <<shared, process, term, same, capture, result>>

(* Dropping the lock removes its file; an error there is ignored.          *)
Unlock(p) ==
  /\ lock' \in {None, lock}
  /\ UNCHANGED <<root, intact, launcher>>

ReleaseFailed(p) ==
  /\ pc[p] = "drop"
  /\ Goto(p, "failed")
  /\ Unlock(p)
  /\ Forget(p)

ReleaseDone(p) ==
  /\ pc[p] = "drop_done"
  /\ Goto(p, "done")
  /\ Unlock(p)
  /\ UNCHANGED <<process, outcome>>

(* The process is killed.  Windows closes its handles: what is in its job  *)
(* dies with it, while a child not yet assigned goes on.                   *)
CrashRunning(p) ==
  /\ pc[p] = "assign"
  /\ Goto(p, "crashed")
  /\ Forget(p)
  /\ UNCHANGED shared

CrashJob(p) ==
  /\ pc[p] \notin Ended \cup {"idle", "assign", "drop_done"}
  /\ Goto(p, "crashed")
  /\ ForgetJob(p)
  /\ UNCHANGED shared

CrashRecorded(p) ==
  /\ pc[p] = "drop_done"
  /\ Goto(p, "crashed")
  /\ UNCHANGED <<shared, process, outcome>>

Crash(p) == CrashRunning(p) \/ CrashJob(p) \/ CrashRecorded(p)

Execute(p) ==
  \/ Review(p) \/ Acquire(p) \/ Refuse(p) \/ Materialize(p) \/ OpenNative(p)
  \/ GiveUp(p) \/ Spawn(p) \/ SpawnFails(p) \/ AssignJob(p) \/ AssignFails(p)
  \/ PollExited(p) \/ PollRunning(p) \/ PollOverflow(p) \/ PollTimeout(p)
  \/ PollAgain(p) \/ RecheckInventory(p) \/ Measure(p) \/ CloseJob(p)
  \/ VerifySubject(p) \/ BeginImport(p) \/ EndImport(p) \/ Extract(p)
  \/ CleanupRoot(p) \/ GuardCleanup(p) \/ WriteRun(p)
  \/ ReleaseFailed(p) \/ ReleaseDone(p)

-----------------------------------------------------------------------------
(* The native program.                                                     *)
Alive(p) == child[p] = "running" \/ kid[p] \in {"jobbed", "free"}

Captured(p) ==
  \/ pc[p] \in {"assign", "wait", "poll", "recheck", "measure"}
  \/ pc[p] \in {"close", "after", "import", "copy"} /\ capture[p] # NoCapture

NativeWrites(p) ==
  /\ Alive(p)
  /\ Captured(p)
  /\ out[p] <= Limit
  /\ out' = [out EXCEPT ![p] = @ + 1]
  /\ UNCHANGED <<shared, pc, child, kid, outcome>>

NativeForks(p) ==
  /\ child[p] = "running"
  /\ kid[p] = "none"
  /\ kid' = [kid EXCEPT ![p] = IF pc[p] \in {"assign", "crashed"} THEN "free" ELSE "jobbed"]
  /\ UNCHANGED <<shared, pc, child, out, outcome>>

NativeExits(p) ==
  /\ \/ child[p] = "running" /\ child' = [child EXCEPT ![p] = "exited"]
        /\ UNCHANGED kid
     \/ kid[p] \in {"jobbed", "free"} /\ kid' = [kid EXCEPT ![p] = "gone"]
        /\ UNCHANGED child
  /\ UNCHANGED <<shared, pc, out, outcome>>

NativeChangesSubject(p) ==
  /\ Alive(p)
  /\ root # None
  /\ intact' = FALSE
  /\ UNCHANGED <<lock, root, launcher, pc, process, outcome>>

(* Somebody with the user's rights changes the staged launcher while       *)
(* nobody holds it open.                                                   *)
LauncherChanges ==
  /\ launcher
  /\ \A p \in Execs : pc[p] \notin Holding
  /\ launcher' = FALSE
  /\ UNCHANGED <<lock, root, intact, pc, process, outcome>>

Native(p) ==
  \/ NativeWrites(p) \/ NativeForks(p) \/ NativeExits(p)
  \/ NativeChangesSubject(p)

Next ==
  \/ \E p \in Execs : Execute(p) \/ Crash(p) \/ Native(p)
  \/ LauncherChanges

Spec == Init /\ [][Next]_vars

(* A started ewb process keeps running; and since time passes between two  *)
(* polls, a child that never exits cannot be found within its time at every*)
(* poll for ever.                                                          *)
FairSpec ==
  /\ Spec
  /\ \A p \in Execs : WF_vars(pc[p] # "idle" /\ Execute(p))
  /\ \A p \in Execs : SF_vars(PollTimeout(p))

-----------------------------------------------------------------------------
Labels == Locked \cup Ended \cup {"idle", "reviewed"}
Terminations == {"none", "exited", "interrupted", "timed_out", "spawn_error"}

TypeOK ==
  /\ lock \in Execs \cup {None}
  /\ root \in Execs \cup {None}
  /\ intact \in BOOLEAN
  /\ launcher \in BOOLEAN
  /\ pc \in [Execs -> Labels]
  /\ child \in [Execs -> {"none", "running", "exited", "killed"}]
  /\ kid \in [Execs -> {"none", "jobbed", "free", "gone"}]
  /\ out \in [Execs -> 0 .. Limit + 1]
  /\ term \in [Execs -> Terminations]
  /\ same \in [Execs -> BOOLEAN]
  /\ capture \in [Execs -> 0 .. Limit + 2]
  /\ result \in [Execs -> {"none", "reported", "not_reported"}]
  /\ runs \in SUBSET Execs
  /\ \A p \in runs : term[p] # "none" /\ result[p] # "none"

(* Whatever runs under the plan has the plan to itself: from the creation  *)
(* of its execution root to the removal of it, the lock file and the root  *)
(* are this process's own, so no native child ever works in a root that    *)
(* another execution made or is about to remove.                           *)
ExecutionIsExclusive ==
  /\ \A p \in Execs : pc[p] \in Locked => lock = p
  /\ \A p \in Execs : pc[p] \in Guarded => root = p

(* An execution root is removed only by the process that created it, while *)
(* it is still running: one left by a crash or a failed cleanup is never   *)
(* overwritten, reused or rolled back by a later attempt.                  *)
ForeignRootStays ==
  [][root # None /\ root' # root =>
       root' = None /\ pc[root] \in {"cleanup", "guard"}]_vars

(* A native result in the registry was earned: the direct child exited by  *)
(* itself, was recorded so, its output was imported, and the subject was   *)
(* verified unchanged.  A timeout, an overflow, a spawn error or a changed *)
(* subject never turns into a result.                                      *)
ResultIsEarned ==
  \A p \in runs : result[p] = "reported" =>
    /\ child[p] = "exited"
    /\ term[p] = "exited"
    /\ capture[p] # NoCapture
    /\ same[p]

(* Nothing in the job outlives run_direct: when captures are imported, the *)
(* root is removed or an error is reported, the child and every descendant *)
(* it started in the job are gone; only a child whose executor crashed     *)
(* before assigning it to the job goes on.                                 *)
JobTreeIsDead ==
  \A p \in Execs : pc[p] \notin InRunDirect =>
    /\ kid[p] # "jobbed"
    /\ child[p] = "running" => pc[p] = "crashed"

(* A recorded capture is within the bound when the native program started  *)
(* no further process.                                                     *)
CaptureOfOneProcessIsBounded ==
  \A p \in runs : kid[p] = "none" /\ capture[p] # NoCapture => capture[p] <= Limit

(* Every recorded capture is within the bound.                             *)
CaptureIsBounded == \A p \in runs : capture[p] # NoCapture => capture[p] <= Limit

(* Every execution ends, whatever the native program does.                 *)
EveryExecutionEnds == \A p \in Execs : pc[p] # "idle" ~> pc[p] \in Ended

-----------------------------------------------------------------------------
(* The inductive invariants.  What is running where: a child runs from its *)
(* spawn to the end of the polling or, unassigned, after a crash, and what *)
(* it starts is in the job only while the job is open.                     *)
Running == {"assign", "wait", "poll"}
JobOpen == InRunDirect \ {"prepare", "assign"}
ProcessInv ==
  /\ pc \in [Execs -> Labels]
  /\ child \in [Execs -> {"none", "running", "exited", "killed"}]
  /\ kid \in [Execs -> {"none", "jobbed", "free", "gone"}]
  /\ \A p \in Execs : child[p] = "running" => pc[p] \in Running \cup {"crashed"}
  /\ \A p \in Execs : kid[p] = "jobbed" => pc[p] \in JobOpen

(* A recorded exit is a child's exit, and a result was extracted from it.  *)
Unfinished == {"idle", "reviewed", "locked", "open", "prepare"} \cup Running
Extracted == {"cleanup", "write", "drop", "drop_done", "done", "crashed"}
Earned(p) ==
  /\ child[p] = "exited"
  /\ term[p] = "exited"
  /\ capture[p] # NoCapture
  /\ same[p]
EarnedInv ==
  /\ runs \in SUBSET Execs
  /\ intact \in BOOLEAN
  /\ term \in [Execs -> Terminations]
  /\ same \in [Execs -> BOOLEAN]
  /\ capture \in [Execs -> 0 .. Limit + 2]
  /\ result \in [Execs -> {"none", "reported", "not_reported"}]
  /\ \A p \in Execs : pc[p] \in Unfinished => term[p] # "exited"
  /\ \A p \in Execs : term[p] = "exited" => child[p] = "exited"
  /\ \A p \in Execs : result[p] = "reported" => pc[p] \in Extracted /\ Earned(p)

(* A capture that passed the measurement grows only if something but the   *)
(* child writes it.                                                        *)
Measured == {"close", "after", "import", "copy"}
CaptureInv ==
  /\ out \in [Execs -> 0 .. Limit + 1]
  /\ \A p \in Execs : capture[p] # NoCapture /\ kid[p] = "none" =>
       /\ capture[p] <= Limit
       /\ pc[p] \in Measured => out[p] <= Limit
  /\ \A p \in Execs : pc[p] \in Unfinished => capture[p] = NoCapture
  /\ \A p \in Execs : pc[p] \in {"import", "copy"} => capture[p] # NoCapture
=============================================================================
