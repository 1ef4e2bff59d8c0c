------------------------ MODULE PlanExecutionProofs ------------------------
(***************************************************************************)
(* What holds of PlanExecution for every set of executing processes and    *)
(* every capture bound, proved with TLAPS.                                 *)
(***************************************************************************)
EXTENDS PlanExecution, TLAPS

(* The part of the type invariant the proofs need: where processes are.    *)
PcType == pc \in [Execs -> Labels]

(* ExecutionIsExclusive is inductive with it: the lock file is created     *)
(* only where there is none and removed only by the process that has it,   *)
(* and so is the execution root.                                           *)
ExclusiveInv == PcType /\ ExecutionIsExclusive

LEMMA ExclusiveInit == Init => ExclusiveInv
BY ExecutionAssumption
   DEF Init, ExclusiveInv, PcType, ExecutionIsExclusive, Labels, Locked,
       Guarded, Holding, InRunDirect, Ended

(* A step that moves only p, between labels, and keeps lock and root.      *)
LEMMA MoveKeepsExclusive ==
  ASSUME ExclusiveInv, NEW p \in Execs, NEW label \in Labels,
         pc' = [pc EXCEPT ![p] = label],
         lock' = lock, root' = root,
         label \in Locked => pc[p] \in Locked,
         label \in Guarded => pc[p] \in Guarded
  PROVE  ExclusiveInv'
BY DEF ExclusiveInv, PcType, ExecutionIsExclusive

LEMMA StutterKeepsExclusive ==
  ASSUME ExclusiveInv, UNCHANGED <<lock, root, pc>>
  PROVE  ExclusiveInv'
BY DEF ExclusiveInv, PcType, ExecutionIsExclusive, shared

LEMMA ExclusiveExecute ==
  ASSUME ExclusiveInv, NEW p \in Execs, Execute(p)
  PROVE  ExclusiveInv'
<1> USE DEF shared, Goto, Labels, Locked, Guarded, Holding, InRunDirect, Ended
<1> DEFINE Moved(label) ==
      /\ pc' = [pc EXCEPT ![p] = label]
      /\ lock' = lock
      /\ root' = root
      /\ label \in Labels
      /\ label \in Locked => pc[p] \in Locked
      /\ label \in Guarded => pc[p] \in Guarded
<1>0. (\E label : Moved(label)) => ExclusiveInv'
  BY MoveKeepsExclusive
<1>1. CASE Acquire(p)
  BY <1>1, ExecutionAssumption
     DEF Acquire, ExclusiveInv, PcType, ExecutionIsExclusive
<1>2. CASE Materialize(p)
  BY <1>2, ExecutionAssumption
     DEF Materialize, ExclusiveInv, PcType, ExecutionIsExclusive
<1>3. CASE CleanupRoot(p) \/ GuardCleanup(p)
  BY <1>3, ExecutionAssumption
     DEF CleanupRoot, GuardCleanup, RemoveRoot, ExclusiveInv, PcType,
         ExecutionIsExclusive
<1>4. CASE ReleaseFailed(p) \/ ReleaseDone(p)
  BY <1>4, ExecutionAssumption
     DEF ReleaseFailed, ReleaseDone, Unlock, ExclusiveInv, PcType,
         ExecutionIsExclusive
<1>5. CASE Review(p) \/ Refuse(p) \/ OpenNative(p) \/ GiveUp(p)
  <2>1. \E label : Moved(label)
    BY <1>5 DEF Review, Refuse, OpenNative, GiveUp
  <2> QED BY <1>0, <2>1
<1>6. CASE Spawn(p) \/ SpawnFails(p) \/ AssignJob(p) \/ AssignFails(p)
  <2>1. \E label : Moved(label)
    BY <1>6 DEF Spawn, SpawnFails, AssignJob, AssignFails, Terminate
  <2> QED BY <1>0, <2>1
<1>7. CASE PollExited(p) \/ PollRunning(p) \/ PollOverflow(p)
           \/ PollTimeout(p) \/ PollAgain(p)
  <2>1. \E label : Moved(label)
    BY <1>7 DEF PollExited, PollRunning, PollOverflow, PollTimeout, PollAgain,
                Terminate
  <2> QED BY <1>0, <2>1
<1>8. CASE RecheckInventory(p) \/ Measure(p) \/ CloseJob(p)
  <2>1. \E label : Moved(label)
    BY <1>8 DEF RecheckInventory, Measure, CloseJob, Terminate
  <2> QED BY <1>0, <2>1
<1>9. CASE VerifySubject(p) \/ BeginImport(p) \/ EndImport(p) \/ Extract(p)
  <2>1. \E label : Moved(label)
    BY <1>9 DEF VerifySubject, BeginImport, EndImport, Extract
  <2> QED BY <1>0, <2>1
<1>10. CASE WriteRun(p)
  <2>1. \E label : Moved(label)
    BY <1>10 DEF WriteRun
  <2> QED BY <1>0, <2>1
<1> QED
  BY <1>1, <1>2, <1>3, <1>4, <1>5, <1>6, <1>7, <1>8, <1>9, <1>10 DEF Execute

LEMMA ExclusiveStep == ExclusiveInv /\ [Next]_vars => ExclusiveInv'
<1> SUFFICES ASSUME ExclusiveInv, [Next]_vars PROVE ExclusiveInv'
  OBVIOUS
<1>1. CASE \E p \in Execs : Execute(p)
  BY <1>1, ExclusiveExecute
<1>2. ASSUME NEW p \in Execs, Crash(p) PROVE ExclusiveInv'
  BY <1>2, MoveKeepsExclusive
     DEF Crash, CrashRunning, CrashJob, CrashRecorded, shared, Goto, Labels,
         Locked, Guarded, Holding, InRunDirect, Ended
<1>3. ASSUME NEW p \in Execs, Native(p) PROVE ExclusiveInv'
  BY <1>3, StutterKeepsExclusive
     DEF Native, NativeWrites, NativeForks, NativeExits, NativeChangesSubject,
         shared
<1>4. CASE LauncherChanges
  BY <1>4, StutterKeepsExclusive DEF LauncherChanges
<1>5. CASE UNCHANGED vars
  BY <1>5, StutterKeepsExclusive DEF vars, shared
<1> QED BY <1>1, <1>2, <1>3, <1>4, <1>5 DEF Next

(* However many processes execute the plan, whatever crashes and whatever  *)
(* the native program does: a native child works under a lock file and in  *)
(* an execution root that are its own executor's.                          *)
THEOREM PlansAreExclusive == Spec => []ExecutionIsExclusive
<1>1. ExclusiveInv => ExecutionIsExclusive
  BY DEF ExclusiveInv
<1> QED BY <1>1, ExclusiveInit, ExclusiveStep, PTL DEF Spec

(* An execution root is removed only by the running process that created   *)
(* it; none that a crash or a failed cleanup left is touched again.        *)
THEOREM RootsStayTheirOwners == Spec => ForeignRootStays
<1>1. ExclusiveInv /\ [Next]_vars
        => [root # None /\ root' # root
              => root' = None /\ pc[root] \in {"cleanup", "guard"}]_vars
  <2> SUFFICES ASSUME ExclusiveInv, Next, root # None, root' # root
               PROVE  root' = None /\ pc[root] \in {"cleanup", "guard"}
    OBVIOUS
  <2>1. PICK p \in Execs : Execute(p)
    BY DEF Next, Crash, CrashRunning, CrashJob, CrashRecorded, Native,
           NativeWrites, NativeForks, NativeExits, NativeChangesSubject,
           LauncherChanges, shared
  <2>2. CleanupRoot(p) \/ GuardCleanup(p)
    BY <2>1 DEF Execute, Review, Acquire, Refuse, Materialize, OpenNative,
       GiveUp, Spawn, SpawnFails, AssignJob, AssignFails, PollExited,
       PollRunning, PollOverflow, PollTimeout, PollAgain, RecheckInventory,
       Measure, CloseJob, VerifySubject, BeginImport, EndImport, Extract,
       WriteRun, ReleaseFailed, ReleaseDone, Unlock, shared
  <2> QED
    BY <2>2 DEF CleanupRoot, GuardCleanup, RemoveRoot, ExclusiveInv,
       ExecutionIsExclusive, Guarded, Holding, InRunDirect
<1> QED
  BY <1>1, ExclusiveInit, ExclusiveStep, PTL DEF Spec, ForeignRootStays

-----------------------------------------------------------------------------
(* The processes, the outcome and the capture of an execution.             *)
OutcomeInv == ProcessInv /\ EarnedInv /\ CaptureInv

LEMMA OutcomeInit == Init => OutcomeInv
BY ExecutionAssumption
   DEF Init, OutcomeInv, ProcessInv, EarnedInv, CaptureInv, Earned, Labels,
       Locked, Guarded, Holding, InRunDirect, Ended, Unfinished, Running,
       JobOpen, Extracted, Measured, NoCapture, Terminations

LEMMA OutcomeReview ==
  ASSUME OutcomeInv, NEW p \in Execs,
         Review(p) \/ Acquire(p) \/ Refuse(p) \/ Materialize(p) \/
         OpenNative(p) \/ GiveUp(p)
  PROVE  OutcomeInv'
<1> USE ExecutionAssumption DEF OutcomeInv, ProcessInv, EarnedInv, CaptureInv,
      Earned, Labels, Locked, Guarded, Holding, InRunDirect, Ended, Unfinished,
      Running, JobOpen, Extracted, Measured, NoCapture, Terminations, shared,
      process, outcome, Goto
<1>1. CASE Review(p)
  BY <1>1 DEF Review
<1>2. CASE Acquire(p)
  BY <1>2 DEF Acquire
<1>3. CASE Refuse(p)
  BY <1>3 DEF Refuse
<1>4. CASE Materialize(p)
  <2>1. intact' \in BOOLEAN
    BY <1>4, Zenon DEF Materialize
  <2>2. /\ pc[p] = "locked"
        /\ \E label \in {"open", "drop"} : pc' = [pc EXCEPT ![p] = label]
    BY <1>4 DEF Materialize
  <2>3. UNCHANGED <<process, outcome>>
    BY <1>4 DEF Materialize
  <2> QED BY <2>1, <2>2, <2>3
<1>5. CASE OpenNative(p)
  BY <1>5 DEF OpenNative
<1>6. CASE GiveUp(p)
  BY <1>6 DEF GiveUp, KillJob
<1> QED BY <1>1, <1>2, <1>3, <1>4, <1>5, <1>6

LEMMA OutcomeRun ==
  ASSUME OutcomeInv, NEW p \in Execs,
         Spawn(p) \/ SpawnFails(p) \/ AssignJob(p) \/ AssignFails(p)
         \/ PollExited(p) \/ PollRunning(p) \/ PollOverflow(p) \/
         PollTimeout(p) \/ PollAgain(p)
  PROVE  OutcomeInv'
<1> USE ExecutionAssumption DEF OutcomeInv, ProcessInv, EarnedInv, CaptureInv,
      Earned, Labels, Locked, Guarded, Holding, InRunDirect, Ended, Unfinished,
      Running, JobOpen, Extracted, Measured, NoCapture, Terminations, shared,
      process, outcome, Goto
<1>1. CASE Spawn(p)
  BY <1>1 DEF Spawn
<1>2. CASE SpawnFails(p)
  BY <1>2 DEF SpawnFails, Terminate
<1>3. CASE AssignJob(p)
  BY <1>3 DEF AssignJob
<1>4. CASE AssignFails(p)
  BY <1>4 DEF AssignFails, KillChild, DiscardCapture, Terminate
<1>5. CASE PollExited(p)
  BY <1>5 DEF PollExited, Terminate
<1>6. CASE PollRunning(p)
  BY <1>6 DEF PollRunning
<1>7. CASE PollOverflow(p)
  BY <1>7 DEF PollOverflow, KillChild, Terminate
<1>8. CASE PollTimeout(p)
  BY <1>8 DEF PollTimeout, KillChild, Terminate
<1>9. CASE PollAgain(p)
  BY <1>9 DEF PollAgain
<1> QED BY <1>1, <1>2, <1>3, <1>4, <1>5, <1>6, <1>7, <1>8, <1>9

LEMMA OutcomeCollect ==
  ASSUME OutcomeInv, NEW p \in Execs,
         RecheckInventory(p) \/ Measure(p) \/ CloseJob(p) \/
         VerifySubject(p) \/ BeginImport(p) \/ EndImport(p) \/
         Extract(p)
  PROVE  OutcomeInv'
<1> USE ExecutionAssumption DEF OutcomeInv, ProcessInv, EarnedInv, CaptureInv,
      Earned, Labels, Locked, Guarded, Holding, InRunDirect, Ended, Unfinished,
      Running, JobOpen, Extracted, Measured, NoCapture, Terminations, shared,
      process, outcome, Goto
<1>1. CASE RecheckInventory(p)
  BY <1>1 DEF RecheckInventory, Terminate
<1>2. CASE Measure(p)
  BY <1>2 DEF Measure, DiscardCapture
<1>3. CASE CloseJob(p)
  BY <1>3 DEF CloseJob, KillJob
<1>4. CASE VerifySubject(p)
  BY <1>4 DEF VerifySubject
<1>5. CASE BeginImport(p)
  BY <1>5 DEF BeginImport
<1>6. CASE EndImport(p)
  BY <1>6 DEF EndImport, DiscardCapture
<1>7. CASE Extract(p)
  BY <1>7 DEF Extract
<1> QED BY <1>1, <1>2, <1>3, <1>4, <1>5, <1>6, <1>7

LEMMA OutcomeEnd ==
  ASSUME OutcomeInv, NEW p \in Execs,
         CleanupRoot(p) \/ GuardCleanup(p) \/ WriteRun(p) \/
         ReleaseFailed(p) \/ ReleaseDone(p)
  PROVE  OutcomeInv'
<1> USE ExecutionAssumption DEF OutcomeInv, ProcessInv, EarnedInv, CaptureInv,
      Earned, Labels, Locked, Guarded, Holding, InRunDirect, Ended, Unfinished,
      Running, JobOpen, Extracted, Measured, NoCapture, Terminations, shared,
      process, outcome, Goto
<1>1. CASE CleanupRoot(p)
  <2>1. intact' \in BOOLEAN
    BY <1>1, Zenon DEF CleanupRoot, RemoveRoot
  <2>2. /\ pc[p] = "cleanup"
        /\ \E label \in {"write", "drop"} : pc' = [pc EXCEPT ![p] = label]
    BY <1>1 DEF CleanupRoot, RemoveRoot
  <2>3. UNCHANGED <<process, outcome>>
    BY <1>1 DEF CleanupRoot, RemoveRoot
  <2> QED BY <2>1, <2>2, <2>3
<1>2. CASE GuardCleanup(p)
  <2>1. intact' \in BOOLEAN
    BY <1>2, Zenon DEF GuardCleanup, RemoveRoot
  <2>2. pc[p] = "guard" /\ pc' = [pc EXCEPT ![p] = "drop"]
    BY <1>2 DEF GuardCleanup, RemoveRoot
  <2>3. UNCHANGED <<process, outcome>>
    BY <1>2 DEF GuardCleanup, RemoveRoot
  <2> QED BY <2>1, <2>2, <2>3
<1>3. CASE WriteRun(p)
  BY <1>3 DEF WriteRun
<1>4. CASE ReleaseFailed(p)
  BY <1>4 DEF ReleaseFailed, Unlock, Forget, ForgetOutcome
<1>5. CASE ReleaseDone(p)
  BY <1>5 DEF ReleaseDone, Unlock
<1> QED BY <1>1, <1>2, <1>3, <1>4, <1>5

LEMMA OutcomeCrash ==
  ASSUME OutcomeInv, NEW p \in Execs,
         CrashRunning(p) \/ CrashJob(p) \/ CrashRecorded(p)
  PROVE  OutcomeInv'
<1> USE ExecutionAssumption DEF OutcomeInv, ProcessInv, EarnedInv, CaptureInv,
      Earned, Labels, Locked, Guarded, Holding, InRunDirect, Ended, Unfinished,
      Running, JobOpen, Extracted, Measured, NoCapture, Terminations, shared,
      process, outcome, Goto
<1>1. CASE CrashRunning(p)
  BY <1>1 DEF CrashRunning, Forget, ForgetOutcome
<1>2. CASE CrashJob(p)
  BY <1>2 DEF CrashJob, ForgetJob, ForgetOutcome
<1>3. CASE CrashRecorded(p)
  BY <1>3 DEF CrashRecorded
<1> QED BY <1>1, <1>2, <1>3

LEMMA OutcomeNative ==
  ASSUME OutcomeInv, NEW p \in Execs,
         NativeWrites(p) \/ NativeForks(p) \/ NativeExits(p) \/
         NativeChangesSubject(p)
  PROVE  OutcomeInv'
<1> USE ExecutionAssumption DEF OutcomeInv, ProcessInv, EarnedInv, CaptureInv,
      Earned, Labels, Locked, Guarded, Holding, InRunDirect, Ended, Unfinished,
      Running, JobOpen, Extracted, Measured, NoCapture, Terminations, shared,
      process, outcome, Goto
<1>1. CASE NativeWrites(p)
  BY <1>1 DEF NativeWrites, Alive, Captured
<1>2. CASE NativeForks(p)
  BY <1>2 DEF NativeForks
<1>3. CASE NativeExits(p)
  BY <1>3 DEF NativeExits
<1>4. CASE NativeChangesSubject(p)
  BY <1>4 DEF NativeChangesSubject, Alive
<1> QED BY <1>1, <1>2, <1>3, <1>4

LEMMA OutcomeStep == OutcomeInv /\ [Next]_vars => OutcomeInv'
<1> SUFFICES ASSUME OutcomeInv, [Next]_vars PROVE OutcomeInv'
  OBVIOUS
<1>1. ASSUME NEW p \in Execs, Execute(p) PROVE OutcomeInv'
  BY <1>1, OutcomeReview, OutcomeRun, OutcomeCollect, OutcomeEnd DEF Execute
<1>2. ASSUME NEW p \in Execs, Crash(p) PROVE OutcomeInv'
  BY <1>2, OutcomeCrash DEF Crash
<1>3. ASSUME NEW p \in Execs, Native(p) PROVE OutcomeInv'
  BY <1>3, OutcomeNative DEF Native
<1>4. CASE LauncherChanges \/ UNCHANGED vars
  BY <1>4 DEF LauncherChanges, vars, shared, process, outcome, OutcomeInv, ProcessInv,
     EarnedInv, CaptureInv, Earned
<1> QED BY <1>1, <1>2, <1>3, <1>4 DEF Next

(* Whatever interleaving of polling, killing, forking and crashing: the    *)
(* child and everything in its job are dead once run_direct has returned.  *)
THEOREM NothingInTheJobSurvives == Spec => []JobTreeIsDead
<1>1. OutcomeInv => JobTreeIsDead
  BY DEF OutcomeInv, ProcessInv, JobTreeIsDead, Running, JobOpen, InRunDirect
<1> QED BY <1>1, OutcomeInit, OutcomeStep, PTL DEF Spec

(* A recorded result comes from a child that exited by itself, over a      *)
(* subject verified unchanged.                                             *)
THEOREM ResultsAreEarned == Spec => []ResultIsEarned
<1>1. OutcomeInv => ResultIsEarned
  BY DEF OutcomeInv, ProcessInv, EarnedInv, Earned, ResultIsEarned
<1> QED BY <1>1, OutcomeInit, OutcomeStep, PTL DEF Spec

(* For every bound, the recorded capture of a native program that started  *)
(* no further process is within it.                                        *)
THEOREM SingleProcessCapturesAreBounded ==
  Spec => []CaptureOfOneProcessIsBounded
<1>1. OutcomeInv => CaptureOfOneProcessIsBounded
  BY DEF OutcomeInv, EarnedInv, CaptureInv, CaptureOfOneProcessIsBounded
<1> QED BY <1>1, OutcomeInit, OutcomeStep, PTL DEF Spec
-----------------------------------------------------------------------------
(* What has been recorded by when: a termination before anything is        *)
(* checked again, a result before the root goes, and both of a run that is *)
(* in the registry, whose process records nothing more.                    *)
Terminated ==
  {"recheck", "measure", "close", "after", "import", "copy", "extract", "cleanup", "write",
   "drop_done"}
RecordedInv ==
  /\ lock \in Execs \cup {None}
  /\ root \in Execs \cup {None}
  /\ launcher \in BOOLEAN
  /\ \A p \in Execs : pc[p] \in Terminated => term[p] # "none"
  /\ \A p \in Execs : pc[p] \in {"cleanup", "write", "drop_done"} => result[p] # "none"
  /\ \A p \in runs :
       /\ pc[p] \in {"drop_done", "done", "crashed"}
       /\ term[p] # "none" /\ result[p] # "none"

LEMMA RecordedInit == Init => RecordedInv
  BY DEF Init, RecordedInv, Terminated

LEMMA RecordedExecute ==
  ASSUME OutcomeInv, RecordedInv, NEW p \in Execs, Execute(p)
  PROVE  RecordedInv'
<1> USE DEF OutcomeInv, ProcessInv, EarnedInv, RecordedInv, Terminated, shared, process,
            outcome, Goto, Ended
<1>1. CASE Review(p) \/ Acquire(p) \/ Refuse(p)
  BY <1>1 DEF Review, Acquire, Refuse
<1>2. CASE Materialize(p)
  <2>1. /\ root' \in Execs \cup {None} /\ lock' = lock /\ launcher' = launcher
        /\ UNCHANGED outcome
        /\ pc[p] = "locked" /\ \E label \in {"open", "drop"} : pc' = [pc EXCEPT ![p] = label]
    BY <1>2 DEF Materialize
  <2> QED BY <2>1
<1>3. CASE OpenNative(p) \/ GiveUp(p) \/ Spawn(p) \/ AssignJob(p)
  BY <1>3 DEF OpenNative, GiveUp, KillJob, Spawn, AssignJob
<1>4. CASE SpawnFails(p) \/ AssignFails(p)
  BY <1>4 DEF SpawnFails, AssignFails, Terminate
<1>5. CASE PollExited(p) \/ PollRunning(p) \/ PollOverflow(p)
  BY <1>5 DEF PollExited, PollRunning, PollOverflow, Terminate
<1>6. CASE PollTimeout(p) \/ PollAgain(p) \/ RecheckInventory(p)
  BY <1>6 DEF PollTimeout, PollAgain, RecheckInventory, Terminate
<1>7. CASE Measure(p)
  BY <1>7 DEF Measure
<1>8. CASE CloseJob(p) \/ VerifySubject(p)
  BY <1>8 DEF CloseJob, VerifySubject
<1>9. CASE BeginImport(p) \/ EndImport(p)
  BY <1>9 DEF BeginImport, EndImport
<1>10. CASE Extract(p)
  BY <1>10 DEF Extract
<1>11. CASE CleanupRoot(p) \/ GuardCleanup(p)
  <2>1. /\ root' \in Execs \cup {None} /\ lock' = lock /\ launcher' = launcher
        /\ UNCHANGED outcome
    BY <1>11 DEF CleanupRoot, GuardCleanup, RemoveRoot
  <2>2. \/ pc[p] = "cleanup" /\ pc' = [pc EXCEPT ![p] = "write"]
        \/ pc' = [pc EXCEPT ![p] = "drop"] /\ pc[p] \in {"cleanup", "guard"}
    BY <1>11 DEF CleanupRoot, GuardCleanup
  <2> QED BY <2>1, <2>2
<1>12. CASE WriteRun(p)
  BY <1>12 DEF WriteRun
<1>13. CASE ReleaseFailed(p)
  BY <1>13 DEF ReleaseFailed, Unlock, Forget, ForgetOutcome
<1>14. CASE ReleaseDone(p)
  BY <1>14 DEF ReleaseDone, Unlock
<1> QED
  BY <1>1, <1>2, <1>3, <1>4, <1>5, <1>6, <1>7, <1>8, <1>9, <1>10, <1>11, <1>12, <1>13, <1>14
     DEF Execute

LEMMA RecordedStep == OutcomeInv /\ RecordedInv /\ [Next]_vars => RecordedInv'
<1> SUFFICES ASSUME OutcomeInv, RecordedInv, [Next]_vars PROVE RecordedInv'
  OBVIOUS
<1>1. CASE \E p \in Execs : Execute(p)
  BY <1>1, RecordedExecute
<1>2. ASSUME NEW p \in Execs, Crash(p) PROVE RecordedInv'
  <2> USE DEF OutcomeInv, ProcessInv, EarnedInv, RecordedInv, Terminated, shared, process,
              outcome, Goto, Ended
  <2>1. CASE CrashRunning(p)
    BY <2>1 DEF CrashRunning, Forget, ForgetOutcome
  <2>2. CASE CrashJob(p)
    BY <2>2 DEF CrashJob, ForgetJob, ForgetOutcome
  <2>3. CASE CrashRecorded(p)
    BY <2>3 DEF CrashRecorded
  <2> QED BY <1>2, <2>1, <2>2, <2>3 DEF Crash
<1>3. ASSUME NEW p \in Execs, Native(p) PROVE RecordedInv'
  BY <1>3 DEF Native, NativeWrites, NativeForks, NativeExits, NativeChangesSubject, shared,
     outcome, RecordedInv
<1>4. CASE LauncherChanges \/ UNCHANGED vars
  BY <1>4 DEF LauncherChanges, vars, shared, outcome, RecordedInv
<1> QED BY <1>1, <1>2, <1>3, <1>4 DEF Next

(* The state of an execution is of the types TypeOK gives it, and a run    *)
(* record has a termination and a result.                                  *)
THEOREM Typing == Spec => []TypeOK
<1>1. OutcomeInv /\ RecordedInv => TypeOK
  BY DEF OutcomeInv, ProcessInv, EarnedInv, CaptureInv, RecordedInv, TypeOK
<1> QED
  BY <1>1, OutcomeInit, OutcomeStep, RecordedInit, RecordedStep, PTL DEF Spec
=============================================================================
