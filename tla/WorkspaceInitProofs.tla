-------------------------- MODULE WorkspaceInitProofs --------------------------
(***************************************************************************)
(* Any number of inits and openers, over any layout left behind.  Types,   *)
(* the order of an init's writes and that losing is no failure hold on     *)
(* every platform; that a success stays true needs NoRollback, because the *)
(* rollback of a publication withdraws the marker again.                   *)
(***************************************************************************)
EXTENDS WorkspaceInit, TLAPS

NoRollback == AtomicMove \/ ~UnlinkFaults

(* What an init has behind it: from the marker on, all its directories,    *)
(* which nobody removes.                                                   *)
BeforeMarker == {"idle", "layout", "failed", "crashed"}

LayoutInv ==
  /\ \A p \in Inits : pc[p] \notin BeforeMarker => todo[p] = {}
  /\ \A p \in Inits : Dirs \ todo[p] \subseteq dirs
  /\ \A q \in Openers : pc[q] \in {"idle", "validate"} \cup Ended
  /\ pc[Earlier] = "done"
  /\ MarkerIsLast

Inv == TypeOK /\ LayoutInv

LEMMA InitInv == Init => Inv
  BY PublishAssumption, WorkspaceAssumption
  DEF Init, Inv, TypeOK, LayoutInv, BeforeMarker, MarkerIsLast, Labels, Ended

(* The steps of the publication, which leaves the directories alone.       *)
LEMMA PublishKeepsInv ==
  ASSUME Inv, NEW p \in Inits, Publish(p, "recheck"), UNCHANGED initVars
  PROVE  Inv'
<1> USE PublishAssumption, WorkspaceAssumption
    DEF Inv, TypeOK, LayoutInv, BeforeMarker, MarkerIsLast, initVars, Goto, Ended, Labels
<1>1. p \in Procs /\ target[p] = Marker /\ p \notin Openers /\ p # Earlier
  OBVIOUS
<1>2. CASE Link(p)
  <2>1. dest' \in [Names -> Procs \cup {None}] /\ tmp' \in [Procs -> BOOLEAN]
    BY <1>1, <1>2 DEF Link
  <2>2. todo[p] = {} /\ Dirs \subseteq dirs
    BY <1>2 DEF Link
  <2> QED BY <1>1, <1>2, <2>1, <2>2 DEF Link
<1>3. CASE LinkExists(p)
  BY <1>1, <1>3 DEF LinkExists
<1>4. CASE LinkError(p)
  BY <1>1, <1>4 DEF LinkError, Retriable
<1>5. CASE UnlinkTemporary(p)
  BY <1>1, <1>5 DEF UnlinkTemporary
<1>6. CASE UnlinkFails(p)
  BY <1>1, <1>6 DEF UnlinkFails
<1>7. CASE Rollback(p)
  <2>1. dest' \in [Names -> Procs \cup {None}] /\ dest'[Marker] = None
    BY <1>1, <1>7 DEF Rollback
  <2>2. tries' \in [Procs -> 0 .. MaxTries - 1]
    BY <1>1, <1>7 DEF Rollback, Retriable
  <2> QED BY <1>1, <1>7, <2>1, <2>2 DEF Rollback
<1>8. CASE RollbackFails(p)
  BY <1>1, <1>8 DEF RollbackFails
<1>9. CASE Cleanup(p, "recheck")
  BY <1>1, <1>9 DEF Cleanup
<1> QED BY <1>2, <1>3, <1>4, <1>5, <1>6, <1>7, <1>8, <1>9 DEF Publish

LEMMA InvInductive == Inv /\ [Next]_vars => Inv'
<1> SUFFICES ASSUME Inv, [Next]_vars PROVE Inv'
  OBVIOUS
<1> USE PublishAssumption, WorkspaceAssumption
    DEF Inv, TypeOK, LayoutInv, BeforeMarker, MarkerIsLast, initVars, Goto, Ended, Labels
<1>1. ASSUME NEW p \in Inits, InitStep(p) PROVE Inv'
  <2>0. p \in Procs /\ p \notin Openers /\ p # Earlier
    OBVIOUS
  <2>1. CASE BeginInit(p)
    BY <2>0, <2>1 DEF BeginInit
  <2>2. CASE EnsureDir(p)
    BY <2>0, <2>2 DEF EnsureDir, publishVars
  <2>3. CASE DirError(p)
    BY <2>0, <2>3 DEF DirError
  <2>4. CASE LookForMarker(p)
    <3>1. todo[p] = {} /\ pc' \in [Procs -> Labels] /\ tmp' \in [Procs -> BOOLEAN]
      BY <2>0, <2>4 DEF LookForMarker, Stage
    <3>2. target' \in [Procs -> Names] /\ tries' \in [Procs -> 0 .. MaxTries - 1]
      BY <2>0, <2>4 DEF LookForMarker, Stage
    <3> QED BY <2>0, <2>4, <3>1, <3>2 DEF LookForMarker, Stage
  <2>5. CASE Publish(p, "recheck") /\ UNCHANGED initVars
    BY <2>5, PublishKeepsInv
  <2>6. CASE MarkerTaken(p)
    BY <2>0, <2>6 DEF MarkerTaken
  <2>7. CASE Recheck(p)
    BY <2>0, <2>7 DEF Recheck
  <2>8. CASE ValidateMarker(p, "relayout")
    BY <2>0, <2>8 DEF ValidateMarker
  <2>9. CASE ValidateLayout(p, "published", "done") \/ ValidateLayout(p, "relayout", "done")
    BY <2>0, <2>9 DEF ValidateLayout
  <2> QED BY <1>1, <2>1, <2>2, <2>3, <2>4, <2>5, <2>6, <2>7, <2>8, <2>9 DEF InitStep
<1>2. ASSUME NEW q \in Openers, OpenStep(q) PROVE Inv'
  <2>0. q \in Procs /\ q \notin Inits /\ q # Earlier
    OBVIOUS
  <2> QED BY <1>2, <2>0 DEF OpenStep, ValidateLayout, ValidateMarker
<1>3. ASSUME NEW p \in Procs, Crash(p), UNCHANGED initVars PROVE Inv'
  BY <1>3 DEF Crash
<1>4. CASE UNCHANGED vars
  BY <1>4 DEF vars, publishVars
<1> QED BY <1>1, <1>2, <1>3, <1>4 DEF Next

LEMMA Invariance == Spec => []Inv
  BY InitInv, InvInductive, PTL DEF Spec

(* The types of workspace.rs's init and open.                              *)
THEOREM Typing == Spec => []TypeOK
<1>1. Inv => TypeOK
  BY DEF Inv
<1> QED BY <1>1, Invariance, PTL

(* An init publishes the marker only after every directory of the layout.  *)
THEOREM MarkerComesLast == Spec => []MarkerIsLast
<1>1. Inv => MarkerIsLast
  BY DEF Inv, LayoutInv
<1> QED BY <1>1, Invariance, PTL

(* However many inits race, none fails because another one was first.      *)
THEOREM LosersSucceed == Spec => LosingIsNoFailure
<1>1. Inv /\ [Next]_vars =>
        [\A p \in Inits :
           MarkerExists /\ pc[p] # "failed" /\ pc'[p] = "failed" => todo[p] # {}]_vars
  <2> SUFFICES ASSUME Inv, Next, NEW p \in Inits,
                      MarkerExists, pc[p] # "failed", pc'[p] = "failed"
               PROVE  todo[p] # {}
    OBVIOUS
  <2> USE WorkspaceAssumption DEF Inv, TypeOK, LayoutInv, BeforeMarker, Goto, Ended
  <2>1. ASSUME NEW r \in Inits, InitStep(r) PROVE todo[p] # {}
    <3>1. r = p
      BY <2>1
      DEF InitStep, BeginInit, EnsureDir, DirError, LookForMarker, Stage, Publish, Link,
          LinkExists, LinkError, UnlinkTemporary, UnlinkFails, Rollback, RollbackFails, Cleanup,
          MarkerTaken, Recheck, ValidateMarker, ValidateLayout, publishVars
    <3>2. CASE DirError(p)
      BY <3>2 DEF DirError
    <3>3. CASE ValidateLayout(p, "published", "done") \/ ValidateLayout(p, "relayout", "done")
      <4>1. todo[p] = {} /\ Dirs \subseteq dirs
        BY <3>3 DEF ValidateLayout
      <4> QED BY <3>3, <4>1 DEF ValidateLayout
    <3>4. CASE Recheck(p) \/ ValidateMarker(p, "relayout")
      BY <3>4 DEF Recheck, ValidateMarker
    <3>5. CASE BeginInit(p) \/ EnsureDir(p) \/ LookForMarker(p) \/ MarkerTaken(p)
      BY <3>5 DEF BeginInit, EnsureDir, LookForMarker, Stage, MarkerTaken, publishVars
    <3>6. CASE Publish(p, "recheck")
      BY <3>6 DEF Publish, Link, LinkExists, LinkError, UnlinkTemporary, UnlinkFails, Rollback,
                  RollbackFails, Cleanup
    <3> QED BY <2>1, <3>1, <3>2, <3>3, <3>4, <3>5, <3>6 DEF InitStep
  <2>2. ASSUME NEW q \in Openers, OpenStep(q) PROVE todo[p] # {}
    BY <2>2 DEF OpenStep, ValidateLayout, ValidateMarker
  <2>3. ASSUME NEW q \in Procs, Crash(q) PROVE todo[p] # {}
    BY <2>3 DEF Crash
  <2> QED BY <2>1, <2>2, <2>3 DEF Next
<1> QED BY <1>1, Invariance, PTL DEF Spec, LosingIsNoFailure

-----------------------------------------------------------------------------
(* Where a process is tells what it has seen, and no marker is withdrawn.  *)
SeenInv ==
  /\ \A p \in Inits : pc[p] # "rollback" /\ (AtomicMove => pc[p] # "unlink")
  /\ \A p \in Inits : pc[p] \in {"unlink", "published", "relayout"} => MarkerExists
  /\ \A q \in Openers : pc[q] = "validate" => Dirs \subseteq dirs
  /\ SuccessMeansUsable

LEMMA InitSeen == Init => SeenInv
  BY WorkspaceAssumption DEF Init, SeenInv, SuccessMeansUsable

LEMMA SeenInductive == ASSUME NoRollback PROVE Inv /\ SeenInv /\ [Next]_vars => SeenInv'
<1> SUFFICES ASSUME Inv, SeenInv, [Next]_vars PROVE SeenInv'
  OBVIOUS
<1> USE PublishAssumption, WorkspaceAssumption
    DEF Inv, TypeOK, SeenInv, SuccessMeansUsable, Usable, MarkerExists, initVars, Goto, Ended,
        NoRollback
<1>1. ASSUME NEW p \in Inits, InitStep(p) PROVE SeenInv'
  <2>0. p \in Procs /\ p \notin Openers /\ target[p] = Marker /\ AtomicMove \in BOOLEAN
    OBVIOUS
  <2>1. CASE BeginInit(p) \/ DirError(p) \/ MarkerTaken(p) \/ Recheck(p)
    BY <2>0, <2>1 DEF BeginInit, DirError, MarkerTaken, Recheck
  <2>2. CASE EnsureDir(p)
    BY <2>0, <2>2 DEF EnsureDir, publishVars
  <2>3. CASE LookForMarker(p)
    BY <2>0, <2>3 DEF LookForMarker, Stage
  <2>4. CASE Link(p) /\ UNCHANGED initVars
    <3>1. dest'[Marker] = p /\ p # None
      BY <2>0, <2>4 DEF Link
    <3> QED BY <2>0, <2>4, <3>1 DEF Link
  <2>5. CASE (LinkExists(p) \/ LinkError(p) \/ UnlinkTemporary(p) \/ Cleanup(p, "recheck"))
             /\ UNCHANGED initVars
    BY <2>0, <2>5 DEF LinkExists, LinkError, UnlinkTemporary, Cleanup
  <2>6. ~UnlinkFails(p) /\ ~Rollback(p) /\ ~RollbackFails(p)
    BY DEF UnlinkFails, Rollback, RollbackFails
  <2>7. CASE ValidateMarker(p, "relayout")
    BY <2>0, <2>7 DEF ValidateMarker
  <2>8. CASE ValidateLayout(p, "published", "done") \/ ValidateLayout(p, "relayout", "done")
    BY <2>0, <2>8 DEF ValidateLayout
  <2> QED BY <1>1, <2>1, <2>2, <2>3, <2>4, <2>5, <2>6, <2>7, <2>8 DEF InitStep, Publish
<1>2. ASSUME NEW q \in Openers, OpenStep(q) PROVE SeenInv'
  BY <1>2 DEF OpenStep, ValidateLayout, ValidateMarker
<1>3. ASSUME NEW p \in Procs, Crash(p), UNCHANGED initVars PROVE SeenInv'
  BY <1>3 DEF Crash
<1>4. CASE UNCHANGED vars
  BY <1>4 DEF vars, publishVars
<1> QED BY <1>1, <1>2, <1>3, <1>4 DEF Next

(* Where no marker is ever withdrawn, a successful init or open stays      *)
(* true: the layout is complete and the marker is there.                   *)
THEOREM SuccessStaysTrue == ASSUME NoRollback PROVE Spec => []SuccessMeansUsable
<1>1. SeenInv => SuccessMeansUsable
  BY DEF SeenInv
<1>2. Inv /\ SeenInv /\ [Next]_vars => SeenInv'
  BY SeenInductive
<1> QED BY <1>1, <1>2, InitSeen, Invariance, PTL DEF Spec
=============================================================================
