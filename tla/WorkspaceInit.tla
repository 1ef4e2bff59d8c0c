---------------------------- MODULE WorkspaceInit ----------------------------
(***************************************************************************)
(* Concurrent `ewb init` and workspace opening.  An init creates the       *)
(* storage directories one by one, publishes the marker WORKSPACE.json as  *)
(* its last write unless it is there, and re-validates what it finds;      *)
(* every other command opens the workspace by checking the directories     *)
(* and then reading the marker.                                            *)
(*                                                                         *)
(* What an earlier invocation left behind, finished or not, of this or of  *)
(* an older version with fewer directories, is the initial state.          *)
(***************************************************************************)
EXTENDS NoReplacePublish

CONSTANTS
  Inits,    \* the processes that run `ewb init`
  Openers,  \* the processes that run any other command
  Earlier,  \* the invocation that published a marker already there
  Dirs,     \* the storage directories this version requires
  Marker

ASSUME WorkspaceAssumption ==
  /\ Procs = Inits \cup Openers \cup {Earlier}
  /\ Inits \cap Openers = {}
  /\ Earlier \notin Inits \cup Openers
  /\ Names = {Marker}

VARIABLES
  dirs,   \* the storage directories that exist
  todo    \* todo[p]: the directories init p has yet to ensure

initVars == <<dirs, todo>>
vars == <<publishVars, initVars>>

Init ==
  /\ dest \in [Names -> {None, Earlier}]
  /\ tmp = [p \in Procs |-> FALSE]
  /\ target = [p \in Procs |-> Marker]
  /\ pc = [p \in Procs |-> IF p = Earlier THEN "done" ELSE "idle"]
  /\ tries = [p \in Procs |-> 0]
  /\ dirs \in SUBSET Dirs
  /\ todo = [p \in Inits |-> Dirs]

MarkerExists == dest[Marker] # None

-----------------------------------------------------------------------------
BeginInit(p) ==
  /\ pc[p] = "idle"
  /\ Goto(p, "layout")
  /\ UNCHANGED <<dest, tmp, target, tries, initVars>>

(* A directory is created unless it is there; losing that race is no error.*)
EnsureDir(p) ==
  /\ pc[p] = "layout"
  /\ \E d \in todo[p] :
       /\ todo' = [todo EXCEPT ![p] = @ \ {d}]
       /\ dirs' = dirs \cup {d}
  /\ UNCHANGED <<publishVars>>

DirError(p) ==
  /\ pc[p] = "layout"
  /\ todo[p] # {}
  /\ Goto(p, "failed")
  /\ UNCHANGED <<dest, tmp, target, tries, initVars>>

(* Mutant: the marker is looked for and published before the directories. *)
LookForMarkerFirst(p) ==
  /\ pc[p] = "layout"
  /\ \/ /\ MarkerExists
        /\ todo[p] = {}
        /\ Goto(p, "validate")
        /\ UNCHANGED <<dest, tmp, target, tries>>
     \/ /\ ~MarkerExists
        /\ Stage(p, Marker, "link")
  /\ UNCHANGED initVars

(* A marker that is there is validated; else it is staged for publication, *)
(* which may fail and leave a partial temporary.                           *)
LookForMarker(p) ==
  /\ pc[p] = "layout"
  /\ todo[p] = {}
  /\ \/ /\ MarkerExists
        /\ Goto(p, "validate")
        /\ UNCHANGED <<dest, tmp, target, tries>>
     \/ /\ ~MarkerExists
        /\ Stage(p, Marker, "link")
     \/ /\ ~MarkerExists
        /\ Goto(p, "recheck")
        /\ tmp' \in {tmp, [tmp EXCEPT ![p] = TRUE]}
        /\ UNCHANGED <<dest, target, tries>>
  /\ UNCHANGED initVars

(* AlreadyExists is an error like any other: the temporary is removed.     *)
MarkerTaken(p) ==
  /\ pc[p] = "exists"
  /\ Goto(p, "cleanup")
  /\ UNCHANGED <<dest, tmp, target, tries, initVars>>

(* Mutant: losing the race for the marker fails the init. *)
RecheckNever(p) ==
  /\ pc[p] = "recheck"
  /\ Goto(p, "failed")
  /\ UNCHANGED <<dest, tmp, target, tries, initVars>>

(* Mutant: the error of the marker is dropped without looking again. *)
RecheckIgnored(p) ==
  /\ pc[p] = "recheck"
  /\ Goto(p, "relayout")
  /\ UNCHANGED <<dest, tmp, target, tries, initVars>>

(* Mutant: a marker that could not be written is tried again from scratch. *)
RecheckRestarts(p) ==
  /\ pc[p] = "recheck"
  /\ Goto(p, IF MarkerExists THEN "validate" ELSE "layout")
  /\ UNCHANGED <<dest, tmp, target, tries, initVars>>

(* A marker that could not be written is no error if one is there now.     *)
Recheck(p) ==
  /\ pc[p] = "recheck"
  /\ Goto(p, IF MarkerExists THEN "validate" ELSE "failed")
  /\ UNCHANGED <<dest, tmp, target, tries, initVars>>

(* The marker is read, without counting its names.                         *)
ValidateMarker(p, next) ==
  /\ pc[p] = "validate"
  /\ Goto(p, IF MarkerExists THEN next ELSE "failed")
  /\ UNCHANGED <<dest, tmp, target, tries, initVars>>

ValidateLayout(p, from, next) ==
  /\ pc[p] = from
  /\ Goto(p, IF Dirs \subseteq dirs THEN next ELSE "failed")
  /\ UNCHANGED <<dest, tmp, target, tries, initVars>>

InitStep(p) ==
  \/ BeginInit(p) \/ EnsureDir(p) \/ DirError(p) \/ LookForMarker(p)
  \/ Publish(p, "recheck") /\ UNCHANGED initVars
  \/ MarkerTaken(p) \/ Recheck(p)
  \/ ValidateMarker(p, "relayout")
  \/ ValidateLayout(p, "published", "done")
  \/ ValidateLayout(p, "relayout", "done")

OpenStep(q) ==
  \/ ValidateLayout(q, "idle", "validate")
  \/ ValidateMarker(q, "done")

Next ==
  \/ \E p \in Inits : InitStep(p)
  \/ \E q \in Openers : OpenStep(q)
  \/ \E p \in Procs : Crash(p) /\ UNCHANGED initVars

Spec == Init /\ [][Next]_vars

(* A process that has started is run until it ends or is killed.           *)
FairSpec == Spec /\ \A p \in Inits : WF_vars(pc[p] # "idle" /\ InitStep(p))

-----------------------------------------------------------------------------
Labels ==
  {"idle", "layout", "link", "unlink", "rollback", "cleanup", "published",
   "exists", "recheck", "validate", "relayout"} \cup Ended

TypeOK ==
  /\ dest \in [Names -> Procs \cup {None}]
  /\ tmp \in [Procs -> BOOLEAN]
  /\ target \in [Procs -> Names]
  /\ pc \in [Procs -> Labels]
  /\ tries \in [Procs -> 0 .. MaxTries - 1]
  /\ dirs \in SUBSET Dirs
  /\ todo \in [Inits -> SUBSET Dirs]

Usable == Dirs \subseteq dirs /\ MarkerExists

(* A successful init or open is a promise: from then on the workspace has  *)
(* its whole layout and a marker, so every later open succeeds.            *)
SuccessMeansUsable ==
  \A p \in Inits \cup Openers : pc[p] = "done" => Usable

(* The marker is the commit point of an init: a marker that one of these   *)
(* inits published never precedes a directory of the layout.               *)
MarkerIsLast == dest[Marker] \in Inits => Dirs \subseteq dirs

(* An init fails only on an error of its own (creating a directory or      *)
(* publishing the marker), never because another init got there first:     *)
(* once a marker is there, an init that has its directories succeeds.      *)
LosingIsNoFailure ==
  [][\A p \in Inits :
       MarkerExists /\ pc[p] # "failed" /\ pc'[p] = "failed" => todo[p] # {}]_vars

(* Every init that starts ends: no error sends it round again for ever.    *)
EveryInitEnds == \A p \in Inits : pc[p] # "idle" ~> pc[p] \in Ended
=============================================================================
