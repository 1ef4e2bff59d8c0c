------------------------------- MODULE PlanGate -------------------------------
(***************************************************************************)
(* `runs plan`: from a request to a published plan record.  The command    *)
(* passes its gates in a fixed order, then makes the first writes (a       *)
(* private copy of the executable), and re-derives everything before it    *)
(* publishes.  Planners run concurrently, share the staged launchers, may  *)
(* die anywhere, and read files that other programs may replace.           *)
(*                                                                         *)
(* The catalog is what is built into the program: for each tool the trust  *)
(* manifest and its upstream pin.  The artifact store and the no-replace   *)
(* publication are modelled in ArtifactStore and NoReplacePublish; here an *)
(* import and a publication are one step each.                             *)
(***************************************************************************)
EXTENDS Naturals

CONSTANTS
  Planners,  \* `runs plan` commands; each also names its plan
  Tools,
  Catalogs,  \* the catalogs that may be built in
  Requests,  \* command lines
  Bins,      \* executables
  Qualified, \* the one that the native qualification delivers
  GitBin,    \* the installed Git launcher, opened without write sharing
  MaxFaults, \* crashes, failed system calls and foreign rewrites
  None

ToolManifest ==
  [enabled : BOOLEAN,      \* enabled_by_default
   python : BOOLEAN,       \* names a Python distribution
   admissible : BOOLEAN,   \* its operation is one of ALLOWED_OPERATIONS
   qualified : BOOLEAN,    \* it is tomorrowci-lab
   allowed : SUBSET Bins,  \* allowed_binary_sha256
   subject : {"git", "artifact", "self_foundation"},
   ready : BOOLEAN,        \* of its upstream pin: the readiness,
   closed : BOOLEAN]       \* and a native, self-contained runtime

PlanRequest ==
  [tool : Tools,
   subject : {"none", "repository", "input", "input_artifact", "both"},
   admission : {"none", "admission", "inventory"},
   capsule : BOOLEAN, qualification : BOOLEAN,
   parameters : BOOLEAN,   \* they are valid
   timeout : BOOLEAN]      \* it is between 1 ms and 1 hour

ASSUME PlanGateAssumption ==
  /\ Catalogs \subseteq [Tools -> ToolManifest]
  /\ Requests \subseteq PlanRequest
  /\ {Qualified, GitBin} \subseteq Bins
  /\ MaxFaults \in Nat

VARIABLES
  catalog,
  source,  \* the executable that the search path leads to
  qual,    \* the native qualification record: its digest, or None
  admit,   \* the Python admission record: its digest, or None
  arts,    \* executables with an intact snapshot artifact
  staged,  \* the shared launchers: absent, two (names), one, or other (bytes)
  app,     \* each plan's own application directory
  plans,   \* the published plan records
  pc, req,
  item,    \* which launcher a planner is staging
  refs,    \* the qualification and admission digests it retained
  ident,   \* the executable its plan will name
  linkLost,\* a temporary name was left next to a staged launcher
  faults

disk == <<source, qual, admit, arts, staged, app, plans>>
local == <<pc, req, item, refs, ident>>
vars == <<catalog, disk, local, linkLost, faults>>

Items == {"native", "git-plan"}
Digests == {"first", "second"}
States == {"absent", "two", "one", "other"}
Gates == {"admission", "catalog", "qualification", "arguments", "resolve"}
Labels == Gates \cup
  {"idle", "import", "stage", "link", "unlink", "verify", "makeDirectory", "writeLauncher",
   "subject", "invocation", "identity", "references", "publish",
   "done", "refused", "dead"}

BinaryIdentity == Bins
PlanPayload ==
  [tool : Tools, identity : BinaryIdentity,
   qualification : Digests \cup {None}, admission : Digests \cup {None}]

Init ==
  /\ catalog \in Catalogs
  /\ source = Qualified
  /\ qual = "first"
  /\ admit = "first"
  /\ arts = {Qualified}
  /\ staged = [s \in Items \X Bins |-> "absent"]
  /\ app = [p \in Planners |-> "absent"]
  /\ plans = [p \in Planners |-> None]
  /\ pc = [p \in Planners |-> "idle"]
  /\ req = [p \in Planners |-> None]
  /\ item = [p \in Planners |-> "native"]
  /\ refs = [p \in Planners |-> [qualification |-> None, admission |-> None]]
  /\ ident = [p \in Planners |-> None]
  /\ linkLost = FALSE
  /\ faults = 0

Goto(p, l) == pc' = [pc EXCEPT ![p] = l]
Check(p, holds, l) == Goto(p, IF holds THEN l ELSE "refused")
Tool(p) == catalog[req[p].tool]

-----------------------------------------------------------------------------
(* The catalog.                                                            *)

(* An enabled native tool must name its exact executables.                 *)
ManifestValid(t) == t.enabled /\ ~t.python => t.allowed # {}

(* The catalog is validated as a whole: readiness and enablement agree for *)
(* every tool, and what is ready is closed.                                *)
PinsValid == \A t \in Tools :
  /\ catalog[t].ready = catalog[t].enabled
  /\ catalog[t].ready => catalog[t].closed

-----------------------------------------------------------------------------
(* The gates.  None of them writes.                                        *)

Request(p, r) ==
  /\ pc[p] = "idle"
  /\ req' = [req EXCEPT ![p] = r]
  /\ Check(p, \A t \in Tools : ManifestValid(catalog[t]), "admission")
  /\ UNCHANGED <<catalog, disk, item, refs, ident, linkLost, faults>>

(* The inventory of an interpreter is not an admission, and an operation   *)
(* that takes none is refused one.                                         *)
BindAdmission(p) ==
  /\ pc[p] = "admission"
  /\ LET given == req[p].admission IN
     /\ Check(p, \/ given = "none"
                 \/ given = "admission" /\ Tool(p).admissible /\ admit # None, "catalog")
     /\ refs' = [refs EXCEPT ![p].admission = IF given = "none" THEN None ELSE admit]
  /\ UNCHANGED <<catalog, disk, req, item, ident, linkLost, faults>>

(* Without an admission an admissible operation meets planning_blocker,    *)
(* which always refuses, whatever the capsule.                             *)
PlanningBlocker(p) == Tool(p).admissible /\ refs[p].admission = None

RequireReady(t) == PinsValid /\ t.ready

(* A capsule is inspected for phaseledger only, whose operation is         *)
(* admissible.                                                             *)
CheckCatalog(p) ==
  /\ pc[p] = "catalog"
  /\ LET t == Tool(p) IN
     Check(p, /\ ~PlanningBlocker(p)
              /\ req[p].capsule => t.admissible
              /\ t.enabled
              /\ RequireReady(t)
              /\ req[p].parameters, "qualification")
  /\ UNCHANGED <<catalog, disk, req, item, refs, ident, linkLost, faults>>

BindQualification(p) ==
  /\ pc[p] = "qualification"
  /\ Check(p, /\ req[p].qualification = Tool(p).qualified
              /\ Tool(p).qualified => qual # None, "arguments")
  /\ refs' = [refs EXCEPT ![p].qualification = IF Tool(p).qualified THEN qual ELSE None]
  /\ UNCHANGED <<catalog, disk, req, item, ident, linkLost, faults>>

Takes ==
  [git |-> {"repository"}, artifact |-> {"input", "input_artifact"},
   self_foundation |-> {"none"}]

(* A reused artifact is loaded before anything is written, so that one     *)
(* that does not verify leaves no launcher behind.                         *)
CheckSubjectArguments(p) ==
  /\ pc[p] = "arguments"
  /\ \E loads \in BOOLEAN :
       Check(p, /\ req[p].subject \in Takes[Tool(p).subject]
                /\ req[p].subject = "input_artifact" => loads, "resolve")
  /\ UNCHANGED <<catalog, disk, req, item, refs, ident, linkLost, faults>>

-----------------------------------------------------------------------------
(* A qualified launcher goes to a directory of the plan's own.  The record *)
(* is loaded again, by its name only.                                      *)

ResolveQualified(p) ==
  /\ pc[p] = "resolve" /\ Tool(p).qualified
  /\ Check(p, qual # None /\ Qualified \in Tool(p).allowed, "makeDirectory")
  /\ ident' = [ident EXCEPT ![p] = Qualified]
  /\ UNCHANGED <<catalog, disk, req, item, refs, linkLost, faults>>

MakeDirectory(p) ==
  /\ pc[p] = "makeDirectory"
  /\ IF Qualified \in arts
       THEN app' = [app EXCEPT ![p] = "empty"] /\ Goto(p, "writeLauncher")
       ELSE Goto(p, "refused") /\ UNCHANGED app
  /\ UNCHANGED <<catalog, source, qual, admit, arts, staged, plans, req, item, refs, ident,
                 linkLost, faults>>

WriteLauncher(p) ==
  /\ pc[p] = "writeLauncher"
  /\ app' = [app EXCEPT ![p] = "one"]
  /\ Goto(p, "subject")
  /\ UNCHANGED <<catalog, source, qual, admit, arts, staged, plans, req, item, refs, ident,
                 linkLost, faults>>

-----------------------------------------------------------------------------
(* Any other launcher is found on the search path, imported, and staged    *)
(* under its digest.  The bytes whose digest is admitted are not opened    *)
(* again: the import reads the path anew.                                  *)

(* Mutant: a Python tool is resolved like any other.                       *)
ResolveTool_AnyTool(p) ==
  /\ pc[p] = "resolve" /\ ~Tool(p).qualified
  /\ Check(p, Tool(p).allowed # {} => source \in Tool(p).allowed, "import")
  /\ UNCHANGED <<catalog, disk, req, item, refs, ident, linkLost, faults>>

ResolveTool(p) ==
  /\ pc[p] = "resolve" /\ ~Tool(p).qualified
  /\ Check(p, /\ ~Tool(p).python
              /\ Tool(p).allowed # {} => source \in Tool(p).allowed, "import")
  /\ UNCHANGED <<catalog, disk, req, item, refs, ident, linkLost, faults>>

Staging(p) == <<item[p], IF item[p] = "native" THEN ident[p] ELSE GitBin>>

ImportSnapshot(p) ==
  /\ pc[p] = "import"
  /\ arts' = arts \cup {IF item[p] = "native" THEN source ELSE GitBin}
  /\ ident' = [ident EXCEPT ![p] = IF item[p] = "native" THEN source ELSE @]
  /\ Goto(p, "stage")
  /\ UNCHANGED <<catalog, source, qual, admit, staged, app, plans, req, item, refs, linkLost,
                 faults>>

(* Once the native launcher is staged, a Git subject needs Git's as well.  *)
Staged(p) ==
  IF item[p] = "native" /\ Tool(p).subject = "git"
    THEN item' = [item EXCEPT ![p] = "git-plan"] /\ Goto(p, "import")
    ELSE Goto(p, "subject") /\ UNCHANGED item

(* verify_file: the right bytes under a single name.                       *)
VerifyStaged(p) ==
  IF staged[Staging(p)] = "one" THEN Staged(p) ELSE Goto(p, "refused") /\ UNCHANGED item

UseStaged(p) ==
  /\ pc[p] = "stage"
  /\ IF staged[Staging(p)] = "absent" THEN Goto(p, "link") /\ UNCHANGED item
                                      ELSE VerifyStaged(p)
  /\ UNCHANGED <<catalog, disk, req, refs, ident, linkLost, faults>>

(* The copy is made under a temporary name and linked to the staged one.   *)
(* Whoever finds a launcher there already takes it only if it verifies.    *)
LinkStaged(p) ==
  /\ pc[p] = "link"
  /\ IF staged[Staging(p)] = "absent"
       THEN /\ staged' = [staged EXCEPT ![Staging(p)] = "two"]
            /\ Goto(p, "unlink")
            /\ UNCHANGED item
       ELSE VerifyStaged(p) /\ UNCHANGED staged
  /\ UNCHANGED <<catalog, source, qual, admit, arts, app, plans, req, refs, ident, linkLost,
                 faults>>

(* Mutant: the temporary name is kept.                                     *)
UnlinkTemporary_Never(p) ==
  /\ pc[p] = "unlink"
  /\ Goto(p, "verify")
  /\ UNCHANGED <<catalog, disk, req, item, refs, ident, linkLost, faults>>

UnlinkTemporary(p) ==
  /\ pc[p] = "unlink"
  /\ staged' = [staged EXCEPT ![Staging(p)] = IF @ = "two" THEN "one" ELSE @]
  /\ Goto(p, "verify")
  /\ UNCHANGED <<catalog, source, qual, admit, arts, app, plans, req, item, refs, ident,
                 linkLost, faults>>

VerifyLauncher(p) ==
  /\ pc[p] = "verify"
  /\ VerifyStaged(p)
  /\ UNCHANGED <<catalog, disk, req, refs, ident, linkLost, faults>>

-----------------------------------------------------------------------------
(* The subject is imported (it may be refused for its own reasons), then   *)
(* the invocation is built, and only now is the timeout looked at.         *)

ResolveSubject(p) ==
  /\ pc[p] = "subject"
  /\ \E taken \in BOOLEAN : Check(p, taken \/ req[p].subject = "none", "invocation")
  /\ UNCHANGED <<catalog, disk, req, item, refs, ident, linkLost, faults>>

BuildInvocation(p) ==
  /\ pc[p] = "invocation"
  /\ Check(p, req[p].timeout, "identity")
  /\ UNCHANGED <<catalog, disk, req, item, refs, ident, linkLost, faults>>

(* Mutant: the executable was admitted before, when it was found.          *)
ValidateIdentity_Once(p) ==
  /\ pc[p] = "identity"
  /\ Check(p, /\ ~Tool(p).python
              /\ ident[p] \in arts
              /\ IF Tool(p).qualified THEN app[p] = "one"
                 ELSE staged[<<"native", ident[p]>>] = "one", "references")
  /\ UNCHANGED <<catalog, disk, req, item, refs, ident, linkLost, faults>>

ValidateIdentity(p) ==
  /\ pc[p] = "identity"
  /\ Check(p, /\ ~Tool(p).python
              /\ Tool(p).allowed # {} => ident[p] \in Tool(p).allowed
              /\ ident[p] \in arts
              /\ IF Tool(p).qualified THEN app[p] = "one"
                 ELSE staged[<<"native", ident[p]>>] = "one", "references")
  /\ UNCHANGED <<catalog, disk, req, item, refs, ident, linkLost, faults>>

(* The digests retained at the gates must be those of the records now.     *)
ValidateReferences(p) ==
  /\ pc[p] = "references"
  /\ Check(p, /\ Tool(p).qualified => refs[p].qualification = qual
              /\ refs[p].admission # None => refs[p].admission = admit, "publish")
  /\ UNCHANGED <<catalog, disk, req, item, refs, ident, linkLost, faults>>

(* Mutant: two fields of the record are swapped.                           *)
PublishPlan_Swapped(p) ==
  /\ pc[p] = "publish"
  /\ plans' = [plans EXCEPT ![p] =
       [tool |-> ident[p], identity |-> req[p].tool,
        qualification |-> refs[p].qualification, admission |-> refs[p].admission]]
  /\ Goto(p, "done")
  /\ UNCHANGED <<catalog, source, qual, admit, arts, staged, app, req, item, refs, ident,
                 linkLost, faults>>

PublishPlan(p) ==
  /\ pc[p] = "publish"
  /\ plans' = [plans EXCEPT ![p] =
       [tool |-> req[p].tool, identity |-> ident[p],
        qualification |-> refs[p].qualification, admission |-> refs[p].admission]]
  /\ Goto(p, "done")
  /\ UNCHANGED <<catalog, source, qual, admit, arts, staged, app, req, item, refs, ident,
                 linkLost, faults>>

-----------------------------------------------------------------------------
(* Faults.                                                                 *)

Fault == faults < MaxFaults /\ faults' = faults + 1 /\ UNCHANGED catalog

(* A planner dies, and nothing it left is ever cleaned up.  Elsewhere it    *)
(* leaves what a refused one leaves.                                       *)
Crash(p) ==
  /\ Fault
  /\ pc[p] \in {"writeLauncher", "unlink", "publish"}
  /\ Goto(p, "dead")
  /\ linkLost' = (linkLost \/ pc[p] = "unlink")
  /\ UNCHANGED <<disk, req, item, refs, ident>>

(* Linking fails though nothing is there: the copy is removed.             *)
LinkFails(p) ==
  /\ Fault
  /\ pc[p] = "link" /\ staged[Staging(p)] = "absent"
  /\ Goto(p, "refused")
  /\ UNCHANGED <<disk, req, item, refs, ident, linkLost>>

(* The temporary name cannot be removed, which is ignored.                 *)
UnlinkFails(p) ==
  /\ Fault
  /\ pc[p] = "unlink"
  /\ Goto(p, "verify")
  /\ linkLost' = TRUE
  /\ UNCHANGED <<disk, req, item, refs, ident>>

Rewrite ==
  /\ Fault
  /\ \/ source' \in Bins \ {source} /\ UNCHANGED <<qual, admit, arts, staged>>
     \/ qual' \in (Digests \cup {None}) \ {qual} /\ UNCHANGED <<source, admit, arts, staged>>
     \/ admit' \in (Digests \cup {None}) \ {admit} /\ UNCHANGED <<source, qual, arts, staged>>
     \/ \E b \in arts : arts' = arts \ {b} /\ UNCHANGED <<source, qual, admit, staged>>
     \/ \E s \in Items \X Bins :
          /\ staged[s] # "absent"
          /\ staged' = [staged EXCEPT ![s] = "other"]
          /\ UNCHANGED <<source, qual, admit, arts>>
  /\ UNCHANGED <<app, plans, local, linkLost>>

-----------------------------------------------------------------------------
Gate(p) ==
  BindAdmission(p) \/ CheckCatalog(p) \/ BindQualification(p) \/ CheckSubjectArguments(p)
Qualify(p) == ResolveQualified(p) \/ MakeDirectory(p) \/ WriteLauncher(p)
Stage(p) ==
  \/ ResolveTool(p) \/ ImportSnapshot(p) \/ UseStaged(p)
  \/ LinkStaged(p) \/ UnlinkTemporary(p) \/ VerifyLauncher(p)
Finish(p) ==
  \/ ResolveSubject(p) \/ BuildInvocation(p)
  \/ ValidateIdentity(p) \/ ValidateReferences(p) \/ PublishPlan(p)
Step(p) == Gate(p) \/ Qualify(p) \/ Stage(p) \/ Finish(p)

Next ==
  \/ \E p \in Planners :
       \/ \E r \in Requests : Request(p, r)
       \/ Step(p) \/ Crash(p) \/ LinkFails(p) \/ UnlinkFails(p)
  \/ Rewrite

(* A command that was started goes on until it ends or dies.               *)
Spec == Init /\ [][Next]_vars /\ \A p \in Planners : WF_vars(Step(p))

-----------------------------------------------------------------------------
(* Properties.                                                             *)

(* Records have the shape contracts.rs gives them.                         *)
TypeOK ==
  /\ catalog \in Catalogs
  /\ source \in Bins
  /\ {qual, admit} \subseteq Digests \cup {None}
  /\ arts \subseteq Bins
  /\ staged \in [Items \X Bins -> States]
  /\ app \in [Planners -> {"absent", "empty", "one"}]
  /\ plans \in [Planners -> PlanPayload \cup {None}]
  /\ pc \in [Planners -> Labels]
  /\ req \in [Planners -> Requests \cup {None}]
  /\ item \in [Planners -> Items]
  /\ refs \in [Planners -> [qualification : Digests \cup {None},
                            admission : Digests \cup {None}]]
  /\ ident \in [Planners -> Bins \cup {None}]
  /\ linkLost \in BOOLEAN
  /\ faults \in 0..MaxFaults

(* A published plan runs an executable that its manifest admits, for a     *)
(* tool whose pin is ready and closed, although the path was read twice    *)
(* and may have led to other bytes in between (native.rs:323).             *)
PlansRunAdmittedExecutables == \A p \in Planners :
  plans[p] # None =>
    LET t == catalog[plans[p].tool] IN
    /\ t.ready /\ t.closed
    /\ plans[p].identity \in t.allowed
    /\ t.qualified => plans[p].qualification # None

(* Whatever the catalog says and whatever is admitted, no Python tool is   *)
(* planned, and an operation of a Python tool without its admission leaves *)
(* no launcher behind (cli.rs:806).                                        *)
PythonIsNeverPlanned == \A p \in Planners :
  req[p] # None =>
    /\ Tool(p).python => plans[p] = None /\ ident[p] \in {None, Qualified}
    /\ Tool(p).admissible /\ refs[p].admission = None => ident[p] = None

(* As long as nobody tampers with it and no temporary name was lost, a     *)
(* staged launcher is refused only while another planner is between its    *)
(* link and its unlink (workspace.rs:1008).                                *)
RefusedLaunchersAreBeingLinked ==
  [][\A p \in Planners :
       pc[p] \in {"stage", "link", "verify"} /\ pc'[p] = "refused" =>
         \/ faults' # faults
         \/ linkLost
         \/ staged[Staging(p)] = "other"
         \/ \E q \in Planners \ {p} : pc[q] = "unlink" /\ Staging(q) = Staging(p)]_vars

(* A launcher with two names, which every planner of that tool refuses,    *)
(* gets back to one unless a name was lost.                                *)
LinkWindowsClose ==
  (\E s \in Items \X Bins : staged[s] = "two") ~>
    (linkLost \/ \A s \in Items \X Bins : staged[s] # "two")
=============================================================================
