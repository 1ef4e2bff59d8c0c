---------------------------- MODULE PlanGateProofs ----------------------------
(***************************************************************************)
(* What the gates of `runs plan` promise for every catalog, every set of   *)
(* planners and requests, and any number of faults, proved with TLAPS.     *)
(***************************************************************************)
EXTENDS PlanGate, TLAPS

(* How far a planner is, as the labels that lie behind each gate.          *)
BeforeResolve == {"idle"} \cup Gates
InStaging == {"import", "stage", "link", "unlink", "verify"}
Identified == {"references", "publish", "done"}
AfterQualification ==
  {"arguments", "resolve", "makeDirectory", "writeLauncher", "subject", "invocation",
   "identity", "dead"} \cup InStaging \cup Identified
AfterCatalog == AfterQualification \cup {"qualification"}

(* What each gate established is still so while the planner goes on: the   *)
(* catalog is built in, and what a planner retained is its own.            *)
CatalogHeld(p) ==
  /\ pc[p] \in AfterCatalog \cup {"admission", "catalog"} => ManifestValid(Tool(p))
  /\ pc[p] \in AfterCatalog =>
       /\ Tool(p).enabled /\ Tool(p).ready /\ Tool(p).closed
       /\ Tool(p).admissible => refs[p].admission # None
QualificationHeld(p) ==
  pc[p] \in AfterQualification /\ Tool(p).qualified => refs[p].qualification # None
IdentityHeld(p) ==
  /\ pc[p] \in InStaging => ~Tool(p).python
  /\ pc[p] \in BeforeResolve => ident[p] = None
  /\ pc[p] \in Identified => ident[p] \in Tool(p).allowed /\ ~Tool(p).python

(* A plan is what its planner ended with.                                  *)
PlanHeld(p) ==
  plans[p] # None =>
    /\ pc[p] = "done"
    /\ plans[p].tool = req[p].tool
    /\ plans[p].identity = ident[p]
    /\ plans[p].qualification = refs[p].qualification

(* Of a Python tool nothing but the qualified launcher is ever named, and  *)
(* of an admissible operation without an admission nothing at all.         *)
PythonHeld(p) ==
  pc[p] # "idle" =>
    /\ req[p] \in Requests
    /\ Tool(p).python => ident[p] \in {None, Qualified}
    /\ Tool(p).admissible /\ refs[p].admission = None => ident[p] = None

Held(p) ==
  CatalogHeld(p) /\ QualificationHeld(p) /\ IdentityHeld(p) /\ PlanHeld(p) /\ PythonHeld(p)

GateInv == TypeOK /\ \A p \in Planners : Held(p)

-----------------------------------------------------------------------------
LEMMA InitTyped == Init => TypeOK
<1> SUFFICES ASSUME Init PROVE TypeOK
  OBVIOUS
<1> USE PlanGateAssumption DEF Init
<1>1. catalog \in Catalogs /\ source \in Bins /\ arts \subseteq Bins
  OBVIOUS
<1>2. {qual, admit} \subseteq Digests \cup {None}
  BY DEF Digests
<1>3. staged \in [Items \X Bins -> States] /\ app \in [Planners -> {"absent", "empty", "one"}]
  BY DEF States
<1>4. pc \in [Planners -> Labels] /\ item \in [Planners -> Items]
  BY DEF Labels, Gates, Items
<1>5. /\ plans \in [Planners -> PlanPayload \cup {None}]
      /\ req \in [Planners -> Requests \cup {None}]
      /\ ident \in [Planners -> Bins \cup {None}]
      /\ refs \in [Planners -> [qualification : Digests \cup {None},
                                admission : Digests \cup {None}]]
  OBVIOUS
<1>6. linkLost \in BOOLEAN
  OBVIOUS
<1>7. faults \in 0..MaxFaults
  BY PlanGateAssumption
<1> QED BY <1>1, <1>2, <1>3, <1>4, <1>5, <1>6, <1>7 DEF TypeOK

LEMMA InvInit == Init => GateInv
<1> SUFFICES ASSUME Init PROVE GateInv
  OBVIOUS
<1>1. ASSUME NEW p \in Planners PROVE Held(p)
  <2>1. pc[p] = "idle" /\ ident[p] = None /\ plans[p] = None
    BY DEF Init
  <2> QED
    BY <2>1 DEF Held, CatalogHeld, QualificationHeld, IdentityHeld, PlanHeld, PythonHeld,
                AfterCatalog, AfterQualification, InStaging, Identified
<1> QED BY <1>1, InitTyped DEF GateInv

(* What is held of a planner depends on its own state only, so a step of p *)
(* has to be checked for p alone.                                          *)
LEMMA OthersKeep ==
  ASSUME GateInv, TypeOK', NEW p \in Planners, catalog' = catalog,
         \A q \in Planners \ {p} :
           /\ pc'[q] = pc[q] /\ req'[q] = req[q] /\ refs'[q] = refs[q]
           /\ ident'[q] = ident[q] /\ plans'[q] = plans[q],
         Held(p)'
  PROVE  GateInv'
<1>1. ASSUME NEW q \in Planners \ {p} PROVE Held(q)'
  <2>1. Held(q)
    BY DEF GateInv
  <2> QED
    BY <2>1 DEF Held, CatalogHeld, QualificationHeld, IdentityHeld, PlanHeld, PythonHeld,
                Tool, ManifestValid
<1> QED BY <1>1 DEF GateInv

-----------------------------------------------------------------------------
(* What every action of p leaves alone for the others.                     *)
LEMMA StepTouchesOne ==
  ASSUME GateInv, NEW p \in Planners,
         Step(p) \/ (\E r \in Requests : Request(p, r))
         \/ Crash(p) \/ LinkFails(p) \/ UnlinkFails(p)
  PROVE  /\ catalog' = catalog
         /\ \A q \in Planners \ {p} :
              /\ pc'[q] = pc[q] /\ req'[q] = req[q] /\ refs'[q] = refs[q]
              /\ ident'[q] = ident[q] /\ plans'[q] = plans[q]
<1> USE DEF GateInv, TypeOK, Goto, Check, disk, local, Fault
<1>1. CASE Gate(p)
  BY <1>1 DEF Gate, BindAdmission, CheckCatalog, BindQualification, CheckSubjectArguments
<1>2. CASE Qualify(p)
  BY <1>2 DEF Qualify, ResolveQualified, MakeDirectory, WriteLauncher
<1>3. CASE Stage(p)
  BY <1>3 DEF Stage, ResolveTool, ImportSnapshot, UseStaged, LinkStaged, UnlinkTemporary,
              VerifyLauncher, VerifyStaged, Staged
<1>4. CASE Finish(p)
  BY <1>4 DEF Finish, ResolveSubject, BuildInvocation, ValidateIdentity,
              ValidateReferences, PublishPlan
<1>5. CASE \E r \in Requests : Request(p, r)
  BY <1>5 DEF Request
<1>6. CASE Crash(p) \/ LinkFails(p) \/ UnlinkFails(p)
  BY <1>6 DEF Crash, LinkFails, UnlinkFails
<1> QED BY <1>1, <1>2, <1>3, <1>4, <1>5, <1>6 DEF Step

(* Every value stays of its type.                                          *)
LEMMA StepTyped ==
  ASSUME GateInv, NEW p \in Planners,
         Step(p) \/ (\E r \in Requests : Request(p, r))
         \/ Crash(p) \/ LinkFails(p) \/ UnlinkFails(p)
  PROVE  TypeOK'
<1> USE DEF GateInv, TypeOK, Goto, Check, disk, local
<1>0. \A l \in Labels : [pc EXCEPT ![p] = l] \in [Planners -> Labels]
  OBVIOUS
<1>a. Gates \cup InStaging \cup AfterCatalog \cup {"idle", "refused"} \subseteq Labels
  BY DEF Labels, Gates, AfterCatalog, AfterQualification, InStaging, Identified
<1> DEFINE Moves == \E l \in Labels : pc' = [pc EXCEPT ![p] = l]
<1>m. Moves => pc' \in [Planners -> Labels]
  BY <1>0
<1> HIDE DEF Moves
<1> USE DEF AfterCatalog, AfterQualification, InStaging, Identified, Gates
<1>1. CASE BindAdmission(p)
  <2>1. Moves BY <1>1, <1>a DEF BindAdmission, Moves
  <2> QED BY <1>1, <1>m, <2>1 DEF BindAdmission
<1>2. CASE CheckCatalog(p) \/ CheckSubjectArguments(p)
  <2>1. Moves BY <1>2, <1>a DEF CheckCatalog, CheckSubjectArguments, Moves
  <2> QED BY <1>2, <1>m, <2>1 DEF CheckCatalog, CheckSubjectArguments
<1>3. CASE BindQualification(p)
  <2>1. Moves BY <1>3, <1>a DEF BindQualification, Moves
  <2> QED BY <1>3, <1>m, <2>1 DEF BindQualification
<1>4. CASE ResolveQualified(p)
  <2>1. Moves BY <1>4, <1>a DEF ResolveQualified, Moves
  <2> QED BY <1>4, <1>m, <2>1, PlanGateAssumption DEF ResolveQualified
<1>5. CASE MakeDirectory(p) \/ WriteLauncher(p)
  <2>1. Moves BY <1>5, <1>a DEF MakeDirectory, WriteLauncher, Moves
  <2> QED BY <1>5, <1>m, <2>1 DEF MakeDirectory, WriteLauncher
<1>6. VerifyStaged(p) => Moves /\ item' \in [Planners -> Items]
  BY <1>a DEF VerifyStaged, Staged, Items, Moves
<1>7. CASE ResolveTool(p) \/ UseStaged(p) \/ VerifyLauncher(p)
  <2>1. Moves /\ item' \in [Planners -> Items]
    BY <1>7, <1>6, <1>a DEF ResolveTool, UseStaged, VerifyLauncher, Moves
  <2> QED BY <1>7, <1>m, <2>1 DEF ResolveTool, UseStaged, VerifyLauncher
<1>8. CASE ImportSnapshot(p)
  <2>1. Moves BY <1>8, <1>a DEF ImportSnapshot, Moves
  <2> QED BY <1>8, <1>m, <2>1, PlanGateAssumption DEF ImportSnapshot
<1>9. CASE LinkStaged(p)
  <2>1. Moves /\ item' \in [Planners -> Items]
    BY <1>9, <1>6, <1>a DEF LinkStaged, Moves
  <2>2. staged' \in [Items \X Bins -> States]
    BY <1>9 DEF LinkStaged, States
  <2> QED BY <1>9, <1>m, <2>1, <2>2 DEF LinkStaged
<1>10. CASE UnlinkTemporary(p)
  <2>1. Moves BY <1>10, <1>a DEF UnlinkTemporary, Moves
  <2> QED BY <1>10, <1>m, <2>1 DEF UnlinkTemporary, States
<1>11. CASE ResolveSubject(p) \/ BuildInvocation(p)
  <2>1. Moves BY <1>11, <1>a DEF ResolveSubject, BuildInvocation, Moves
  <2> QED BY <1>11, <1>m, <2>1 DEF ResolveSubject, BuildInvocation
<1>12. CASE ValidateIdentity(p) \/ ValidateReferences(p)
  <2>1. Moves BY <1>12, <1>a DEF ValidateIdentity, ValidateReferences, Moves
  <2> QED BY <1>12, <1>m, <2>1 DEF ValidateIdentity, ValidateReferences
<1>13. CASE PublishPlan(p)
  <2>1. /\ req[p] \in Requests /\ Tool(p).allowed \subseteq Bins
        /\ ident[p] \in Tool(p).allowed \/ ident[p] = None
    BY <1>13, PlanGateAssumption
       DEF PublishPlan, Held, PythonHeld, IdentityHeld, Tool, ToolManifest, PlanRequest
  <2>2. ident[p] \in Bins
    BY <1>13, <2>1 DEF PublishPlan, Held, IdentityHeld
  <2>3. [tool |-> req[p].tool, identity |-> ident[p],
         qualification |-> refs[p].qualification, admission |-> refs[p].admission]
          \in PlanPayload
    BY <2>1, <2>2, PlanGateAssumption DEF PlanPayload, BinaryIdentity, PlanRequest
  <2>4. Moves BY <1>13, <1>a DEF PublishPlan, Moves
  <2> QED BY <1>13, <1>m, <2>3, <2>4 DEF PublishPlan
<1>14. CASE \E r \in Requests : Request(p, r)
  <2>1. Moves BY <1>14, <1>a DEF Request, Moves
  <2> QED BY <1>14, <1>m, <2>1 DEF Request
<1>15. CASE Crash(p) \/ LinkFails(p) \/ UnlinkFails(p)
  <2>1. Moves BY <1>15, <1>a DEF Crash, LinkFails, UnlinkFails, Moves
  <2>2. linkLost' \in BOOLEAN
    BY <1>15 DEF Crash, LinkFails, UnlinkFails
  <2>3. faults' \in 0..MaxFaults
    <3>1. faults \in 0..MaxFaults /\ Fault
      BY <1>15 DEF Crash, LinkFails, UnlinkFails
    <3> QED BY <3>1, PlanGateAssumption DEF Fault
  <2> QED BY <1>15, <1>m, <2>1, <2>2, <2>3 DEF Crash, LinkFails, UnlinkFails, Fault
<1> QED
  BY <1>1, <1>2, <1>3, <1>4, <1>5, <1>7, <1>8, <1>9, <1>10, <1>11, <1>12, <1>13, <1>14, <1>15
     DEF Step, Gate, Qualify, Stage, Finish

(* What is held of the planner that takes a step.                          *)
LEMMA StepHolds ==
  ASSUME GateInv, NEW p \in Planners, TypeOK',
         Step(p) \/ (\E r \in Requests : Request(p, r))
         \/ Crash(p) \/ LinkFails(p) \/ UnlinkFails(p)
  PROVE  Held(p)'
<1> USE DEF TypeOK, Goto, Check, disk, local, Held, CatalogHeld, QualificationHeld,
            IdentityHeld, PlanHeld, PythonHeld, Tool, ManifestValid
<1> USE DEF AfterCatalog, AfterQualification, InStaging, Identified, BeforeResolve, Gates
<1>0. Held(p) /\ TypeOK
  BY DEF GateInv
<1>1. CASE \E r \in Requests : Request(p, r)
  <2>1. ASSUME NEW r \in Requests, Request(p, r) PROVE Held(p)'
    <3>1. r.tool \in Tools /\ pc[p] = "idle"
      BY <2>1, PlanGateAssumption DEF PlanRequest, Request
    <3> QED BY <1>0, <2>1, <3>1 DEF Request
  <2> QED BY <1>1, <2>1
<1>2. CASE BindAdmission(p)
  BY <1>0, <1>2 DEF BindAdmission
<1>3. CASE CheckCatalog(p)
  <2>1. req[p].tool \in Tools
    BY <1>0, <1>3, PlanGateAssumption DEF CheckCatalog, PlanRequest
  <2> QED BY <1>0, <1>3, <2>1 DEF CheckCatalog, PlanningBlocker, RequireReady, PinsValid
<1>4. CASE BindQualification(p)
  BY <1>0, <1>4 DEF BindQualification
<1>5. CASE CheckSubjectArguments(p)
  BY <1>0, <1>5 DEF CheckSubjectArguments
<1>6. CASE ResolveQualified(p)
  BY <1>0, <1>6 DEF ResolveQualified
<1>7. CASE MakeDirectory(p) \/ WriteLauncher(p)
  BY <1>0, <1>7 DEF MakeDirectory, WriteLauncher
<1>8. CASE ResolveTool(p)
  BY <1>0, <1>8 DEF ResolveTool
<1>9. CASE ImportSnapshot(p)
  BY <1>0, <1>9 DEF ImportSnapshot
<1>10. CASE UseStaged(p) \/ VerifyLauncher(p)
  BY <1>0, <1>10 DEF UseStaged, VerifyLauncher, VerifyStaged, Staged
<1>11. CASE LinkStaged(p)
  BY <1>0, <1>11 DEF LinkStaged, VerifyStaged, Staged
<1>12. CASE UnlinkTemporary(p)
  BY <1>0, <1>12 DEF UnlinkTemporary
<1>13. CASE ResolveSubject(p) \/ BuildInvocation(p)
  BY <1>0, <1>13 DEF ResolveSubject, BuildInvocation
<1>14. CASE ValidateIdentity(p)
  BY <1>0, <1>14 DEF ValidateIdentity
<1>15. CASE ValidateReferences(p)
  BY <1>0, <1>15 DEF ValidateReferences
<1>16. CASE PublishPlan(p)
  BY <1>0, <1>16 DEF PublishPlan
<1>17. CASE Crash(p) \/ LinkFails(p) \/ UnlinkFails(p)
  BY <1>0, <1>17 DEF Crash, LinkFails, UnlinkFails, Fault
<1> QED
  BY <1>1, <1>2, <1>3, <1>4, <1>5, <1>6, <1>7, <1>8, <1>9, <1>10, <1>11, <1>12, <1>13,
     <1>14, <1>15, <1>16, <1>17
     DEF Step, Gate, Qualify, Stage, Finish

LEMMA RewriteTyped == TypeOK /\ Rewrite => TypeOK'
<1> SUFFICES ASSUME TypeOK, Rewrite PROVE TypeOK'
  OBVIOUS
<1>1. faults' \in 0..MaxFaults
  <2>1. faults \in 0..MaxFaults /\ Fault
    BY DEF TypeOK, Rewrite
  <2> QED BY <2>1, PlanGateAssumption DEF Fault
<1>2. UNCHANGED <<catalog, app, plans, pc, req, item, refs, ident, linkLost>>
  BY DEF Rewrite, Fault, local
<1>3. source' \in Bins /\ {qual', admit'} \subseteq Digests \cup {None} /\ arts' \subseteq Bins
  BY DEF Rewrite, TypeOK
<1>4. staged' \in [Items \X Bins -> States]
  BY DEF Rewrite, TypeOK, States
<1> QED BY <1>1, <1>2, <1>3, <1>4 DEF TypeOK

LEMMA InvStep == GateInv /\ [Next]_vars => GateInv'
<1> SUFFICES ASSUME GateInv, [Next]_vars PROVE GateInv'
  OBVIOUS
<1> DEFINE Acts(p) == \/ Step(p) \/ (\E r \in Requests : Request(p, r))
                      \/ Crash(p) \/ LinkFails(p) \/ UnlinkFails(p)
<1>1. ASSUME NEW p \in Planners, Acts(p) PROVE GateInv'
  <2>1. TypeOK' BY <1>1, StepTyped
  <2>2. Held(p)' BY <1>1, <2>1, StepHolds
  <2>3. /\ catalog' = catalog
        /\ \A q \in Planners \ {p} :
             /\ pc'[q] = pc[q] /\ req'[q] = req[q] /\ refs'[q] = refs[q]
             /\ ident'[q] = ident[q] /\ plans'[q] = plans[q]
    BY <1>1, StepTouchesOne
  <2> QED BY <2>1, <2>2, <2>3, OthersKeep
<1>2. ASSUME TypeOK', UNCHANGED <<catalog, plans, pc, req, refs, ident>> PROVE GateInv'
  BY <1>2 DEF GateInv, Held, CatalogHeld, QualificationHeld, IdentityHeld, PlanHeld,
              PythonHeld, Tool, ManifestValid
<1>3. CASE Rewrite
  <2>1. UNCHANGED <<catalog, plans, pc, req, refs, ident>>
    BY <1>3 DEF Rewrite, Fault, local
  <2> QED BY <1>2, <1>3, <2>1, RewriteTyped DEF GateInv
<1>4. CASE UNCHANGED vars
  <2>1. TypeOK' /\ UNCHANGED <<catalog, plans, pc, req, refs, ident>>
    BY <1>4 DEF vars, disk, local, GateInv, TypeOK
  <2> QED BY <1>2, <2>1
<1> QED BY <1>1, <1>3, <1>4 DEF Next

(* Everything above together is inductive.                                 *)
THEOREM GateInvariant == Spec => []GateInv
<1> QED BY InvInit, InvStep, PTL DEF Spec

-----------------------------------------------------------------------------
(* Records and planners keep their shape, whatever the catalog and the     *)
(* faults are.                                                             *)
THEOREM Typing == Spec => []TypeOK
<1>1. GateInv => TypeOK
  BY DEF GateInv
<1> QED BY <1>1, GateInvariant, PTL

(* Every published plan of runs plan runs an executable that its manifest  *)
(* admits, for a tool whose pin is ready and closed, however often the     *)
(* files the command reads twice are replaced in between.                  *)
THEOREM PlansAreAdmitted == Spec => []PlansRunAdmittedExecutables
<1>1. GateInv => PlansRunAdmittedExecutables
  BY DEF GateInv, Held, CatalogHeld, QualificationHeld, IdentityHeld, PlanHeld, Tool,
         PlansRunAdmittedExecutables, AfterCatalog, AfterQualification, Identified
<1> QED BY <1>1, GateInvariant, PTL

(* No catalog and no admission record makes runs plan plan a Python tool,  *)
(* and an operation without its admission is refused before anything is    *)
(* staged for it.                                                          *)
THEOREM PythonStaysUnplanned == Spec => []PythonIsNeverPlanned
<1>1. ASSUME GateInv, NEW p \in Planners, req[p] # None,
             pc[p] = "idle" PROVE plans[p] = None /\ ident[p] = None
  BY <1>1 DEF GateInv, Held, IdentityHeld, PlanHeld, BeforeResolve
<1>2. ASSUME GateInv, NEW p \in Planners, Tool(p).python PROVE plans[p] = None
  BY <1>2 DEF GateInv, Held, IdentityHeld, PlanHeld, Identified
<1>3. GateInv => PythonIsNeverPlanned
  BY <1>1, <1>2 DEF GateInv, Held, PythonHeld, PythonIsNeverPlanned
<1> QED BY <1>3, GateInvariant, PTL

-----------------------------------------------------------------------------
(* The staged launchers.  A planner that is past its import names one of   *)
(* them; past its link it is there; and one with two names is between the  *)
(* link and the unlink of the planner that made it, unless the temporary   *)
(* name was lost.                                                          *)
NamesLauncher(p) ==
  pc[p] \in {"stage", "link", "unlink", "verify"} => Staging(p) \in Items \X Bins
FindsLauncher(p) == pc[p] \in {"unlink", "verify"} => staged[Staging(p)] # "absent"
Linking(s) == \E q \in Planners : pc[q] = "unlink" /\ Staging(q) = s
WindowInv ==
  /\ \A p \in Planners : NamesLauncher(p) /\ FindsLauncher(p)
  /\ \A s \in Items \X Bins : staged[s] = "two" /\ ~linkLost => Linking(s)

LEMMA WindowInit == Init => WindowInv
BY DEF Init, WindowInv, NamesLauncher, FindsLauncher

(* A launcher that was staged is there for good.                           *)
LEMMA LaunchersStay ==
  ASSUME GateInv, [Next]_vars, NEW s \in Items \X Bins, staged[s] # "absent"
  PROVE  staged'[s] # "absent"
<1> USE DEF GateInv, TypeOK, disk, local
<1>1. ASSUME NEW p \in Planners, Step(p) PROVE staged'[s] # "absent"
  <2>1. CASE Gate(p) \/ Qualify(p) \/ Finish(p)
    BY <2>1 DEF Gate, BindAdmission, CheckCatalog, BindQualification, CheckSubjectArguments,
                Qualify, ResolveQualified, MakeDirectory, WriteLauncher,
                Finish, ResolveSubject, BuildInvocation, ValidateIdentity,
                ValidateReferences, PublishPlan
  <2>2. CASE ResolveTool(p) \/ ImportSnapshot(p) \/ UseStaged(p) \/ VerifyLauncher(p)
    BY <2>2 DEF ResolveTool, ImportSnapshot, UseStaged, VerifyLauncher
  <2>3. CASE LinkStaged(p) \/ UnlinkTemporary(p)
    BY <2>3 DEF LinkStaged, UnlinkTemporary
  <2> QED BY <1>1, <2>1, <2>2, <2>3 DEF Step, Stage
<1>2. ASSUME NEW p \in Planners,
             (\E r \in Requests : Request(p, r)) \/ Crash(p) \/ LinkFails(p) \/ UnlinkFails(p)
      PROVE  staged'[s] # "absent"
  BY <1>2 DEF Request, Crash, LinkFails, UnlinkFails
<1>3. CASE Rewrite
  BY <1>3 DEF Rewrite
<1> QED BY <1>1, <1>2, <1>3 DEF Next, vars

(* What a step of p that is none of LinkStaged and UnlinkTemporary does to *)
(* the launchers: nothing, and it leaves its own window only by a fault.   *)
LEMMA MostStepsLeaveLaunchers ==
  ASSUME GateInv, NEW p \in Planners,
         \/ Gate(p) \/ Qualify(p) \/ Finish(p)
         \/ ResolveTool(p) \/ ImportSnapshot(p) \/ UseStaged(p) \/ VerifyLauncher(p)
         \/ (\E r \in Requests : Request(p, r))
         \/ Crash(p) \/ LinkFails(p) \/ UnlinkFails(p)
  PROVE  /\ staged' = staged
         /\ linkLost => linkLost'
         /\ pc[p] = "unlink" => linkLost'
<1> USE DEF Fault, disk, local, GateInv, TypeOK
<1>1. CASE Gate(p)
  BY <1>1 DEF Gate, BindAdmission, CheckCatalog, BindQualification, CheckSubjectArguments
<1>2. CASE Qualify(p)
  BY <1>2 DEF Qualify, ResolveQualified, MakeDirectory, WriteLauncher
<1>3. CASE Finish(p)
  BY <1>3 DEF Finish, ResolveSubject, BuildInvocation, ValidateIdentity,
              ValidateReferences, PublishPlan
<1>4. CASE ResolveTool(p) \/ ImportSnapshot(p) \/ UseStaged(p) \/ VerifyLauncher(p)
  BY <1>4 DEF ResolveTool, ImportSnapshot, UseStaged, VerifyLauncher
<1>5. CASE (\E r \in Requests : Request(p, r)) \/ Crash(p) \/ LinkFails(p) \/ UnlinkFails(p)
  BY <1>5 DEF Request, Crash, LinkFails, UnlinkFails
<1> QED BY <1>1, <1>2, <1>3, <1>4, <1>5

(* Which launcher the others stage does not depend on p.                   *)
LEMMA OthersStageTheSame ==
  ASSUME GateInv, NEW p \in Planners,
         Step(p) \/ (\E r \in Requests : Request(p, r))
         \/ Crash(p) \/ LinkFails(p) \/ UnlinkFails(p)
  PROVE  \A q \in Planners \ {p} : pc'[q] = pc[q] /\ Staging(q)' = Staging(q)
<1> USE DEF GateInv, TypeOK, disk, local, Fault
<1>1. ASSUME NEW q \in Planners \ {p} PROVE item'[q] = item[q]
  <2>1. CASE Gate(p)
    BY <2>1 DEF Gate, BindAdmission, CheckCatalog, BindQualification, CheckSubjectArguments
  <2>2. CASE Qualify(p)
    BY <2>2 DEF Qualify, ResolveQualified, MakeDirectory, WriteLauncher
  <2>3. CASE Stage(p)
    BY <2>3 DEF Stage, ResolveTool, ImportSnapshot, UseStaged, LinkStaged, UnlinkTemporary,
                VerifyLauncher, VerifyStaged, Staged
  <2>4. CASE Finish(p)
    BY <2>4 DEF Finish, ResolveSubject, BuildInvocation, ValidateIdentity,
                ValidateReferences, PublishPlan
  <2>5. CASE (\E r \in Requests : Request(p, r)) \/ Crash(p) \/ LinkFails(p) \/ UnlinkFails(p)
    BY <2>5 DEF Request, Crash, LinkFails, UnlinkFails
  <2> QED BY <2>1, <2>2, <2>3, <2>4, <2>5 DEF Step
<1> QED BY <1>1, StepTouchesOne DEF Staging

(* The planner that takes the step names its launcher, and finds it.       *)
LEMMA OwnLauncherKept ==
  ASSUME GateInv, TypeOK', WindowInv, NEW p \in Planners,
         Step(p) \/ (\E r \in Requests : Request(p, r))
         \/ Crash(p) \/ LinkFails(p) \/ UnlinkFails(p)
  PROVE  NamesLauncher(p)' /\ FindsLauncher(p)'
<1> USE DEF GateInv, TypeOK, Goto, Check, disk, local, Fault, NamesLauncher, FindsLauncher,
            WindowInv, Gates
<1>1. CASE Gate(p)
  BY <1>1 DEF Gate, BindAdmission, CheckCatalog, BindQualification, CheckSubjectArguments
<1>2. CASE Qualify(p)
  BY <1>2 DEF Qualify, ResolveQualified, MakeDirectory, WriteLauncher
<1>3. CASE Finish(p)
  BY <1>3 DEF Finish, ResolveSubject, BuildInvocation, ValidateIdentity,
              ValidateReferences, PublishPlan
<1>4. CASE ResolveTool(p)
  BY <1>4 DEF ResolveTool
<1>5. CASE ImportSnapshot(p)
  <2>1. pc'[p] = "stage" /\ item'[p] = item[p] /\ item[p] \in Items
    BY <1>5 DEF ImportSnapshot
  <2>2. item[p] = "native" => ident'[p] \in Bins
    BY <1>5 DEF ImportSnapshot
  <2>3. Staging(p)' \in Items \X Bins
    BY <2>1, <2>2, PlanGateAssumption DEF Staging
  <2> QED BY <2>1, <2>3
<1>6. VerifyStaged(p) => pc'[p] \in {"import", "subject", "refused"}
  BY DEF VerifyStaged, Staged
<1>7. CASE UseStaged(p) \/ VerifyLauncher(p)
  <2>1. \/ pc'[p] \in {"import", "subject", "refused"}
        \/ /\ pc[p] = "stage" /\ pc'[p] = "link" /\ UNCHANGED <<item, ident>>
    BY <1>6, <1>7 DEF UseStaged, VerifyLauncher
  <2> QED BY <2>1 DEF Staging
<1>8. CASE LinkStaged(p)
  <2>1. CASE pc'[p] \in {"import", "subject", "refused"}
    BY <2>1
  <2>2. CASE /\ pc[p] = "link" /\ pc'[p] = "unlink" /\ UNCHANGED <<item, ident>>
             /\ staged' = [staged EXCEPT ![Staging(p)] = "two"]
    BY <2>2 DEF Staging
  <2> QED BY <1>6, <1>8, <2>1, <2>2 DEF LinkStaged
<1>9. CASE UnlinkTemporary(p)
  <2>1. Staging(p)' = Staging(p) /\ Staging(p) \in Items \X Bins /\ pc'[p] = "verify"
    BY <1>9 DEF UnlinkTemporary, Staging
  <2> QED BY <1>9, <2>1 DEF UnlinkTemporary
<1>10. CASE UnlinkFails(p)
  BY <1>10 DEF UnlinkFails, Staging
<1>11. CASE (\E r \in Requests : Request(p, r)) \/ Crash(p) \/ LinkFails(p)
  BY <1>11 DEF Request, Crash, LinkFails
<1> QED BY <1>1, <1>2, <1>3, <1>4, <1>5, <1>7, <1>8, <1>9, <1>10, <1>11 DEF Step, Stage

LEMMA WindowStep == GateInv /\ WindowInv /\ [Next]_vars => WindowInv'
<1> SUFFICES ASSUME GateInv, WindowInv, [Next]_vars PROVE WindowInv'
  OBVIOUS
<1>1. TypeOK'
  BY InvStep DEF GateInv
<1>2. ASSUME NEW s \in Items \X Bins, staged[s] # "absent" PROVE staged'[s] # "absent"
  BY <1>2, LaunchersStay
<1> DEFINE Acts(p) == \/ Step(p) \/ (\E r \in Requests : Request(p, r))
                      \/ Crash(p) \/ LinkFails(p) \/ UnlinkFails(p)
<1>3. ASSUME NEW p \in Planners, Acts(p) PROVE WindowInv'
  <2>1. \A q \in Planners \ {p} : pc'[q] = pc[q] /\ Staging(q)' = Staging(q)
    BY <1>3, OthersStageTheSame
  <2>2. ASSUME NEW q \in Planners PROVE NamesLauncher(q)' /\ FindsLauncher(q)'
    <3>1. CASE q = p
      BY <1>1, <1>3, <3>1, OwnLauncherKept
    <3>2. CASE q # p
      BY <1>2, <2>1, <3>2 DEF WindowInv, NamesLauncher, FindsLauncher
    <3> QED BY <3>1, <3>2
  <2>3. ASSUME NEW s \in Items \X Bins, staged'[s] = "two", ~linkLost' PROVE Linking(s)'
    <3>1. CASE LinkStaged(p)
      <4>1. CASE staged[Staging(p)] = "absent"
        <5>1. pc' = [pc EXCEPT ![p] = "unlink"] /\ staged' = [staged EXCEPT ![Staging(p)] = "two"]
              /\ UNCHANGED <<item, ident, linkLost>>
          BY <3>1, <4>1 DEF LinkStaged, Goto
        <5>2. CASE s = Staging(p)
          BY <5>1, <5>2 DEF Linking, Staging, GateInv, TypeOK
        <5>3. CASE s # Staging(p)
          <6>1. Linking(s)
            BY <2>3, <5>1, <5>3 DEF WindowInv, GateInv, TypeOK
          <6>2. pc[p] # "unlink"
            BY <3>1 DEF LinkStaged
          <6> QED BY <2>1, <6>1, <6>2 DEF Linking
        <5> QED BY <5>2, <5>3
      <4>2. CASE staged[Staging(p)] # "absent"
        <5>1. staged' = staged /\ linkLost' = linkLost /\ pc[p] # "unlink"
          BY <3>1, <4>2 DEF LinkStaged
        <5>2. Linking(s)
          BY <2>3, <5>1 DEF WindowInv
        <5> QED BY <2>1, <5>1, <5>2 DEF Linking
      <4> QED BY <4>1, <4>2
    <3>2. CASE UnlinkTemporary(p)
      <4>1. /\ staged[s] = "two" /\ s # Staging(p) /\ linkLost' = linkLost
        BY <2>3, <3>2 DEF UnlinkTemporary, GateInv, TypeOK
      <4>2. PICK q \in Planners : pc[q] = "unlink" /\ Staging(q) = s
        BY <2>3, <4>1 DEF WindowInv, Linking
      <4> QED BY <2>1, <4>1, <4>2 DEF Linking
    <3>3. CASE ~LinkStaged(p) /\ ~UnlinkTemporary(p)
      <4>1. /\ staged' = staged
            /\ linkLost \/ pc[p] = "unlink" => linkLost'
        BY <1>3, <3>3, MostStepsLeaveLaunchers DEF Step, Stage
      <4>2. PICK q \in Planners : pc[q] = "unlink" /\ Staging(q) = s
        BY <2>3, <4>1 DEF WindowInv, Linking
      <4> QED BY <2>1, <2>3, <4>1, <4>2 DEF Linking
    <3> QED BY <3>1, <3>2, <3>3
  <2> QED BY <2>2, <2>3 DEF WindowInv
<1>4. CASE Rewrite
  <2>1. UNCHANGED <<pc, item, ident, linkLost>>
    BY <1>4 DEF Rewrite, local
  <2>2. \A s \in Items \X Bins : staged'[s] = "two" => staged[s] = "two"
    BY <1>4 DEF Rewrite, GateInv, TypeOK
  <2> QED
    BY <1>2, <2>1, <2>2 DEF WindowInv, NamesLauncher, FindsLauncher, Linking, Staging
<1>5. CASE UNCHANGED vars
  BY <1>5 DEF vars, disk, local, WindowInv, NamesLauncher, FindsLauncher, Linking, Staging
<1> QED BY <1>3, <1>4, <1>5 DEF Next

(* As long as nobody tampers with it and no temporary name was lost,       *)
(* create_snapshot refuses a staged launcher only while another planner is *)
(* between its link and its unlink: for any number of planners, tools and  *)
(* executables, no planner is turned away by what a finished one left.     *)
THEOREM RefusalsAreTransient == Spec => RefusedLaunchersAreBeingLinked
<1> DEFINE Refused(p) == pc[p] \in {"stage", "link", "verify"} /\ pc'[p] = "refused"
           Excused(p) ==
             \/ faults' # faults
             \/ linkLost
             \/ staged[Staging(p)] = "other"
             \/ \E q \in Planners \ {p} : pc[q] = "unlink" /\ Staging(q) = Staging(p)
<1>1. ASSUME GateInv, WindowInv, Next, NEW p \in Planners, Refused(p) PROVE Excused(p)
  <2>1. ASSUME NEW q \in Planners \ {p},
               Step(q) \/ (\E r \in Requests : Request(q, r))
               \/ Crash(q) \/ LinkFails(q) \/ UnlinkFails(q)
        PROVE  FALSE
    <3>1. pc'[p] = pc[p]
      BY <1>1, <2>1, StepTouchesOne
    <3> QED BY <1>1, <3>1
  <2>2. CASE Rewrite \/ Crash(p) \/ LinkFails(p) \/ UnlinkFails(p)
    <3>1. faults' # faults
      BY <1>1, <2>2, PlanGateAssumption
         DEF Rewrite, Crash, LinkFails, UnlinkFails, Fault, GateInv, TypeOK
    <3> QED BY <3>1
  <2>3. CASE Step(p) \/ (\E r \in Requests : Request(p, r))
    <3>1. UseStaged(p) \/ LinkStaged(p) \/ VerifyLauncher(p)
      BY <1>1, <2>3
         DEF Step, Gate, BindAdmission, CheckCatalog, BindQualification,
             CheckSubjectArguments, Qualify, ResolveQualified, MakeDirectory, WriteLauncher,
             Finish, ResolveSubject, BuildInvocation, ValidateIdentity, ValidateReferences,
             PublishPlan, Stage, ResolveTool, ImportSnapshot, UnlinkTemporary, Request
    <3>2. Staging(p) \in Items \X Bins /\ (pc[p] = "verify" => staged[Staging(p)] # "absent")
      BY <1>1 DEF WindowInv, NamesLauncher, FindsLauncher
    <3>3. staged[Staging(p)] \notin {"one", "absent"}
      BY <1>1, <3>1, <3>2
         DEF UseStaged, LinkStaged, VerifyLauncher, VerifyStaged, Staged, Goto, GateInv, TypeOK
    <3>4. staged[Staging(p)] \in {"two", "other"}
      BY <1>1, <3>2, <3>3 DEF GateInv, TypeOK, States
    <3>5. staged[Staging(p)] = "two" /\ ~linkLost => Linking(Staging(p))
      BY <1>1, <3>2 DEF WindowInv
    <3> QED BY <1>1, <3>4, <3>5 DEF Linking
  <2> QED BY <1>1, <2>1, <2>2, <2>3 DEF Next
<1>2. ASSUME GateInv, WindowInv, UNCHANGED vars, NEW p \in Planners, Refused(p) PROVE FALSE
  BY <1>2 DEF vars, local
<1>3. GateInv /\ WindowInv /\ [Next]_vars => [\A p \in Planners : Refused(p) => Excused(p)]_vars
  BY <1>1
<1> QED
  BY <1>3, GateInvariant, WindowInit, WindowStep, PTL DEF Spec, RefusedLaunchersAreBeingLinked
=============================================================================
