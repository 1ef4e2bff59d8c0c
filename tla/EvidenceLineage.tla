---------------------------- MODULE EvidenceLineage ----------------------------
(***************************************************************************)
(* Plans, runs, artifacts and handoffs, and the digests that bind them.    *)
(* `runs execute` turns a reviewed plan into a run record, `handoffs       *)
(* create` binds one captured artifact to a run whose digest its caller    *)
(* retained, and `handoffs verify` re-derives that binding for a consumer  *)
(* who retained the handoff's digest.  Nothing is locked: every command    *)
(* re-reads the records it needs, one file at a time, while other programs *)
(* may rewrite the registries with records whose own digests are right.    *)
(*                                                                         *)
(* A digest is modelled as the record it is the digest of.  What a plan    *)
(* fixes (tool, pins, identity, subject, parameters, invocation) is one    *)
(* member of Inputs; of the two captured streams only stdout is modelled.  *)
(***************************************************************************)
EXTENDS Naturals, Sequences

CONSTANTS
  Executors,   \* `runs execute` commands; each also names its run and its capture
  Producers,   \* `handoffs create` commands; each also names its handoff
  Consumers,   \* `handoffs verify` and `handoffs show` commands
  Earlier,     \* artifacts that were in the store before
  Inputs,      \* what plans may fix
  ValidInputs, \* those this build derives itself from its manifests
  Reviewed,    \* the plan payload whose digest was reviewed
  Blobs,       \* captured bytes
  Extract,     \* what the observation contract extracts from them
  MaxRewrites, \* how often other programs rewrite the workspace
  None

Procs == Executors \cup Producers \cup Consumers
ArtIds == Executors \cup Earlier

ASSUME LineageAssumption ==
  /\ Executors \cap (Producers \cup Consumers \cup Earlier) = {}
  /\ Producers \cap Consumers = {}
  /\ ValidInputs \subseteq Inputs
  /\ Reviewed \in ValidInputs
  /\ None \notin Inputs \cup Blobs
  /\ DOMAIN Extract = Blobs
  /\ MaxRewrites \in Nat

VARIABLES
  plan,     \* the payload of the plan record, or None
  art,      \* the artifact records: the role and blob a descriptor names
  objects,  \* the blobs whose objects are intact
  launcher, \* the staged launcher is intact
  runs,     \* the run records
  handoffs, \* the handoff records
  pc,
  phase,    \* why a command is validating a run
  mine,     \* the run a command holds in memory
  hand,     \* the handoff a command holds in memory
  asked,    \* what a command was asked for: a run and artifact, or a handoff
  rewrites

store == <<plan, art, objects, launcher, runs, handoffs>>
local == <<pc, phase, mine, hand, asked>>
vars == <<store, local, rewrites>>

-----------------------------------------------------------------------------
(* Records.                                                                *)

Roles == {"native_stdout", "handoff_input"}
Descriptors == [role : Roles, blob : Blobs]
ArtifactDescriptor == [id : ArtIds, role : Roles, blob : Blobs]

(* A reported observation cites the artifact it was selected from.         *)
NotReported == [kind |-> "not_reported"]
Reported(v, a) == [kind |-> "reported", value |-> v, source |-> a]
NativeResult ==
  {NotReported} \cup
  {Reported(v, a) : v \in {Extract[b] : b \in Blobs}, a \in ArtIds}

InstrumentRun ==
  [planDigest : Inputs, inputs : Inputs, claims : BOOLEAN,
   termination : {"none", "exited", "timed_out"}, result : NativeResult,
   artifacts : Seq(ArtifactDescriptor)]

EvidenceHandoff ==
  [run : Executors, runDigest : InstrumentRun, planDigest : Inputs,
   artifact : ArtIds, artifactDigest : Descriptors \cup {None}]

(* None stands for a missing file and is no record.                        *)
ASSUME RecordAssumption ==
  None \notin Descriptors /\ None \notin InstrumentRun /\ None \notin EvidenceHandoff

NewRun(payload) ==
  [planDigest |-> payload, inputs |-> payload, claims |-> FALSE,
   termination |-> "none", result |-> NotReported, artifacts |-> <<>>]

Init ==
  /\ plan = Reviewed
  /\ art \in [ArtIds -> Descriptors \cup {None}]
  /\ \A a \in ArtIds : (art[a] = None) = (a \in Executors)
  /\ \A a \in Earlier : art[a].role = "handoff_input"
  /\ objects = {art[a].blob : a \in Earlier}
  /\ launcher = TRUE
  /\ runs = [e \in Executors |-> None]
  /\ handoffs = [p \in Producers |-> None]
  /\ pc = [p \in Procs |-> "idle"]
  /\ phase = [p \in Procs |-> "none"]
  /\ mine = [p \in Procs |-> None]
  /\ hand = [p \in Procs |-> None]
  /\ asked = [p \in Procs |-> None]
  /\ rewrites = 0

Labels ==
  {"idle", "locked", "captured", "identity", "artifacts", "result", "lineage", "publish",
   "read", "match", "load", "planRef", "artifactRef", "publishHandoff", "done", "refused"}
Phases == {"none", "write", "source", "before", "after", "verify", "show"}

Goto(p, l) == pc' = [pc EXCEPT ![p] = l]

(* A step that goes on to l if what it checks holds and ends the command   *)
(* with an error otherwise.                                                *)
Check(p, holds, l) == Goto(p, IF holds THEN l ELSE "refused")

-----------------------------------------------------------------------------
(* What the validators require of records as they are at one moment.       *)

PlanHolds(payload) == payload \in ValidInputs /\ launcher

ArtifactLoads(a) == art[a] # None /\ art[a].blob \in objects

DescriptorOf(a) == [id |-> a, role |-> art[a].role, blob |-> art[a].blob]

(* Identifiers and roles occur once, roles are declared for runs, and each *)
(* descriptor is that of its record, whose object is re-hashed.            *)
ArtifactsHold(run) ==
  \A i \in DOMAIN run.artifacts :
    LET d == run.artifacts[i] IN
    /\ d.role = "native_stdout"
    /\ \A j \in DOMAIN run.artifacts \ {i} :
         run.artifacts[j].id # d.id /\ run.artifacts[j].role # d.role
    /\ ArtifactLoads(d.id)
    /\ d = DescriptorOf(d.id)

(* Mutant: a projection is taken as recorded.                              *)
ResultHolds_AsRecorded(run) == ~run.claims

(* A reported observation must be re-extracted from the bytes in the store,*)
(* and no run may claim authority.                                         *)
ResultHolds(run) ==
  /\ ~run.claims
  /\ run.result # NotReported =>
       /\ run.termination = "exited"
       /\ \E i \in DOMAIN run.artifacts :
            LET d == run.artifacts[i] IN
            /\ run.result.source = d.id
            /\ d.blob \in objects
            /\ Extract[d.blob] # None
            /\ run.result.value = Extract[d.blob]

(* A run inherits exactly from the plan record with the digest it names.   *)
PlanLineageHolds(run) ==
  /\ plan # None
  /\ plan = run.planDigest
  /\ run.inputs = plan

-----------------------------------------------------------------------------
(* `runs execute`.  PlanExecution models the native program and the ways   *)
(* it can end; here it leaves a blob or times out.                         *)

(* Mutant: the plan is executed as it is found.                            *)
LoadReviewedPlan_AsFound(e) ==
  /\ e \in Executors /\ pc[e] = "idle"
  /\ Check(e, plan # None /\ PlanHolds(plan), "locked")
  /\ mine' = [mine EXCEPT ![e] = IF plan = None THEN None ELSE NewRun(plan)]
  /\ UNCHANGED <<store, phase, hand, asked, rewrites>>

LoadReviewedPlan(e) ==
  /\ e \in Executors /\ pc[e] = "idle"
  /\ Check(e, plan = Reviewed /\ PlanHolds(plan), "locked")
  /\ mine' = [mine EXCEPT ![e] = IF plan = None THEN None ELSE NewRun(plan)]
  /\ UNCHANGED <<store, phase, hand, asked, rewrites>>

CaptureOutput(e, b, ending) ==
  /\ pc[e] = "locked"
  /\ art' = [art EXCEPT ![e] = [role |-> "native_stdout", blob |-> b]]
  /\ objects' = objects \cup {b}
  /\ mine' = [mine EXCEPT ![e].termination = ending,
                          ![e].artifacts = <<[id |-> e, role |-> "native_stdout", blob |-> b]>>]
  /\ Goto(e, "captured")
  /\ UNCHANGED <<plan, launcher, runs, handoffs, phase, hand, asked, rewrites>>

(* Mutant: bytes of a child that was killed are projected, too.            *)
ExtractResult_AnyEnding(e) ==
  /\ pc[e] = "captured"
  /\ LET b == mine[e].artifacts[1].blob
         reads == b \in objects /\ Extract[b] # None
     IN mine' = [mine EXCEPT ![e].result =
                   IF reads THEN Reported(Extract[b], e) ELSE NotReported]
  /\ phase' = [phase EXCEPT ![e] = "write"]
  /\ Goto(e, "identity")
  /\ UNCHANGED <<store, hand, asked, rewrites>>

(* The observation is projected from the object just imported; bytes that  *)
(* cannot be read or do not parse are no observation and no error.         *)
ExtractResult(e) ==
  /\ pc[e] = "captured"
  /\ LET b == mine[e].artifacts[1].blob
         reads == /\ mine[e].termination = "exited"
                  /\ b \in objects
                  /\ Extract[b] # None
     IN mine' = [mine EXCEPT ![e].result =
                   IF reads THEN Reported(Extract[b], e) ELSE NotReported]
  /\ phase' = [phase EXCEPT ![e] = "write"]
  /\ Goto(e, "identity")
  /\ UNCHANGED <<store, hand, asked, rewrites>>

PublishRun(e) ==
  /\ pc[e] = "publish"
  /\ runs' = [runs EXCEPT ![e] = mine[e]]
  /\ Goto(e, "done")
  /\ UNCHANGED <<plan, art, objects, launcher, handoffs, phase, mine, hand, asked,
                 rewrites>>

-----------------------------------------------------------------------------
(* Validation of the run in memory, shared by every command.               *)

ReadRun(p, r) ==
  /\ mine' = [mine EXCEPT ![p] = runs[r]]
  /\ Check(p, runs[r] # None, "identity")

ValidateIdentity(p) ==
  /\ pc[p] = "identity"
  /\ Check(p, mine[p].inputs \in ValidInputs /\ launcher, "artifacts")
  /\ UNCHANGED <<store, phase, mine, hand, asked, rewrites>>

ValidateArtifacts(p) ==
  /\ pc[p] = "artifacts"
  /\ Check(p, ArtifactsHold(mine[p]), "result")
  /\ UNCHANGED <<store, phase, mine, hand, asked, rewrites>>

ValidateResult(p) ==
  /\ pc[p] = "result"
  /\ Check(p, ResultHolds(mine[p]), "lineage")
  /\ UNCHANGED <<store, phase, mine, hand, asked, rewrites>>

AfterValidation ==
  [write |-> "publish", source |-> "match", before |-> "planRef",
   after |-> "planRef", verify |-> "planRef", show |-> "planRef"]

ValidateLineage(p) ==
  /\ pc[p] = "lineage"
  /\ Check(p, PlanLineageHolds(mine[p]), AfterValidation[phase[p]])
  /\ UNCHANGED <<store, phase, mine, hand, asked, rewrites>>

-----------------------------------------------------------------------------
(* `handoffs create`, with the run digest returned by `runs execute`.      *)
(* That digest is mine[e] of the execution e, which ended.                 *)

BeginCreate(p, e, a) ==
  /\ p \in Producers /\ pc[p] = "idle"
  /\ pc[e] = "done"
  /\ asked' = [asked EXCEPT ![p] = [run |-> e, digest |-> mine[e], artifact |-> a]]
  /\ phase' = [phase EXCEPT ![p] = "source"]
  /\ Goto(p, "read")
  /\ UNCHANGED <<store, mine, hand, rewrites>>

ReadSourceRun(p) ==
  /\ pc[p] = "read" /\ phase[p] = "source"
  /\ ReadRun(p, asked[p].run)
  /\ UNCHANGED <<store, phase, hand, asked, rewrites>>

(* The artifact record must be intact and occur exactly once in the run.   *)
CapturedOnce(run, a) ==
  /\ ArtifactLoads(a)
  /\ \E i \in DOMAIN run.artifacts :
       /\ run.artifacts[i] = DescriptorOf(a)
       /\ \A j \in DOMAIN run.artifacts : run.artifacts[j].id = a => j = i

(* Mutant: the digests of plan and run are swapped.                        *)
MatchRetainedRun_Swapped(p) ==
  /\ pc[p] = "match"
  /\ Check(p, /\ mine[p] = asked[p].digest
              /\ CapturedOnce(mine[p], asked[p].artifact), "read")
  /\ hand' = [hand EXCEPT ![p] =
       [run |-> asked[p].run, runDigest |-> mine[p].planDigest, planDigest |-> mine[p],
        artifact |-> asked[p].artifact,
        artifactDigest |-> art[asked[p].artifact]]]
  /\ phase' = [phase EXCEPT ![p] = "before"]
  /\ UNCHANGED <<store, mine, asked, rewrites>>

MatchRetainedRun(p) ==
  /\ pc[p] = "match"
  /\ Check(p, /\ mine[p] = asked[p].digest
              /\ CapturedOnce(mine[p], asked[p].artifact), "read")
  /\ hand' = [hand EXCEPT ![p] =
       [run |-> asked[p].run, runDigest |-> mine[p], planDigest |-> mine[p].planDigest,
        artifact |-> asked[p].artifact,
        artifactDigest |-> art[asked[p].artifact]]]
  /\ phase' = [phase EXCEPT ![p] = "before"]
  /\ UNCHANGED <<store, mine, asked, rewrites>>

PublishHandoff(p) ==
  /\ pc[p] = "publishHandoff"
  /\ handoffs' = [handoffs EXCEPT ![p] = hand[p]]
  /\ phase' = [phase EXCEPT ![p] = "after"]
  /\ Goto(p, "load")
  /\ UNCHANGED <<plan, art, objects, launcher, runs, mine, hand, asked, rewrites>>

-----------------------------------------------------------------------------
(* `handoffs verify`, with the digest returned by `handoffs create`, and   *)
(* `handoffs show`, without one.                                           *)

BeginInspect(c, p, how) ==
  /\ c \in Consumers /\ pc[c] = "idle"
  /\ pc[p] = "done"
  /\ asked' = [asked EXCEPT ![c] = [handoff |-> p, digest |-> hand[p]]]
  /\ phase' = [phase EXCEPT ![c] = how]
  /\ Goto(c, "load")
  /\ UNCHANGED <<store, mine, hand, rewrites>>

HandoffOf(p) == IF p \in Producers THEN p ELSE asked[p].handoff

(* Mutant: verify does not compare the retained digest.                    *)
LoadHandoff_Uncompared(p) ==
  /\ pc[p] = "load"
  /\ hand' = [hand EXCEPT ![p] = handoffs[HandoffOf(p)]]
  /\ Check(p, handoffs[HandoffOf(p)] # None, "read")
  /\ UNCHANGED <<store, phase, mine, asked, rewrites>>

LoadHandoff(p) ==
  /\ pc[p] = "load"
  /\ hand' = [hand EXCEPT ![p] = handoffs[HandoffOf(p)]]
  /\ Check(p, /\ handoffs[HandoffOf(p)] # None
              /\ phase[p] = "verify" => handoffs[HandoffOf(p)] = asked[p].digest, "read")
  /\ UNCHANGED <<store, phase, mine, asked, rewrites>>

-----------------------------------------------------------------------------
(* verify_record_lineage, which every handoff command goes through: the    *)
(* run is loaded and validated, then the plan, then the artifact.          *)

ReadLineageRun(p) ==
  /\ pc[p] = "read" /\ phase[p] # "source"
  /\ ReadRun(p, hand[p].run)
  /\ UNCHANGED <<store, phase, hand, asked, rewrites>>

MatchPlanRef(p) ==
  /\ pc[p] = "planRef"
  /\ Check(p, /\ mine[p] = hand[p].runDigest
              /\ mine[p].planDigest = hand[p].planDigest
              /\ plan # None /\ PlanHolds(plan)
              /\ plan = hand[p].planDigest, "artifactRef")
  /\ UNCHANGED <<store, phase, mine, hand, asked, rewrites>>

MatchArtifactRef(p) ==
  /\ pc[p] = "artifactRef"
  /\ Check(p, /\ CapturedOnce(mine[p], hand[p].artifact)
              /\ art[hand[p].artifact] = hand[p].artifactDigest,
           IF phase[p] = "before" THEN "publishHandoff" ELSE "done")
  /\ UNCHANGED <<store, phase, mine, hand, asked, rewrites>>

-----------------------------------------------------------------------------
(* Other programs, restored backups and hands rewrite records.  Whatever   *)
(* they write carries a right digest of its own content.                   *)

RunVariants(run) ==
  {[run EXCEPT !.result = x] : x \in
     {NotReported} \cup {Reported(Extract[b], a) : b \in Blobs, a \in ArtIds}} \cup
  {[run EXCEPT !.inputs = i] : i \in Inputs} \cup
  {[run EXCEPT !.inputs = i, !.planDigest = i] : i \in Inputs} \cup
  {[run EXCEPT !.artifacts = s] : s \in
     {<<>>} \cup {<<DescriptorOf(a)>> : a \in {x \in ArtIds : art[x] # None}}} \cup
  {[run EXCEPT !.artifacts = @ \o @], [run EXCEPT !.claims = TRUE],
   [run EXCEPT !.termination = "exited"]}

HandoffVariants(h) ==
  {[h EXCEPT !.runDigest = r] : r \in {runs[h.run]} \ {None}} \cup
  {[h EXCEPT !.planDigest = i] : i \in Inputs} \cup
  {[h EXCEPT !.artifact = a, !.artifactDigest = art[a]] :
     a \in {x \in ArtIds : art[x] # None}}

RewritePlan == \E v \in Inputs \cup {None} :
  plan # None /\ v # plan /\ plan' = v /\ UNCHANGED <<art, objects, launcher, runs, handoffs>>
RewriteArtifact == \E a \in ArtIds, v \in Descriptors \cup {None} :
  /\ art[a] # None /\ v # art[a]
  /\ art' = [art EXCEPT ![a] = v]
  /\ UNCHANGED <<plan, objects, launcher, runs, handoffs>>
DamageObject == \E b \in objects :
  objects' = objects \ {b} /\ UNCHANGED <<plan, art, launcher, runs, handoffs>>
ReplaceLauncher ==
  launcher /\ launcher' = FALSE /\ UNCHANGED <<plan, art, objects, runs, handoffs>>
RewriteRun == \E e \in Executors :
  /\ runs[e] # None
  /\ \E v \in RunVariants(runs[e]) \ {runs[e]} : runs' = [runs EXCEPT ![e] = v]
  /\ UNCHANGED <<plan, art, objects, launcher, handoffs>>
RewriteHandoff == \E p \in Producers :
  /\ handoffs[p] # None
  /\ \E v \in HandoffVariants(handoffs[p]) \ {handoffs[p]} :
       handoffs' = [handoffs EXCEPT ![p] = v]
  /\ UNCHANGED <<plan, art, objects, launcher, runs>>

Rewrite ==
  /\ rewrites < MaxRewrites
  /\ rewrites' = rewrites + 1
  /\ \/ RewritePlan \/ RewriteArtifact \/ DamageObject
     \/ ReplaceLauncher \/ RewriteRun \/ RewriteHandoff
  /\ UNCHANGED local

-----------------------------------------------------------------------------
Validate(p) ==
  ValidateIdentity(p) \/ ValidateArtifacts(p) \/ ValidateResult(p) \/ ValidateLineage(p)

Execute(e) ==
  \/ LoadReviewedPlan(e)
  \/ \E b \in Blobs, ending \in {"exited", "timed_out"} : CaptureOutput(e, b, ending)
  \/ ExtractResult(e)
  \/ PublishRun(e)

Create(p) ==
  \/ \E e \in Executors, a \in ArtIds : BeginCreate(p, e, a)
  \/ ReadSourceRun(p) \/ MatchRetainedRun(p) \/ PublishHandoff(p)

Inspect(c) == \E p \in Producers, how \in {"verify", "show"} : BeginInspect(c, p, how)

Lineage(p) ==
  LoadHandoff(p) \/ ReadLineageRun(p) \/ MatchPlanRef(p) \/ MatchArtifactRef(p)

Next ==
  \/ \E e \in Executors : Execute(e)
  \/ \E p \in Producers : Create(p)
  \/ \E c \in Consumers : Inspect(c)
  \/ \E p \in Procs : Validate(p) \/ Lineage(p)
  \/ Rewrite

Spec == Init /\ [][Next]_vars

-----------------------------------------------------------------------------
(* Properties.                                                             *)

(* Every record, stored or in memory, has the shape its schema gives it,   *)
(* whoever wrote it.                                                       *)
TypeOK ==
  /\ plan \in Inputs \cup {None}
  /\ art \in [ArtIds -> Descriptors \cup {None}]
  /\ objects \subseteq Blobs
  /\ launcher \in BOOLEAN
  /\ runs \in [Executors -> InstrumentRun \cup {None}]
  /\ handoffs \in [Producers -> EvidenceHandoff \cup {None}]
  /\ pc \in [Procs -> Labels]
  /\ phase \in [Procs -> Phases]
  /\ mine \in [Procs -> InstrumentRun \cup {None}]
  /\ hand \in [Procs -> EvidenceHandoff \cup {None}]
  /\ rewrites \in 0..MaxRewrites

Inspected(c) == pc[c] = "done" /\ c \in Consumers

(* A handoff is published only if it is an edge from the run its creator   *)
(* retained, executed from the reviewed plan, to what that run captured:   *)
(* whatever was rewritten before or between the reads of                   *)
(* evidence_handoffs::create and of `runs execute`.                        *)
PublishedHandoffsBindTheRetainedRun ==
  [][\A p \in Producers :
       handoffs[p] = None /\ handoffs'[p] # None =>
         LET h == handoffs'[p]
             e == asked[p].run
         IN /\ h.run = e /\ h.runDigest = mine[e]
            /\ h.planDigest = Reviewed /\ mine[e].inputs = Reviewed
            /\ h.artifact = e
            /\ [id |-> e, role |-> h.artifactDigest.role, blob |-> h.artifactDigest.blob]
                 = mine[e].artifacts[1]]_vars

(* A consumer who verifies with the digest its producer retained gets that *)
(* handoff and reads that run, never a later one under the same name.      *)
VerifiedHandoffIsTheRetainedOne ==
  \A c \in Consumers :
    Inspected(c) /\ phase[c] = "verify" =>
      /\ hand[c] = hand[asked[c].handoff]
      /\ mine[c] = hand[c].runDigest
      /\ mine[c].planDigest = hand[c].planDigest

(* No command goes on with a run whose claims cannot be re-derived from    *)
(* the plan it names and the bytes it captured, by whomever it was written.*)
AcceptedRunsAreReproducible ==
  \A p \in Producers \cup Consumers :
    pc[p] \in {"match", "planRef", "artifactRef", "publishHandoff", "done"} =>
      LET run == mine[p] IN
      /\ run.inputs = run.planDigest /\ run.inputs \in ValidInputs
      /\ ~run.claims
      /\ run.result # NotReported =>
           /\ run.termination = "exited"
           /\ \E i \in DOMAIN run.artifacts :
                /\ run.artifacts[i].id = run.result.source
                /\ Extract[run.artifacts[i].blob] = run.result.value

(* Re-verification is no stricter than the writers: as long as nothing was *)
(* rewritten, every command succeeds, but for a handoff asked for an       *)
(* artifact that the run did not capture.                                  *)
UntouchedEvidenceIsAccepted ==
  rewrites = 0 =>
    \A p \in Procs : pc[p] = "refused" =>
      p \in Producers /\ asked[p].artifact # asked[p].run
=============================================================================
