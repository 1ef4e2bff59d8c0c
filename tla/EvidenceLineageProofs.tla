------------------------ MODULE EvidenceLineageProofs ------------------------
(***************************************************************************)
(* What the retained digests bind, for any number of executions, handoffs  *)
(* and consumers and for any number of rewrites by others, proved with     *)
(* TLAPS.                                                                  *)
(***************************************************************************)
EXTENDS EvidenceLineage, TLAPS

Shape ==
  /\ pc \in [Procs -> Labels]
  /\ DOMAIN phase = Procs /\ DOMAIN mine = Procs /\ DOMAIN hand = Procs
  /\ DOMAIN asked = Procs

(* Behind which validations a command is.                                  *)
AfterLineage == {"match", "planRef", "artifactRef", "publishHandoff", "publish", "done"}
AfterResult == {"lineage"} \cup AfterLineage
AfterIdentity == {"artifacts", "result"} \cup AfterResult

ResultStated(run) ==
  /\ ~run.claims
  /\ run.result # NotReported =>
       /\ run.termination = "exited"
       /\ \E i \in DOMAIN run.artifacts :
            /\ run.artifacts[i].id = run.result.source
            /\ Extract[run.artifacts[i].blob] = run.result.value

(* What was validated of the run in memory stays true of it: its content   *)
(* does not change until another run is read.                              *)
Validated(p) ==
  /\ pc[p] \in AfterIdentity => mine[p].inputs \in ValidInputs
  /\ pc[p] \in AfterResult => ResultStated(mine[p])
  /\ pc[p] \in AfterLineage => mine[p].inputs = mine[p].planDigest

(* An execution writes the run of the reviewed plan and of its own capture.*)
OwnRun(e, claims, ending, b, x) ==
  [planDigest |-> Reviewed, inputs |-> Reviewed, claims |-> claims,
   termination |-> ending, result |-> x,
   artifacts |-> <<[id |-> e, role |-> "native_stdout", blob |-> b]>>]
Executing(e) ==
  /\ pc[e] \in {"idle", "locked", "captured", "identity", "artifacts", "result", "lineage",
                "publish", "done", "refused"}
  /\ pc[e] \in {"identity", "artifacts", "result", "lineage", "publish", "done"} =>
       phase[e] = "write"
  /\ pc[e] = "locked" => mine[e] = NewRun(Reviewed)
  /\ pc[e] \in {"captured", "identity", "artifacts", "result", "lineage", "publish", "done"} =>
       \E claims, ending, b, x : mine[e] = OwnRun(e, claims, ending, b, x)

(* A producer asks for the run of an execution that ended, and the handoff *)
(* it is about to publish binds that run.                                  *)
BindsRun(h, e) ==
  /\ h.run = e /\ h.runDigest = mine[e] /\ h.planDigest = Reviewed /\ h.artifact = e
  /\ [id |-> e, role |-> h.artifactDigest.role, blob |-> h.artifactDigest.blob]
       = mine[e].artifacts[1]
Producing(p) ==
  /\ pc[p] # "idle" =>
       /\ phase[p] \in {"source", "before", "after"}
       /\ asked[p].run \in Executors /\ pc[asked[p].run] = "done"
       /\ asked[p].digest = mine[asked[p].run]
  /\ pc[p] \notin {"idle", "refused"} /\ phase[p] = "before" =>
       BindsRun(hand[p], asked[p].run)
  /\ pc[p] = "publishHandoff" => phase[p] = "before"
  /\ pc[p] = "load" => phase[p] = "after"
  /\ pc[p] \notin {"locked", "captured", "publish"}

(* A consumer asks for the handoff of a producer that ended, and goes on   *)
(* only with what its digest names.                                        *)
Consuming(c) ==
  /\ pc[c] # "idle" =>
       /\ phase[c] \in {"verify", "show"}
       /\ asked[c].handoff \in Producers /\ pc[asked[c].handoff] = "done"
       /\ asked[c].digest = hand[asked[c].handoff]
  /\ pc[c] \notin {"idle", "load", "refused"} /\ phase[c] = "verify" =>
       hand[c] = asked[c].digest
  /\ pc[c] \in {"artifactRef", "done"} =>
       mine[c] = hand[c].runDigest /\ mine[c].planDigest = hand[c].planDigest
  /\ pc[c] \notin {"locked", "captured", "publish", "match", "publishHandoff"}

Held(p) ==
  /\ Validated(p)
  /\ p \in Executors => Executing(p)
  /\ p \in Producers => Producing(p)
  /\ p \in Consumers => Consuming(p)

LineageInv == Shape /\ \A p \in Procs : Held(p)

-----------------------------------------------------------------------------
LEMMA InvInit == Init => LineageInv
<1> SUFFICES ASSUME Init PROVE LineageInv
  OBVIOUS
<1>1. Shape
  BY DEF Init, Shape, Labels
<1>2. ASSUME NEW p \in Procs PROVE Held(p)
  <2>1. pc[p] = "idle" /\ phase[p] = "none"
    BY DEF Init
  <2> QED
    BY <2>1 DEF Held, Validated, Executing, Producing, Consuming, AfterLineage, AfterResult,
                AfterIdentity
<1> QED BY <1>1, <1>2 DEF LineageInv

(* The steps of one command.                                               *)
Acts(p) ==
  \/ p \in Executors /\ Execute(p)
  \/ p \in Producers /\ Create(p)
  \/ p \in Consumers /\ Inspect(p)
  \/ Validate(p) \/ Lineage(p)

(* They change what that command has in memory and no other, and none is   *)
(* left once it is done.                                                   *)
LEMMA ActsTouchOne ==
  ASSUME LineageInv, NEW p \in Procs, Acts(p)
  PROVE  /\ Shape'
         /\ pc[p] # "done"
         /\ \A q \in Procs \ {p} :
              /\ pc'[q] = pc[q] /\ phase'[q] = phase[q] /\ mine'[q] = mine[q]
              /\ hand'[q] = hand[q] /\ asked'[q] = asked[q]
<1>0. Shape
  BY DEF LineageInv
<1> USE <1>0 DEF Shape, Goto, Check, Labels, store
<1>1. CASE LoadReviewedPlan(p) \/ ExtractResult(p) \/ PublishRun(p)
  BY <1>1 DEF LoadReviewedPlan, ExtractResult, PublishRun
<1>2. CASE \E b \in Blobs, ending \in {"exited", "timed_out"} : CaptureOutput(p, b, ending)
  BY <1>2 DEF CaptureOutput
<1>3. CASE \E e \in Executors, a \in ArtIds : BeginCreate(p, e, a)
  BY <1>3 DEF BeginCreate
<1>4. CASE ReadSourceRun(p) \/ MatchRetainedRun(p) \/ PublishHandoff(p)
  BY <1>4 DEF ReadSourceRun, ReadRun, MatchRetainedRun, PublishHandoff
<1>5. CASE Inspect(p)
  BY <1>5 DEF Inspect, BeginInspect
<1>6. CASE ValidateIdentity(p) \/ ValidateArtifacts(p) \/ ValidateResult(p)
  BY <1>6 DEF ValidateIdentity, ValidateArtifacts, ValidateResult
<1>7. CASE ValidateLineage(p)
  <2>1. phase[p] \in {"write", "source", "before", "after", "verify", "show"}
    BY <1>7 DEF ValidateLineage, LineageInv, Held, Executing, Producing, Consuming, Procs
  <2> QED BY <1>7, <2>1 DEF ValidateLineage, AfterValidation
<1>8. CASE LoadHandoff(p) \/ ReadLineageRun(p)
  BY <1>8 DEF LoadHandoff, ReadLineageRun, ReadRun
<1>9. CASE MatchPlanRef(p) \/ MatchArtifactRef(p)
  BY <1>9 DEF MatchPlanRef, MatchArtifactRef
<1> QED
  BY <1>1, <1>2, <1>3, <1>4, <1>5, <1>6, <1>7, <1>8, <1>9
     DEF Acts, Execute, Create, Validate, Lineage

(* What a command has validated, and what other commands have, is kept.    *)
LEMMA OthersKeep ==
  ASSUME LineageInv, Shape', NEW p \in Procs, pc[p] # "done",
         \A q \in Procs \ {p} :
           /\ pc'[q] = pc[q] /\ phase'[q] = phase[q] /\ mine'[q] = mine[q]
           /\ hand'[q] = hand[q] /\ asked'[q] = asked[q],
         Held(p)'
  PROVE  LineageInv'
<1>1. ASSUME NEW q \in Procs \ {p} PROVE Held(q)'
  <2>0. Held(q)
    BY DEF LineageInv
  <2>1. /\ pc'[q] = pc[q] /\ phase'[q] = phase[q] /\ mine'[q] = mine[q]
        /\ hand'[q] = hand[q] /\ asked'[q] = asked[q]
    OBVIOUS
  <2>2. \A r \in Procs : pc[r] = "done" =>
          pc'[r] = "done" /\ mine'[r] = mine[r] /\ hand'[r] = hand[r]
    OBVIOUS
  <2>3. Validated(q)'
    BY <2>0, <2>1 DEF Held, Validated, ResultStated
  <2>4. q \in Executors => Executing(q)'
    BY <2>0, <2>1 DEF Held, Executing
  <2>5. q \in Producers => Producing(q)'
    BY <2>0, <2>1, <2>2 DEF Held, Producing, BindsRun, Procs
  <2>6. q \in Consumers => Consuming(q)'
    BY <2>0, <2>1, <2>2 DEF Held, Consuming, Procs
  <2> QED BY <2>3, <2>4, <2>5, <2>6 DEF Held
<1> QED BY <1>1 DEF LineageInv

-----------------------------------------------------------------------------
(* Each kind of command keeps what is held of it.                          *)
LEMMA ValidatedKept ==
  ASSUME LineageInv, NEW p \in Procs, Acts(p)
  PROVE  Validated(p)'
<1>0. Shape /\ Held(p)
  BY DEF LineageInv
<1>1. Validated(p)
  BY <1>0 DEF Held
<1> USE <1>0, <1>1
    DEF Shape, Goto, Check, Validated, AfterLineage, AfterResult, AfterIdentity, store
<1>2. CASE p \in Executors /\ Execute(p)
  <2>1. CASE pc'[p] \in {"locked", "captured", "identity", "refused"}
    BY <2>1
  <2>2. CASE PublishRun(p)
    BY <2>2 DEF PublishRun
  <2> QED
    BY <1>2, <2>1, <2>2 DEF Execute, LoadReviewedPlan, CaptureOutput, ExtractResult
<1>3. CASE p \in Producers /\ Create(p)
  <2>1. CASE pc'[p] \in {"read", "identity", "load", "refused"}
    BY <2>1
  <2> QED
    BY <1>3, <2>1 DEF Create, BeginCreate, ReadSourceRun, ReadRun, MatchRetainedRun,
                      PublishHandoff
<1>4. CASE p \in Consumers /\ Inspect(p)
  BY <1>4 DEF Inspect, BeginInspect
<1>5. CASE ValidateIdentity(p) \/ ValidateArtifacts(p)
  BY <1>5 DEF ValidateIdentity, ValidateArtifacts
<1>6. CASE ValidateResult(p)
  <2>1. pc'[p] \in {"lineage", "refused"} /\ mine' = mine /\ pc[p] = "result"
    BY <1>6 DEF ValidateResult
  <2>2. pc'[p] = "lineage" => ResultHolds(mine[p])
    BY <1>6 DEF ValidateResult
  <2>3. ResultHolds(mine[p]) => ResultStated(mine[p])
    BY DEF ResultHolds, ResultStated
  <2>4. ResultStated(mine[p])' <=> ResultStated(mine[p])
    BY <2>1 DEF ResultStated
  <2> QED BY <2>1, <2>2, <2>3, <2>4
<1>7. CASE ValidateLineage(p)
  <2>1. mine' = mine /\ pc[p] = "lineage"
    BY <1>7 DEF ValidateLineage
  <2>2. pc'[p] # "refused" => mine[p].inputs = mine[p].planDigest
    BY <1>7 DEF ValidateLineage, PlanLineageHolds
  <2>3. ResultStated(mine[p])'
    BY <2>1 DEF ResultStated
  <2> QED BY <2>1, <2>2, <2>3
<1>8. CASE LoadHandoff(p) \/ ReadLineageRun(p)
  BY <1>8 DEF LoadHandoff, ReadLineageRun, ReadRun
<1>9. CASE MatchPlanRef(p) \/ MatchArtifactRef(p)
  <2>1. mine' = mine /\ pc[p] \in AfterLineage
    BY <1>9 DEF MatchPlanRef, MatchArtifactRef
  <2>2. ResultStated(mine[p])'
    BY <2>1 DEF ResultStated
  <2> QED BY <2>1, <2>2
<1> QED
  BY <1>2, <1>3, <1>4, <1>5, <1>6, <1>7, <1>8, <1>9 DEF Acts, Validate, Lineage

LEMMA ResultReplaced ==
  ASSUME NEW payload, NEW inputs, NEW claims, NEW ending, NEW arts, NEW x, NEW y
  PROVE  [[planDigest |-> payload, inputs |-> inputs, claims |-> claims,
           termination |-> ending, result |-> x, artifacts |-> arts] EXCEPT !.result = y]
         = [planDigest |-> payload, inputs |-> inputs, claims |-> claims,
            termination |-> ending, result |-> y, artifacts |-> arts]
OBVIOUS

LEMMA ExecutingKept ==
  ASSUME LineageInv, NEW p \in Executors, Acts(p)
  PROVE  Executing(p)'
<1>0. Shape /\ Executing(p) /\ p \in Procs /\ p \notin Producers \cup Consumers
  BY LineageAssumption DEF LineageInv, Held, Procs
<1> USE <1>0 DEF Shape, Goto, Check, Executing, store
<1>1. CASE LoadReviewedPlan(p)
  BY <1>1, LineageAssumption DEF LoadReviewedPlan
<1>2. ASSUME NEW b, NEW ending, CaptureOutput(p, b, ending) PROVE Executing(p)'
  <2>1. mine'[p] = OwnRun(p, FALSE, ending, b, NotReported)
    BY <1>2 DEF CaptureOutput, NewRun, OwnRun
  <2>2. pc'[p] = "captured"
    BY <1>2 DEF CaptureOutput
  <2> QED BY <2>1, <2>2
<1>3. CASE ExtractResult(p)
  <2>1. PICK claims, ending, b, x : mine[p] = OwnRun(p, claims, ending, b, x)
    BY <1>3 DEF ExtractResult
  <2>2. PICK y : mine'[p] = [mine[p] EXCEPT !.result = y]
    BY <1>3 DEF ExtractResult
  <2>3. [OwnRun(p, claims, ending, b, x) EXCEPT !.result = y] = OwnRun(p, claims, ending, b, y)
    BY ResultReplaced DEF OwnRun
  <2>5. mine'[p] = OwnRun(p, claims, ending, b, y)
    BY <2>1, <2>2, <2>3
  <2>4. pc'[p] = "identity" /\ phase'[p] = "write"
    BY <1>3 DEF ExtractResult
  <2> QED BY <2>4, <2>5
<1>4. CASE PublishRun(p)
  BY <1>4 DEF PublishRun
<1>5. CASE ValidateIdentity(p) \/ ValidateArtifacts(p) \/ ValidateResult(p)
  BY <1>5 DEF ValidateIdentity, ValidateArtifacts, ValidateResult
<1>6. CASE ValidateLineage(p)
  BY <1>6 DEF ValidateLineage, AfterValidation
<1>7. ~Lineage(p)
  BY DEF Lineage, LoadHandoff, ReadLineageRun, MatchPlanRef, MatchArtifactRef
<1> QED
  BY <1>0, <1>1, <1>2, <1>3, <1>4, <1>5, <1>6, <1>7 DEF Acts, Execute, Validate

LEMMA ConsumingKept ==
  ASSUME LineageInv, NEW c \in Consumers, Acts(c)
  PROVE  Consuming(c)'
<1>0. Shape /\ Consuming(c) /\ c \in Procs /\ c \notin Executors \cup Producers
  BY LineageAssumption DEF LineageInv, Held, Procs
<1>a. \A q \in Procs \ {c} : pc'[q] = pc[q] /\ hand'[q] = hand[q]
  BY <1>0, ActsTouchOne
<1>b. \A q \in Producers : q \in Procs /\ q # c
  BY <1>0 DEF Procs
<1> USE <1>0, <1>a, <1>b DEF Shape, Goto, Check, Consuming, store
<1>1. ASSUME NEW p \in Producers, NEW how \in {"verify", "show"}, BeginInspect(c, p, how)
      PROVE Consuming(c)'
  BY <1>1 DEF BeginInspect
<1>2. CASE ValidateIdentity(c) \/ ValidateArtifacts(c) \/ ValidateResult(c)
  BY <1>2 DEF ValidateIdentity, ValidateArtifacts, ValidateResult
<1>3. CASE ValidateLineage(c)
  BY <1>3 DEF ValidateLineage, AfterValidation
<1>4. CASE LoadHandoff(c)
  BY <1>4 DEF LoadHandoff, HandoffOf
<1>5. CASE ReadLineageRun(c)
  BY <1>5 DEF ReadLineageRun, ReadRun
<1>6. CASE MatchPlanRef(c)
  BY <1>6 DEF MatchPlanRef
<1>7. CASE MatchArtifactRef(c)
  BY <1>7 DEF MatchArtifactRef
<1> QED
  BY <1>0, <1>1, <1>2, <1>3, <1>4, <1>5, <1>6, <1>7 DEF Acts, Validate, Lineage, Inspect

(* The one step that makes a handoff: the run read is the one retained, so *)
(* the only artifact captured once is that of its execution.               *)
LEMMA MatchedRunIsBound ==
  ASSUME LineageInv, NEW p \in Producers, MatchRetainedRun(p), pc'[p] # "refused"
  PROVE  BindsRun(hand[p], asked[p].run)'
<1>0. Shape /\ Producing(p) /\ p \in Procs
  BY DEF LineageInv, Held, Procs
<1> DEFINE e == asked[p].run
           a == asked[p].artifact
<1>1. pc[p] = "match" /\ mine' = mine /\ asked' = asked
  BY DEF MatchRetainedRun
<1>2. e \in Executors /\ pc[e] = "done" /\ asked[p].digest = mine[e] /\ e \in Procs
  BY <1>0, <1>1 DEF Producing, Procs
<1>3. PICK claims, ending, b, x : mine[e] = OwnRun(e, claims, ending, b, x)
  BY <1>2 DEF LineageInv, Held, Executing
<1>4. mine[p] = mine[e] /\ CapturedOnce(mine[p], a)
  BY <1>0, <1>1, <1>2 DEF MatchRetainedRun, Goto, Check, Shape
<1>5. /\ mine[e].planDigest = Reviewed
      /\ mine[e].artifacts = <<[id |-> e, role |-> "native_stdout", blob |-> b]>>
  BY <1>3 DEF OwnRun
<1>6. PICK i \in DOMAIN mine[e].artifacts : mine[e].artifacts[i] = DescriptorOf(a)
  BY <1>4 DEF CapturedOnce
<1>7. i = 1
  BY <1>5, <1>6
<1>8. [id |-> e, role |-> "native_stdout", blob |-> b]
        = [id |-> a, role |-> art[a].role, blob |-> art[a].blob]
  BY <1>5, <1>6, <1>7 DEF DescriptorOf
<1>9. a = e /\ art[a].role = "native_stdout" /\ art[a].blob = b
  BY <1>8
<1>10. hand'[p] = [run |-> e, runDigest |-> mine[p], planDigest |-> mine[p].planDigest,
                   artifact |-> a, artifactDigest |-> art[a]]
  BY <1>0 DEF MatchRetainedRun, Shape
<1> QED BY <1>1, <1>4, <1>5, <1>9, <1>10 DEF BindsRun

LEMMA ProducingKept ==
  ASSUME LineageInv, NEW p \in Producers, Acts(p)
  PROVE  Producing(p)'
<1>0. Shape /\ Producing(p) /\ p \in Procs /\ p \notin Executors \cup Consumers
  BY LineageAssumption DEF LineageInv, Held, Procs
<1>a. \A q \in Executors : q \in Procs /\ q # p /\ pc'[q] = pc[q] /\ mine'[q] = mine[q]
  BY <1>0, ActsTouchOne DEF Procs
<1> USE <1>0, <1>a DEF Shape, Goto, Check, Producing, store
<1>b. ASSUME hand'[p] = hand[p], asked'[p] = asked[p],
             BindsRun(hand[p], asked[p].run), asked[p].run \in Executors
      PROVE  BindsRun(hand[p], asked[p].run)'
  BY <1>b DEF BindsRun
<1>1. ASSUME NEW e \in Executors, NEW a \in ArtIds, BeginCreate(p, e, a) PROVE Producing(p)'
  BY <1>1 DEF BeginCreate
<1>2. CASE ReadSourceRun(p)
  BY <1>2 DEF ReadSourceRun, ReadRun
<1>3. CASE MatchRetainedRun(p)
  <2>1. pc'[p] # "refused" => BindsRun(hand[p], asked[p].run)'
    BY <1>3, MatchedRunIsBound
  <2>2. /\ pc[p] = "match" /\ pc'[p] \in {"read", "refused"} /\ phase'[p] = "before"
        /\ asked' = asked
    BY <1>3 DEF MatchRetainedRun
  <2> QED BY <2>1, <2>2
<1>4. CASE PublishHandoff(p)
  BY <1>4 DEF PublishHandoff
<1>5. CASE ValidateIdentity(p) \/ ValidateArtifacts(p) \/ ValidateResult(p)
  BY <1>5, <1>b DEF ValidateIdentity, ValidateArtifacts, ValidateResult
<1>6. CASE ValidateLineage(p)
  BY <1>6, <1>b DEF ValidateLineage, AfterValidation
<1>7. CASE LoadHandoff(p)
  BY <1>7, <1>b DEF LoadHandoff
<1>8. CASE ReadLineageRun(p)
  BY <1>8, <1>b DEF ReadLineageRun, ReadRun
<1>9. CASE MatchPlanRef(p) \/ MatchArtifactRef(p)
  BY <1>9, <1>b DEF MatchPlanRef, MatchArtifactRef
<1> QED
  BY <1>0, <1>1, <1>2, <1>3, <1>4, <1>5, <1>6, <1>7, <1>8, <1>9
     DEF Acts, Create, Validate, Lineage

LEMMA InvStep == LineageInv /\ [Next]_vars => LineageInv'
<1> SUFFICES ASSUME LineageInv, [Next]_vars PROVE LineageInv'
  OBVIOUS
<1>1. ASSUME NEW p \in Procs, Acts(p) PROVE LineageInv'
  <2>1. Held(p)'
    BY <1>1, ValidatedKept, ExecutingKept, ProducingKept, ConsumingKept DEF Held
  <2> QED BY <1>1, <2>1, ActsTouchOne, OthersKeep
<1>2. ASSUME UNCHANGED local PROVE LineageInv'
  BY <1>2 DEF local, LineageInv, Shape, Held, Validated, ResultStated, Executing, Producing,
              BindsRun, Consuming
<1>3. Rewrite => UNCHANGED local
  BY DEF Rewrite
<1> QED BY <1>1, <1>2, <1>3 DEF Next, Acts, Procs, vars

(* Everything above together is inductive.                                 *)
THEOREM LineageInvariant == Spec => []LineageInv
<1> QED BY InvInit, InvStep, PTL DEF Spec

-----------------------------------------------------------------------------
(* However often records are rewritten, a consumer who verifies with the   *)
(* digest that evidence_handoffs::create returned ends with that handoff   *)
(* and with the very run it names.                                         *)
THEOREM VerifiedIsRetained == Spec => []VerifiedHandoffIsTheRetainedOne
<1>1. LineageInv => VerifiedHandoffIsTheRetainedOne
  BY DEF LineageInv, Held, Consuming, VerifiedHandoffIsTheRetainedOne, Inspected, Procs
<1> QED BY <1>1, LineageInvariant, PTL

(* No producer and no consumer goes on with a run that run_validation      *)
(* could not derive again, whoever wrote it and however often.             *)
THEOREM AcceptedIsReproducible == Spec => []AcceptedRunsAreReproducible
<1>1. LineageInv => AcceptedRunsAreReproducible
  BY DEF LineageInv, Held, Validated, ResultStated, AcceptedRunsAreReproducible, Procs,
         AfterLineage, AfterResult, AfterIdentity
<1> QED BY <1>1, LineageInvariant, PTL

(* A published handoff is an edge from the run that was retained, executed *)
(* from the reviewed plan, to what that run captured, for any number of    *)
(* concurrent producers and rewrites.                                      *)
THEOREM PublishedIsBound == Spec => PublishedHandoffsBindTheRetainedRun
<1> DEFINE Edge(p) ==
      LET h == handoffs'[p]
          e == asked[p].run
      IN /\ h.run = e /\ h.runDigest = mine[e]
         /\ h.planDigest = Reviewed /\ mine[e].inputs = Reviewed
         /\ h.artifact = e
         /\ [id |-> e, role |-> h.artifactDigest.role, blob |-> h.artifactDigest.blob]
              = mine[e].artifacts[1]
<1>1. ASSUME LineageInv, NEW p \in Producers, PublishHandoff(p), handoffs'[p] # handoffs[p]
      PROVE  Edge(p)
  <2>1. handoffs'[p] = hand[p] /\ pc[p] = "publishHandoff" /\ p \in Procs
    BY <1>1 DEF PublishHandoff, Procs
  <2>2. BindsRun(hand[p], asked[p].run) /\ asked[p].run \in Executors
        /\ pc[asked[p].run] = "done"
    BY <1>1, <2>1 DEF LineageInv, Held, Producing
  <2>3. mine[asked[p].run].inputs = Reviewed
    <3>1. PICK claims, ending, b, x :
            mine[asked[p].run] = OwnRun(asked[p].run, claims, ending, b, x)
      BY <1>1, <2>2 DEF LineageInv, Held, Executing, Procs
    <3> QED BY <3>1 DEF OwnRun
  <2> QED BY <2>1, <2>2, <2>3 DEF BindsRun
<1>2. ASSUME LineageInv, [Next]_vars, NEW p \in Producers,
             handoffs[p] = None, handoffs'[p] # None
      PROVE  Edge(p)
  <2>1. handoffs'[p] # handoffs[p]
    BY <1>2
  <2>2. ASSUME NEW q \in Procs, PublishHandoff(q) PROVE q = p
    BY <2>1, <2>2 DEF PublishHandoff
  <2>3. CASE PublishHandoff(p)
    BY <1>1, <1>2, <2>1, <2>3
  <2>4. CASE ~PublishHandoff(p)
    <3>1. CASE Rewrite
      <4>1. CASE RewriteHandoff
        <5>1. PICK q \in Producers :
                handoffs[q] # None /\ \E v : handoffs' = [handoffs EXCEPT ![q] = v]
          BY <4>1 DEF RewriteHandoff
        <5>2. q # p
          BY <1>2, <5>1
        <5> QED BY <2>1, <5>1, <5>2
      <4>2. CASE ~RewriteHandoff
        BY <2>1, <3>1, <4>2 DEF Rewrite, RewritePlan, RewriteArtifact, DamageObject,
                                ReplaceLauncher, RewriteRun
      <4> QED BY <4>1, <4>2
    <3>2. CASE \E e \in Executors : Execute(e)
      BY <2>1, <3>2 DEF Execute, LoadReviewedPlan, CaptureOutput, ExtractResult, PublishRun,
                        store
    <3>3. CASE \E q \in Producers : Create(q)
      BY <2>1, <2>2, <2>4, <3>3 DEF Create, BeginCreate, ReadSourceRun, MatchRetainedRun,
                                    store, Procs
    <3>4. CASE \E c \in Consumers : Inspect(c)
      BY <2>1, <3>4 DEF Inspect, BeginInspect, store
    <3>5. CASE \E q \in Procs : Validate(q)
      BY <2>1, <3>5 DEF Validate, ValidateIdentity, ValidateArtifacts, ValidateResult,
                        ValidateLineage, store
    <3>6. CASE \E q \in Procs : Lineage(q)
      BY <2>1, <3>6 DEF Lineage, LoadHandoff, ReadLineageRun, MatchPlanRef, MatchArtifactRef,
                        store
    <3>7. CASE UNCHANGED vars
      BY <2>1, <3>7 DEF vars, store
    <3> QED BY <1>2, <3>1, <3>2, <3>3, <3>4, <3>5, <3>6, <3>7 DEF Next
  <2> QED BY <2>3, <2>4
<1>3. LineageInv /\ [Next]_vars =>
        [\A p \in Producers :
           handoffs[p] = None /\ handoffs'[p] # None => Edge(p)]_vars
  BY <1>2
<1> QED BY <1>3, LineageInvariant, PTL DEF Spec, PublishedHandoffsBindTheRetainedRun

-----------------------------------------------------------------------------
(* Re-verification is no stricter than the writers.  While nothing was     *)
(* rewritten, the store still holds what each execution captured, every    *)
(* command reads back the run and the handoff that were written, and so    *)
(* nothing that a validator requires of them can have changed.             *)
Past == {"captured", "identity", "artifacts", "result", "lineage", "publish", "done"}
Reading == AfterIdentity \cup {"identity"}

Captured(e) ==
  \E ending \in {"exited", "timed_out"}, b \in Blobs, x \in NativeResult :
    /\ mine[e] = OwnRun(e, FALSE, ending, b, x)
    /\ art[e] = [role |-> "native_stdout", blob |-> b]
    /\ b \in objects
    /\ x # NotReported => ending = "exited" /\ x = Reported(Extract[b], e) /\ Extract[b] # None

(* The run that a command is about, and the handoff that binds it.         *)
RunOf(p) ==
  IF p \in Executors THEN p
  ELSE IF p \in Producers THEN asked[p].run ELSE asked[asked[p].handoff].run
HandoffFor(e) ==
  [run |-> e, runDigest |-> mine[e], planDigest |-> Reviewed, artifact |-> e,
   artifactDigest |-> art[e]]

ExecutedUntouched(e) ==
  /\ pc[e] # "refused"
  /\ pc[e] \in Past => Captured(e)
  /\ pc[e] = "done" => runs[e] = mine[e]
ProducedUntouched(p) ==
  /\ pc[p] = "refused" => asked[p].artifact # asked[p].run
  /\ pc[p] \in Reading => mine[p] = mine[RunOf(p)]
  /\ pc[p] \notin {"idle", "refused"} /\ phase[p] # "source" => hand[p] = HandoffFor(RunOf(p))
  /\ pc[p] \notin {"idle", "refused"} /\ phase[p] = "after" => handoffs[p] = hand[p]
  /\ pc[p] \in {"planRef", "artifactRef"} => phase[p] # "source"
  /\ pc[p] = "done" => phase[p] = "after"
ConsumedUntouched(c) ==
  /\ pc[c] # "refused"
  /\ pc[c] \in Reading => mine[c] = mine[RunOf(c)]
  /\ pc[c] \notin {"idle", "load"} => hand[c] = HandoffFor(RunOf(c))

Untouched ==
  /\ plan = Reviewed /\ launcher
  /\ \A e \in Executors : ExecutedUntouched(e)
  /\ \A p \in Producers : ProducedUntouched(p)
  /\ \A c \in Consumers : ConsumedUntouched(c)

StoreShape ==
  DOMAIN art = ArtIds /\ DOMAIN runs = Executors /\ DOMAIN handoffs = Producers
  /\ rewrites \in Nat

UntouchedInv == StoreShape /\ (rewrites = 0 => Untouched)

LEMMA UntouchedInit == Init => UntouchedInv
<1> SUFFICES ASSUME Init PROVE UntouchedInv
  OBVIOUS
<1>1. StoreShape
  BY DEF Init, StoreShape
<1>2. \A p \in Procs : pc[p] = "idle"
  BY DEF Init
<1>3. Untouched
  BY <1>2 DEF Init, Untouched, ExecutedUntouched, ProducedUntouched, ConsumedUntouched, Past,
              Reading, AfterIdentity, AfterResult, AfterLineage, Procs
<1> QED BY <1>1, <1>3 DEF UntouchedInv

(* A captured run has the shape of a run record, and so has its handoff.   *)
LEMMA CapturedIsRecord ==
  ASSUME NEW e \in Executors, Captured(e)
  PROVE  /\ mine[e] \in InstrumentRun /\ art[e] \in Descriptors
         /\ HandoffFor(e) \in EvidenceHandoff
<1>1. PICK ending \in {"exited", "timed_out"}, b \in Blobs, x \in NativeResult :
        /\ mine[e] = OwnRun(e, FALSE, ending, b, x)
        /\ art[e] = [role |-> "native_stdout", blob |-> b]
  BY DEF Captured
<1>2. e \in ArtIds /\ "native_stdout" \in Roles /\ Reviewed \in Inputs
  BY LineageAssumption DEF ArtIds, Roles
<1>3. <<[id |-> e, role |-> "native_stdout", blob |-> b]>> \in Seq(ArtifactDescriptor)
  BY <1>2 DEF ArtifactDescriptor
<1>4. mine[e] \in InstrumentRun
  BY <1>1, <1>2, <1>3 DEF OwnRun, InstrumentRun
<1>5. art[e] \in Descriptors
  BY <1>1, <1>2 DEF Descriptors
<1> QED BY <1>2, <1>4, <1>5 DEF HandoffFor, EvidenceHandoff

(* Whatever run_validation and evidence_handoffs require of a captured run *)
(* holds in the store that it was captured into.                           *)
LEMMA CapturedHolds ==
  ASSUME NEW e \in Executors, Captured(e), plan = Reviewed, launcher
  PROVE  /\ mine[e].inputs \in ValidInputs /\ mine[e].planDigest = Reviewed
         /\ ArtifactsHold(mine[e]) /\ ResultHolds(mine[e]) /\ PlanLineageHolds(mine[e])
         /\ CapturedOnce(mine[e], e)
         /\ plan # None /\ PlanHolds(plan)
<1>1. PICK ending \in {"exited", "timed_out"}, b \in Blobs, x \in NativeResult :
        /\ mine[e] = OwnRun(e, FALSE, ending, b, x)
        /\ art[e] = [role |-> "native_stdout", blob |-> b]
        /\ b \in objects
        /\ x # NotReported =>
             ending = "exited" /\ x = Reported(Extract[b], e) /\ Extract[b] # None
  BY DEF Captured
<1> DEFINE d == [id |-> e, role |-> "native_stdout", blob |-> b]
<1>2. /\ mine[e].inputs = Reviewed /\ mine[e].planDigest = Reviewed /\ mine[e].claims = FALSE
      /\ mine[e].termination = ending /\ mine[e].result = x /\ mine[e].artifacts = <<d>>
  BY <1>1 DEF OwnRun
<1>3. DOMAIN mine[e].artifacts = {1} /\ mine[e].artifacts[1] = d
  BY <1>2
<1>4. DescriptorOf(e) = d
  BY <1>1 DEF DescriptorOf
<1>5. ArtifactLoads(e)
  <2>1. art[e] # None
    BY CapturedIsRecord, RecordAssumption
  <2>2. art[e].blob = b
    BY <1>1
  <2> QED BY <1>1, <2>1, <2>2 DEF ArtifactLoads
<1>6. ArtifactsHold(mine[e])
  BY <1>3, <1>4, <1>5 DEF ArtifactsHold
<1>7. ResultHolds(mine[e])
  <2>1. ASSUME x # NotReported
        PROVE  x.source = e /\ x.value = Extract[b] /\ Extract[b] # None /\ ending = "exited"
    BY <1>1, <2>1 DEF Reported
  <2>2. d.id = e /\ d.blob = b
    OBVIOUS
  <2> QED BY <1>1, <1>2, <1>3, <2>1, <2>2 DEF ResultHolds
<1>8. CapturedOnce(mine[e], e)
  BY <1>3, <1>4, <1>5 DEF CapturedOnce
<1>9. Reviewed \in ValidInputs /\ Reviewed # None
  BY LineageAssumption
<1> QED BY <1>2, <1>6, <1>7, <1>8, <1>9 DEF PlanLineageHolds, PlanHolds

(* A step of p writes to the store nothing but its own records.            *)
LEMMA ActsOnStore ==
  ASSUME StoreShape, NEW p \in Procs, Acts(p)
  PROVE  /\ StoreShape'
         /\ plan' = plan /\ launcher' = launcher /\ rewrites' = rewrites
         /\ objects \subseteq objects'
         /\ \A a \in ArtIds : a # p \/ pc[p] # "locked" => art'[a] = art[a]
         /\ \A e \in Executors \ {p} : runs'[e] = runs[e]
         /\ \A q \in Producers \ {p} : handoffs'[q] = handoffs[q]
<1> USE DEF StoreShape, store
<1>1. CASE p \in Executors /\ Execute(p)
  <2>1. ASSUME NEW b, NEW ending, CaptureOutput(p, b, ending)
        PROVE  /\ pc[p] = "locked" /\ art' = [art EXCEPT ![p] = [role |-> "native_stdout", blob |-> b]]
               /\ objects \subseteq objects'
               /\ UNCHANGED <<plan, launcher, runs, handoffs, rewrites>>
    BY <2>1 DEF CaptureOutput
  <2> QED
    BY <1>1, <2>1 DEF Execute, LoadReviewedPlan, ExtractResult, PublishRun
<1>2. CASE p \in Producers /\ Create(p)
  BY <1>2 DEF Create, BeginCreate, ReadSourceRun, MatchRetainedRun, PublishHandoff
<1>3. CASE p \in Consumers /\ Inspect(p)
  BY <1>3 DEF Inspect, BeginInspect
<1>4. CASE Validate(p)
  BY <1>4 DEF Validate, ValidateIdentity, ValidateArtifacts, ValidateResult, ValidateLineage
<1>5. CASE Lineage(p)
  BY <1>5 DEF Lineage, LoadHandoff, ReadLineageRun, MatchPlanRef, MatchArtifactRef
<1> QED BY <1>1, <1>2, <1>3, <1>4, <1>5 DEF Acts

(* The run that a producer or a consumer is about is one that was captured,*)
(* published, and never changes again.                                     *)
LEMMA SourceEnded ==
  ASSUME LineageInv, Untouched, NEW p \in Producers \cup Consumers, pc[p] # "idle"
  PROVE  /\ RunOf(p) \in Executors /\ pc[RunOf(p)] = "done" /\ Captured(RunOf(p))
         /\ runs[RunOf(p)] = mine[RunOf(p)]
         /\ p \in Consumers =>
              /\ handoffs[asked[p].handoff] = HandoffFor(RunOf(p))
              /\ hand[asked[p].handoff] = HandoffFor(RunOf(p))
<1>1. /\ p \notin Executors /\ p \in Procs
      /\ p \in Producers => p \notin Consumers
      /\ \A e \in Executors : e \in Procs
      /\ \A q \in Producers : q \in Procs /\ q \notin Executors
  BY LineageAssumption DEF Procs
<1>2. ASSUME NEW q \in Producers, pc[q] # "idle"
      PROVE  asked[q].run \in Executors /\ pc[asked[q].run] = "done" /\ RunOf(q) = asked[q].run
  BY <1>1, <1>2 DEF LineageInv, Held, Producing, RunOf
<1>3. RunOf(p) \in Executors /\ pc[RunOf(p)] = "done"
  <2>1. CASE p \in Producers
    BY <1>2, <2>1
  <2>2. CASE p \in Consumers
    <3>1. asked[p].handoff \in Producers /\ pc[asked[p].handoff] = "done"
      BY <1>1, <2>2 DEF LineageInv, Held, Consuming
    <3>2. RunOf(p) = asked[asked[p].handoff].run
      BY <1>1, <2>2 DEF RunOf
    <3> QED BY <1>2, <3>1, <3>2
  <2> QED BY <2>1, <2>2
<1>4. Captured(RunOf(p)) /\ runs[RunOf(p)] = mine[RunOf(p)]
  BY <1>3 DEF Untouched, ExecutedUntouched, Past
<1>5. ASSUME p \in Consumers
      PROVE  /\ handoffs[asked[p].handoff] = HandoffFor(RunOf(p))
             /\ hand[asked[p].handoff] = HandoffFor(RunOf(p))
  <2>1. asked[p].handoff \in Producers /\ pc[asked[p].handoff] = "done"
    BY <1>1, <1>5 DEF LineageInv, Held, Consuming
  <2>2. RunOf(p) = RunOf(asked[p].handoff)
    BY <1>1, <1>2, <1>5, <2>1 DEF RunOf
  <2>3. phase[asked[p].handoff] = "after"
    BY <2>1 DEF Untouched, ProducedUntouched
  <2> QED BY <2>1, <2>2, <2>3 DEF Untouched, ProducedUntouched
<1> QED BY <1>3, <1>4, <1>5

LEMMA SourceKept ==
  ASSUME LineageInv, Untouched, StoreShape, NEW p \in Procs, Acts(p),
         NEW q \in Producers \cup Consumers, pc[q] # "idle", asked'[q] = asked[q]
  PROVE  /\ RunOf(q)' = RunOf(q) /\ mine'[RunOf(q)] = mine[RunOf(q)]
         /\ HandoffFor(RunOf(q))' = HandoffFor(RunOf(q))
<1> DEFINE e == RunOf(q)
<1>1. e \in Executors /\ pc[e] = "done" /\ e \in Procs /\ e \in ArtIds
  BY SourceEnded DEF Procs, ArtIds
<1>2. pc[p] # "done" /\ \A r \in Procs \ {p} : mine'[r] = mine[r] /\ asked'[r] = asked[r]
  BY ActsTouchOne
<1>3. mine'[e] = mine[e] /\ art'[e] = art[e]
  BY <1>1, <1>2, ActsOnStore
<1>4. RunOf(q)' = e
  <2>1. CASE q \in Producers
    BY <2>1 DEF RunOf
  <2>2. CASE q \in Consumers /\ q \notin Producers
    <3>1. q \notin Executors
      BY <2>2, LineageAssumption
    <3>2. asked[q].handoff \in Producers /\ pc[asked[q].handoff] = "done"
      BY <2>2 DEF LineageInv, Held, Consuming, Procs
    <3>3. asked'[asked[q].handoff] = asked[asked[q].handoff]
      BY <1>2, <3>2 DEF Procs
    <3> QED BY <2>2, <3>1, <3>3 DEF RunOf
  <2> QED BY <2>1, <2>2
<1> HIDE DEF e
<1> QED BY <1>3, <1>4 DEF HandoffFor, e

(* What holds of the commands that do not move is kept.                    *)
LEMMA OthersUntouched ==
  ASSUME LineageInv, Untouched, StoreShape, NEW p \in Procs, Acts(p)
  PROVE  /\ \A e \in Executors \ {p} : ExecutedUntouched(e)'
         /\ \A q \in Producers \ {p} : ProducedUntouched(q)'
         /\ \A c \in Consumers \ {p} : ConsumedUntouched(c)'
<1>1. \A r \in Procs \ {p} :
        /\ pc'[r] = pc[r] /\ phase'[r] = phase[r] /\ mine'[r] = mine[r]
        /\ hand'[r] = hand[r] /\ asked'[r] = asked[r]
  BY ActsTouchOne
<1>2. ASSUME NEW e \in Executors \ {p} PROVE ExecutedUntouched(e)'
  <2>1. /\ pc'[e] = pc[e] /\ mine'[e] = mine[e] /\ runs'[e] = runs[e] /\ art'[e] = art[e]
        /\ objects \subseteq objects'
    BY <1>1, ActsOnStore DEF Procs, ArtIds
  <2>2. ExecutedUntouched(e)
    BY DEF Untouched
  <2>3. Captured(e) => Captured(e)'
    BY <2>1 DEF Captured
  <2> QED BY <2>1, <2>2, <2>3 DEF ExecutedUntouched
<1>3. ASSUME NEW q \in Producers \ {p} PROVE ProducedUntouched(q)'
  <2>1. /\ pc'[q] = pc[q] /\ phase'[q] = phase[q] /\ mine'[q] = mine[q] /\ hand'[q] = hand[q]
        /\ asked'[q] = asked[q] /\ handoffs'[q] = handoffs[q]
    BY <1>1, ActsOnStore DEF Procs
  <2>2. ProducedUntouched(q)
    BY DEF Untouched
  <2>3. pc[q] # "idle" =>
          /\ RunOf(q)' = RunOf(q) /\ mine'[RunOf(q)] = mine[RunOf(q)]
          /\ HandoffFor(RunOf(q))' = HandoffFor(RunOf(q))
    BY <2>1, SourceKept
  <2> QED
    BY <2>1, <2>2, <2>3
       DEF ProducedUntouched, Reading, AfterIdentity, AfterResult, AfterLineage
<1>4. ASSUME NEW c \in Consumers \ {p} PROVE ConsumedUntouched(c)'
  <2>1. /\ pc'[c] = pc[c] /\ mine'[c] = mine[c] /\ hand'[c] = hand[c] /\ asked'[c] = asked[c]
    BY <1>1 DEF Procs
  <2>2. ConsumedUntouched(c)
    BY DEF Untouched
  <2>3. pc[c] # "idle" =>
          /\ RunOf(c)' = RunOf(c) /\ mine'[RunOf(c)] = mine[RunOf(c)]
          /\ HandoffFor(RunOf(c))' = HandoffFor(RunOf(c))
    BY <2>1, SourceKept
  <2> QED
    BY <2>1, <2>2, <2>3
       DEF ConsumedUntouched, Reading, AfterIdentity, AfterResult, AfterLineage
<1> QED BY <1>2, <1>3, <1>4

(* Whoever validates a run that holds gets past each of the four checks.   *)
LEMMA ValidationPasses ==
  ASSUME Shape, NEW p \in Procs, Validate(p), launcher,
         mine[p].inputs \in ValidInputs, ArtifactsHold(mine[p]), ResultHolds(mine[p]),
         PlanLineageHolds(mine[p]),
         phase[p] \in {"write", "source", "before", "after", "verify", "show"}
  PROVE  \/ pc'[p] \in {"artifacts", "result", "lineage"}
         \/ pc'[p] = "publish" /\ phase[p] = "write"
         \/ pc'[p] = "match" /\ phase[p] = "source"
         \/ pc'[p] = "planRef" /\ phase[p] \in {"before", "after", "verify", "show"}
<1> USE DEF Shape, Goto, Check
<1>1. CASE ValidateIdentity(p)
  BY <1>1 DEF ValidateIdentity
<1>2. CASE ValidateArtifacts(p)
  BY <1>2 DEF ValidateArtifacts
<1>3. CASE ValidateResult(p)
  BY <1>3 DEF ValidateResult
<1>4. CASE ValidateLineage(p)
  <2>1. pc'[p] = AfterValidation[phase[p]]
    BY <1>4 DEF ValidateLineage
  <2> QED BY <2>1 DEF AfterValidation
<1> QED BY <1>1, <1>2, <1>3, <1>4 DEF Validate

(* An execution validates the run it captured.                             *)
LEMMA ExecutionUntouched ==
  ASSUME LineageInv, Untouched, StoreShape, NEW e \in Executors, Acts(e)
  PROVE  ExecutedUntouched(e)'
<1>0. /\ Shape /\ Executing(e) /\ ExecutedUntouched(e) /\ e \in Procs /\ e \in ArtIds
      /\ e \notin Producers \cup Consumers /\ plan = Reviewed /\ launcher
  BY LineageAssumption DEF LineageInv, Held, Untouched, Procs, ArtIds
<1> USE <1>0 DEF Shape, StoreShape, Goto, Check, store
<1>1. CASE LoadReviewedPlan(e)
  <2>1. pc'[e] = "locked"
    BY <1>1, LineageAssumption DEF LoadReviewedPlan, PlanHolds
  <2> QED BY <2>1 DEF ExecutedUntouched, Past
<1>2. ASSUME NEW b \in Blobs, NEW ending \in {"exited", "timed_out"}, CaptureOutput(e, b, ending)
      PROVE  ExecutedUntouched(e)'
  <2>1. mine'[e] = OwnRun(e, FALSE, ending, b, NotReported)
    BY <1>2 DEF CaptureOutput, NewRun, OwnRun, Executing
  <2>2. /\ pc'[e] = "captured" /\ art'[e] = [role |-> "native_stdout", blob |-> b]
        /\ b \in objects'
    BY <1>2 DEF CaptureOutput
  <2>3. NotReported \in NativeResult
    BY DEF NativeResult
  <2>4. Captured(e)'
    <3> HIDE DEF NotReported
    <3> QED BY <2>1, <2>2, <2>3 DEF Captured
  <2> QED BY <2>2, <2>4 DEF ExecutedUntouched
<1>3. CASE ExtractResult(e)
  <2>1. PICK ending \in {"exited", "timed_out"}, b \in Blobs, x \in NativeResult :
          /\ mine[e] = OwnRun(e, FALSE, ending, b, x)
          /\ art[e] = [role |-> "native_stdout", blob |-> b]
          /\ b \in objects
    BY <1>3 DEF ExtractResult, ExecutedUntouched, Past, Captured
  <2>2. mine[e].artifacts[1].blob = b /\ mine[e].termination = ending
    BY <2>1 DEF OwnRun
  <2> DEFINE y == IF ending = "exited" /\ Extract[b] # None
                    THEN Reported(Extract[b], e) ELSE NotReported
  <2>3. mine'[e] = [mine[e] EXCEPT !.result = y]
    BY <1>3, <2>1, <2>2 DEF ExtractResult
  <2>4. mine'[e] = OwnRun(e, FALSE, ending, b, y)
    <3> HIDE DEF y
    <3>1. PICK claims : claims = FALSE
      OBVIOUS
    <3>2. mine[e] = OwnRun(e, claims, ending, b, x)
      BY <2>1, <3>1
    <3>3. [OwnRun(e, claims, ending, b, x) EXCEPT !.result = y] = OwnRun(e, claims, ending, b, y)
      BY ResultReplaced DEF OwnRun
    <3>4. mine'[e] = OwnRun(e, claims, ending, b, y)
      BY <2>3, <3>2, <3>3
    <3> QED BY <3>1, <3>4
  <2>5. y \in NativeResult
    <3>1. Extract[b] \in {Extract[c] : c \in Blobs}
      OBVIOUS
    <3>2. Reported(Extract[b], e) \in NativeResult
      BY <3>1 DEF NativeResult
    <3>3. NotReported \in NativeResult
      BY DEF NativeResult
    <3> QED BY <3>2, <3>3
  <2>6. y # NotReported => ending = "exited" /\ y = Reported(Extract[b], e) /\ Extract[b] # None
    OBVIOUS
  <2>7. pc'[e] = "identity" /\ art' = art /\ objects' = objects
    BY <1>3 DEF ExtractResult
  <2> HIDE DEF y
  <2>8. Captured(e)'
    BY <2>1, <2>4, <2>5, <2>6, <2>7 DEF Captured
  <2> QED BY <2>7, <2>8 DEF ExecutedUntouched
<1>4. CASE PublishRun(e)
  <2>1. /\ pc[e] = "publish" /\ pc'[e] = "done" /\ runs'[e] = mine[e]
        /\ mine' = mine /\ art' = art /\ objects' = objects
    BY <1>4 DEF PublishRun
  <2>2. Captured(e)'
    BY <2>1 DEF ExecutedUntouched, Past, Captured
  <2> QED BY <2>1, <2>2 DEF ExecutedUntouched
<1>5. CASE Validate(e)
  <2>1. pc[e] \in {"identity", "artifacts", "result", "lineage"} /\ mine' = mine
        /\ art' = art /\ objects' = objects
    BY <1>5 DEF Validate, ValidateIdentity, ValidateArtifacts, ValidateResult, ValidateLineage
  <2>2. Captured(e) /\ phase[e] = "write"
    BY <2>1 DEF ExecutedUntouched, Past, Executing
  <2>a. /\ mine[e].inputs \in ValidInputs /\ ArtifactsHold(mine[e])
        /\ ResultHolds(mine[e]) /\ PlanLineageHolds(mine[e])
    BY <2>2, CapturedHolds
  <2>3. pc'[e] \in {"artifacts", "result", "lineage", "publish"}
    BY <1>5, <2>2, <2>a, ValidationPasses
  <2>4. Captured(e)'
    BY <2>1, <2>2 DEF Captured
  <2> QED BY <2>3, <2>4 DEF ExecutedUntouched
<1>6. ~Lineage(e)
  BY DEF Executing, Lineage, LoadHandoff, ReadLineageRun, MatchPlanRef, MatchArtifactRef
<1> QED BY <1>1, <1>2, <1>3, <1>4, <1>5, <1>6 DEF Acts, Execute

(* A producer reads back the run whose digest it was given, and is turned  *)
(* away only when it asks for an artifact of another.                      *)
LEMMA ProductionUntouched ==
  ASSUME LineageInv, Untouched, StoreShape, NEW p \in Producers, Acts(p)
  PROVE  ProducedUntouched(p)'
<1> DEFINE e == RunOf(p)
<1>0. /\ Shape /\ Producing(p) /\ ProducedUntouched(p) /\ p \in Procs
      /\ p \notin Executors \cup Consumers /\ plan = Reviewed /\ launcher
  BY LineageAssumption DEF LineageInv, Held, Untouched, Procs
<1>1. pc[p] # "idle" =>
        /\ e \in Executors /\ Captured(e) /\ runs[e] = mine[e] /\ e = asked[p].run
        /\ mine[e] \in InstrumentRun /\ mine[e] # None /\ HandoffFor(e) \in EvidenceHandoff
        /\ HandoffFor(e) # None
  BY <1>0, SourceEnded, CapturedIsRecord, RecordAssumption DEF RunOf
<1>2. pc[p] # "idle" =>
        /\ mine[e].inputs \in ValidInputs /\ mine[e].planDigest = Reviewed
        /\ ArtifactsHold(mine[e]) /\ ResultHolds(mine[e]) /\ PlanLineageHolds(mine[e])
        /\ CapturedOnce(mine[e], e) /\ plan # None /\ PlanHolds(plan)
  BY <1>0, <1>1, CapturedHolds
<1>3. pc[p] # "idle" /\ asked' = asked =>
        /\ RunOf(p)' = e /\ mine'[e] = mine[e] /\ HandoffFor(RunOf(p))' = HandoffFor(e)
  BY <1>0, SourceKept
<1> HIDE DEF e
<1> USE <1>0 DEF Shape, StoreShape, Goto, Check, store, Reading, AfterIdentity, AfterResult,
                 AfterLineage
<1>4. ASSUME NEW x \in Executors, NEW a \in ArtIds, BeginCreate(p, x, a)
      PROVE  ProducedUntouched(p)'
  <2>1. pc'[p] = "read" /\ phase'[p] = "source"
    BY <1>4 DEF BeginCreate
  <2> QED BY <2>1 DEF ProducedUntouched
<1>5. CASE ReadSourceRun(p) \/ ReadLineageRun(p)
  <2>1. /\ pc[p] = "read" /\ UNCHANGED <<phase, hand, asked, handoffs>>
    BY <1>5 DEF ReadSourceRun, ReadLineageRun
  <2>2. (phase[p] = "source" /\ ReadRun(p, asked[p].run))
        \/ (phase[p] # "source" /\ ReadRun(p, hand[p].run))
    BY <1>5 DEF ReadSourceRun, ReadLineageRun
  <2>3. phase[p] # "source" => hand[p].run = e
    BY <1>1, <2>1 DEF ProducedUntouched, HandoffFor, e
  <2>4. ReadRun(p, e)
    BY <1>1, <2>1, <2>2, <2>3
  <2>5. pc'[p] = "identity" /\ mine'[p] = mine[e]
    BY <1>1, <2>1, <2>4 DEF ReadRun
  <2> QED BY <1>3, <2>1, <2>5 DEF ProducedUntouched, e
<1>6. CASE Validate(p)
  <2>1. /\ pc[p] \in {"identity", "artifacts", "result", "lineage"}
        /\ UNCHANGED <<mine, phase, hand, asked, handoffs>>
    BY <1>6 DEF Validate, ValidateIdentity, ValidateArtifacts, ValidateResult, ValidateLineage
  <2>2. mine[p] = mine[e] /\ phase[p] \in {"source", "before", "after"}
    BY <2>1 DEF ProducedUntouched, Producing, e
  <2>3. \/ pc'[p] \in {"artifacts", "result", "lineage"}
        \/ pc'[p] = "match" /\ phase[p] = "source"
        \/ pc'[p] = "planRef" /\ phase[p] # "source"
    BY <1>2, <1>6, <2>1, <2>2, ValidationPasses
  <2> QED BY <1>3, <2>1, <2>2, <2>3 DEF ProducedUntouched, e
<1>7. CASE MatchRetainedRun(p)
  <2>1. /\ pc[p] = "match" /\ UNCHANGED <<mine, asked, handoffs>> /\ phase'[p] = "before"
        /\ pc'[p] \in {"read", "refused"}
    BY <1>7 DEF MatchRetainedRun
  <2>2. mine[p] = mine[e] /\ asked[p].digest = mine[e]
    BY <1>1, <2>1 DEF ProducedUntouched, Producing, e
  <2>3. CASE pc'[p] = "refused"
    <3>1. asked[p].artifact # e
      BY <1>2, <1>7, <2>1, <2>2, <2>3 DEF MatchRetainedRun
    <3> QED BY <1>1, <2>1, <2>3, <3>1 DEF ProducedUntouched
  <2>4. CASE pc'[p] = "read"
    <3>1. hand'[p] = [run |-> e, runDigest |-> mine[e], planDigest |-> Reviewed,
                      artifact |-> asked[p].artifact,
                      artifactDigest |-> art[asked[p].artifact]]
      BY <1>1, <1>2, <1>7, <2>1, <2>2 DEF MatchRetainedRun
    <3>2. hand'[p].artifact = asked'[p].run
      BY <1>7, <2>4, MatchedRunIsBound DEF BindsRun
    <3>3. hand'[p] = HandoffFor(e)
      BY <1>1, <2>1, <3>1, <3>2 DEF HandoffFor
    <3> QED BY <1>3, <2>1, <2>4, <3>3 DEF ProducedUntouched
  <2> QED BY <2>1, <2>3, <2>4
<1>8. CASE PublishHandoff(p)
  <2>1. /\ pc[p] = "publishHandoff" /\ phase[p] = "before" /\ pc'[p] = "load"
        /\ phase'[p] = "after" /\ handoffs'[p] = hand[p] /\ UNCHANGED <<mine, hand, asked>>
    BY <1>8 DEF PublishHandoff, Producing
  <2> QED BY <1>3, <2>1 DEF ProducedUntouched, e
<1>9. CASE LoadHandoff(p)
  <2>1. /\ pc[p] = "load" /\ phase[p] = "after" /\ hand'[p] = handoffs[p]
        /\ UNCHANGED <<mine, phase, asked, handoffs>>
    BY <1>9 DEF LoadHandoff, HandoffOf, Producing
  <2>2. handoffs[p] = HandoffFor(e)
    BY <2>1 DEF ProducedUntouched, e
  <2>3. pc'[p] = "read"
    BY <1>1, <1>9, <2>1, <2>2 DEF LoadHandoff, HandoffOf
  <2> QED BY <1>3, <2>1, <2>2, <2>3 DEF ProducedUntouched
<1>10. CASE MatchPlanRef(p) \/ MatchArtifactRef(p)
  <2>1. /\ pc[p] \in {"planRef", "artifactRef"} /\ UNCHANGED <<mine, phase, hand, asked, handoffs>>
    BY <1>10 DEF MatchPlanRef, MatchArtifactRef
  <2>2. /\ phase[p] \in {"before", "after"} /\ mine[p] = mine[e] /\ hand[p] = HandoffFor(e)
    BY <2>1 DEF ProducedUntouched, Producing, e
  <2>3. /\ hand[p].runDigest = mine[e] /\ hand[p].planDigest = Reviewed
        /\ hand[p].artifact = e /\ hand[p].artifactDigest = art[e]
    BY <2>2 DEF HandoffFor
  <2>4. \/ pc'[p] = "artifactRef"
        \/ pc'[p] = "publishHandoff" /\ phase[p] = "before"
        \/ pc'[p] = "done" /\ phase[p] = "after"
    BY <1>2, <1>10, <2>1, <2>2, <2>3 DEF MatchPlanRef, MatchArtifactRef
  <2> QED BY <1>3, <2>1, <2>2, <2>4 DEF ProducedUntouched, e
<1> QED
  BY <1>0, <1>4, <1>5, <1>6, <1>7, <1>8, <1>9, <1>10 DEF Acts, Create, Lineage

(* A consumer reads back the handoff that its producer ended with.         *)
LEMMA ConsumptionUntouched ==
  ASSUME LineageInv, Untouched, StoreShape, NEW c \in Consumers, Acts(c)
  PROVE  ConsumedUntouched(c)'
<1> DEFINE e == RunOf(c)
<1>0. /\ Shape /\ Consuming(c) /\ ConsumedUntouched(c) /\ c \in Procs
      /\ c \notin Executors \cup Producers /\ plan = Reviewed /\ launcher
  BY LineageAssumption DEF LineageInv, Held, Untouched, Procs
<1>1. pc[c] # "idle" =>
        /\ e \in Executors /\ Captured(e) /\ runs[e] = mine[e]
        /\ mine[e] # None /\ HandoffFor(e) # None
        /\ handoffs[asked[c].handoff] = HandoffFor(e) /\ hand[asked[c].handoff] = HandoffFor(e)
  BY SourceEnded, CapturedIsRecord, RecordAssumption
<1>2. pc[c] # "idle" =>
        /\ mine[e].inputs \in ValidInputs /\ mine[e].planDigest = Reviewed
        /\ ArtifactsHold(mine[e]) /\ ResultHolds(mine[e]) /\ PlanLineageHolds(mine[e])
        /\ CapturedOnce(mine[e], e) /\ plan # None /\ PlanHolds(plan)
  BY <1>0, <1>1, CapturedHolds
<1>3. pc[c] # "idle" /\ asked' = asked =>
        /\ RunOf(c)' = e /\ mine'[e] = mine[e] /\ HandoffFor(RunOf(c))' = HandoffFor(e)
  BY <1>0, SourceKept
<1> HIDE DEF e
<1> USE <1>0 DEF Shape, StoreShape, Goto, Check, store, Reading, AfterIdentity, AfterResult,
                 AfterLineage
<1>4. CASE Inspect(c)
  BY <1>4 DEF Inspect, BeginInspect, ConsumedUntouched
<1>5. CASE LoadHandoff(c)
  <2>1. /\ pc[c] = "load" /\ hand'[c] = HandoffFor(e) /\ UNCHANGED <<mine, asked>>
    BY <1>1, <1>5 DEF LoadHandoff, HandoffOf
  <2>2. asked[c].digest = HandoffFor(e)
    BY <1>1, <2>1 DEF Consuming
  <2>3. pc'[c] = "read"
    BY <1>1, <1>5, <2>1, <2>2 DEF LoadHandoff, HandoffOf
  <2> QED BY <1>3, <2>1, <2>3 DEF ConsumedUntouched
<1>6. CASE ReadLineageRun(c)
  <2>1. /\ pc[c] = "read" /\ UNCHANGED <<hand, asked>> /\ ReadRun(c, hand[c].run)
    BY <1>6 DEF ReadLineageRun
  <2>2. hand[c] = HandoffFor(e)
    BY <2>1 DEF ConsumedUntouched, e
  <2>3. hand[c].run = e
    BY <2>2 DEF HandoffFor
  <2>4. pc'[c] = "identity" /\ mine'[c] = mine[e]
    BY <1>1, <2>1, <2>3 DEF ReadRun
  <2> QED BY <1>3, <2>1, <2>2, <2>4 DEF ConsumedUntouched
<1>7. CASE Validate(c)
  <2>1. /\ pc[c] \in {"identity", "artifacts", "result", "lineage"}
        /\ UNCHANGED <<mine, phase, hand, asked>>
    BY <1>7 DEF Validate, ValidateIdentity, ValidateArtifacts, ValidateResult, ValidateLineage
  <2>2. mine[c] = mine[e] /\ phase[c] \in {"verify", "show"} /\ hand[c] = HandoffFor(e)
    BY <2>1 DEF ConsumedUntouched, Consuming, e
  <2>3. pc'[c] \in {"artifacts", "result", "lineage", "planRef"}
    BY <1>2, <1>7, <2>1, <2>2, ValidationPasses
  <2> QED BY <1>3, <2>1, <2>2, <2>3 DEF ConsumedUntouched
<1>8. CASE MatchPlanRef(c) \/ MatchArtifactRef(c)
  <2>1. /\ pc[c] \in {"planRef", "artifactRef"} /\ UNCHANGED <<mine, phase, hand, asked>>
    BY <1>8 DEF MatchPlanRef, MatchArtifactRef
  <2>2. /\ phase[c] \in {"verify", "show"} /\ mine[c] = mine[e] /\ hand[c] = HandoffFor(e)
    BY <2>1 DEF ConsumedUntouched, Consuming, e
  <2>3. /\ hand[c].runDigest = mine[e] /\ hand[c].planDigest = Reviewed
        /\ hand[c].artifact = e /\ hand[c].artifactDigest = art[e]
    BY <2>2 DEF HandoffFor
  <2>4. pc'[c] \in {"artifactRef", "done"}
    BY <1>2, <1>8, <2>1, <2>2, <2>3 DEF MatchPlanRef, MatchArtifactRef
  <2> QED BY <1>3, <2>1, <2>2, <2>4 DEF ConsumedUntouched
<1> QED
  BY <1>0, <1>4, <1>5, <1>6, <1>7, <1>8 DEF Acts, Lineage

LEMMA UntouchedStep == LineageInv /\ UntouchedInv /\ [Next]_vars => UntouchedInv'
<1> SUFFICES ASSUME LineageInv, UntouchedInv, [Next]_vars PROVE UntouchedInv'
  OBVIOUS
<1>1. ASSUME NEW p \in Procs, Acts(p) PROVE UntouchedInv'
  <2>1. /\ StoreShape' /\ rewrites' = rewrites
        /\ plan' = plan /\ launcher' = launcher
    BY <1>1, ActsOnStore DEF UntouchedInv
  <2>2. ASSUME Untouched PROVE Untouched'
    <3>1. \A e \in Executors : ExecutedUntouched(e)'
      BY <1>1, <2>2, OthersUntouched, ExecutionUntouched DEF UntouchedInv
    <3>2. \A q \in Producers : ProducedUntouched(q)'
      BY <1>1, <2>2, OthersUntouched, ProductionUntouched DEF UntouchedInv
    <3>3. \A c \in Consumers : ConsumedUntouched(c)'
      BY <1>1, <2>2, OthersUntouched, ConsumptionUntouched DEF UntouchedInv
    <3> QED BY <2>1, <2>2, <3>1, <3>2, <3>3 DEF Untouched
  <2> QED BY <2>1, <2>2 DEF UntouchedInv
<1>2. CASE Rewrite
  <2>1. rewrites \in Nat /\ rewrites' = rewrites + 1
    BY <1>2 DEF Rewrite, UntouchedInv, StoreShape
  <2>2. DOMAIN art' = ArtIds /\ DOMAIN runs' = Executors /\ DOMAIN handoffs' = Producers
    BY <1>2 DEF Rewrite, RewritePlan, RewriteArtifact, DamageObject, ReplaceLauncher,
                RewriteRun, RewriteHandoff, UntouchedInv, StoreShape
  <2>3. rewrites' \in Nat /\ rewrites' # 0
    BY <2>1
  <2> QED BY <2>2, <2>3 DEF UntouchedInv, StoreShape
<1>3. CASE UNCHANGED vars
  <2>1. UNCHANGED <<plan, art, objects, launcher, runs, handoffs>>
        /\ UNCHANGED <<pc, phase, mine, hand, asked, rewrites>>
    BY <1>3 DEF vars, store, local
  <2>2. \A p : RunOf(p)' = RunOf(p) /\ HandoffFor(p)' = HandoffFor(p)
    BY <2>1 DEF RunOf, HandoffFor
  <2>3. \A e \in Executors : ExecutedUntouched(e) => ExecutedUntouched(e)'
    BY <2>1 DEF ExecutedUntouched, Captured
  <2>4. \A p \in Producers : ProducedUntouched(p) => ProducedUntouched(p)'
    BY <2>1, <2>2 DEF ProducedUntouched
  <2>5. \A c \in Consumers : ConsumedUntouched(c) => ConsumedUntouched(c)'
    BY <2>1, <2>2 DEF ConsumedUntouched
  <2> QED BY <2>1, <2>3, <2>4, <2>5 DEF UntouchedInv, StoreShape, Untouched
<1> QED BY <1>1, <1>2, <1>3 DEF Next, Acts, Procs

(* As long as nothing was rewritten, run_validation and evidence_handoffs  *)
(* accept whatever `runs execute` and `handoffs create` wrote: of any      *)
(* number of concurrent commands the only one refused is a producer that   *)
(* asks for an artifact that the run did not capture.                      *)
THEOREM UntouchedIsAccepted == Spec => []UntouchedEvidenceIsAccepted
<1>1. LineageInv /\ UntouchedInv => UntouchedEvidenceIsAccepted
  BY DEF UntouchedInv, Untouched, ExecutedUntouched, ProducedUntouched, ConsumedUntouched,
         UntouchedEvidenceIsAccepted, Procs
<1> QED BY <1>1, LineageInvariant, UntouchedInit, UntouchedStep, PTL DEF Spec
=============================================================================
