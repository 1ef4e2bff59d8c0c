---------------------------- MODULE PythonAdmission ----------------------------
(***************************************************************************)
(* How the registry comes to say what is known of a bound Python runtime.  *)
(* A capsule lists its files; a qualification binds the capsule and other  *)
(* inputs; `python-admissions admit` proves five checks on their bytes     *)
(* (v1), `prove-containment` starts the interpreter once in a job (v2),    *)
(* `prove-network` once in an AppContainer (v3).  Each record names the    *)
(* one before with its digest, no command locks anything, and others may   *)
(* rewrite the records between any two reads.                              *)
(*                                                                         *)
(* A digest is modelled as the record it is the digest of (a citation may  *)
(* carry any); verifying a qualification, which loads the capsule and      *)
(* hashes what both bind, is one step; the five checks                     *)
(* on bytes are one, "semantics"; ContainmentProbe models the two probes.  *)
(***************************************************************************)
EXTENDS Naturals, Sequences, FiniteSets, SequencesExt

CONSTANTS
  Sessions,   \* each also names the admission it may create
  Earlier,    \* admissions that were in the registry before
  Operations, \* the operations that may be admitted
  Inputs,     \* the bytes a qualification binds
  Proves,     \* whether the five checks hold of them
  MaxRewrites,
  MaxDepth,   \* records a verification may be in the middle of: the stack
  NoRecord

(* The stack holds a chain of records of all three schemas.                *)
ASSUME AdmissionAssumption ==
  /\ Sessions \cap Earlier = {}
  /\ Proves \in [Inputs -> BOOLEAN]
  /\ MaxRewrites \in Nat
  /\ MaxDepth \in Nat /\ MaxDepth >= 2

AdmissionIds == Sessions \cup Earlier
Codes == {"semantics", "egress", "limit", "job"}
Residual == Codes \ {"semantics"}
CheckStates == {"satisfied", "failed", "not_implemented"}

VARIABLES
  capsule,  \* the capsule record: the operation and inputs it is scoped to
  qual,     \* the qualification record: the capsule digest, operation and inputs
  intact,   \* the inputs whose artifacts are intact
  admission,
  pc, asked, stage,
  held,     \* the record a command was asked to build on
  made,     \* the one it creates
  cursor,   \* the one it is verifying
  citing,   \* those that await the outcome, each citing the next
  rewrites

store == <<capsule, qual, intact, admission>>
local == <<pc, asked, stage, held, made, cursor, citing>>
admissions == <<store, local, rewrites>>

RuntimeCapsule == [operation : Operations \cup {"catalog_only"}, inputs : Inputs]
PythonRuntimeQualification ==
  [capsule : RuntimeCapsule, operation : Operations \cup {"catalog_only"}, inputs : Inputs]

Outcome(b) == IF b THEN "satisfied" ELSE "failed"
Blockers(checks) == {c \in Codes : checks[c] # "satisfied"}

Admission(schema, source, inventory, checks) ==
  [schema |-> schema, source |-> source, inventory |-> inventory,
   operation |-> inventory.operation, checks |-> checks, blockers |-> Blockers(checks)]

(* What admit records: the residual checks need a process and stay failed. *)
AdmitChecks(inputs) ==
  [c \in Codes |-> IF c = "semantics" THEN Outcome(Proves[inputs]) ELSE "failed"]

(* NoRecord is none of the records that admit makes.                       *)
ASSUME FirstRecordAssumption ==
  \A q \in PythonRuntimeQualification : Admission(1, NoRecord, q, AdmitChecks(q.inputs)) # NoRecord

(* An earlier session may have proved containment already.                 *)
EarlierChain(q, v1, v2) ==
  LET first == Admission(1, NoRecord, q, AdmitChecks(q.inputs))
      second == Admission(2, [id |-> v1, digest |-> first], q,
                          [first.checks EXCEPT !["limit"] = "satisfied", !["job"] = "satisfied"])
  IN [a \in AdmissionIds |-> IF a = v1 THEN first ELSE IF a = v2 THEN second ELSE NoRecord]

AdmissionsInit ==
  /\ \E o \in Operations \cup {"catalog_only"}, i \in Inputs :
       /\ capsule = [operation |-> o, inputs |-> i]
       /\ qual = [capsule |-> capsule, operation |-> o, inputs |-> i]
  /\ intact = Inputs
  /\ \/ admission = [a \in AdmissionIds |-> NoRecord]
     \/ /\ qual.operation \in Operations
        /\ \E v1, v2 \in Earlier : v1 # v2 /\ admission = EarlierChain(qual, v1, v2)
  /\ pc = [p \in Sessions |-> "idle"]
  /\ asked = [p \in Sessions |-> NoRecord]
  /\ stage = [p \in Sessions |-> "none"]
  /\ held = [p \in Sessions |-> NoRecord]
  /\ made = [p \in Sessions |-> NoRecord]
  /\ cursor = [p \in Sessions |-> NoRecord]
  /\ citing = [p \in Sessions |-> <<>>]
  /\ rewrites = 0

Proceed(p, l) == pc' = [pc EXCEPT ![p] = l]
Check(p, holds, l) == Proceed(p, IF holds THEN l ELSE "refused")

-----------------------------------------------------------------------------
(* validate_payload, by schema.                                            *)

CommonValid(r) == r.operation \in Operations /\ r.blockers = Blockers(r.checks)

PayloadValid(r) ==
  /\ CommonValid(r)
  /\ (r.schema = 1) = (r.source = NoRecord)
  /\ r.schema = 1 => \A c \in Residual : r.checks[c] # "satisfied"
  /\ r.schema # 1 => \A c \in Residual : r.checks[c] # "not_implemented"
  /\ r.schema = 2 => r.checks["egress"] # "satisfied"

(* A qualification verifies if it names the capsule that is there now, in  *)
(* its scope, and everything it binds is intact.                           *)
QualificationHolds(q) ==
  /\ q.capsule = capsule
  /\ q.operation = capsule.operation
  /\ q.inputs \in intact /\ capsule.inputs \in intact

-----------------------------------------------------------------------------
(* load_verified and verify_record: a record is checked against the        *)
(* qualification it names, then the record it cites is loaded and verified *)
(* in the same way, and only then compared with the citation.              *)

Load(p, a) ==
  /\ cursor' = [cursor EXCEPT ![p] = admission[a]]
  /\ held' = [held EXCEPT ![p] = admission[a]]
  /\ citing' = [citing EXCEPT ![p] = <<>>]
  /\ Check(p, admission[a] # NoRecord, "walk")

InventoryHolds(r) ==
  QualificationHolds(qual) /\ qual = r.inventory /\ qual.operation = r.operation

Walk(p) ==
  /\ pc[p] = "walk"
  /\ LET r == cursor[p] IN
     \/ /\ ~(PayloadValid(r) /\ InventoryHolds(r))
        /\ Proceed(p, "refused")
        /\ UNCHANGED <<cursor, citing>>
     \/ /\ PayloadValid(r) /\ InventoryHolds(r) /\ r.source = NoRecord
        /\ Proceed(p, "compare")
        /\ UNCHANGED <<cursor, citing>>
     \/ /\ PayloadValid(r) /\ InventoryHolds(r) /\ r.source # NoRecord
        /\ cursor' = [cursor EXCEPT ![p] = admission[r.source.id]]
        /\ citing' = [citing EXCEPT ![p] = Append(@, r)]
        /\ Proceed(p, IF admission[r.source.id] = NoRecord THEN "refused"
                   ELSE IF Len(citing[p]) = MaxDepth THEN "exhausted" ELSE "walk")
  /\ UNCHANGED <<store, asked, stage, held, made, rewrites>>

(* Mutant: the schema of the cited record is not looked at.                *)
Cites_AnySchema(r, cited) ==
  cited = r.source.digest
  /\ cited.inventory = r.inventory /\ cited.operation = r.operation
Cites(r, cited) ==
  /\ cited = r.source.digest
  /\ cited.schema = r.schema - 1
  /\ cited.inventory = r.inventory /\ cited.operation = r.operation

(* The cited record has been verified; back to the one that cites it.      *)
Compare(p) ==
  /\ pc[p] = "compare"
  /\ \/ /\ citing[p] = <<>>
        /\ Proceed(p, IF stage[p] = "source" THEN "probe" ELSE "done")
        /\ UNCHANGED <<cursor, citing>>
     \/ /\ citing[p] # <<>>
        /\ cursor' = [cursor EXCEPT ![p] = Last(citing[p])]
        /\ citing' = [citing EXCEPT ![p] = Front(@)]
        /\ Check(p, Cites(Last(citing[p]), cursor[p]), "compare")
  /\ UNCHANGED <<store, asked, stage, held, made, rewrites>>

-----------------------------------------------------------------------------
Admit(p) ==
  /\ pc[p] = "idle"
  /\ asked' = [asked EXCEPT ![p] = [kind |-> "admit", admission |-> NoRecord]]
  /\ Proceed(p, "inventory")
  /\ UNCHANGED <<store, stage, held, made, cursor, citing, rewrites>>

(* prove-containment, prove-network and verify start from an admission.    *)
Begin(p, kind, a) ==
  /\ pc[p] = "idle"
  /\ asked' = [asked EXCEPT ![p] = [kind |-> kind, admission |-> a]]
  /\ stage' = [stage EXCEPT ![p] = IF kind = "verify" THEN "verify" ELSE "source"]
  /\ Load(p, a)
  /\ UNCHANGED <<store, made, rewrites>>

LoadInventory(p) ==
  /\ pc[p] = "inventory"
  /\ held' = [held EXCEPT ![p] = qual]
  /\ Check(p, QualificationHolds(qual) /\ qual.operation \in Operations, "prove")
  /\ UNCHANGED <<store, asked, stage, made, cursor, citing, rewrites>>

(* The capsule is loaded again and compared with the digest; a check that  *)
(* does not hold is recorded as failed, not an error.                      *)
EvaluateProofs(p) ==
  /\ pc[p] = "prove"
  /\ LET q == held[p] IN
     /\ Check(p, capsule = q.capsule /\ {q.inputs, capsule.inputs} \subseteq intact, "write")
     /\ made' = [made EXCEPT ![p] = Admission(1, NoRecord, q, AdmitChecks(q.inputs))]
  /\ UNCHANGED <<store, asked, stage, held, cursor, citing, rewrites>>

(* Mutant: the new record's own name, which shadows the one it is built on. *)
SourceRef_Own(p, r) == [id |-> p, digest |-> r]
SourceRef(p, r) == [id |-> asked[p].admission, digest |-> r]

(* Both probes: the record is built on the one that was verified, and of   *)
(* its checks only the residual ones are replaced.                         *)
Probe(p) ==
  /\ pc[p] = "probe"
  /\ LET r == held[p]
         network == asked[p].kind = "network"
     IN /\ Check(p, /\ r.schema = IF network THEN 2 ELSE 1
                    /\ QualificationHolds(qual) /\ qual = r.inventory, "write")
        /\ \E egress, limit, job \in BOOLEAN :
             made' = [made EXCEPT ![p] =
               Admission(IF network THEN 3 ELSE 2, SourceRef(p, r), r.inventory,
                         [r.checks EXCEPT !["egress"] = Outcome(network /\ egress),
                                          !["limit"] = Outcome(limit),
                                          !["job"] = Outcome(job)])]
  /\ UNCHANGED <<store, asked, stage, held, cursor, citing, rewrites>>

(* The record is published first and verified then; a command that is      *)
(* refused now leaves it in the registry.                                  *)
PublishAdmission(p) ==
  /\ pc[p] = "write" /\ PayloadValid(made[p])
  /\ admission' = [admission EXCEPT ![p] = made[p]]
  /\ cursor' = [cursor EXCEPT ![p] = made[p]]
  /\ citing' = [citing EXCEPT ![p] = <<>>]
  /\ stage' = [stage EXCEPT ![p] = "written"]
  /\ Proceed(p, "walk")
  /\ UNCHANGED <<capsule, qual, intact, asked, held, made, rewrites>>

-----------------------------------------------------------------------------
(* Other programs rewrite records, each with a right digest of its own.    *)

Variants(r) ==
  {[r EXCEPT !.schema = s] : s \in 1..3} \cup
  {[r EXCEPT !.checks = c, !.blockers = Blockers(c)] :
     c \in {[r.checks EXCEPT !["egress"] = "satisfied"],
            [r.checks EXCEPT !["job"] = "not_implemented"]}} \cup
  {[r EXCEPT !.blockers = {}]} \cup
  {[r EXCEPT !.source = [id |-> a, digest |-> admission[a]]] :
     a \in {x \in AdmissionIds : admission[x] # NoRecord}}

Rewrite ==
  /\ rewrites < MaxRewrites
  /\ rewrites' = rewrites + 1
  /\ \/ \E i \in Inputs \ {capsule.inputs} :
          /\ capsule' = [capsule EXCEPT !.inputs = i]
          /\ UNCHANGED <<qual, intact, admission>>
     \/ \E i \in Inputs :
          /\ qual' = [capsule |-> capsule, operation |-> capsule.operation, inputs |-> i]
          /\ qual' # qual
          /\ UNCHANGED <<capsule, intact, admission>>
     \/ \E i \in intact : intact' = intact \ {i} /\ UNCHANGED <<capsule, qual, admission>>
     \/ \E a \in AdmissionIds :
          /\ admission[a] # NoRecord
          /\ \E r \in Variants(admission[a]) \ {admission[a]} :
               admission' = [admission EXCEPT ![a] = r]
          /\ UNCHANGED <<capsule, qual, intact>>
  /\ UNCHANGED local

AdmissionsNext ==
  \/ \E p \in Sessions :
       \/ Admit(p)
       \/ \E kind \in {"containment", "network", "verify"}, a \in AdmissionIds : Begin(p, kind, a)
       \/ Walk(p) \/ Compare(p)
       \/ LoadInventory(p) \/ EvaluateProofs(p) \/ Probe(p) \/ PublishAdmission(p)
  \/ Rewrite

AdmissionsSpec == AdmissionsInit /\ [][AdmissionsNext]_admissions

-----------------------------------------------------------------------------
(* One record of a chain, and a whole one: there are three schemas, so a   *)
(* chain has at most three records.                                        *)
Link(r) ==
  /\ r.operation \in Operations /\ r.operation = r.inventory.operation
  /\ r.schema = 1 => r.source = NoRecord /\ \A c \in Residual : r.checks[c] # "satisfied"
  /\ r.schema > 1 =>
       /\ r.source.digest.schema = r.schema - 1
       /\ r.source.digest.inventory = r.inventory
Chained(r) ==
  /\ Link(r)
  /\ r.schema > 1 => Link(r.source.digest)
  /\ r.schema > 2 => Link(r.source.digest.source.digest)

(* Whatever a command returns or accepts, of whomever's making, rests on   *)
(* one record of each earlier schema over the same inventory, and only the *)
(* last of them can say that network egress is denied; a command that made *)
(* it claims no check on bytes that its source did not claim.              *)
AcceptedAdmissionsAreChained ==
  \A p \in Sessions : pc[p] = "done" =>
    LET r == IF asked[p].kind = "verify" THEN held[p] ELSE made[p] IN
    /\ Chained(r)
    /\ r.checks["egress"] = "satisfied" => r.schema = 3
    /\ asked[p].kind = "admit" =>
         (r.checks["semantics"] = "satisfied") = Proves[r.inventory.inputs]
    /\ asked[p].kind \in {"containment", "network"} =>
         r.checks["semantics"] = r.source.digest.checks["semantics"]

(* A verification that never ends (in the code, until the stack is         *)
(* exhausted: citations are followed before they are compared) goes round  *)
(* a cycle of records that cite each other, which the commands never make. *)
OnlyCyclesNeverEnd ==
  \A p \in Sessions : pc[p] = "exhausted" =>
    rewrites > 0 /\ \E cycle \in SUBSET {a \in AdmissionIds : admission[a] # NoRecord} :
      /\ cycle # {}
      /\ \A a \in cycle : admission[a].source # NoRecord /\ admission[a].source.id \in cycle
=============================================================================
