----------------------------- MODULE AuditTopology -----------------------------
(***************************************************************************)
(* The order of an audit: `data-contracts validate` accepts a topology     *)
(* only if its steps can be carried out one after the other.  After the    *)
(* shape of the document has been checked, a worklist takes a step whose   *)
(* predecessors have all been taken, until none is left; the document is   *)
(* refused if some step was never taken.                                   *)
(*                                                                         *)
(* Step and plan identifiers are compared by their order only and are      *)
(* numbers here.                                                           *)
(***************************************************************************)
EXTENDS Naturals, Sequences, FiniteSets, Functions

CONSTANT Topologies  \* sequences of steps, as documents may hold them

AuditTopologyStep == [id : Nat, plan : Nat, predecessors : Seq(Nat)]

ASSUME TopologyAssumption == Topologies \subseteq Seq(AuditTopologyStep)

VARIABLES
  topology,
  preds,     \* the predecessors of each step
  inDegree,  \* how many of them have not been taken
  ready,     \* steps all of whose predecessors have been taken
  visited,   \* how many steps have been taken
  position,  \* history: when a step was taken, 0 if it was not
  verdict

topologyVars == <<topology, preds, inDegree, ready, visited, position, verdict>>

StepIds == {topology[i].id : i \in DOMAIN topology}

(* Identifiers in the order a document has to list them, each once.        *)
Ascending(list) == \A m, n \in DOMAIN list : m < n => list[m] < list[n]

(* Steps are ordered by identifier, plans are unique, predecessors are     *)
(* other steps of the document, listed in order and without repetition.    *)
WellFormed ==
  /\ topology # <<>>
  /\ \A i, j \in DOMAIN topology :
       i < j => topology[i].id < topology[j].id /\ topology[i].plan # topology[j].plan
  /\ \A i \in DOMAIN topology :
       /\ Ascending(topology[i].predecessors)
       /\ Range(topology[i].predecessors) \subseteq StepIds \ {topology[i].id}

Empty == [s \in {} |-> 0]

TopologyInit ==
  /\ topology \in Topologies
  /\ preds = Empty
  /\ inDegree = Empty
  /\ ready = {}
  /\ visited = 0
  /\ position = Empty
  /\ verdict = "unread"

Refuse ==
  /\ verdict = "unread" /\ ~WellFormed
  /\ verdict' = "refused"
  /\ UNCHANGED <<topology, preds, inDegree, ready, visited, position>>

(* The predecessors listed for step s.                                     *)
Listed(s) ==
  LET i == CHOOSE i \in DOMAIN topology : topology[i].id = s
  IN topology[i].predecessors

Predecessors == [s \in StepIds |-> Range(Listed(s))]

(* A step waits for as many others as its list is long.                    *)
Count ==
  /\ verdict = "unread" /\ WellFormed
  /\ verdict' = "walking"
  /\ preds' = Predecessors
  /\ inDegree' = [s \in StepIds |-> Len(Listed(s))]
  /\ ready' = {s \in StepIds : Len(Listed(s)) = 0}
  /\ position' = [s \in StepIds |-> 0]
  /\ UNCHANGED <<topology, visited>>

(* Mutant: every successor of a step that was taken becomes ready.         *)
Visit_AnySuccessor(s) ==
  /\ verdict = "walking"
  /\ s \in ready /\ \A t \in ready : s <= t
  /\ visited' = visited + 1
  /\ position' = [position EXCEPT ![s] = visited + 1]
  /\ inDegree' = [t \in DOMAIN inDegree |-> IF s \in preds[t] THEN inDegree[t] - 1
                                                              ELSE inDegree[t]]
  /\ ready' = (ready \ {s}) \cup {t \in DOMAIN inDegree : s \in preds[t] /\ position[t] = 0}
  /\ UNCHANGED <<topology, preds, verdict>>

(* The first ready step is taken, and each of its successors has one       *)
(* predecessor fewer to wait for.                                          *)
Visit(s) ==
  /\ verdict = "walking"
  /\ s \in ready /\ \A t \in ready : s <= t
  /\ visited' = visited + 1
  /\ position' = [position EXCEPT ![s] = visited + 1]
  /\ inDegree' = [t \in DOMAIN inDegree |-> IF s \in preds[t] THEN inDegree[t] - 1
                                                              ELSE inDegree[t]]
  /\ ready' = (ready \ {s}) \cup {t \in DOMAIN inDegree : s \in preds[t] /\ inDegree[t] = 1}
  /\ UNCHANGED <<topology, preds, verdict>>

Decide ==
  /\ verdict = "walking" /\ ready = {}
  /\ verdict' = IF visited = Cardinality(DOMAIN preds) THEN "accepted" ELSE "refused"
  /\ UNCHANGED <<topology, preds, inDegree, ready, visited, position>>

TopologyNext ==
  \/ Refuse
  \/ Count
  \/ \E s \in DOMAIN preds : Visit(s)
  \/ Decide

TopologySpec == TopologyInit /\ [][TopologyNext]_topologyVars

-----------------------------------------------------------------------------
(* An accepted topology can be carried out in the order in which the       *)
(* worklist took its steps: every predecessor came before.                 *)
AcceptedTopologiesAreOrdered ==
  verdict = "accepted" =>
    \A s \in DOMAIN preds : \A p \in preds[s] : position[p] < position[s]

(* The verdict is right either way: a topology is accepted if and only if  *)
(* its document has the right shape (the order and uniqueness of every     *)
(* list included) and its steps can be numbered so that predecessors come  *)
(* first; no count of waiting predecessors underflows.                     *)
TheVerdictIsRight ==
  /\ \A s \in DOMAIN inDegree : inDegree[s] \in Nat
  /\ verdict \in {"accepted", "refused"} =>
       LET n == Len(topology)
           orderable ==
             \E rank \in [DOMAIN topology -> 1..n] :
               \A i, j \in DOMAIN topology :
                 topology[j].id \in Range(topology[i].predecessors) => rank[j] < rank[i]
       IN (verdict = "accepted") = (WellFormed /\ orderable)
=============================================================================
