------------------------------ MODULE ReaderProofs ------------------------------
(***************************************************************************)
(* What the readers of files make of them, proved for files of every size. *)
(*                                                                         *)
(* The verdict on an audit topology is right: the worklist keeps its       *)
(* counters right (WalkInv), so that what it accepts is in the order it    *)
(* was taken, and what it refuses has no step among those left that could  *)
(* come first.  Accepted executables import what a loader finds, accepted  *)
(* wheels are closed.  The archive of a working tree and its digest are    *)
(* laid out entry by entry (Laid): the first entry in which two trees      *)
(* differ shows in their streams (StreamsTell), and so what is parsed and  *)
(* verified is what was planned (TreesInv).                                *)
(***************************************************************************)
EXTENDS AuditTopology, Readers, TreeArchive, FiniteSetTheorems,
  SequenceTheorems, WellFoundedInduction, TLAPS

(* Every nonempty set of natural numbers has a least element.              *)
LEMMA LeastNumber ==
  ASSUME NEW T, T \subseteq Nat, T # {}
  PROVE  \E n \in T : \A m \in T : n <= m
<1> DEFINE Below == {1..n : n \in T}
<1>1. Below \subseteq FiniteSubsetsOf(Nat)
  <2>1. \A n \in T : n \in Nat /\ 1..n \in SUBSET Nat /\ IsFiniteSet(1..n)
    BY FS_Interval
  <2> QED BY <2>1 DEF FiniteSubsetsOf
<1>2. Below # {}
  OBVIOUS
<1>3. PICK x \in Below : \A y \in Below : <<y, x>> \notin StrictSubsetOrdering(Nat)
  BY <1>1, <1>2, FS_StrictSubsetOrderingWellFounded, WFMin
<1>4. PICK n \in T : x = 1..n
  BY <1>3
<1>5. ASSUME NEW m \in T, m < n
      PROVE  FALSE
  <2>1. 1..m \subseteq 1..n /\ n \in 1..n /\ n \notin 1..m
    BY <1>5
  <2>2. 1..m \in SUBSET Nat /\ 1..n \in SUBSET Nat
    OBVIOUS
  <2>3. <<1..m, 1..n>> \in StrictSubsetOrdering(Nat)
    BY <2>1, <2>2 DEF StrictSubsetOrdering
  <2> QED BY <1>3, <1>4, <2>3
<1> QED BY <1>4, <1>5

-----------------------------------------------------------------------------
(* The audit topology.                                                     *)

Taken == {s \in DOMAIN preds : position[s] # 0}
Waiting(s) == {p \in preds[s] : position[p] = 0}

(* The types the proof needs, once the steps have been counted.            *)
WalkType ==
  /\ IsFiniteSet(DOMAIN preds)
  /\ \A s \in DOMAIN preds : preds[s] \subseteq DOMAIN preds
  /\ DOMAIN inDegree = DOMAIN preds
  /\ position \in [DOMAIN preds -> Nat]
  /\ visited \in Nat

(* The counters are right: each step counts its predecessors that were not *)
(* taken, ready are the steps that wait for none, and visited counts the   *)
(* steps that were taken; those were taken after their predecessors.       *)
WalkInv ==
  /\ WalkType
  /\ WellFormed /\ preds = Predecessors
  /\ \A s \in DOMAIN preds : inDegree[s] = Cardinality(Waiting(s))
  /\ ready = {s \in DOMAIN preds : position[s] = 0 /\ Waiting(s) = {}}
  /\ \A s \in DOMAIN preds : position[s] <= visited
  /\ visited = Cardinality(Taken)
  /\ \A s \in Taken : \A p \in preds[s] : position[p] # 0 /\ position[p] < position[s]

TopologyInv ==
  /\ verdict \in {"unread", "refused", "walking", "accepted"}
  /\ verdict = "unread" => visited = 0 /\ inDegree = Empty
  /\ verdict \in {"walking", "accepted"} => WalkInv
  /\ verdict = "accepted" => Taken = DOMAIN preds
  /\ verdict = "refused" =>
       \/ ~WellFormed /\ inDegree = Empty
       \/ WalkInv /\ ready = {} /\ Taken # DOMAIN preds

-----------------------------------------------------------------------------
(* A document has finitely many steps.                                     *)
LEMMA StepIdsFinite ==
  ASSUME NEW t \in Seq(AuditTopologyStep)
  PROVE  IsFiniteSet({t[i].id : i \in DOMAIN t})
<1> DEFINE S == {t[i].id : i \in DOMAIN t}
<1> DEFINE f == [i \in DOMAIN t |-> t[i].id]
<1>1. IsFiniteSet(DOMAIN t)
  <2>1. DOMAIN t = 1..Len(t) /\ Len(t) \in Nat
    OBVIOUS
  <2> QED BY <2>1, FS_Interval
<1>2. f \in Surjection(DOMAIN t, S)
  BY DEF Surjection
<1> QED BY <1>1, <1>2, FS_Surjection

(* The shape of a document does not change while the document does not.    *)
LEMMA SameTopology ==
  ASSUME topology' = topology
  PROVE  /\ StepIds' = StepIds
         /\ WellFormed' <=> WellFormed
         /\ Predecessors' = Predecessors
<1>1. StepIds' = StepIds
  BY DEF StepIds
<1>2. WellFormed' <=> WellFormed
  BY <1>1 DEF WellFormed, Ascending, Range
<1>3. \A s : Listed(s)' = Listed(s)
  BY DEF Listed
<1>4. Predecessors' = Predecessors
  BY <1>1, <1>3 DEF Predecessors, Range
<1> QED BY <1>1, <1>2, <1>4

(* A list in order is as long as it has members.                           *)
LEMMA AscendingLength ==
  ASSUME NEW list \in Seq(Nat), Ascending(list)
  PROVE  /\ IsFiniteSet(Range(list))
         /\ Cardinality(Range(list)) = Len(list)
         /\ Len(list) \in Nat
<1>1. DOMAIN list = 1..Len(list) /\ Len(list) \in Nat /\ \A m \in DOMAIN list : list[m] \in Nat
  OBVIOUS
<1>2. \A m, n \in DOMAIN list : list[m] = list[n] => m = n
  <2>1. \A m, n \in DOMAIN list : m < n \/ n < m \/ m = n
    BY <1>1
  <2> QED BY <1>1, <2>1 DEF Ascending
<1>3. [m \in 1..Len(list) |-> list[m]] \in Bijection(1..Len(list), Range(list))
  BY <1>1, <1>2 DEF Bijection, Injection, Surjection, IsInjective, Range
<1>4. IsFiniteSet(1..Len(list)) /\ Cardinality(1..Len(list)) = Len(list)
  <2>1. /\ IsFiniteSet(1..Len(list))
        /\ Cardinality(1..Len(list)) = IF 1 > Len(list) THEN 0 ELSE Len(list) - 1 + 1
    BY <1>1, FS_Interval
  <2> QED BY <1>1, <2>1
<1>5. ExistsBijection(1..Len(list), Range(list))
  BY <1>3 DEF ExistsBijection
<1> QED BY <1>1, <1>4, <1>5, FS_Bijection

(* A step of a document of the right shape is identified by its id.        *)
LEMMA StepsAreIdentified ==
  ASSUME topology \in Seq(AuditTopologyStep), WellFormed, NEW i \in DOMAIN topology
  PROVE  /\ Listed(topology[i].id) = topology[i].predecessors
         /\ Predecessors[topology[i].id] = Range(topology[i].predecessors)
         /\ topology[i].id \in StepIds
         /\ topology[i].predecessors \in Seq(Nat)
         /\ Ascending(topology[i].predecessors)
         /\ Range(topology[i].predecessors) \subseteq StepIds
<1>1. /\ DOMAIN topology = 1..Len(topology) /\ Len(topology) \in Nat
      /\ \A j \in DOMAIN topology : topology[j].id \in Nat
      /\ topology[i].predecessors \in Seq(Nat)
  <2>1. \A j \in 1..Len(topology) : topology[j] \in AuditTopologyStep
    OBVIOUS
  <2>2. DOMAIN topology = 1..Len(topology) /\ Len(topology) \in Nat
    OBVIOUS
  <2> QED BY <2>1, <2>2 DEF AuditTopologyStep
<1>2. \A j \in DOMAIN topology : topology[j].id = topology[i].id => j = i
  BY <1>1 DEF WellFormed
<1>3. /\ topology[i].id \in StepIds
      /\ Ascending(topology[i].predecessors)
      /\ Range(topology[i].predecessors) \subseteq StepIds
  BY DEF WellFormed, StepIds
<1>4. Listed(topology[i].id) = topology[i].predecessors
  <2>1. (CHOOSE j \in DOMAIN topology : topology[j].id = topology[i].id) = i
    BY <1>2
  <2> QED BY <2>1 DEF Listed
<1>5. Predecessors[topology[i].id] = Range(topology[i].predecessors)
  BY <1>3, <1>4 DEF Predecessors
<1> QED BY <1>1, <1>3, <1>4, <1>5

(* Every step waits for as many others as its list is long.                *)
LEMMA ListsAreCounted ==
  ASSUME topology \in Seq(AuditTopologyStep), WellFormed, NEW s \in StepIds
  PROVE  /\ Predecessors[s] \subseteq StepIds
         /\ Cardinality(Predecessors[s]) = Len(Listed(s))
         /\ Len(Listed(s)) = 0 <=> Predecessors[s] = {}
<1>1. PICK i \in DOMAIN topology : topology[i].id = s
  BY DEF StepIds
<1>2. Cardinality(Predecessors[s]) = Len(Listed(s)) /\ IsFiniteSet(Predecessors[s])
  BY <1>1, StepsAreIdentified, AscendingLength
<1> QED BY <1>1, <1>2, StepsAreIdentified, FS_EmptySet

(* A worklist step makes the counters right again.                         *)
LEMMA VisitKeepsWalkInv ==
  ASSUME WalkInv, NEW s \in DOMAIN preds, Visit(s)
  PROVE  WalkInv'
<1> USE DEF WalkInv, WalkType
<1>0. /\ preds' = preds
      /\ s \in ready /\ position[s] = 0 /\ Waiting(s) = {}
      /\ visited' = visited + 1 /\ visited \in Nat
      /\ position' = [position EXCEPT ![s] = visited + 1]
  BY DEF Visit
<1>1. WalkType'
  <2>1. position' \in [DOMAIN preds -> Nat]
    BY <1>0
  <2> QED BY <1>0, <2>1 DEF Visit
<1>2. ASSUME NEW t \in DOMAIN preds
      PROVE  /\ Waiting(t)' = Waiting(t) \ {s}
             /\ IsFiniteSet(Waiting(t))
             /\ s \in Waiting(t) <=> s \in preds[t]
  <2>1. \A p \in DOMAIN preds : position'[p] = 0 <=> position[p] = 0 /\ p # s
    BY <1>0
  <2>2. Waiting(t) \in SUBSET DOMAIN preds
    BY DEF Waiting
  <2> QED BY <1>0, <2>1, <2>2, FS_Subset DEF Waiting
<1>3. ASSUME NEW t \in DOMAIN preds
      PROVE  inDegree'[t] = Cardinality(Waiting(t)')
  <2>1. Cardinality(Waiting(t) \ {s}) =
          IF s \in Waiting(t) THEN Cardinality(Waiting(t)) - 1 ELSE Cardinality(Waiting(t))
    BY <1>2, FS_RemoveElement
  <2>2. inDegree'[t] = IF s \in preds[t] THEN inDegree[t] - 1 ELSE inDegree[t]
    BY DEF Visit
  <2> QED BY <1>2, <2>1, <2>2
<1>4. ASSUME NEW t \in DOMAIN preds
      PROVE  t \in ready' <=> position'[t] = 0 /\ Waiting(t)' = {}
  <2>1. t \in ready' <=> t \in ready \ {s} \/ (s \in preds[t] /\ inDegree[t] = 1)
    BY DEF Visit
  <2>2. CASE s \notin preds[t]
    <3>1. Waiting(t)' = Waiting(t)
      BY <1>2, <2>2
    <3> QED BY <1>0, <2>1, <2>2, <3>1
  <2>3. CASE s \in preds[t]
    <3>1. s \in Waiting(t) /\ IsFiniteSet(Waiting(t)) /\ Waiting(t)' = Waiting(t) \ {s}
      BY <1>2, <2>3
    <3>2. t # s /\ position[t] = 0 /\ t \notin ready
      <4>1. position[s] = 0 /\ Waiting(t) # {} /\ Waiting(s) = {}
        BY <1>0, <3>1
      <4>2. t \notin Taken
        BY <2>3, <4>1 DEF Taken
      <4> QED BY <4>1, <4>2 DEF Taken
    <3>3. inDegree[t] = 1 <=> \E x : Waiting(t) = {x}
      BY <3>1, FS_Singleton
    <3>4. (\E x : Waiting(t) = {x}) <=> Waiting(t) \ {s} = {}
      BY <3>1
    <3>5. inDegree[t] = 1 <=> Waiting(t)' = {}
      BY <3>1, <3>3, <3>4
    <3> QED BY <1>0, <2>1, <2>3, <3>2, <3>5
  <2> QED BY <2>2, <2>3
<1>5. ready' = {t \in DOMAIN preds : position'[t] = 0 /\ Waiting(t)' = {}}
  <2>1. ready' \subseteq DOMAIN preds
    BY DEF Visit
  <2> QED BY <1>4, <2>1
<1>6. \A t \in DOMAIN preds : position'[t] <= visited'
  BY <1>0
<1>7. Taken' = Taken \cup {s} /\ s \notin Taken /\ IsFiniteSet(Taken)
  <2>1. Taken \in SUBSET DOMAIN preds
    BY DEF Taken
  <2> QED BY <1>0, <2>1, FS_Subset DEF Taken
<1>8. visited' = Cardinality(Taken')
  BY <1>0, <1>7, FS_AddElement
<1>9. ASSUME NEW t \in Taken', NEW p \in preds'[t]
      PROVE  position'[p] # 0 /\ position'[p] < position'[t]
  <2>1. CASE t = s
    <3>1. position[p] # 0 /\ p # s /\ p \in DOMAIN preds
      BY <1>0, <2>1 DEF Waiting
    <3> QED BY <1>0, <2>1, <3>1
  <2>2. CASE t \in Taken
    BY <1>0, <1>7, <2>2 DEF Taken
  <2> QED BY <1>7, <2>1, <2>2
<1>10. WellFormed' /\ preds' = Predecessors'
  BY SameTopology DEF Visit
<1> QED BY <1>0, <1>1, <1>3, <1>5, <1>6, <1>8, <1>9, <1>10

(* When the worklist starts, no step has been taken.                       *)
LEMMA CountStartsWalkInv ==
  ASSUME topology \in Seq(AuditTopologyStep), visited = 0, Count
  PROVE  WalkInv'
<1>1. preds' = Predecessors /\ DOMAIN Predecessors = StepIds
  BY DEF Count, Predecessors
<1>2. \A s \in StepIds : /\ Predecessors[s] \subseteq StepIds
                         /\ Cardinality(Predecessors[s]) = Len(Listed(s))
                         /\ Len(Listed(s)) = 0 <=> Predecessors[s] = {}
  BY ListsAreCounted DEF Count
<1>3. IsFiniteSet(StepIds)
  BY StepIdsFinite DEF StepIds
<1>4. /\ inDegree' = [s \in StepIds |-> Len(Listed(s))]
      /\ ready' = {s \in StepIds : Len(Listed(s)) = 0}
      /\ position' = [s \in StepIds |-> 0]
      /\ visited' = 0
  BY DEF Count
<1>5. WalkType'
  BY <1>1, <1>2, <1>3, <1>4 DEF WalkType
<1>6. \A s \in StepIds : Waiting(s)' = Predecessors[s]
  BY <1>1, <1>2, <1>4 DEF Waiting
<1>7. Taken' = {} /\ Cardinality(Taken') = 0
  BY <1>1, <1>4, FS_EmptySet DEF Taken
<1>8. WellFormed' /\ preds' = Predecessors'
  BY SameTopology DEF Count
<1> QED BY <1>1, <1>2, <1>4, <1>5, <1>6, <1>7, <1>8 DEF WalkInv

(* Nothing else disturbs the counters.                                     *)
LEMMA StutterKeepsWalkInv ==
  ASSUME WalkInv, UNCHANGED <<topology, preds, inDegree, ready, visited, position>>
  PROVE  WalkInv' /\ Taken' = Taken
<1>1. WellFormed' /\ Predecessors' = Predecessors
  BY SameTopology DEF WalkInv
<1>2. WalkType' /\ Taken' = Taken
  BY DEF WalkInv, WalkType, Taken
<1>3. \A s \in DOMAIN preds : Waiting(s)' = Waiting(s)
  BY DEF Waiting
<1> QED BY <1>1, <1>2, <1>3 DEF WalkInv

(* Every step keeps the invariant of the worklist.                         *)
LEMMA TopologyStepKeeps == TopologyInv /\ topology \in Topologies /\ [TopologyNext]_topologyVars => TopologyInv'
<1> SUFFICES ASSUME TopologyInv, topology \in Topologies, [TopologyNext]_topologyVars
             PROVE  TopologyInv'
  OBVIOUS
<1>1. CASE Refuse
  BY <1>1, SameTopology DEF Refuse, TopologyInv
<1>2. CASE Count
  BY <1>2, CountStartsWalkInv, TopologyAssumption DEF Count, TopologyInv
<1>3. ASSUME NEW s \in DOMAIN preds, Visit(s)
      PROVE  TopologyInv'
  BY <1>3, VisitKeepsWalkInv DEF Visit, TopologyInv
<1>4. CASE Decide
  <2>1. /\ WalkInv /\ ready = {}
        /\ UNCHANGED <<topology, preds, inDegree, ready, visited, position>>
        /\ verdict' = IF visited = Cardinality(DOMAIN preds) THEN "accepted" ELSE "refused"
    BY <1>4 DEF Decide, TopologyInv
  <2>2. WalkInv' /\ ready' = {} /\ Taken' = Taken
    BY <2>1, StutterKeepsWalkInv
  <2>3. Taken = DOMAIN preds <=> visited = Cardinality(DOMAIN preds)
    <3>1. Taken \in SUBSET DOMAIN preds
      BY DEF Taken
    <3> QED BY <2>1, <3>1, FS_Subset DEF WalkInv, WalkType
  <2> QED BY <2>1, <2>2, <2>3 DEF TopologyInv
<1>5. CASE UNCHANGED topologyVars
  <2>1. UNCHANGED <<topology, preds, inDegree, ready, visited, position, verdict>>
    BY <1>5 DEF topologyVars
  <2>2. WellFormed' <=> WellFormed
    BY <2>1, SameTopology
  <2>3. WalkInv => WalkInv' /\ Taken' = Taken
    BY <2>1, StutterKeepsWalkInv
  <2> QED BY <2>1, <2>2, <2>3 DEF TopologyInv, Taken, Empty
<1> QED BY <1>1, <1>2, <1>3, <1>4, <1>5 DEF TopologyNext

-----------------------------------------------------------------------------
Orders(rank) ==
  \A i, j \in DOMAIN topology : topology[j].id \in Range(topology[i].predecessors) => rank[j] < rank[i]

(* The order in which all steps were taken numbers them.                   *)
LEMMA TakenIsOrdered ==
  ASSUME topology \in Seq(AuditTopologyStep), WalkInv, Taken = DOMAIN preds
  PROVE  \E rank \in [DOMAIN topology -> 1..Len(topology)] : Orders(rank)
<1> DEFINE rank == [i \in DOMAIN topology |-> position[topology[i].id]]
<1>1. DOMAIN preds = StepIds /\ preds = Predecessors /\ WellFormed
  BY DEF WalkInv, Predecessors
<1>2. Len(topology) \in Nat /\ DOMAIN topology = 1..Len(topology)
  OBVIOUS
<1>3. visited <= Len(topology)
  <2> DEFINE f == [i \in DOMAIN topology |-> topology[i].id]
  <2>1. f \in Surjection(DOMAIN topology, StepIds)
    BY DEF Surjection, StepIds
  <2>2. ExistsSurjection(1..Len(topology), StepIds)
    BY <1>2, <2>1 DEF ExistsSurjection
  <2>3. Cardinality(StepIds) <= Len(topology)
    BY <1>2, <2>2, FS_SurjCardinalityBound
  <2> QED BY <1>1, <2>3 DEF WalkInv
<1>4. \A i \in DOMAIN topology : position[topology[i].id] \in 1..Len(topology)
  <2>1. ASSUME NEW i \in DOMAIN topology
        PROVE  position[topology[i].id] \in 1..Len(topology)
    <3>1. topology[i].id \in Taken
      BY <1>1, StepsAreIdentified
    <3> QED BY <1>2, <1>3, <3>1 DEF Taken, WalkInv, WalkType
  <2> QED BY <2>1
<1>5. rank \in [DOMAIN topology -> 1..Len(topology)]
  BY <1>4
<1>6. ASSUME NEW i \in DOMAIN topology, NEW j \in DOMAIN topology,
             topology[j].id \in Range(topology[i].predecessors)
      PROVE  rank[j] < rank[i]
  <2>1. topology[j].id \in preds[topology[i].id] /\ topology[i].id \in Taken
    BY <1>1, <1>6, StepsAreIdentified
  <2> QED BY <2>1 DEF WalkInv
<1> QED BY <1>5, <1>6 DEF Orders

(* Of the steps that wait for one another none could come first.           *)
LEMMA LeftIsUnorderable ==
  ASSUME topology \in Seq(AuditTopologyStep), WalkInv, ready = {}, Taken # DOMAIN preds,
         NEW rank \in [DOMAIN topology -> 1..Len(topology)], Orders(rank)
  PROVE  FALSE
<1>1. DOMAIN preds = StepIds /\ preds = Predecessors /\ WellFormed
  BY DEF WalkInv, Predecessors
<1> DEFINE Left == {i \in DOMAIN topology : topology[i].id \notin Taken}
           T == {rank[i] : i \in Left}
<1>2. Len(topology) \in Nat /\ T \subseteq Nat /\ T # {}
  <2>1. Len(topology) \in Nat /\ \A i \in DOMAIN topology : rank[i] \in Nat
    OBVIOUS
  <2>2. PICK s \in StepIds : s \notin Taken
    BY <1>1 DEF Taken
  <2>3. PICK i \in DOMAIN topology : topology[i].id = s
    BY <2>2 DEF StepIds
  <2> QED BY <2>1, <2>2, <2>3
<1>3. PICK i \in Left : \A j \in Left : rank[i] <= rank[j]
  <2>1. PICK n \in T : \A m \in T : n <= m
    BY <1>2, LeastNumber
  <2> QED BY <2>1
<1>4. topology[i].id \in StepIds /\ position[topology[i].id] = 0
  BY <1>1, StepsAreIdentified DEF Taken
<1>5. PICK p \in Waiting(topology[i].id) : TRUE
  BY <1>1, <1>4 DEF WalkInv
<1>6. p \in Range(topology[i].predecessors) /\ p \in StepIds /\ position[p] = 0
  BY <1>1, <1>5, StepsAreIdentified DEF Waiting
<1>7. PICK j \in DOMAIN topology : topology[j].id = p
  BY <1>6 DEF StepIds
<1>8. j \in Left /\ rank[j] < rank[i]
  BY <1>6, <1>7 DEF Orders, Taken
<1>9. rank[i] <= rank[j] /\ rank[i] \in Nat /\ rank[j] \in Nat
  BY <1>2, <1>3, <1>8
<1> QED BY <1>8, <1>9

-----------------------------------------------------------------------------
(* The counters of data_contract_validation::validate_audit_topology stay  *)
(* right throughout: no degree ever goes below zero, none is lost.         *)
THEOREM WorklistIsCounted == TopologySpec => [](TopologyInv /\ topology \in Topologies)
<1>1. TopologyInit => TopologyInv /\ topology \in Topologies
  BY DEF TopologyInit, TopologyInv
<1>2. topology \in Topologies /\ [TopologyNext]_topologyVars => (topology \in Topologies)'
  BY DEF TopologyNext, topologyVars, Refuse, Count, Visit, Decide
<1> QED BY <1>1, <1>2, TopologyStepKeeps, PTL DEF TopologySpec

(* A topology that is accepted, of any size, can be carried out in the     *)
(* order in which the worklist took its steps.                             *)
THEOREM AcceptedIsOrdered == TopologySpec => []AcceptedTopologiesAreOrdered
<1>1. TopologyInv => AcceptedTopologiesAreOrdered
  BY DEF TopologyInv, WalkInv, AcceptedTopologiesAreOrdered
<1> QED BY <1>1, WorklistIsCounted, PTL

(* A topology of any size is accepted if and only if it has the right      *)
(* shape and its steps can be ordered.                                     *)
THEOREM VerdictIsRight == TopologySpec => []TheVerdictIsRight
<1>1. ASSUME TopologyInv, topology \in Topologies
      PROVE  TheVerdictIsRight
  <2> USE TopologyAssumption
  <2>1. \A s \in DOMAIN inDegree : inDegree[s] \in Nat
    <3>1. CASE inDegree = Empty
      BY <3>1 DEF Empty
    <3>2. CASE WalkInv
      <4>1. \A s \in DOMAIN preds : IsFiniteSet(Waiting(s))
        <5>1. \A s \in DOMAIN preds : Waiting(s) \in SUBSET DOMAIN preds
          BY <3>2 DEF WalkInv, WalkType, Waiting
        <5> QED BY <3>2, <5>1, FS_Subset DEF WalkInv, WalkType
      <4> QED BY <3>2, <4>1, FS_CardinalityType DEF WalkInv, WalkType
    <3> QED BY <1>1, <3>1, <3>2 DEF TopologyInv
  <2>2. CASE verdict = "accepted"
    <3>1. WellFormed /\ \E rank \in [DOMAIN topology -> 1..Len(topology)] : Orders(rank)
      BY <1>1, <2>2, TakenIsOrdered DEF TopologyInv, WalkInv
    <3> QED BY <2>1, <2>2, <3>1 DEF TheVerdictIsRight, Orders
  <2>3. CASE verdict = "refused"
    <3>1. ~(WellFormed /\ \E rank \in [DOMAIN topology -> 1..Len(topology)] : Orders(rank))
      BY <1>1, <2>3, LeftIsUnorderable DEF TopologyInv
    <3> QED BY <2>1, <2>3, <3>1 DEF TheVerdictIsRight, Orders
  <2> QED BY <2>1, <2>2, <2>3 DEF TheVerdictIsRight
<1> QED BY <1>1, WorklistIsCounted, PTL

-----------------------------------------------------------------------------
(* The readers.                                                            *)

(* The least number of a set, as the model names it.                       *)
LEMMA LeastIsMin ==
  ASSUME NEW S \in SUBSET Nat, S # {}
  PROVE  Min(S) \in S /\ \A n \in S : Min(S) <= n
<1> DEFINE Below == {1..n : n \in S}
<1>1. Below \subseteq FiniteSubsetsOf(Nat) /\ Below # {}
  <2>1. \A n \in S : n \in Nat /\ 1..n \in SUBSET Nat /\ IsFiniteSet(1..n)
    BY FS_Interval
  <2> QED BY <2>1 DEF FiniteSubsetsOf
<1>2. PICK x \in Below : \A y \in Below : <<y, x>> \notin StrictSubsetOrdering(Nat)
  BY <1>1, FS_StrictSubsetOrderingWellFounded, WFMin
<1>3. PICK n \in S : x = 1..n
  BY <1>2
<1>4. ASSUME NEW m \in S, m < n PROVE FALSE
  <2>1. 1..m \subseteq 1..n /\ n \in 1..n /\ n \notin 1..m
    BY <1>4
  <2>2. <<1..m, 1..n>> \in StrictSubsetOrdering(Nat)
    BY <2>1 DEF StrictSubsetOrdering
  <2> QED BY <1>2, <1>3, <2>2
<1>5. \A m \in S : n <= m
  BY <1>4
<1> QED BY <1>5 DEF Min

(* RECORD lines that hold, and files that are all listed, are one and the  *)
(* same set of files.                                                      *)
LEMMA ClosureIsExact ==
  ASSUME NEW members \in Seq(Member), NEW record \in Seq(RecordEntry),
         NEW installed \in Seq(RecordEntry)
  PROVE  ProveWheelRecordClosure(members, record, installed) <=>
           /\ FoldedUnique(members) /\ FoldedUnique(record) /\ FoldedUnique(installed)
           /\ \E i \in DOMAIN members : members[i].path.record
           /\ record # <<>> /\ installed # <<>>
           /\ FilesOf(record) = FilesIn(members)
           /\ FilesOf(record) = FilesOf(installed)
<1>1. ASSUME FoldedUnique(members), FoldedUnique(installed),
             \A i \in DOMAIN record :
               ~record[i].path.record => EntryHolds(record[i], members, installed),
             InstalledListed(installed, record), MembersListed(members, record)
      PROVE  FilesOf(record) = FilesIn(members) /\ FilesOf(record) = FilesOf(installed)
  <2>1. ASSUME NEW f \in FilesOf(record) PROVE f \in FilesIn(members) /\ f \in FilesOf(installed)
    <3>1. PICK i \in DOMAIN record :
            ~record[i].path.record /\ f = <<record[i].path, record[i].hash, record[i].size>>
      BY DEF FilesOf
    <3>2. PICK j \in DOMAIN members :
            /\ members[j].path = record[i].path
            /\ SizeOf[members[j].content] = record[i].size
            /\ members[j].content = record[i].hash
      BY <1>1, <3>1 DEF EntryHolds
    <3>3. PICK k \in DOMAIN installed :
            /\ installed[k].path = record[i].path
            /\ installed[k].hash = record[i].hash /\ installed[k].size = record[i].size
      BY <1>1, <3>1 DEF EntryHolds
    <3> QED BY <3>1, <3>2, <3>3 DEF FilesIn, FilesOf
  <2>2. ASSUME NEW f \in FilesIn(members) PROVE f \in FilesOf(record)
    <3>1. PICK i \in DOMAIN members :
            /\ ~members[i].path.record
            /\ f = <<members[i].path, members[i].content, SizeOf[members[i].content]>>
      BY DEF FilesIn
    <3>2. PICK j \in DOMAIN record : record[j].path = members[i].path
      BY <1>1, <3>1 DEF MembersListed
    <3>3. PICK k \in DOMAIN members :
            /\ members[k].path = record[j].path
            /\ SizeOf[members[k].content] = record[j].size
            /\ members[k].content = record[j].hash
      BY <1>1, <3>1, <3>2 DEF EntryHolds
    <3>4. k = i
      BY <1>1, <3>2, <3>3 DEF FoldedUnique
    <3> QED BY <3>1, <3>2, <3>3, <3>4 DEF FilesOf
  <2>3. ASSUME NEW f \in FilesOf(installed) PROVE f \in FilesOf(record)
    <3>1. PICK i \in DOMAIN installed :
            /\ ~installed[i].path.record
            /\ f = <<installed[i].path, installed[i].hash, installed[i].size>>
      BY DEF FilesOf
    <3>2. PICK j \in DOMAIN record : record[j].path = installed[i].path
      BY <1>1, <3>1 DEF InstalledListed
    <3>3. PICK k \in DOMAIN installed :
            /\ installed[k].path = record[j].path
            /\ installed[k].hash = record[j].hash /\ installed[k].size = record[j].size
      BY <1>1, <3>1, <3>2 DEF EntryHolds
    <3>4. k = i
      BY <1>1, <3>2, <3>3 DEF FoldedUnique
    <3> QED BY <3>1, <3>2, <3>3, <3>4 DEF FilesOf
  <2> QED BY <2>1, <2>2, <2>3
<1>2. ASSUME FilesOf(record) = FilesIn(members), FilesOf(record) = FilesOf(installed)
      PROVE  /\ \A i \in DOMAIN record :
                  ~record[i].path.record => EntryHolds(record[i], members, installed)
             /\ InstalledListed(installed, record) /\ MembersListed(members, record)
  <2>1. ASSUME NEW i \in DOMAIN record, ~record[i].path.record
        PROVE  EntryHolds(record[i], members, installed)
    <3> DEFINE f == <<record[i].path, record[i].hash, record[i].size>>
    <3>1. f \in FilesIn(members) /\ f \in FilesOf(installed)
      BY <1>2, <2>1 DEF FilesOf
    <3>2. PICK j \in DOMAIN members :
            f = <<members[j].path, members[j].content, SizeOf[members[j].content]>>
      BY <3>1 DEF FilesIn
    <3>3. PICK k \in DOMAIN installed :
            f = <<installed[k].path, installed[k].hash, installed[k].size>>
      BY <3>1 DEF FilesOf
    <3> QED BY <3>2, <3>3 DEF EntryHolds
  <2>2. ASSUME NEW i \in DOMAIN installed, ~installed[i].path.record
        PROVE  \E j \in DOMAIN record : record[j].path = installed[i].path
    <3>1. <<installed[i].path, installed[i].hash, installed[i].size>> \in FilesOf(record)
      BY <1>2, <2>2 DEF FilesOf
    <3> QED BY <3>1 DEF FilesOf
  <2>3. ASSUME NEW i \in DOMAIN members, ~members[i].path.record
        PROVE  \E j \in DOMAIN record : record[j].path = members[i].path
    <3>1. <<members[i].path, members[i].content, SizeOf[members[i].content]>> \in FilesOf(record)
      BY <1>2, <2>3 DEF FilesIn
    <3> QED BY <3>1 DEF FilesOf
  <2> QED BY <2>1, <2>2, <2>3 DEF InstalledListed, MembersListed
<1> QED BY <1>1, <1>2 DEF ProveWheelRecordClosure

(* An offset that is not NoOffset is one that a loader would map to, in    *)
(* the file.                                                               *)
LEMMA OffsetsAreLoaded ==
  ASSUME NEW m \in Image, NEW rva \in Nat,
         RvaToOffset(rva, m.sections, Length(m)) # NoOffset
  PROVE  /\ RvaToOffset(rva, m.sections, Length(m)) \in 0..(Length(m) - 1)
         /\ LoadedFrom(m, rva, RvaToOffset(rva, m.sections, Length(m)))
<1> DEFINE covering == {i \in DOMAIN m.sections : Covers(m.sections[i], rva)}
           s == m.sections[Min(covering)]
           delta == rva - s.va
<1>1. /\ m.sections \in Seq(Section) /\ m.cells \in Seq(Nat) /\ Length(m) \in Nat
  BY DEF Image, Length
<1>2. covering # {} /\ InFile(s, delta, Length(m))
      /\ RvaToOffset(rva, m.sections, Length(m)) = s.raw + delta
  BY DEF RvaToOffset
<1>3. Min(covering) \in covering
  <2>1. covering \in SUBSET Nat
    BY <1>1
  <2> HIDE DEF covering
  <2> QED BY <1>2, <2>1, LeastIsMin
<1>4. s \in Section /\ Covers(s, rva) /\ Min(covering) \in DOMAIN m.sections
  <2>1. Min(covering) \in DOMAIN m.sections /\ Covers(m.sections[Min(covering)], rva)
    BY <1>3
  <2> HIDE DEF covering
  <2> QED BY <1>1, <2>1
<1>5. s.va \in Nat /\ s.raw \in Nat /\ s.rsize \in Nat
  BY <1>4, ImportTableAssumption DEF Section
<1>6. rva >= s.va
  <2> HIDE DEF s
  <2> QED BY <1>4 DEF Covers
<1>7. delta \in Nat /\ delta < s.rsize /\ s.raw + delta < Length(m)
  BY <1>2, <1>5, <1>6 DEF InFile
<1>8. s.va <= rva /\ rva < s.va + s.rsize
  BY <1>5, <1>6, <1>7
<1>9. LoadedFrom(m, rva, s.raw + delta)
  BY <1>4, <1>7, <1>8 DEF LoadedFrom
<1>10. s.raw + delta \in 0..(Length(m) - 1)
  <2>1. ASSUME NEW a \in Nat, NEW b \in Nat, NEW length \in Nat, a + b < length
        PROVE  a + b \in 0..(length - 1)
    BY <2>1
  <2> HIDE DEF s, delta
  <2> QED BY <1>1, <1>5, <1>7, <2>1
<1> QED BY <1>2, <1>9, <1>10

(* The terminator is the first zero descriptor, in the file and in the     *)
(* table.                                                                  *)
LEMMA TerminatorIsFirst ==
  ASSUME NEW m \in Image, NEW o \in Nat, NEW size \in Nat,
         Terminator(m, o, size) # NoOffset
  PROVE  /\ Terminator(m, o, size) \in Nat /\ Terminator(m, o, size) < size
         /\ o + Terminator(m, o, size) < Length(m)
         /\ Cell(m, o + Terminator(m, o, size)) = 0
         /\ \A i \in 0..(Terminator(m, o, size) - 1) : Cell(m, o + i) # 0
<1> DEFINE zeros == {i \in 0..(size - 1) : o + i < Length(m) /\ Cell(m, o + i) = 0}
           end == Terminator(m, o, size)
<1>1. Length(m) \in Nat
  BY DEF Image, Length
<1>2. NoOffset \in Nat
  BY ImportTableAssumption DEF NoOffset
<1>3. end = Min(zeros \cup {NoOffset}) /\ zeros \cup {NoOffset} \in SUBSET Nat
  BY <1>2 DEF Terminator
<1>4. end \in zeros \cup {NoOffset} /\ \A n \in zeros \cup {NoOffset} : end <= n
  BY <1>3, LeastIsMin
<1>5. end \in zeros
  BY <1>4
<1>6. ASSUME NEW i \in 0..(end - 1) PROVE Cell(m, o + i) # 0
  <2>1. i \in 0..(size - 1) /\ o + i < Length(m) /\ ~(end <= i)
    BY <1>1, <1>5
  <2> QED BY <1>4, <2>1
<1> HIDE DEF end
<1> QED BY <1>5, <1>6 DEF end

(* What ParsePeImports accepts.                                            *)
LEMMA NamesAreLoaded ==
  ASSUME NEW m \in Image, NEW rva \in Nat, NameAt(m, rva) # 0
  PROVE  Loads(m, rva, NameAt(m, rva))
<1>1. RvaToOffset(rva, m.sections, Length(m)) # NoOffset
      /\ NameAt(m, rva) = Cell(m, RvaToOffset(rva, m.sections, Length(m)))
  BY DEF NameAt
<1> QED BY <1>1, OffsetsAreLoaded DEF Loads

(* What parse_pe_imports accepts of a file is what a loader finds there.   *)
LEMMA ImportsLoaded ==
  ASSUME NEW m \in Image, ParsePeImports(m) # Rejected
  PROVE  /\ \E o \in 0..(Length(m) - 1), count \in 1..m.importSize :
              /\ TableAt(m, o, m.importRva, m.importSize, count)
              /\ \A i \in 0..(count - 1) :
                   \E n \in ParsePeImports(m).imports : Loads(m, Cell(m, o + i), n)
              /\ \A n \in ParsePeImports(m).imports :
                   n # 0 /\ \E i \in 0..(count - 1) : Loads(m, Cell(m, o + i), n)
         /\ m.delayRva # 0 =>
              \E o \in 0..(Length(m) - 1) :
                TableAt(m, o, m.delayRva, m.delaySize, ParsePeImports(m).delay)
<1> DEFINE table == RvaToOffset(m.importRva, m.sections, Length(m))
           end == Terminator(m, table, m.importSize)
           names == {NameAt(m, Cell(m, table + i)) : i \in 0..(end - 1)}
           delayOffset == RvaToOffset(m.delayRva, m.sections, Length(m))
           delayEnd == Terminator(m, delayOffset, m.delaySize)
<1>1. /\ m.importRva \in Nat /\ m.importSize \in Nat /\ m.delayRva \in Nat /\ m.delaySize \in Nat
      /\ m.cells \in Seq(Nat) /\ Length(m) = Len(m.cells) /\ Length(m) \in Nat
  BY ImportTableAssumption DEF Image, Length
<1>2. /\ table # NoOffset /\ end # NoOffset /\ end # 0 /\ 0 \notin names
      /\ ParsePeImports(m).imports = names
      /\ m.delayRva # 0 =>
           /\ delayOffset # NoOffset /\ delayEnd # NoOffset
           /\ ParsePeImports(m).delay = delayEnd
  BY DEF ParsePeImports
<1>3. table \in 0..(Length(m) - 1) /\ LoadedFrom(m, m.importRva, table)
  BY <1>1, <1>2, OffsetsAreLoaded
<1>4. /\ end \in Nat /\ end < m.importSize /\ table + end < Length(m)
      /\ Cell(m, table + end) = 0 /\ \A i \in 0..(end - 1) : Cell(m, table + i) # 0
  <2>1. table \in Nat
    BY <1>3
  <2> QED BY <1>1, <1>2, <2>1, TerminatorIsFirst
<1>5. ASSUME NEW i \in 0..(end - 1)
      PROVE  Loads(m, Cell(m, table + i), NameAt(m, Cell(m, table + i)))
  <2>1. table + i + 1 \in 1..Len(m.cells)
    <3> HIDE DEF table, end
    <3> QED BY <1>1, <1>3, <1>4
  <2>2. Cell(m, table + i) \in Nat
    <3> DEFINE n == table + i + 1
    <3>1. n \in 1..Len(m.cells)
      BY <2>1
    <3>2. m.cells[n] \in Nat
      <4>1. ASSUME NEW cells \in Seq(Nat), NEW k \in 1..Len(cells) PROVE cells[k] \in Nat
        BY <4>1
      <4> HIDE DEF n
      <4> QED BY <1>1, <3>1, <4>1
    <3> QED BY <3>2 DEF Cell
  <2>3. NameAt(m, Cell(m, table + i)) # 0
    BY <1>2
  <2> QED BY <2>2, <2>3, NamesAreLoaded
<1>6. m.delayRva # 0 =>
        \E o \in 0..(Length(m) - 1) :
          TableAt(m, o, m.delayRva, m.delaySize, ParsePeImports(m).delay)
  <2>1. ASSUME m.delayRva # 0
        PROVE  /\ delayOffset \in 0..(Length(m) - 1)
               /\ TableAt(m, delayOffset, m.delayRva, m.delaySize, delayEnd)
    <3>1. delayOffset \in 0..(Length(m) - 1) /\ LoadedFrom(m, m.delayRva, delayOffset)
      BY <1>1, <1>2, <2>1, OffsetsAreLoaded
    <3>2. delayOffset \in Nat
      BY <3>1
    <3> HIDE DEF delayOffset
    <3> QED BY <1>1, <1>2, <2>1, <3>1, <3>2, TerminatorIsFirst DEF TableAt
  <2> QED BY <1>2, <2>1
<1>7. TableAt(m, table, m.importRva, m.importSize, end)
  BY <1>3, <1>4 DEF TableAt
<1>8. end \in 1..m.importSize
  BY <1>1, <1>2, <1>4
<1>9. \A i \in 0..(end - 1) : \E n \in names : Loads(m, Cell(m, table + i), n)
  BY <1>5
<1>10. \A n \in names : n # 0 /\ \E i \in 0..(end - 1) : Loads(m, Cell(m, table + i), n)
  BY <1>2, <1>5
<1> HIDE DEF table, end, names
<1> QED BY <1>2, <1>3, <1>6, <1>7, <1>8, <1>9, <1>10

(* Where the readers are: an input of the initial ones, and what its       *)
(* reader makes of it, if it has.                                          *)
ReadersInv ==
  \/ /\ input.reader = "imports" /\ input.image \in Images
     /\ output = NoOutput \/ output = ParsePeImports(input.image)
  \/ /\ input.reader = "wheel" /\ input.wheel \in Wheels
     /\ \/ output = NoOutput
        \/ output = ProveWheelRecordClosure(input.wheel.members, input.wheel.record,
                                            input.wheel.installed)

(* What a reader makes of an input is what its function gives.             *)
LEMMA ReadersInvariant == ReadersSpec => []ReadersInv
<1>1. ReadersInit => ReadersInv
  BY DEF ReadersInit, ReadersInv
<1>2. ReadersInv /\ [ReadersNext]_reader => ReadersInv'
  <2> SUFFICES ASSUME ReadersInv, [ReadersNext]_reader PROVE ReadersInv'
    OBVIOUS
  <2>1. CASE ReadImports
    BY <2>1 DEF ReadImports, ReadersInv
  <2>2. CASE ReadWheel
    BY <2>2 DEF ReadWheel, ReadersInv
  <2>3. CASE UNCHANGED reader
    BY <2>3 DEF reader, ReadersInv
  <2> QED BY <2>1, <2>2, <2>3 DEF ReadersNext
<1> QED BY <1>1, <1>2, PTL DEF ReadersSpec

(* prove_wheel_record_closure accepts a wheel, of any size, if and only if *)
(* the three lists name the same files with the same contents.             *)
THEOREM ClosuresAreExact == ReadersSpec => []WheelClosureIsExact
<1>1. ReadersInv => WheelClosureIsExact
  <2> SUFFICES ASSUME ReadersInv, output # NoOutput, input.reader = "wheel"
               PROVE  WheelClosureIsExact
    BY DEF WheelClosureIsExact
  <2> DEFINE w == input.wheel
  <2>1. /\ w \in Wheels
        /\ output = ProveWheelRecordClosure(w.members, w.record, w.installed)
    BY DEF ReadersInv
  <2>2. /\ w.members \in Seq(Member) /\ w.record \in Seq(RecordEntry)
        /\ w.installed \in Seq(RecordEntry)
    BY <2>1, ReadersAssumption
  <2> HIDE DEF w
  <2>3. output <=> /\ FoldedUnique(w.members) /\ FoldedUnique(w.record)
                   /\ FoldedUnique(w.installed)
                   /\ \E i \in DOMAIN w.members : w.members[i].path.record
                   /\ w.record # <<>> /\ w.installed # <<>>
                   /\ FilesOf(w.record) = FilesIn(w.members)
                   /\ FilesOf(w.record) = FilesOf(w.installed)
    BY <2>1, <2>2, ClosureIsExact
  <2>4. (\A list \in {w.members, w.record, w.installed} : FoldedUnique(list)) <=>
          FoldedUnique(w.members) /\ FoldedUnique(w.record) /\ FoldedUnique(w.installed)
    OBVIOUS
  <2> QED BY <2>3, <2>4 DEF WheelClosureIsExact, w
<1> QED BY <1>1, ReadersInvariant, PTL

(* parse_pe_imports accepts no import, of a file of any size with          *)
(* addresses of any width, that a loader would not find at that place.     *)
THEOREM ImportsAreLoaded == ReadersSpec => []AcceptedImportsAreLoaded
<1>1. ReadersInv => AcceptedImportsAreLoaded
  <2> SUFFICES ASSUME ReadersInv, output # NoOutput, input.reader = "imports", output # Rejected
               PROVE  AcceptedImportsAreLoaded
    BY DEF AcceptedImportsAreLoaded
  <2>1. input.image \in Image /\ output = ParsePeImports(input.image)
    BY ReadersAssumption DEF ReadersInv
  <2> QED BY <2>1, ImportsLoaded DEF AcceptedImportsAreLoaded
<1> QED BY <1>1, ReadersInvariant, PTL

-----------------------------------------------------------------------------
(* A directory, and the place of an entry in a stream.                     *)
Directory(f) == f \in [DOMAIN f -> Seq(Nat)] /\ DOMAIN f \subseteq Seq(Nat)
Size(n, c) == 2 + Len(n) + Len(c)
EntryAt(s, p, n, c) ==
  /\ s[p] = Len(n)
  /\ \A i \in 1..Len(n) : s[p + i] = n[i]
  /\ s[p + 1 + Len(n)] = Len(c)
  /\ \A i \in 1..Len(c) : s[p + 1 + Len(n) + i] = c[i]

(* The stream s consists of the entries of the names D of f, in order: nm  *)
(* lists the k names, and at where their entries begin.                    *)
Laid(s, f, D, nm, at, k) ==
  /\ k \in Nat /\ nm \in [1..k -> D] /\ at \in [1..(k + 1) -> Nat \ {0}]
  /\ \A n \in D : \E i \in 1..k : nm[i] = n
  /\ at[1] = 1 /\ at[k + 1] = Len(s) + 1
  /\ \A i \in 1..k : /\ at[i + 1] = at[i] + Size(nm[i], f[nm[i]])
                     /\ at[i + 1] <= Len(s) + 1
                     /\ EntryAt(s, at[i], nm[i], f[nm[i]])
  /\ \A i, j \in 1..k : i < j => Before(nm[i], nm[j])
IsStream(s, f, D) == \E nm, at, k : Laid(s, f, D, nm, at, k)

(* What joining two sequences gives.                                       *)
LEMMA Joined ==
  ASSUME NEW s \in Seq(Nat), NEW t \in Seq(Nat)
  PROVE  /\ s \o t \in Seq(Nat)
         /\ Len(s \o t) = Len(s) + Len(t)
         /\ \A i \in 1..Len(s) : (s \o t)[i] = s[i]
         /\ \A i \in 1..Len(t) : (s \o t)[Len(s) + i] = t[i]
<1>1. s \o t \in Seq(Nat) /\ Len(s \o t) = Len(s) + Len(t)
  BY ConcatProperties
<1>2. \A i \in 1..Len(s) : (s \o t)[i] = s[i]
  BY ConcatProperties
<1>3. \A i \in 1..Len(t) : (s \o t)[Len(s) + i] = t[i]
  <2> TAKE i \in 1..Len(t)
  <2>1. /\ Len(s) + i \in 1..(Len(s) + Len(t)) /\ ~(Len(s) + i <= Len(s))
        /\ Len(s) + i - Len(s) = i
    OBVIOUS
  <2> QED
    BY <2>1
<1> QED
  BY <1>1, <1>2, <1>3

(* An entry is as long as its parts, each of which is where it belongs.    *)
LEMMA EntryLayout ==
  ASSUME NEW n \in Seq(Nat), NEW c \in Seq(Nat)
  PROVE  /\ EntryBytes(n, c) \in Seq(Nat)
         /\ Len(EntryBytes(n, c)) = Size(n, c)
         /\ EntryAt(EntryBytes(n, c), 1, n, c)
<1> DEFINE head == <<Len(n)>>
           front == head \o n
           tail == <<Len(c)>>
           most == front \o tail
           e == most \o c
<1>1. /\ head \in Seq(Nat) /\ Len(head) = 1 /\ head[1] = Len(n)
      /\ tail \in Seq(Nat) /\ Len(tail) = 1 /\ tail[1] = Len(c)
  OBVIOUS
<1>2. e = EntryBytes(n, c)
  BY DEF EntryBytes
<1>3. Len(n) \in Nat /\ Len(c) \in Nat
  OBVIOUS
<1> HIDE DEF e, most, front, tail, head
<1>4. /\ front \in Seq(Nat) /\ Len(front) = Len(head) + Len(n)
      /\ \A i \in 1..Len(head) : front[i] = head[i]
      /\ \A i \in 1..Len(n) : front[Len(head) + i] = n[i]
  BY <1>1, Joined DEF front
<1>5. /\ most \in Seq(Nat) /\ Len(most) = Len(front) + Len(tail)
      /\ \A i \in 1..Len(front) : most[i] = front[i]
      /\ \A i \in 1..Len(tail) : most[Len(front) + i] = tail[i]
  BY <1>1, <1>4, Joined DEF most
<1>6. /\ e \in Seq(Nat) /\ Len(e) = Len(most) + Len(c)
      /\ \A i \in 1..Len(most) : e[i] = most[i]
      /\ \A i \in 1..Len(c) : e[Len(most) + i] = c[i]
  BY <1>5, Joined DEF e
<1>12. Len(front) = 1 + Len(n) /\ Len(most) = 2 + Len(n) /\ Len(e) = 2 + Len(n) + Len(c)
  BY <1>1, <1>3, <1>4, <1>5, <1>6
<1>7. e[1] = Len(n)
  <2>1. 1 \in 1..Len(head) /\ 1 \in 1..Len(front) /\ 1 \in 1..Len(most)
    BY <1>1, <1>3, <1>12
  <2> QED
    BY <1>1, <1>4, <1>5, <1>6, <2>1
<1>8. \A i \in 1..Len(n) : e[1 + i] = n[i]
  <2> TAKE i \in 1..Len(n)
  <2>1. 1 + i \in 1..Len(front) /\ 1 + i \in 1..Len(most)
    BY <1>3, <1>12
  <2>2. front[1 + i] = n[i]
    BY <1>1, <1>4
  <2> QED
    BY <1>5, <1>6, <2>1, <2>2
<1>9. e[1 + 1 + Len(n)] = Len(c)
  <2>1. /\ 1 \in 1..Len(tail) /\ Len(front) + 1 \in 1..Len(most)
        /\ Len(front) + 1 = 1 + 1 + Len(n)
    BY <1>1, <1>3, <1>12
  <2> QED
    BY <1>1, <1>5, <1>6, <2>1
<1>10. \A i \in 1..Len(c) : e[1 + 1 + Len(n) + i] = c[i]
  <2> TAKE i \in 1..Len(c)
  <2>1. 1 + 1 + Len(n) + i = Len(most) + i
    BY <1>3, <1>12
  <2> QED
    BY <1>6, <2>1
<1>11. Len(e) = Size(n, c)
  BY <1>12 DEF Size
<1> QED
  BY <1>2, <1>6, <1>7, <1>8, <1>9, <1>10, <1>11 DEF EntryAt

(* An entry takes at least its two lengths.                                *)
LEMMA SizeIsPositive ==
  ASSUME NEW n \in Seq(Nat), NEW c \in Seq(Nat)
  PROVE  Size(n, c) \in Nat \ {0}
<1>1. Len(n) \in Nat /\ Len(c) \in Nat
  BY LenProperties
<1> QED
  BY <1>1 DEF Size

(* Where an entry is, there are its symbols.                               *)
LEMMA EntrySymbols ==
  ASSUME NEW s, NEW p \in Nat \ {0}, NEW n \in Seq(Nat), NEW c \in Seq(Nat),
         EntryAt(s, p, n, c), NEW j \in 1..Size(n, c)
  PROVE  s[p + j - 1] = EntryBytes(n, c)[j]
<1> DEFINE e == EntryBytes(n, c)
<1> SUFFICES s[p + j - 1] = e[j]
  OBVIOUS
<1>1. EntryAt(e, 1, n, c)
  BY EntryLayout
<1> HIDE DEF e
<1>2. Len(n) \in Nat /\ Len(c) \in Nat
  OBVIOUS
<1>3. j \in 1..(2 + Len(n) + Len(c))
  BY DEF Size
<1>4. CASE j = 1
  <2>1. p + j - 1 = p
    BY <1>4
  <2> QED
    BY <1>1, <1>4, <2>1 DEF EntryAt
<1>5. CASE j \in 2..(1 + Len(n))
  <2> DEFINE i == j - 1
  <2>1. i \in 1..Len(n) /\ p + i = p + j - 1 /\ 1 + i = j
    BY <1>2, <1>5
  <2> HIDE DEF i
  <2>2. s[p + i] = n[i] /\ e[1 + i] = n[i]
    BY <1>1, <2>1 DEF EntryAt
  <2> QED
    BY <2>1, <2>2
<1>6. CASE j = 2 + Len(n)
  <2>1. p + 1 + Len(n) = p + j - 1 /\ 1 + 1 + Len(n) = j
    BY <1>2, <1>6
  <2>2. s[p + 1 + Len(n)] = Len(c) /\ e[1 + 1 + Len(n)] = Len(c)
    BY <1>1 DEF EntryAt
  <2> QED
    BY <2>1, <2>2
<1>7. CASE j > 2 + Len(n)
  <2> DEFINE i == j - 2 - Len(n)
  <2>1. i \in 1..Len(c) /\ p + 1 + Len(n) + i = p + j - 1 /\ 1 + 1 + Len(n) + i = j
    BY <1>2, <1>3, <1>7
  <2> HIDE DEF i
  <2>2. s[p + 1 + Len(n) + i] = c[i] /\ e[1 + 1 + Len(n) + i] = c[i]
    BY <1>1, <2>1 DEF EntryAt
  <2> QED
    BY <2>1, <2>2
<1>8. j = 1 \/ j \in 2..(1 + Len(n)) \/ j = 2 + Len(n) \/ j > 2 + Len(n)
  BY <1>2, <1>3
<1> QED
  BY <1>4, <1>5, <1>6, <1>7, <1>8

(* An entry goes on being there when symbols are added.                    *)
LEMMA EntryKept ==
  ASSUME NEW s \in Seq(Nat), NEW t \in Seq(Nat), NEW p \in Nat \ {0},
         NEW n \in Seq(Nat), NEW c \in Seq(Nat),
         p + Size(n, c) <= Len(s) + 1, EntryAt(s, p, n, c)
  PROVE  EntryAt(s \o t, p, n, c)
<1> DEFINE u == s \o t
<1>1. \A i \in 1..Len(s) : u[i] = s[i]
  BY Joined
<1>2. Len(n) \in Nat /\ Len(c) \in Nat /\ Len(s) \in Nat
  OBVIOUS
<1>3. p + 2 + Len(n) + Len(c) <= Len(s) + 1
  BY <1>2 DEF Size
<1>4. p \in 1..Len(s) /\ p + 1 + Len(n) \in 1..Len(s)
  BY <1>2, <1>3
<1>5. ASSUME NEW i \in 1..Len(n) PROVE p + i \in 1..Len(s)
  <2>1. i \in Nat /\ 1 <= i /\ i <= Len(n)
    BY <1>2
  <2>2. p + i >= 1 /\ p + i <= Len(s)
    BY <1>2, <1>3, <2>1
  <2> QED
    BY <1>2, <2>1, <2>2
<1>6. ASSUME NEW i \in 1..Len(c) PROVE p + 1 + Len(n) + i \in 1..Len(s)
  <2>1. i \in Nat /\ 1 <= i /\ i <= Len(c)
    BY <1>2
  <2>2. p + 1 + Len(n) + i <= p + 1 + Len(n) + Len(c)
    BY <1>2, <2>1
  <2>3. p + 1 + Len(n) + Len(c) <= Len(s)
    BY <1>2, <1>3
  <2> QED
    BY <1>2, <2>1, <2>2, <2>3
<1> HIDE DEF u
<1>7. EntryAt(u, p, n, c)
  BY <1>1, <1>4, <1>5, <1>6 DEF EntryAt
<1> QED
  BY <1>7 DEF u

(* Added to a stream, an entry is behind it.                               *)
LEMMA EntryAdded ==
  ASSUME NEW s \in Seq(Nat), NEW n \in Seq(Nat), NEW c \in Seq(Nat)
  PROVE  /\ s \o EntryBytes(n, c) \in Seq(Nat)
         /\ Len(s \o EntryBytes(n, c)) = Len(s) + Size(n, c)
         /\ EntryAt(s \o EntryBytes(n, c), Len(s) + 1, n, c)
<1> DEFINE e == EntryBytes(n, c)
           t == s \o e
<1>1. e \in Seq(Nat) /\ Len(e) = Size(n, c) /\ EntryAt(e, 1, n, c)
  BY EntryLayout
<1>2. Len(n) \in Nat /\ Len(c) \in Nat /\ Len(s) \in Nat
  OBVIOUS
<1> HIDE DEF e
<1>3. /\ t \in Seq(Nat) /\ Len(t) = Len(s) + Size(n, c)
      /\ \A i \in 1..Len(e) : t[Len(s) + i] = e[i]
  BY <1>1, Joined
<1> HIDE DEF t
<1>4. Len(e) = 2 + Len(n) + Len(c)
  BY <1>1 DEF Size
<1>5. t[Len(s) + 1] = Len(n)
  <2>1. 1 \in 1..Len(e) /\ e[1] = Len(n)
    BY <1>1, <1>2, <1>4 DEF EntryAt
  <2> QED
    BY <1>3, <2>1
<1>6. t[Len(s) + 1 + 1 + Len(n)] = Len(c)
  <2>1. Len(s) + 1 + 1 + Len(n) = Len(s) + (1 + 1 + Len(n)) /\ 1 + 1 + Len(n) \in 1..Len(e)
    BY <1>2, <1>4
  <2> QED
    BY <1>1, <1>3, <2>1 DEF EntryAt
<1>7. \A i \in 1..Len(n) : t[Len(s) + 1 + i] = n[i]
  <2> TAKE i \in 1..Len(n)
  <2>1. Len(s) + 1 + i = Len(s) + (1 + i) /\ 1 + i \in 1..Len(e)
    BY <1>2, <1>4
  <2> QED
    BY <1>1, <1>3, <2>1 DEF EntryAt
<1>8. \A i \in 1..Len(c) : t[Len(s) + 1 + 1 + Len(n) + i] = c[i]
  <2> TAKE i \in 1..Len(c)
  <2>1. /\ Len(s) + 1 + 1 + Len(n) + i = Len(s) + (1 + 1 + Len(n) + i)
        /\ 1 + 1 + Len(n) + i \in 1..Len(e)
    BY <1>2, <1>4
  <2> QED
    BY <1>1, <1>3, <2>1 DEF EntryAt
<1> QED
  BY <1>3, <1>5, <1>6, <1>7, <1>8 DEF EntryAt, t, e

(* The order of names is one: no name is before itself, none are before    *)
(* each other, and it is transitive.                                       *)
LEMMA BeforeIsStrict ==
  ASSUME NEW a \in Seq(Nat)
  PROVE  ~Before(a, a)
<1> SUFFICES ASSUME NEW i \in 1..Len(a), i <= Len(a) => a[i] < a[i] PROVE FALSE
  BY DEF Before
<1> QED
  BY a[i] \in Nat

(* What is before a name before another is before that one.                *)
LEMMA BeforeIsTransitive ==
  ASSUME NEW a \in Seq(Nat), NEW b \in Seq(Nat), NEW c \in Seq(Nat),
         Before(a, b), Before(b, c)
  PROVE  Before(a, c)
<1>1. PICK i \in 1..Len(b) : /\ i <= Len(a) + 1
                             /\ \A l \in 1..(i - 1) : a[l] = b[l]
                             /\ i <= Len(a) => a[i] < b[i]
  BY DEF Before
<1>2. PICK j \in 1..Len(c) : /\ j <= Len(b) + 1
                             /\ \A l \in 1..(j - 1) : b[l] = c[l]
                             /\ j <= Len(b) => b[j] < c[j]
  BY DEF Before
<1>3. /\ \A l \in 1..Len(a) : a[l] \in Nat
      /\ \A l \in 1..Len(b) : b[l] \in Nat
      /\ \A l \in 1..Len(c) : c[l] \in Nat
      /\ Len(a) \in Nat /\ Len(b) \in Nat /\ Len(c) \in Nat
  BY ElementOfSeq, LenProperties
<1>4. CASE i < j
  <2>1. i \in 1..Len(c) /\ i <= Len(a) + 1
    BY <1>1, <1>2, <1>3, <1>4
  <2>2. \A l \in 1..(i - 1) : a[l] = c[l]
    <3> TAKE l \in 1..(i - 1)
    <3>1. l \in 1..(j - 1)
      BY <1>4
    <3> QED
      BY <1>1, <1>2, <3>1
  <2>3. ASSUME i <= Len(a) PROVE a[i] < c[i]
    <3>1. i \in 1..(j - 1)
      BY <1>4
    <3> QED
      BY <1>1, <1>2, <2>3, <3>1
  <2> QED
    BY <2>1, <2>2, <2>3 DEF Before
<1>5. CASE i = j
  <2>1. i \in 1..Len(c) /\ i <= Len(a) + 1
    BY <1>1, <1>2, <1>5
  <2>2. \A l \in 1..(i - 1) : a[l] = c[l]
    BY <1>1, <1>2, <1>5
  <2>3. ASSUME i <= Len(a) PROVE a[i] < c[i]
    <3>1. a[i] < b[i] /\ b[i] < c[i] /\ i \in 1..Len(a) /\ i \in 1..Len(b) /\ i \in 1..Len(c)
      BY <1>1, <1>2, <1>3, <1>5, <2>3
    <3>2. a[i] \in Nat /\ b[i] \in Nat /\ c[i] \in Nat
      BY <1>3, <3>1
    <3>3. \A x, y, z \in Nat : x < y /\ y < z => x < z
      OBVIOUS
    <3> QED
      BY <3>1, <3>2, <3>3, Zenon
  <2> QED
    BY <2>1, <2>2, <2>3 DEF Before
<1>6. CASE j < i
  <2>1. j <= Len(a) + 1
    BY <1>1, <1>3, <1>6
  <2>2. \A l \in 1..(j - 1) : a[l] = c[l]
    <3> TAKE l \in 1..(j - 1)
    <3>1. l \in 1..(i - 1)
      BY <1>6
    <3> QED
      BY <1>1, <1>2, <3>1
  <2>3. ASSUME j <= Len(a) PROVE a[j] < c[j]
    <3>1. j \in 1..(i - 1) /\ j <= Len(b)
      BY <1>3, <1>6
    <3> QED
      BY <1>1, <1>2, <3>1
  <2> QED
    BY <2>1, <2>2, <2>3 DEF Before
<1> QED
  BY <1>4, <1>5, <1>6

(* Of two names at most one is before the other.                           *)
LEMMA BeforeIsAsymmetric ==
  ASSUME NEW a \in Seq(Nat), NEW b \in Seq(Nat), Before(a, b)
  PROVE  ~Before(b, a)
BY BeforeIsStrict, BeforeIsTransitive

(* At one place there is one entry.                                        *)
LEMMA OneEntry ==
  ASSUME NEW s, NEW p \in Nat \ {0},
         NEW n \in Seq(Nat), NEW c \in Seq(Nat), EntryAt(s, p, n, c),
         NEW m \in Seq(Nat), NEW d \in Seq(Nat), EntryAt(s, p, m, d)
  PROVE  n = m /\ c = d
<1>1. Len(n) = Len(m)
  BY DEF EntryAt
<1>2. \A i \in 1..Len(n) : n[i] = m[i]
  BY <1>1 DEF EntryAt
<1>3. n = m
  BY <1>1, <1>2, SeqEqual
<1>4. Len(c) = Len(d)
  BY <1>3 DEF EntryAt
<1>5. \A i \in 1..Len(c) : c[i] = d[i]
  BY <1>3, <1>4 DEF EntryAt
<1>6. c = d
  BY <1>4, <1>5, SeqEqual
<1> QED
  BY <1>3, <1>6

(* No entries are an empty stream.                                         *)
LEMMA NoEntries ==
  ASSUME NEW f
  PROVE  IsStream(<<>>, f, {})
<1> DEFINE at == [i \in 1..1 |-> 1]
           nm == [i \in 1..0 |-> <<>>]
<1>1. nm \in [1..0 -> {}] /\ at \in [1..(0 + 1) -> Nat \ {0}] /\ at[1] = 1
  OBVIOUS
<1>2. 1..0 = {} /\ Len(<<>>) = 0
  OBVIOUS
<1> HIDE DEF at, nm
<1>3. Laid(<<>>, f, {}, nm, at, 0)
  BY <1>1, <1>2 DEF Laid
<1> QED
  BY <1>3 DEF IsStream

(* A name that comes after all others adds its entry to the stream.        *)
LEMMA StreamGrows ==
  ASSUME NEW s \in Seq(Nat), NEW f, NEW g, NEW D, D \subseteq Seq(Nat), NEW n \in Seq(Nat),
         \A m \in D : f[m] \in Seq(Nat) /\ g[m] = f[m] /\ Before(m, n),
         g[n] \in Seq(Nat), IsStream(s, f, D)
  PROVE  IsStream(s \o EntryBytes(n, g[n]), g, D \cup {n})
<1> DEFINE t == s \o EntryBytes(n, g[n])
<1> SUFFICES IsStream(t, g, D \cup {n})
  OBVIOUS
<1>1. PICK nm, at, k : Laid(s, f, D, nm, at, k)
  BY DEF IsStream
<1>2. /\ t \in Seq(Nat) /\ Len(t) = Len(s) + Size(n, g[n])
      /\ EntryAt(t, Len(s) + 1, n, g[n])
  BY EntryAdded
<1>3. \A p \in Nat \ {0}, m \in Seq(Nat), c \in Seq(Nat) :
        p + Size(m, c) <= Len(s) + 1 /\ EntryAt(s, p, m, c) => EntryAt(t, p, m, c)
  BY EntryKept, EntryLayout
<1> HIDE DEF t
<1>4. k \in Nat /\ Len(s) \in Nat /\ Len(t) \in Nat
  BY <1>1, <1>2, LenProperties DEF Laid
<1> DEFINE nm2 == [i \in 1..(k + 1) |-> IF i <= k THEN nm[i] ELSE n]
           at2 == [i \in 1..(k + 2) |-> IF i <= k + 1 THEN at[i] ELSE Len(t) + 1]
<1>5. nm2 \in [1..(k + 1) -> D \cup {n}]
  BY <1>1, <1>4 DEF Laid
<1>6. at2 \in [1..(k + 2) -> Nat \ {0}]
  BY <1>1, <1>4 DEF Laid
<1>7. \A i \in 1..k : nm2[i] = nm[i] /\ at2[i] = at[i] /\ at2[i + 1] = at[i + 1]
  BY <1>4
<1>8. nm2[k + 1] = n /\ at2[1] = at[1] /\ at2[k + 1] = at[k + 1] /\ at2[k + 2] = Len(t) + 1
  BY <1>4
<1> HIDE DEF nm2, at2
<1>9. \A m \in D \cup {n} : \E i \in 1..(k + 1) : nm2[i] = m
  <2> TAKE m \in D \cup {n}
  <2>1. CASE m \in D
    <3>1. PICK i \in 1..k : nm[i] = m
      BY <1>1, <2>1 DEF Laid
    <3>2. i \in 1..(k + 1) /\ nm2[i] = nm[i]
      BY <1>4, <1>7
    <3> QED
      BY <3>1, <3>2
  <2>2. CASE m = n
    <3>1. k + 1 \in 1..(k + 1)
      BY <1>4
    <3> QED
      BY <1>8, <2>2, <3>1
  <2> QED
    BY <2>1, <2>2
<1>10. ASSUME NEW i \in 1..(k + 1)
       PROVE  /\ at2[i + 1] = at2[i] + Size(nm2[i], g[nm2[i]])
              /\ at2[i + 1] <= Len(t) + 1
              /\ EntryAt(t, at2[i], nm2[i], g[nm2[i]])
  <2>1. CASE i \in 1..k
    <3>1. nm[i] \in D /\ at[i] \in Nat \ {0} /\ at[i + 1] \in Nat
      BY <1>1, <1>4, <2>1 DEF Laid
    <3>2. nm[i] \in Seq(Nat) /\ g[nm[i]] = f[nm[i]] /\ f[nm[i]] \in Seq(Nat)
      BY <3>1
    <3>3. /\ at[i + 1] = at[i] + Size(nm[i], f[nm[i]])
          /\ at[i + 1] <= Len(s) + 1
          /\ EntryAt(s, at[i], nm[i], f[nm[i]])
      BY <1>1, <2>1 DEF Laid
    <3>4. EntryAt(t, at[i], nm[i], f[nm[i]])
      BY <1>3, <3>1, <3>2, <3>3
    <3>5. Len(s) + 1 <= Len(t) + 1
      BY <1>2, <1>4, EntryLayout, LenProperties
    <3>6. at[i + 1] <= Len(t) + 1
      BY <1>4, <3>1, <3>3, <3>5
    <3> QED
      BY <1>7, <2>1, <3>2, <3>3, <3>4, <3>6
  <2>2. CASE i = k + 1
    <3>1. i + 1 = k + 2 /\ at2[i] = Len(s) + 1 /\ nm2[i] = n
      BY <1>1, <1>4, <1>8, <2>2 DEF Laid
    <3>2. Size(n, g[n]) \in Nat
      BY EntryLayout, LenProperties
    <3> QED
      BY <1>2, <1>4, <1>8, <3>1, <3>2
  <2> QED
    BY <1>4, <2>1, <2>2
<1>11. ASSUME NEW i \in 1..(k + 1), NEW j \in 1..(k + 1), i < j
       PROVE  Before(nm2[i], nm2[j])
  <2>1. i \in 1..k
    BY <1>4, <1>11
  <2>2. CASE j \in 1..k
    BY <1>1, <1>7, <1>11, <2>1, <2>2 DEF Laid
  <2>3. CASE j = k + 1
    <3>1. nm[i] \in D
      BY <1>1, <2>1 DEF Laid
    <3> QED
      BY <1>7, <1>8, <2>1, <2>3, <3>1
  <2> QED
    BY <1>4, <2>2, <2>3
<1>12. k + 1 \in Nat /\ (k + 1) + 1 = k + 2 /\ at2[1] = 1
  BY <1>1, <1>4, <1>8 DEF Laid
<1>13. Laid(t, g, D \cup {n}, nm2, at2, k + 1)
  BY <1>5, <1>6, <1>8, <1>9, <1>10, <1>11, <1>12 DEF Laid
<1> QED
  BY <1>13 DEF IsStream

(* A stream tells what it consists of.                                     *)
LEMMA LaidAlike ==
  ASSUME NEW s \in Seq(Nat), NEW f, NEW D, NEW nm, NEW at, NEW k, Laid(s, f, D, nm, at, k),
         NEW g, NEW E, NEW nm2, NEW at2, NEW l, Laid(s, g, E, nm2, at2, l),
         D \subseteq Seq(Nat), \A n \in D : f[n] \in Seq(Nat),
         E \subseteq Seq(Nat), \A n \in E : g[n] \in Seq(Nat)
  PROVE  /\ k <= l
         /\ \A i \in 1..k : nm[i] = nm2[i] /\ f[nm[i]] = g[nm2[i]]
<1> DEFINE Differs(i) == ~(/\ i <= l
                           /\ nm[i] = nm2[i] /\ f[nm[i]] = g[nm2[i]]
                           /\ at[i + 1] = at2[i + 1])
           S == {i \in 1..k : Differs(i)}
<1>1. k \in Nat /\ l \in Nat /\ Len(s) \in Nat
  BY LenProperties DEF Laid
<1>2. S = {}
  <2> SUFFICES ASSUME S # {} PROVE FALSE
    OBVIOUS
  <2>1. S \subseteq Nat
    BY <1>1
  <2>2. PICK j \in S : \A i \in S : j <= i
    BY <2>1, LeastNumber
  <2>3. j \in 1..k /\ Differs(j)
    OBVIOUS
  <2>4. \A i \in 1..k : i < j => ~Differs(i)
    BY <1>1, <2>2, <2>3
  <2> HIDE DEF S
  <2>5. at[j] = at2[j] /\ j <= l + 1
    <3>1. CASE j = 1
      BY <1>1, <3>1 DEF Laid
    <3>2. CASE j # 1
      <4>1. j - 1 \in 1..k /\ j - 1 < j /\ (j - 1) + 1 = j
        BY <1>1, <2>3, <3>2
      <4>2. ~Differs(j - 1)
        BY <2>4, <4>1
      <4> QED
        BY <1>1, <2>3, <4>1, <4>2
    <3> QED
      BY <3>1, <3>2
  <2>6. /\ nm[j] \in Seq(Nat) /\ f[nm[j]] \in Seq(Nat)
        /\ at[j] \in Nat \ {0} /\ at[j + 1] \in Nat
        /\ at[j + 1] = at[j] + Size(nm[j], f[nm[j]])
        /\ at[j + 1] <= Len(s) + 1
        /\ EntryAt(s, at[j], nm[j], f[nm[j]])
    <3>1. j \in 1..(k + 1) /\ j + 1 \in 1..(k + 1)
      BY <1>1, <2>3
    <3> QED
      BY <2>3, <3>1 DEF Laid
  <2>7. j <= l
    <3> SUFFICES ASSUME j = l + 1 PROVE FALSE
      BY <1>1, <2>3, <2>5
    <3>1. at[j] = Len(s) + 1
      BY <2>5 DEF Laid
    <3>2. Size(nm[j], f[nm[j]]) \in Nat \ {0}
      BY <2>6, SizeIsPositive
    <3> QED
      BY <1>1, <2>6, <3>1, <3>2
  <2>8. /\ nm2[j] \in Seq(Nat) /\ g[nm2[j]] \in Seq(Nat)
        /\ at2[j + 1] = at2[j] + Size(nm2[j], g[nm2[j]])
        /\ EntryAt(s, at2[j], nm2[j], g[nm2[j]])
    <3>1. j \in 1..l
      BY <1>1, <2>3, <2>7
    <3> QED
      BY <3>1 DEF Laid
  <2>9. nm[j] = nm2[j] /\ f[nm[j]] = g[nm2[j]]
    BY <2>5, <2>6, <2>8, OneEntry
  <2> QED
    BY <2>3, <2>5, <2>6, <2>7, <2>8, <2>9
<1>3. \A i \in 1..k : ~Differs(i)
  BY <1>2
<1>4. k <= l
  <2>1. CASE k = 0
    BY <1>1, <2>1
  <2>2. CASE k # 0
    <3>1. k \in 1..k
      BY <1>1, <2>2
    <3> QED
      BY <1>3, <3>1
  <2> QED
    BY <2>1, <2>2
<1> QED
  BY <1>3, <1>4

(* Two directories whose streams are one agree on every name.              *)
LEMMA StreamsTell ==
  ASSUME NEW s \in Seq(Nat), NEW f, NEW D, IsStream(s, f, D), NEW g, NEW E, IsStream(s, g, E),
         D \subseteq Seq(Nat), \A n \in D : f[n] \in Seq(Nat),
         E \subseteq Seq(Nat), \A n \in E : g[n] \in Seq(Nat)
  PROVE  D = E /\ \A n \in D : f[n] = g[n]
<1>1. PICK nm, at, k : Laid(s, f, D, nm, at, k)
  BY DEF IsStream
<1>2. PICK nm2, at2, l : Laid(s, g, E, nm2, at2, l)
  BY DEF IsStream
<1>3. k \in Nat /\ l \in Nat
  BY <1>1, <1>2 DEF Laid
<1>4. k <= l /\ \A i \in 1..k : nm[i] = nm2[i] /\ f[nm[i]] = g[nm2[i]]
  BY <1>1, <1>2, LaidAlike
<1>5. l <= k
  BY <1>1, <1>2, LaidAlike
<1>6. k = l
  BY <1>3, <1>4, <1>5
<1>7. /\ nm \in [1..k -> D] /\ \A n \in D : \E i \in 1..k : nm[i] = n
      /\ nm2 \in [1..k -> E] /\ \A n \in E : \E i \in 1..k : nm2[i] = n
  BY <1>1, <1>2, <1>6 DEF Laid
<1>8. D = E
  <2>1. ASSUME NEW n \in D PROVE n \in E
    <3>1. PICK i \in 1..k : nm[i] = n
      BY <1>7
    <3>2. nm2[i] \in E
      BY <1>7
    <3> QED
      BY <1>4, <3>1, <3>2
  <2>2. ASSUME NEW n \in E PROVE n \in D
    <3>1. PICK i \in 1..k : nm2[i] = n
      BY <1>7
    <3>2. nm[i] \in D
      BY <1>7
    <3> QED
      BY <1>4, <3>1, <3>2
  <2> QED
    BY <2>1, <2>2
<1> QED
  BY <1>4, <1>7, <1>8

(* How far a stream has been produced, or read: up to the j-th entry; what *)
(* is left is the entries from there on.                                   *)
Upto(s, at, j) == SubSeq(s, 1, at[j] - 1)
Ahead(nm, k, j) == {nm[i] : i \in j..k}

(* The part of a stream up to an entry is a sequence as long as it should  *)
(* be.                                                                     *)
LEMMA FrontOfStream ==
  ASSUME NEW s \in Seq(Nat), NEW m \in Nat, m <= Len(s)
  PROVE  /\ SubSeq(s, 1, m) \in Seq(Nat) /\ Len(SubSeq(s, 1, m)) = m
         /\ \A i \in 1..m : SubSeq(s, 1, m)[i] = s[i]
<1>1. Len(s) \in Nat /\ \A i \in 1..m : i \in 1..Len(s)
  BY LenProperties
<1> QED
  BY <1>1, ElementOfSeq

(* The part up to an entry, and that entry, are the part up to the next    *)
(* one.                                                                    *)
LEMMA NextEntry ==
  ASSUME NEW s \in Seq(Nat), NEW f, Directory(f),
         NEW nm, NEW at, NEW k, Laid(s, f, DOMAIN f, nm, at, k), NEW j \in 1..k
  PROVE  Upto(s, at, j) \o EntryBytes(nm[j], f[nm[j]]) = Upto(s, at, j + 1)
<1> DEFINE n == nm[j]
           c == f[nm[j]]
           p == at[j]
           q == at[j + 1]
           e == EntryBytes(nm[j], f[nm[j]])
           t == SubSeq(s, 1, p - 1)
           u == SubSeq(s, 1, q - 1)
<1>1. /\ n \in Seq(Nat) /\ c \in Seq(Nat) /\ p \in Nat \ {0} /\ q \in Nat \ {0}
      /\ q = p + Size(n, c) /\ q <= Len(s) + 1 /\ EntryAt(s, p, n, c)
  <2>1. k \in Nat /\ j \in 1..(k + 1) /\ j + 1 \in 1..(k + 1)
    BY DEF Laid
  <2>2. DOMAIN f \subseteq Seq(Nat) /\ \A m \in DOMAIN f : f[m] \in Seq(Nat)
    BY DEF Directory
  <2> QED
    BY <2>1, <2>2 DEF Laid
<1>2. e \in Seq(Nat) /\ Len(e) = Size(n, c) /\ \A i \in 1..Size(n, c) : s[p + i - 1] = e[i]
  <2>1. e \in Seq(Nat) /\ Len(e) = Size(n, c)
    BY <1>1, EntryLayout
  <2>2. ASSUME NEW i \in 1..Size(n, c) PROVE s[p + i - 1] = e[i]
    <3> HIDE DEF n, c, p
    <3>1. s[p + i - 1] = EntryBytes(n, c)[i]
      BY <1>1, EntrySymbols
    <3> QED
      BY <3>1 DEF n, c
  <2> QED
    BY <2>1, <2>2
<1> HIDE DEF n, c, p, q, e
<1> SUFFICES t \o e = u
  BY DEF n, c, p, q, e, Upto
<1>3. Len(s) \in Nat /\ Size(n, c) \in Nat \ {0}
  BY <1>1, SizeIsPositive, LenProperties
<1>9. p - 1 <= Len(s) /\ p - 1 \in Nat /\ q - 1 \in Nat /\ q - 1 = p - 1 + Size(n, c)
  BY <1>1, <1>3
<1>4. t \in Seq(Nat) /\ Len(t) = p - 1 /\ \A i \in 1..(p - 1) : t[i] = s[i]
  BY <1>3, <1>9, FrontOfStream
<1>5. u \in Seq(Nat) /\ Len(u) = q - 1 /\ \A i \in 1..(q - 1) : u[i] = s[i]
  <2>1. q - 1 <= Len(s)
    BY <1>1, <1>3
  <2> QED
    BY <1>9, <2>1, FrontOfStream
<1> HIDE DEF t, u
<1>6. /\ t \o e \in Seq(Nat) /\ Len(t \o e) = Len(t) + Len(e)
      /\ \A i \in 1..Len(t) : (t \o e)[i] = t[i]
      /\ \A i \in 1..Len(e) : (t \o e)[Len(t) + i] = e[i]
  BY <1>2, <1>4, Joined
<1>7. Len(t \o e) = Len(u)
  BY <1>2, <1>4, <1>5, <1>6, <1>9
<1>8. ASSUME NEW i \in 1..Len(t \o e)
      PROVE  (t \o e)[i] = u[i]
  <2>1. i \in 1..(q - 1)
    BY <1>5, <1>7
  <2>2. CASE i \in 1..(p - 1)
    BY <1>4, <1>5, <1>6, <2>1, <2>2
  <2>3. CASE i \notin 1..(p - 1)
    <3> DEFINE m == i - (p - 1)
    <3>1. m \in 1..Size(n, c) /\ p + m - 1 = i /\ Len(t) + m = i
      <4>1. p \in Nat /\ i \in Nat /\ p <= i /\ i <= p - 1 + Size(n, c) /\ Size(n, c) \in Nat
        BY <1>1, <1>3, <1>9, <2>1, <2>3
      <4> HIDE DEF t
      <4> QED
        BY <1>4, <4>1
    <3> HIDE DEF m
    <3>2. (t \o e)[Len(t) + m] = e[m] /\ s[p + m - 1] = e[m]
      BY <1>2, <1>6, <3>1
    <3> QED
      BY <1>5, <2>1, <3>1, <3>2
  <2> QED
    BY <2>2, <2>3
<1> QED
  BY <1>5, <1>6, <1>7, <1>8, SeqEqual

(* The first of the names left is the next one.                            *)
LEMMA FirstIsNext ==
  ASSUME NEW s, NEW f, NEW D, NEW nm, NEW at, NEW k, Laid(s, f, D, nm, at, k),
         D \subseteq Seq(Nat), NEW j \in 1..(k + 1), NEW n, First(n, Ahead(nm, k, j))
  PROVE  j \in 1..k /\ n = nm[j] /\ Ahead(nm, k, j) \ {n} = Ahead(nm, k, j + 1)
<1>1. k \in Nat /\ \A i \in 1..k : nm[i] \in Seq(Nat)
  BY DEF Laid
<1>2. PICK i \in j..k : n = nm[i]
  BY DEF First, Ahead
<1>3. j \in 1..k /\ i \in 1..k
  BY <1>1, <1>2
<1>4. \A x, y \in 1..k : x < y => Before(nm[x], nm[y]) /\ ~Before(nm[y], nm[x]) /\ nm[x] # nm[y]
  BY <1>1, BeforeIsAsymmetric, BeforeIsStrict DEF Laid
<1>5. i = j
  <2> SUFFICES ASSUME i # j PROVE FALSE
    OBVIOUS
  <2>1. j < i /\ nm[j] \in Ahead(nm, k, j)
    BY <1>1, <1>2, <1>3 DEF Ahead
  <2>2. nm[j] # nm[i] /\ ~Before(nm[i], nm[j])
    BY <1>3, <1>4, <2>1
  <2> QED
    BY <1>2, <2>1, <2>2 DEF First
<1>6. \A x \in (j + 1)..k : x \in j..k /\ nm[x] # n
  BY <1>1, <1>2, <1>3, <1>4, <1>5
<1>7. \A x \in j..k : nm[x] # n => x \in (j + 1)..k
  BY <1>1, <1>2, <1>3, <1>5
<1>8. Ahead(nm, k, j) \ {n} = Ahead(nm, k, j + 1)
  BY <1>6, <1>7 DEF Ahead
<1> QED
  BY <1>2, <1>3, <1>5, <1>8

(* Nothing is left at the end only, where the stream is complete.          *)
LEMMA NothingAhead ==
  ASSUME NEW s \in Seq(Nat), NEW f, NEW D, NEW nm, NEW at, NEW k, Laid(s, f, D, nm, at, k),
         NEW j \in 1..(k + 1)
  PROVE  /\ (Ahead(nm, k, j) = {}) <=> (j = k + 1)
         /\ Upto(s, at, 1) = <<>>
         /\ Upto(s, at, k + 1) = s
         /\ Ahead(nm, k, 1) = D
<1>1. k \in Nat /\ Len(s) \in Nat
  BY LenProperties DEF Laid
<1>2. (Ahead(nm, k, j) = {}) <=> (j = k + 1)
  <2>1. (j..k = {}) <=> (j = k + 1)
    BY <1>1
  <2> QED
    BY <2>1 DEF Ahead
<1>3. at[1] - 1 = 0 /\ at[k + 1] - 1 = Len(s)
  BY <1>1 DEF Laid
<1>4. SubSeq(s, 1, 0) = <<>> /\ SubSeq(s, 1, Len(s)) = s
  <2>1. SubSeq(s, 1, Len(s)) \in Seq(Nat) /\ Len(SubSeq(s, 1, Len(s))) = Len(s)
    BY <1>1
  <2>2. \A i \in 1..Len(s) : SubSeq(s, 1, Len(s))[i] = s[i]
    BY <1>1
  <2>3. SubSeq(s, 1, Len(s)) = s
    BY <2>1, <2>2, SeqEqual
  <2>4. SubSeq(s, 1, 0) = <<>>
    BY <1>1
  <2> QED
    BY <2>3, <2>4
<1>5. Ahead(nm, k, 1) = D
  <2>1. \A n \in D : \E i \in 1..k : nm[i] = n
    BY DEF Laid
  <2>2. \A i \in 1..k : nm[i] \in D
    BY DEF Laid
  <2> QED
    BY <2>1, <2>2 DEF Ahead
<1> QED
  BY <1>2, <1>3, <1>4, <1>5 DEF Upto

(* How far a digest is that will be s: what is in it, and what is left.    *)
Following(s, f, t, rest) ==
  \E nm, at, k, j : /\ Laid(s, f, DOMAIN f, nm, at, k) /\ j \in 1..(k + 1)
                    /\ t = Upto(s, at, j) /\ rest = Ahead(nm, k, j)

(* Before the first entry, everything follows.                             *)
LEMMA FollowingStarts ==
  ASSUME NEW s \in Seq(Nat), NEW f, IsStream(s, f, DOMAIN f)
  PROVE  Following(s, f, <<>>, DOMAIN f)
<1>1. PICK nm, at, k : Laid(s, f, DOMAIN f, nm, at, k)
  BY DEF IsStream
<1>2. 1 \in 1..(k + 1)
  BY <1>1 DEF Laid
<1>3. <<>> = Upto(s, at, 1) /\ DOMAIN f = Ahead(nm, k, 1)
  <2> DEFINE D == DOMAIN f
  <2> HIDE DEF D
  <2>1. Laid(s, f, D, nm, at, k)
    BY <1>1 DEF D
  <2>2. Upto(s, at, 1) = <<>> /\ Ahead(nm, k, 1) = D
    BY <1>2, <2>1, NothingAhead
  <2> QED
    BY <2>2 DEF D
<1> QED
  BY <1>1, <1>2, <1>3 DEF Following

(* The first of the names that follow is the one whose entry comes next.   *)
LEMMA FollowingGoesOn ==
  ASSUME NEW s \in Seq(Nat), NEW f, Directory(f), NEW t, NEW rest, Following(s, f, t, rest),
         NEW n, First(n, rest)
  PROVE  Following(s, f, t \o EntryBytes(n, f[n]), rest \ {n})
<1>1. PICK nm, at, k, j : /\ Laid(s, f, DOMAIN f, nm, at, k) /\ j \in 1..(k + 1)
                          /\ t = Upto(s, at, j) /\ rest = Ahead(nm, k, j)
  BY DEF Following
<1>2. DOMAIN f \subseteq Seq(Nat) /\ \A m \in DOMAIN f : f[m] \in Seq(Nat)
  BY DEF Directory
<1>3. j \in 1..k /\ n = nm[j] /\ rest \ {n} = Ahead(nm, k, j + 1)
  BY <1>1, <1>2, FirstIsNext
<1>4. t \o EntryBytes(n, f[n]) = Upto(s, at, j + 1)
  <2>1. Laid(s, f, DOMAIN f, nm, at, k)
    BY <1>1
  <2>2. ASSUME NEW i \in 1..k
        PROVE  Upto(s, at, i) \o EntryBytes(nm[i], f[nm[i]]) = Upto(s, at, i + 1)
    BY <2>1, NextEntry
  <2> QED
    BY <1>1, <1>3, <2>2
<1>5. j + 1 \in 1..(k + 1)
  BY <1>1, <1>3 DEF Laid
<1> QED
  BY <1>1, <1>3, <1>4, <1>5 DEF Following

(* When nothing follows, the stream is complete.                           *)
LEMMA FollowingEnds ==
  ASSUME NEW s \in Seq(Nat), NEW f, NEW t, NEW rest, Following(s, f, t, rest)
  PROVE  /\ IsStream(s, f, DOMAIN f)
         /\ rest = {} => t = s
<1>1. PICK nm, at, k, j : /\ Laid(s, f, DOMAIN f, nm, at, k) /\ j \in 1..(k + 1)
                          /\ t = Upto(s, at, j) /\ rest = Ahead(nm, k, j)
  BY DEF Following
<1>2. ASSUME rest = {} PROVE t = s
  <2>1. j = k + 1 /\ Upto(s, at, k + 1) = s
    <3> DEFINE D == DOMAIN f
    <3> HIDE DEF D
    <3>1. Laid(s, f, D, nm, at, k) /\ j \in 1..(k + 1) /\ Ahead(nm, k, j) = {}
      BY <1>1, <1>2 DEF D
    <3> QED
      BY <3>1, NothingAhead
  <2> QED
    BY <1>1, <2>1
<1> QED
  BY <1>1, <1>2 DEF IsStream

(* The parser, having digested t, is at o between two entries of s, the    *)
(* last of which was that of l.                                            *)
Reading(s, f, t, o, l) ==
  \E nm, at, k, j : /\ Laid(s, f, DOMAIN f, nm, at, k) /\ j \in 1..(k + 1)
                    /\ t = Upto(s, at, j) /\ o = at[j] + 1
                    /\ l = IF j = 1 THEN <<>> ELSE nm[j - 1]

Fits(n) == SafeName(n) /\ Len(n) <= MaxName

(* A tree is being written, or digested, in the order of its names.        *)
Building(f) ==
  /\ left \subseteq DOMAIN f
  /\ IsStream(stream, f, DOMAIN f \ left)
  /\ \A a \in DOMAIN f \ left, b \in left : Before(a, b)

TreesType ==
  /\ Directory(checkout) /\ Directory(files) /\ Directory(given)
  /\ stream \in Seq(Nat) /\ identity \in Seq(Nat) /\ archive \in Seq(Nat) /\ bytes \in Seq(Nat)
  /\ last \in Seq(Nat) /\ offset \in Nat \ {0}
  /\ swaps \in Nat /\ forged \in BOOLEAN /\ aliased \in BOOLEAN

PlanInv ==
  /\ phase = "plan" =>
       /\ swaps = 0 /\ ~forged
       /\ archive = <<Magic>> \o stream /\ Building(checkout)
       /\ \A n \in DOMAIN checkout \ left : Fits(n)
  /\ phase \notin {"plan", "unplanned"} =>
       /\ ~forged => IsStream(identity, checkout, DOMAIN checkout)
       /\ swaps = 0 => /\ ~forged /\ archive = <<Magic>> \o identity
                       /\ \A n \in DOMAIN checkout : Fits(n)

ParseInv ==
  /\ phase \in {"plan", "unplanned", "stored", "validate", "validated"} => files = EmptyTree
  /\ phase \in {"validate", "extract"} /\ swaps = 0 =>
       bytes = archive /\ Reading(identity, checkout, stream, offset, last)
  /\ phase = "extract" /\ ~aliased =>
       /\ IsStream(stream, files, DOMAIN files)
       /\ \A n \in DOMAIN files : n # <<>> /\ (n = last \/ Before(n, last))

DigestInv ==
  /\ phase = "digest" => Building(files)
  /\ phase = "digest" /\ ~aliased => Following(identity, files, stream, left)
  /\ phase \in {"run", "verify", "verified", "changed"} => IsStream(identity, given, DOMAIN given)
  /\ phase = "verify" => /\ Building(files)
                         /\ files = given => Following(identity, given, stream, left)
  /\ phase = "verified" => files = given
  /\ phase = "changed" => files # given
  /\ phase = "differs" => aliased
  /\ phase = "refused" => swaps > 0

TreesInv == TreesType /\ PlanInv /\ ParseInv /\ DigestInv

(* What take_bytes takes is in the archive.                                *)
LEMMA TakeIsThere ==
  ASSUME bytes \in Seq(Nat), NEW p \in Nat \ {0}, NEW l \in Nat, Holds(p, l)
  PROVE  /\ Take(p, l) \in Seq(Nat) /\ Len(Take(p, l)) = l
         /\ \A i \in 1..l : Take(p, l)[i] = bytes[p + i - 1]
<1>1. \A i \in 1..l : bytes[p + i - 1] \in Nat
  <2> TAKE i \in 1..l
  <2>1. Len(bytes) \in Nat
    BY LenProperties
  <2>2. p + i - 1 \in 1..Len(bytes)
    BY <2>1 DEF Holds
  <2> QED
    BY <2>2, ElementOfSeq
<1> QED
  BY <1>1 DEF Take

(* The trees of the instance are directories.                              *)
LEMMA TreesAreDirectories ==
  ASSUME NEW t \in Trees
  PROVE  Directory(t)
<1>1. Seq(Byte) \subseteq Seq(Nat)
  BY TreeArchiveAssumption, SeqMonotonic
<1>2. t \in [DOMAIN t -> Seq(Byte)] /\ \A n \in DOMAIN t : n \in Seq(Byte)
  BY TreeArchiveAssumption
<1> QED
  BY <1>1, <1>2 DEF Directory

(* An archive starts with the magic, which is not part of the digest.      *)
LEMMA MagicFirst ==
  ASSUME NEW s \in Seq(Nat)
  PROVE  /\ <<Magic>> \o s \in Seq(Nat) /\ Len(<<Magic>> \o s) = Len(s) + 1
         /\ (<<Magic>> \o s)[1] = Magic
         /\ \A i \in 1..Len(s) : (<<Magic>> \o s)[i + 1] = s[i]
<1>1. Magic \in Nat
  BY TreeArchiveAssumption
<1>2. <<Magic>> \in Seq(Nat) /\ Len(<<Magic>>) = 1 /\ <<Magic>>[1] = Magic
  BY <1>1
<1> DEFINE m == <<Magic>>
<1> HIDE DEF m
<1>3. /\ m \o s \in Seq(Nat) /\ Len(m \o s) = Len(m) + Len(s)
      /\ \A i \in 1..Len(m) : (m \o s)[i] = m[i]
      /\ \A i \in 1..Len(s) : (m \o s)[Len(m) + i] = s[i]
  BY <1>2, Joined DEF m
<1>4. Len(m) = 1 /\ m[1] = Magic /\ Len(s) \in Nat
  BY <1>2, LenProperties DEF m
<1>5. \A i \in 1..Len(s) : (m \o s)[i + 1] = s[i]
  <2> TAKE i \in 1..Len(s)
  <2>1. i + 1 = Len(m) + i
    BY <1>4
  <2> QED
    BY <1>3, <2>1
<1>6. Len(m \o s) = Len(s) + 1 /\ (m \o s)[1] = Magic
  BY <1>3, <1>4
<1> QED
  BY <1>3, <1>5, <1>6 DEF m

-----------------------------------------------------------------------------
(* It holds when nothing has been planned yet.                             *)
THEOREM TreesStart == TreesInit => TreesInv
<1> SUFFICES ASSUME TreesInit PROVE TreesInv
  OBVIOUS
<1>1. Directory(checkout) /\ Directory(EmptyTree) /\ DOMAIN EmptyTree = {}
  <2>1. Directory(checkout)
    BY TreesAreDirectories DEF TreesInit
  <2>2. DOMAIN EmptyTree = {} /\ Directory(EmptyTree)
    BY DEF EmptyTree, Directory
  <2> QED
    BY <2>1, <2>2
<1>2. <<>> \in Seq(Nat) /\ <<Magic>> \in Seq(Nat) /\ <<Magic>> = <<Magic>> \o <<>>
  BY TreeArchiveAssumption
<1>3. TreesType
  <2>1. Directory(checkout) /\ Directory(files) /\ Directory(given)
    BY <1>1 DEF TreesInit
  <2>2. stream \in Seq(Nat) /\ identity \in Seq(Nat) /\ bytes \in Seq(Nat) /\ last \in Seq(Nat)
    BY <1>2 DEF TreesInit
  <2>3. archive \in Seq(Nat)
    BY <1>2 DEF TreesInit
  <2>4. offset \in Nat \ {0} /\ swaps \in Nat
    BY DEF TreesInit
  <2>5. forged \in BOOLEAN /\ aliased \in BOOLEAN
    BY Zenon DEF TreesInit
  <2> QED
    BY <2>1, <2>2, <2>3, <2>4, <2>5 DEF TreesType
<1>4. Building(checkout)
  <2>1. DOMAIN checkout \ left = {} /\ left = DOMAIN checkout /\ stream = <<>>
    BY DEF TreesInit
  <2>2. IsStream(stream, checkout, {})
    BY <2>1, NoEntries
  <2> QED
    BY <2>1, <2>2 DEF Building
<1>5. PlanInv
  BY <1>2, <1>4 DEF TreesInit, PlanInv
<1> QED
  BY <1>3, <1>5 DEF TreesInv, ParseInv, DigestInv, TreesInit

(* The next entry, first of those left, makes the stream longer.           *)
LEMMA BuildingGoesOn ==
  ASSUME NEW f, Directory(f), stream \in Seq(Nat), Building(f), NEW n, First(n, left)
  PROVE  /\ n \in DOMAIN f
         /\ stream \o EntryBytes(n, f[n]) \in Seq(Nat)
         /\ left \ {n} \subseteq DOMAIN f
         /\ IsStream(stream \o EntryBytes(n, f[n]), f, DOMAIN f \ (left \ {n}))
         /\ \A a \in DOMAIN f \ (left \ {n}), b \in left \ {n} : Before(a, b)
<1>1. /\ n \in left /\ left \subseteq DOMAIN f /\ DOMAIN f \subseteq Seq(Nat)
      /\ \A m \in DOMAIN f : f[m] \in Seq(Nat)
      /\ \A m \in left \ {n} : Before(n, m)
  BY DEF First, Building, Directory
<1> DEFINE D == DOMAIN f \ left
<1>2. DOMAIN f \ (left \ {n}) = D \cup {n}
  BY <1>1
<1>3. \A m \in D : m \in Seq(Nat) /\ f[m] \in Seq(Nat) /\ f[m] = f[m] /\ Before(m, n)
  BY <1>1 DEF Building
<1>4. IsStream(stream, f, D) /\ f[n] \in Seq(Nat) /\ n \in Seq(Nat)
  BY <1>1 DEF Building
<1>5. \A a \in D \cup {n}, b \in left \ {n} : Before(a, b)
  BY <1>1 DEF Building
<1> HIDE DEF D
<1>6. D \subseteq Seq(Nat)
  BY <1>3
<1>7. IsStream(stream \o EntryBytes(n, f[n]), f, D \cup {n})
  BY <1>3, <1>4, <1>6, StreamGrows
<1>8. stream \o EntryBytes(n, f[n]) \in Seq(Nat)
  BY <1>4, EntryAdded
<1> QED
  BY <1>1, <1>2, <1>5, <1>7, <1>8

(* Planning writes the next entry: the archive and its digest remain       *)
(* streams.                                                                *)
LEMMA WriteEntryKeeps ==
  ASSUME TreesInv, WriteEntry
  PROVE  TreesInv'
<1>1. PICK n \in left :
        /\ First(n, left)
        /\ IF SafeName(n) /\ Len(n) <= MaxName
             THEN /\ archive' = archive \o EntryBytes(n, checkout[n])
                  /\ stream' = stream \o EntryBytes(n, checkout[n])
                  /\ left' = left \ {n}
                  /\ UNCHANGED phase
             ELSE phase' = "unplanned" /\ UNCHANGED <<archive, stream, left>>
  BY DEF WriteEntry
<1>2. /\ phase = "plan"
      /\ UNCHANGED <<checkout, identity, bytes, offset, last, files, aliased, given, forged, swaps>>
  BY DEF WriteEntry, reading, extracted
<1>3. /\ Directory(checkout) /\ stream \in Seq(Nat) /\ archive \in Seq(Nat) /\ Building(checkout)
      /\ archive = <<Magic>> \o stream /\ swaps = 0 /\ ~forged
      /\ \A m \in DOMAIN checkout \ left : Fits(m)
  BY <1>2 DEF TreesInv, TreesType, PlanInv
<1> DEFINE e == EntryBytes(n, checkout[n])
<1>4. /\ n \in DOMAIN checkout
      /\ stream \o e \in Seq(Nat)
      /\ left \ {n} \subseteq DOMAIN checkout
      /\ IsStream(stream \o e, checkout, DOMAIN checkout \ (left \ {n}))
      /\ \A a \in DOMAIN checkout \ (left \ {n}), b \in left \ {n} : Before(a, b)
  BY <1>1, <1>3, BuildingGoesOn
<1>5. e \in Seq(Nat)
  BY <1>3, <1>4, EntryLayout DEF Directory
<1> HIDE DEF e
<1>6. CASE SafeName(n) /\ Len(n) <= MaxName
  <2>1. /\ archive' = archive \o e /\ stream' = stream \o e /\ left' = left \ {n}
        /\ phase' = phase
    BY <1>1, <1>6 DEF e
  <2>2. archive' = <<Magic>> \o stream' /\ archive' \in Seq(Nat)
    <3>1. Magic \in Nat
      BY TreeArchiveAssumption
    <3>2. <<Magic>> \in Seq(Nat)
      BY <3>1
    <3>3. (<<Magic>> \o stream) \o e = <<Magic>> \o (stream \o e)
      BY <1>3, <1>5, <3>2, ConcatAssociative
    <3> QED
      BY <1>3, <1>5, <2>1, <3>3, ConcatProperties
  <2>3. Building(checkout)'
    BY <1>2, <1>4, <2>1 DEF Building
  <2>4. \A m \in DOMAIN checkout' \ left' : Fits(m)
    BY <1>2, <1>3, <1>6, <2>1 DEF Fits
  <2>5. TreesType'
    BY <1>2, <1>4, <2>1, <2>2 DEF TreesInv, TreesType
  <2>6. PlanInv'
    BY <1>2, <1>3, <2>1, <2>2, <2>3, <2>4 DEF PlanInv, Fits
  <2>7. ParseInv'
    BY <1>2, <2>1 DEF TreesInv, ParseInv
  <2>8. DigestInv'
    BY <1>2, <2>1 DEF TreesInv, DigestInv
  <2> QED
    BY <2>5, <2>6, <2>7, <2>8 DEF TreesInv
<1>7. CASE ~(SafeName(n) /\ Len(n) <= MaxName)
  <2>1. phase' = "unplanned" /\ UNCHANGED <<archive, stream, left>>
    BY <1>1, <1>7
  <2> QED
    BY <1>2, <2>1 DEF TreesInv, TreesType, PlanInv, ParseInv, DigestInv
<1> QED
  BY <1>6, <1>7

(* When planning has written the last entry the archive is complete.       *)
LEMMA FinishArchiveKeeps ==
  ASSUME TreesInv, FinishArchive
  PROVE  TreesInv'
<1>1. /\ phase = "plan" /\ left = {} /\ identity' = stream /\ phase' = "stored"
      /\ UNCHANGED <<checkout, archive, stream, left, bytes, offset, last, files, aliased, given,
                     forged, swaps>>
  BY DEF FinishArchive, reading, extracted
<1>2. DOMAIN checkout \ left = DOMAIN checkout
  BY <1>1
<1>3. /\ IsStream(identity', checkout', DOMAIN checkout')
      /\ archive' = <<Magic>> \o identity' /\ \A n \in DOMAIN checkout' : Fits(n)
  BY <1>1, <1>2 DEF TreesInv, PlanInv, Building
<1>4. TreesType'
  BY <1>1 DEF TreesInv, TreesType
<1>5. PlanInv'
  BY <1>1, <1>3 DEF TreesInv, PlanInv, Fits
<1>6. ParseInv' /\ DigestInv'
  BY <1>1 DEF TreesInv, ParseInv, DigestInv
<1> QED
  BY <1>4, <1>5, <1>6 DEF TreesInv

(* An archive that nobody replaced starts with the magic.                  *)
LEMMA BeginParseKeeps ==
  ASSUME TreesInv, NEW from, NEW to, BeginParse(from, to),
         <<from, to>> \in {<<"stored", "validate">>, <<"validated", "extract">>}
  PROVE  TreesInv'
<1>1. /\ phase = from /\ from \in {"stored", "validated"}
      /\ bytes' = archive /\ offset' = 2 /\ last' = <<>> /\ stream' = <<>>
      /\ phase' = IF archive # <<>> /\ archive[1] = Magic THEN to ELSE "refused"
      /\ UNCHANGED <<checkout, archive, identity, forged, swaps, left, files, aliased, given>>
  BY DEF BeginParse, planned, extracted
<1>2. to \in {"validate", "extract"} /\ (to = "validate" => from = "stored")
  OBVIOUS
<1>3. files = EmptyTree
  BY <1>1 DEF TreesInv, ParseInv
<1>4. ASSUME swaps = 0
      PROVE  /\ archive # <<>> /\ archive[1] = Magic
             /\ Reading(identity, checkout, <<>>, 2, <<>>)
  <2>1. /\ archive = <<Magic>> \o identity /\ identity \in Seq(Nat)
        /\ IsStream(identity, checkout, DOMAIN checkout)
    BY <1>1, <1>4 DEF TreesInv, PlanInv, TreesType
  <2>2. archive[1] = Magic /\ Len(archive) = Len(identity) + 1 /\ archive \in Seq(Nat)
    BY <2>1, MagicFirst
  <2>3. archive # <<>>
    <3>1. Len(identity) \in Nat /\ Len(<<>>) = 0
      BY <2>1, LenProperties
    <3> QED
      BY <2>2, <3>1
  <2>4. PICK nm, at, k : Laid(identity, checkout, DOMAIN checkout, nm, at, k)
    BY <2>1 DEF IsStream
  <2>5. 1 \in 1..(k + 1) /\ at[1] = 1
    BY <2>4 DEF Laid
  <2>6. Upto(identity, at, 1) = <<>>
    <3>1. Upto(identity, at, 1) = SubSeq(identity, 1, 0)
      BY <2>5 DEF Upto
    <3> QED
      BY <2>1, <3>1, SubSeqEmpty
  <2>7. /\ <<>> = Upto(identity, at, 1) /\ 2 = at[1] + 1
        /\ <<>> = IF 1 = 1 THEN <<>> ELSE nm[1 - 1]
    BY <2>5, <2>6
  <2>8. Reading(identity, checkout, <<>>, 2, <<>>)
    BY <2>4, <2>5, <2>7, Zenon DEF Reading
  <2> QED
    BY <2>2, <2>3, <2>8
<1>5. TreesType'
  <2>1. <<>> \in Seq(Nat)
    OBVIOUS
  <2> QED
    BY <1>1, <2>1 DEF TreesInv, TreesType
<1>6. PlanInv'
  BY <1>1, <1>2 DEF TreesInv, PlanInv, Fits
<1>7. ParseInv'
  <2>1. IsStream(<<>>, files, DOMAIN files) /\ DOMAIN files = {}
    BY <1>3, NoEntries DEF EmptyTree
  <2> QED
    BY <1>1, <1>2, <1>3, <1>4, <2>1 DEF ParseInv
<1>8. DigestInv'
  BY <1>1, <1>2, <1>4 DEF TreesInv, TreesType, DigestInv
<1> QED
  BY <1>5, <1>6, <1>7, <1>8 DEF TreesInv

(* What the parser finds between two entries of an untouched archive is    *)
(* the next entry.                                                         *)
LEMMA ReadsNext ==
  ASSUME NEW s \in Seq(Nat), NEW f, Directory(f), bytes = <<Magic>> \o s,
         \A n \in DOMAIN f : Fits(n), Reading(s, f, stream, offset, last), offset <= Len(bytes),
         NEW length, NEW name, NEW at, NEW content,
         length = bytes[offset], name = Take(offset + 1, length),
         at = offset + 1 + length, content = Take(at + 1, bytes[at])
  PROVE  /\ Acceptable(length, name, at)
         /\ Reading(s, f, stream \o EntryBytes(name, content), at + 1 + Len(content), name)
<1>1. PICK nm, pos, k, j :
        /\ Laid(s, f, DOMAIN f, nm, pos, k) /\ j \in 1..(k + 1)
        /\ stream = Upto(s, pos, j) /\ offset = pos[j] + 1
        /\ last = IF j = 1 THEN <<>> ELSE nm[j - 1]
  BY DEF Reading
<1>2. k \in Nat /\ Len(s) \in Nat /\ j \in Nat /\ pos[j] \in Nat \ {0}
  BY <1>1, LenProperties DEF Laid
<1>3. /\ bytes \in Seq(Nat) /\ Len(bytes) = Len(s) + 1
      /\ \A i \in 1..Len(s) : bytes[i + 1] = s[i]
  BY MagicFirst
<1>4. j \in 1..k
  <2> SUFFICES ASSUME j = k + 1 PROVE FALSE
    BY <1>1, <1>2
  <2>1. pos[j] = Len(s) + 1
    BY <1>1 DEF Laid
  <2> QED
    BY <1>1, <1>2, <1>3, <2>1
<1> DEFINE n == nm[j]
           c == f[nm[j]]
           p == pos[j]
<1>5. /\ n \in DOMAIN f /\ n \in Seq(Nat) /\ c \in Seq(Nat) /\ p \in Nat \ {0}
      /\ pos[j + 1] = p + Size(n, c) /\ p + Size(n, c) <= Len(s) + 1
      /\ EntryAt(s, p, n, c)
  <2>1. DOMAIN f \subseteq Seq(Nat) /\ \A m \in DOMAIN f : f[m] \in Seq(Nat)
    BY DEF Directory
  <2>2. nm[j] \in DOMAIN f
    BY <1>1, <1>4 DEF Laid
  <2>3. /\ pos[j + 1] = p + Size(n, c) /\ pos[j + 1] <= Len(s) + 1
        /\ EntryAt(s, p, n, c)
    BY <1>1, <1>4 DEF Laid
  <2> QED
    BY <1>2, <2>1, <2>2, <2>3
<1>6. offset = p + 1
  BY <1>1
<1> HIDE DEF n, c, p
<1>7. /\ Len(n) \in Nat /\ Len(c) \in Nat
      /\ p + 2 + Len(n) + Len(c) <= Len(s) + 1
      /\ pos[j + 1] = p + 2 + Len(n) + Len(c)
  <2>1. Len(n) \in Nat /\ Len(c) \in Nat
    BY <1>5, LenProperties
  <2> QED
    BY <1>2, <1>5, <2>1 DEF Size
<1>8. /\ s[p] = Len(n) /\ s[p + 1 + Len(n)] = Len(c)
      /\ \A i \in 1..Len(n) : s[p + i] = n[i]
      /\ \A i \in 1..Len(c) : s[p + 1 + Len(n) + i] = c[i]
  BY <1>5 DEF EntryAt
<1>9. length = Len(n)
  <2>1. p \in 1..Len(s)
    BY <1>2, <1>5, <1>7
  <2>2. bytes[p + 1] = s[p]
    BY <1>3, <2>1
  <2> QED
    BY <1>6, <1>8, <2>2
<1>10. at = p + 2 + Len(n)
  <2>1. at = (p + 1) + 1 + Len(n)
    BY <1>6, <1>9
  <2>2. (p + 1) + 1 + Len(n) = p + 2 + Len(n)
    BY <1>5, <1>7
  <2> QED
    BY <2>1, <2>2
<1>11. bytes[at] = Len(c)
  <2> DEFINE i == p + 1 + Len(n)
  <2>1. i \in 1..Len(s) /\ i + 1 = at
    <3>1. p + 1 + Len(n) \in 1..Len(s)
      BY <1>2, <1>5, <1>7
    <3>2. (p + 1 + Len(n)) + 1 = p + 2 + Len(n)
      BY <1>5, <1>7
    <3> QED
      BY <1>10, <3>1, <3>2
  <2>2. s[i] = Len(c)
    BY <1>8
  <2> HIDE DEF i
  <2>3. bytes[i + 1] = s[i]
    BY <1>3, <2>1
  <2> QED
    BY <2>1, <2>2, <2>3
<1>12. Holds(offset + 1, length)
  <2>1. ((p + 1) + 1) - 1 + Len(n) <= Len(s) + 1
    BY <1>2, <1>5, <1>7
  <2> QED
    <3>1. (offset + 1) - 1 + length = ((p + 1) + 1) - 1 + Len(n)
      BY <1>6, <1>9
    <3>2. (offset + 1) - 1 + length <= Len(bytes)
      BY <1>3, <2>1, <3>1
    <3> QED
      BY <3>2 DEF Holds
<1>13. Holds(at, 1) /\ Holds(at + 1, bytes[at])
  <2>1. /\ (p + 2 + Len(n)) - 1 + 1 <= Len(s) + 1
        /\ (p + 2 + Len(n) + 1) - 1 + Len(c) <= Len(s) + 1
    BY <1>2, <1>5, <1>7
  <2> QED
    BY <1>3, <1>10, <1>11, <2>1 DEF Holds
<1>14. name = n
  <2>1. /\ name \in Seq(Nat) /\ Len(name) = Len(n)
        /\ \A i \in 1..Len(n) : name[i] = bytes[offset + 1 + i - 1]
    <3>1. offset + 1 \in Nat \ {0} /\ length \in Nat
      BY <1>5, <1>6, <1>7, <1>9
    <3> QED
      BY <1>3, <1>9, <1>12, <3>1, TakeIsThere
  <2>2. ASSUME NEW i \in 1..Len(n) PROVE name[i] = n[i]
    <3>1. p + i \in 1..Len(s) /\ offset + 1 + i - 1 = p + i + 1
      BY <1>2, <1>5, <1>6, <1>7
    <3>2. bytes[p + i + 1] = s[p + i] /\ s[p + i] = n[i]
      BY <1>3, <1>8, <3>1
    <3> QED
      BY <2>1, <3>1, <3>2
  <2> QED
    BY <1>5, <2>1, <2>2, SeqEqual
<1>15. content = c
  <2>1. /\ content \in Seq(Nat) /\ Len(content) = Len(c)
        /\ \A i \in 1..Len(c) : content[i] = bytes[at + 1 + i - 1]
    <3>1. at + 1 \in Nat \ {0} /\ bytes[at] \in Nat
      <4>1. p + 2 + Len(n) + 1 \in Nat \ {0}
        BY <1>5, <1>7
      <4> QED
        BY <1>7, <1>10, <1>11, <4>1
    <3>2. /\ Take(at + 1, bytes[at]) \in Seq(Nat)
          /\ Len(Take(at + 1, bytes[at])) = bytes[at]
          /\ \A i \in 1..bytes[at] : Take(at + 1, bytes[at])[i] = bytes[at + 1 + i - 1]
      <4> DEFINE o == at + 1
                 l == bytes[at]
      <4>1. o \in Nat \ {0} /\ l \in Nat /\ Holds(o, l)
        BY <1>13, <3>1
      <4> HIDE DEF o, l
      <4>2. /\ Take(o, l) \in Seq(Nat) /\ Len(Take(o, l)) = l
            /\ \A i \in 1..l : Take(o, l)[i] = bytes[o + i - 1]
        BY <1>3, <4>1, TakeIsThere
      <4> QED
        BY <4>2 DEF o, l
    <3> QED
      BY <1>11, <3>2
  <2>2. ASSUME NEW i \in 1..Len(c) PROVE content[i] = c[i]
    <3> DEFINE q == p + 1 + Len(n) + i
    <3>1. q \in 1..Len(s) /\ at + 1 + i - 1 = q + 1
      <4>1. i \in Nat /\ 1 <= i /\ i <= Len(c)
        BY <1>7
      <4>2. q \in 1..Len(s)
        <5>1. p + 1 + Len(n) + i <= p + 1 + Len(n) + Len(c)
          BY <1>5, <1>7, <4>1
        <5>4. q \in Nat /\ 1 <= q
          <6>1. p + 1 + Len(n) \in Nat
            BY <1>5, <1>7
          <6> QED
            BY <4>1, <6>1
        <5>2. p + 1 + Len(n) + Len(c) <= Len(s)
          BY <1>2, <1>5, <1>7
        <5>3. q <= Len(s)
          BY <1>2, <1>5, <1>7, <4>1, <5>1, <5>2
        <5> HIDE DEF q
        <5> QED
          BY <1>2, <5>3, <5>4
      <4>3. (p + 2 + Len(n)) + 1 + i - 1 = q + 1
        BY <1>5, <1>7, <4>1
      <4> QED
        BY <1>10, <4>2, <4>3
    <3>2. s[q] = c[i]
      BY <1>8
    <3> HIDE DEF q
    <3>3. bytes[q + 1] = s[q]
      BY <1>3, <3>1
    <3> QED
      BY <2>1, <3>1, <3>2, <3>3
  <2> QED
    BY <1>5, <2>1, <2>2, SeqEqual
<1>16. NameFits(length) /\ SafeName(name)
  <2>1. SafeName(n) /\ Len(n) <= MaxName /\ n # <<>>
    BY <1>5 DEF Fits, SafeName
  <2>2. Len(n) # 0
    BY <1>5, <2>1, EmptySeq
  <2> QED
    BY <1>9, <1>14, <2>1, <2>2 DEF NameFits
<1>17. InOrder(name)
  <2>1. CASE j = 1
    BY <1>1, <2>1 DEF InOrder
  <2>2. CASE j # 1
    <3>1. j - 1 \in 1..k /\ j - 1 < j /\ last = nm[j - 1]
      BY <1>1, <1>2, <1>4, <2>2
    <3>2. Before(nm[j - 1], nm[j])
      BY <1>1, <1>4, <3>1 DEF Laid
    <3> QED
      BY <1>14, <3>1, <3>2 DEF InOrder, n
  <2> QED
    BY <2>1, <2>2
<1>18. Acceptable(length, name, at)
  BY <1>12, <1>13, <1>16, <1>17 DEF Acceptable
<1>19. Reading(s, f, stream \o EntryBytes(name, content), at + 1 + Len(content), name)
  <2>1. Upto(s, pos, j) \o EntryBytes(nm[j], f[nm[j]]) = Upto(s, pos, j + 1)
    <3>1. ASSUME NEW i \in 1..k
          PROVE  Upto(s, pos, i) \o EntryBytes(nm[i], f[nm[i]]) = Upto(s, pos, i + 1)
      <4>1. Laid(s, f, DOMAIN f, nm, pos, k)
        BY <1>1
      <4> QED
        BY <4>1, NextEntry
    <3> QED
      BY <1>4, <3>1
  <2>2. stream \o EntryBytes(name, content) = Upto(s, pos, j + 1)
    BY <1>1, <1>14, <1>15, <2>1 DEF n, c
  <2>3. at + 1 + Len(content) = pos[j + 1] + 1
    <3>1. (p + 2 + Len(n)) + 1 + Len(c) = (p + 2 + Len(n) + Len(c)) + 1
      BY <1>5, <1>7
    <3> QED
      BY <1>7, <1>10, <1>15, <3>1
  <2>4. j + 1 \in 1..(k + 1) /\ j + 1 # 1 /\ (j + 1) - 1 = j
    BY <1>2, <1>4
  <2>5. name = IF j + 1 = 1 THEN <<>> ELSE nm[(j + 1) - 1]
    BY <1>14, <2>4 DEF n
  <2> QED
    BY <1>1, <2>2, <2>3, <2>4, <2>5 DEF Reading
<1> QED
  BY <1>18, <1>19

(* At its end an untouched archive has been read as a whole.               *)
LEMMA ReadsAll ==
  ASSUME NEW s \in Seq(Nat), NEW f, Directory(f), bytes = <<Magic>> \o s,
         Reading(s, f, stream, offset, last), offset > Len(bytes)
  PROVE  stream = s
<1>1. PICK nm, pos, k, j :
        /\ Laid(s, f, DOMAIN f, nm, pos, k) /\ j \in 1..(k + 1)
        /\ stream = Upto(s, pos, j) /\ offset = pos[j] + 1
        /\ last = IF j = 1 THEN <<>> ELSE nm[j - 1]
  BY DEF Reading
<1>2. /\ k \in Nat /\ Len(s) \in Nat /\ j \in Nat /\ pos[j] \in Nat \ {0}
      /\ Len(bytes) = Len(s) + 1
  BY <1>1, LenProperties, MagicFirst DEF Laid
<1>3. j = k + 1
  <2> SUFFICES ASSUME j \in 1..k PROVE FALSE
    BY <1>1, <1>2
  <2>1. nm[j] \in Seq(Nat) /\ f[nm[j]] \in Seq(Nat)
    BY <1>1 DEF Laid, Directory
  <2>2. Size(nm[j], f[nm[j]]) \in Nat \ {0}
    BY <2>1, SizeIsPositive
  <2>3. pos[j] + Size(nm[j], f[nm[j]]) <= Len(s) + 1
    <3>1. pos[j + 1] = pos[j] + Size(nm[j], f[nm[j]]) /\ pos[j + 1] <= Len(s) + 1
      BY <1>1 DEF Laid
    <3> QED
      BY <3>1
  <2>4. pos[j] + 1 > Len(s) + 1
    BY <1>1, <1>2
  <2> QED
    BY <1>2, <2>2, <2>3, <2>4
<1>4. Laid(s, f, DOMAIN f, nm, pos, k) /\ k + 1 \in 1..(k + 1)
  BY <1>1, <1>2
<1>5. Upto(s, pos, k + 1) = s
  BY <1>4, NothingAhead
<1> QED
  BY <1>1, <1>3, <1>5

(* Parsing one more entry: what was parsed is canonical, and of an         *)
(* untouched archive it is what was planned.                               *)
LEMMA ParseEntryKeeps ==
  ASSUME TreesInv, ParseEntry
  PROVE  TreesInv'
<1> DEFINE length == bytes[offset]
           name == Take(offset + 1, length)
           at == offset + 1 + length
           content == Take(at + 1, bytes[at])
           grown(kept) == [n \in DOMAIN files \cup {kept} |->
                             IF n = kept THEN content ELSE files[n]]
<1>1. /\ phase \in {"validate", "extract"} /\ offset <= Len(bytes)
      /\ UNCHANGED <<checkout, archive, identity, forged, swaps, left, bytes, given>>
  BY DEF ParseEntry, planned
<1>2. \/ ~Acceptable(length, name, at) /\ phase' = "refused"
         /\ UNCHANGED <<stream, offset, last, files, aliased>>
      \/ /\ Acceptable(length, name, at)
         /\ stream' = stream \o EntryBytes(name, content)
         /\ offset' = at + 1 + Len(content) /\ last' = name
         /\ \/ phase = "validate" /\ UNCHANGED <<phase, files, aliased>>
            \/ /\ phase = "extract" /\ UNCHANGED phase
               /\ \E kept \in Spellings(name) :
                    /\ kept \notin DOMAIN files /\ files' = grown(kept)
                    /\ aliased' = (aliased \/ kept # name)
            \/ phase = "extract" /\ phase' = "failed" /\ UNCHANGED <<files, aliased>>
  BY DEF ParseEntry, extracted
<1>3. /\ bytes \in Seq(Nat) /\ offset \in 1..Len(bytes) /\ length \in Nat
      /\ Directory(files) /\ stream \in Seq(Nat) /\ last \in Seq(Nat)
  <2>1. bytes \in Seq(Nat) /\ offset \in Nat \ {0} /\ Len(bytes) \in Nat
    BY LenProperties DEF TreesInv, TreesType
  <2>2. offset \in 1..Len(bytes)
    BY <1>1, <2>1
  <2> QED
    BY <2>1, <2>2, ElementOfSeq DEF TreesInv, TreesType
<1>4. ASSUME swaps = 0
      PROVE  /\ Acceptable(length, name, at)
             /\ Reading(identity, checkout, stream \o EntryBytes(name, content),
                        at + 1 + Len(content), name)
  <2>1. /\ identity \in Seq(Nat) /\ Directory(checkout) /\ bytes = <<Magic>> \o identity
        /\ (\A n \in DOMAIN checkout : Fits(n))
        /\ Reading(identity, checkout, stream, offset, last)
    BY <1>1, <1>4 DEF TreesInv, TreesType, PlanInv, ParseInv
  <2> DEFINE Next1(s, f) == /\ Acceptable(length, name, at)
                            /\ Reading(s, f, stream \o EntryBytes(name, content),
                                       at + 1 + Len(content), name)
  <2>2. Next1(identity, checkout)
    BY <1>1, <2>1, ReadsNext
  <2> QED
    BY <2>2
<1>5. ASSUME Acceptable(length, name, at)
      PROVE  /\ name \in Seq(Nat) /\ content \in Seq(Nat) /\ at \in Nat
             /\ name # <<>> /\ (last = <<>> \/ Before(last, name))
  <2>1. Holds(offset + 1, length) /\ Holds(at, 1) /\ Holds(at + 1, bytes[at])
    BY <1>5 DEF Acceptable
  <2>2. offset + 1 \in Nat \ {0} /\ at \in Nat \ {0} /\ at + 1 \in Nat \ {0}
    BY <1>3
  <2> HIDE DEF at, length
  <2>3. Take(offset + 1, length) \in Seq(Nat)
    BY <1>3, <2>1, <2>2, TakeIsThere
  <2>4. bytes[at] \in Nat
    <3>1. at \in 1..Len(bytes)
      BY <1>3, <2>1, <2>2, LenProperties DEF Holds
    <3> QED
      BY <1>3, <3>1, ElementOfSeq
  <2>5. Take(at + 1, bytes[at]) \in Seq(Nat)
    BY <1>3, <2>1, <2>2, <2>4, TakeIsThere
  <2>6. SafeName(name) /\ InOrder(name)
    BY <1>5 DEF Acceptable
  <2> QED
    BY <2>2, <2>3, <2>5, <2>6 DEF SafeName, InOrder
<1> HIDE DEF length, name, at, content
<1>6. CASE ~Acceptable(length, name, at)
  <2>1. phase' = "refused" /\ UNCHANGED <<stream, offset, last, files, aliased>>
    BY <1>2, <1>6
  <2>2. swaps > 0
    BY <1>4, <1>6 DEF TreesInv, TreesType
  <2>3. TreesType'
    BY <1>1, <2>1 DEF TreesInv, TreesType
  <2>4. PlanInv' /\ ParseInv' /\ DigestInv'
    BY <1>1, <2>1, <2>2 DEF TreesInv, PlanInv, ParseInv, DigestInv, Fits
  <2> QED
    BY <2>3, <2>4 DEF TreesInv
<1>7. CASE Acceptable(length, name, at)
  <2>1. /\ stream' = stream \o EntryBytes(name, content)
        /\ offset' = at + 1 + Len(content) /\ last' = name
        /\ \/ phase = "validate" /\ UNCHANGED <<phase, files, aliased>>
           \/ /\ phase = "extract" /\ UNCHANGED phase
              /\ \E kept \in Spellings(name) :
                   /\ kept \notin DOMAIN files /\ files' = grown(kept)
                   /\ aliased' = (aliased \/ kept # name)
           \/ phase = "extract" /\ phase' = "failed" /\ UNCHANGED <<files, aliased>>
    BY <1>2, <1>7
  <2>2. /\ name \in Seq(Nat) /\ content \in Seq(Nat) /\ at \in Nat
        /\ name # <<>> /\ (last = <<>> \/ Before(last, name))
    BY <1>5, <1>7
  <2>3. stream' \in Seq(Nat) /\ last' \in Seq(Nat) /\ offset' \in Nat \ {0}
    <3>1. at + 1 + Len(content) \in Nat \ {0}
      BY <2>2, LenProperties
    <3> QED
      BY <1>3, <2>1, <2>2, <3>1, EntryAdded
  <2>4. \A kept \in Spellings(name) : kept \in Seq(Nat) /\ Directory(grown(kept))
    <3>1. \A kept \in Spellings(name) : kept \in Seq(Nat)
      BY <2>2, TreeArchiveAssumption DEF Spellings
    <3> QED
      BY <1>3, <2>2, <3>1 DEF Directory
  <2>5. Directory(files') /\ aliased' \in BOOLEAN
    <3>1. Directory(files')
      BY <1>3, <2>1, <2>4
    <3>2. aliased' \in BOOLEAN
      BY <2>1, Zenon DEF TreesInv, TreesType
    <3> QED
      BY <3>1, <3>2
  <2>6. TreesType'
    BY <1>1, <2>3, <2>5 DEF TreesInv, TreesType
  <2>7. PlanInv'
    BY <1>1, <2>1 DEF TreesInv, PlanInv, Fits
  <2>8. DigestInv'
    BY <1>1, <2>1 DEF TreesInv, DigestInv
  <2>9. ASSUME phase' \in {"validate", "extract"}, swaps' = 0
        PROVE  bytes' = archive' /\ Reading(identity, checkout, stream, offset, last)'
    <3>1. bytes = archive
      BY <1>1, <2>9 DEF TreesInv, ParseInv
    <3>2. Reading(identity, checkout, stream', offset', last')
      BY <1>1, <1>4, <2>1, <2>9
    <3>3. Reading(identity', checkout', stream', offset', last')
      BY <1>1, <3>2
    <3> QED
      BY <1>1, <3>1, <3>3
  <2>10. ASSUME phase' = "extract", ~aliased'
         PROVE  /\ IsStream(stream, files, DOMAIN files)'
                /\ \A n \in DOMAIN files' : n # <<>> /\ (n = last' \/ Before(n, last'))
    <3> DEFINE tree == grown(name)
    <3>1. phase = "extract" /\ ~aliased /\ name \notin DOMAIN files /\ files' = tree
      <4>1. PICK kept \in Spellings(name) :
              /\ phase = "extract"
              /\ kept \notin DOMAIN files /\ files' = grown(kept)
              /\ aliased' = (aliased \/ kept # name)
        BY <2>1, <2>10
      <4>2. ~aliased /\ kept = name
        BY <2>10, <4>1
      <4> QED
        BY <4>1, <4>2
    <3>2. /\ IsStream(stream, files, DOMAIN files)
          /\ \A n \in DOMAIN files : n # <<>> /\ (n = last \/ Before(n, last))
      BY <3>1 DEF TreesInv, ParseInv
    <3>3. DOMAIN tree = DOMAIN files \cup {name} /\ tree[name] = content
      OBVIOUS
    <3>4. DOMAIN files \subseteq Seq(Nat) /\ \A n \in DOMAIN files : files[n] \in Seq(Nat)
      BY <1>3 DEF Directory
    <3>5. ASSUME NEW n \in DOMAIN files
          PROVE  files[n] \in Seq(Nat) /\ tree[n] = files[n] /\ Before(n, name)
      <4>1. tree[n] = files[n]
        BY <3>1
      <4>2. last # <<>>
        <5>1. n # <<>> /\ (n = last \/ Before(n, last))
          BY <3>2
        <5>2. ~Before(n, <<>>)
          BY DEF Before
        <5> QED
          BY <5>1, <5>2
      <4>3. Before(last, name)
        BY <2>2, <4>2
      <4>4. Before(n, name)
        BY <1>3, <2>2, <3>2, <3>4, <4>3, BeforeIsTransitive
      <4> QED
        BY <3>4, <4>1, <4>4
    <3> HIDE DEF tree
    <3>6. IsStream(stream \o EntryBytes(name, content), tree, DOMAIN files \cup {name})
      <4>1. IsStream(stream \o EntryBytes(name, tree[name]), tree, DOMAIN files \cup {name})
        BY <1>3, <2>2, <3>2, <3>3, <3>4, <3>5, StreamGrows
      <4> QED
        BY <3>3, <4>1
    <3>7. IsStream(stream', files', DOMAIN files')
      BY <2>1, <3>1, <3>3, <3>6
    <3>8. \A n \in DOMAIN files' : n # <<>> /\ (n = last' \/ Before(n, last'))
      BY <2>1, <2>2, <3>1, <3>2, <3>3, <3>5
    <3> QED
      BY <3>7, <3>8
  <2>11. phase' \in {"plan", "unplanned", "stored", "validate", "validated"} => files' = EmptyTree
    BY <1>1, <2>1 DEF TreesInv, ParseInv
  <2>12. ParseInv'
    BY <2>9, <2>10, <2>11 DEF ParseInv
  <2> QED
    BY <2>6, <2>7, <2>8, <2>12 DEF TreesInv
<1> QED
  BY <1>6, <1>7

(* Where parsing ends an untouched archive has been read as a whole.       *)
LEMMA EndOfArchiveKeeps ==
  ASSUME TreesInv, EndOfArchive
  PROVE  TreesInv'
<1>1. /\ phase \in {"validate", "extract"} /\ offset > Len(bytes)
      /\ phase' = IF stream # identity THEN "refused"
                  ELSE IF phase = "validate" THEN "validated" ELSE "digest"
      /\ left' = DOMAIN files /\ stream' = <<>>
      /\ UNCHANGED <<checkout, archive, identity, forged, swaps, bytes, offset, last, files, aliased, given>>
  BY DEF EndOfArchive, IdentityHolds, planned, reading, extracted
<1>2. ASSUME swaps = 0 PROVE stream = identity
  <2>1. /\ identity \in Seq(Nat) /\ Directory(checkout) /\ bytes = <<Magic>> \o identity
        /\ Reading(identity, checkout, stream, offset, last)
    BY <1>1, <1>2 DEF TreesInv, TreesType, PlanInv, ParseInv
  <2> QED
    BY <1>1, <2>1, ReadsAll
<1>3. ASSUME phase = "extract", ~aliased, stream = identity
      PROVE  Following(identity, files, <<>>, DOMAIN files)
  <2>1. IsStream(identity, files, DOMAIN files) /\ identity \in Seq(Nat)
    BY <1>3 DEF TreesInv, TreesType, ParseInv
  <2> QED
    BY <2>1, FollowingStarts
<1>4. TreesType'
  <2>1. <<>> \in Seq(Nat)
    OBVIOUS
  <2> QED
    BY <1>1, <2>1 DEF TreesInv, TreesType
<1>5. PlanInv'
  BY <1>1 DEF TreesInv, PlanInv, Fits
<1>6. ParseInv'
  BY <1>1 DEF TreesInv, ParseInv
<1>7. DigestInv'
  <2>1. phase' = "digest" /\ ~aliased' => Following(identity', files', stream', left')
    BY <1>1, <1>3
  <2>2. phase' = "refused" => swaps' > 0
    BY <1>1, <1>2 DEF TreesInv, TreesType
  <2>3. Building(files)'
    <3>1. DOMAIN files \ DOMAIN files = {} /\ IsStream(<<>>, files, {})
      BY NoEntries
    <3> QED
      BY <1>1, <3>1 DEF Building
  <2> QED
    BY <1>1, <2>1, <2>2, <2>3 DEF DigestInv
<1> QED
  BY <1>4, <1>5, <1>6, <1>7 DEF TreesInv

(* Digesting one more file: what was digested remains a stream.            *)
LEMMA DigestEntryKeeps ==
  ASSUME TreesInv, DigestEntry
  PROVE  TreesInv'
<1>1. PICK n \in left : /\ First(n, left)
                        /\ stream' = stream \o EntryBytes(n, files[n])
                        /\ left' = left \ {n}
  BY DEF DigestEntry
<1>2. /\ phase \in {"digest", "verify"}
      /\ UNCHANGED <<checkout, archive, identity, forged, swaps, phase, bytes, offset, last,
                     files, aliased, given>>
  BY DEF DigestEntry, planned, reading, extracted
<1>3. /\ identity \in Seq(Nat) /\ stream \in Seq(Nat) /\ Directory(files) /\ Directory(given)
  BY DEF TreesInv, TreesType
<1> DEFINE s2 == stream \o EntryBytes(n, files[n])
<1>4. Building(files)
  BY <1>2 DEF TreesInv, DigestInv
<1>5. /\ s2 \in Seq(Nat)
      /\ left \ {n} \subseteq DOMAIN files
      /\ IsStream(s2, files, DOMAIN files \ (left \ {n}))
      /\ \A a \in DOMAIN files \ (left \ {n}), b \in left \ {n} : Before(a, b)
  BY <1>1, <1>3, <1>4, BuildingGoesOn
<1>6. ASSUME phase = "digest", ~aliased PROVE Following(identity, files, s2, left \ {n})
  <2>1. Following(identity, files, stream, left)
    BY <1>6 DEF TreesInv, DigestInv
  <2> QED
    BY <1>1, <1>3, <2>1, FollowingGoesOn
<1>7. ASSUME phase = "verify", files = given
      PROVE  Following(identity, given, s2, left \ {n})
  <2>1. Following(identity, files, stream, left)
    BY <1>7 DEF TreesInv, DigestInv
  <2>2. Following(identity, files, s2, left \ {n})
    BY <1>1, <1>3, <2>1, FollowingGoesOn
  <2> QED
    BY <1>7, <2>2
<1> HIDE DEF s2
<1>8. stream' = s2
  BY <1>1 DEF s2
<1>9. TreesType'
  BY <1>2, <1>5, <1>8 DEF TreesInv, TreesType
<1>10. PlanInv' /\ ParseInv'
  BY <1>2 DEF TreesInv, PlanInv, ParseInv, Fits
<1>11. Building(files)'
  BY <1>1, <1>2, <1>5, <1>8 DEF Building
<1>12. DigestInv'
  BY <1>1, <1>2, <1>6, <1>7, <1>8, <1>11 DEF TreesInv, DigestInv
<1> QED
  BY <1>9, <1>10, <1>12 DEF TreesInv

(* Two directories with one stream are one.                                *)
LEMMA OneDirectory ==
  ASSUME NEW s \in Seq(Nat), NEW f, NEW g, Directory(f), Directory(g),
         IsStream(s, f, DOMAIN f), IsStream(s, g, DOMAIN g)
  PROVE  f = g
<1>1. /\ DOMAIN f \subseteq Seq(Nat) /\ \A n \in DOMAIN f : f[n] \in Seq(Nat)
      /\ DOMAIN g \subseteq Seq(Nat) /\ \A n \in DOMAIN g : g[n] \in Seq(Nat)
  BY DEF Directory
<1>2. DOMAIN f = DOMAIN g /\ \A n \in DOMAIN f : f[n] = g[n]
  BY <1>1, StreamsTell
<1> QED
  BY <1>2 DEF Directory

(* A digest that is the recorded one is the digest of the recorded tree.   *)
LEMMA EndOfDigestKeeps ==
  ASSUME TreesInv, EndOfDigest
  PROVE  TreesInv'
<1>1. /\ left = {}
      /\ \/ phase = "digest" /\ stream = identity /\ phase' = "run" /\ given' = files
         \/ phase = "digest" /\ stream # identity /\ phase' = "differs" /\ given' = given
         \/ phase = "verify" /\ stream = identity /\ phase' = "verified" /\ given' = given
         \/ phase = "verify" /\ stream # identity /\ phase' = "changed" /\ given' = given
      /\ UNCHANGED <<checkout, archive, identity, forged, swaps, stream, left, bytes, offset, last,
                     files, aliased>>
  BY DEF EndOfDigest, IdentityHolds, planned, reading, extracted
<1>2. /\ Directory(files) /\ Directory(given) /\ identity \in Seq(Nat)
  BY DEF TreesInv, TreesType
<1>3. TreesType'
  BY <1>1 DEF TreesInv, TreesType
<1>4. PlanInv' /\ ParseInv'
  BY <1>1 DEF TreesInv, PlanInv, ParseInv, Fits
<1>5. ASSUME phase = "digest"
      PROVE  IsStream(stream, files, DOMAIN files) /\ (~aliased => stream = identity)
  <2>1. IsStream(stream, files, DOMAIN files \ left)
    BY <1>5 DEF TreesInv, DigestInv, Building
  <2>2. DOMAIN files \ left = DOMAIN files
    BY <1>1
  <2>3. ASSUME ~aliased PROVE stream = identity
    <3>1. Following(identity, files, stream, left)
      BY <1>5, <2>3 DEF TreesInv, DigestInv
    <3> QED
      BY <1>1, <1>2, <3>1, FollowingEnds
  <2> QED
    BY <2>1, <2>2, <2>3
<1>6. ASSUME phase = "verify"
      PROVE  (stream = identity) <=> (files = given)
  <2>1. /\ IsStream(identity, given, DOMAIN given) /\ IsStream(stream, files, DOMAIN files \ left)
        /\ files = given => Following(identity, given, stream, left)
    BY <1>6 DEF TreesInv, DigestInv, Building
  <2>2. DOMAIN files \ left = DOMAIN files
    BY <1>1
  <2>3. ASSUME stream = identity PROVE files = given
    <3>1. IsStream(identity, files, DOMAIN files)
      BY <2>1, <2>2, <2>3
    <3> QED
      BY <1>2, <2>1, <3>1, OneDirectory
  <2>4. ASSUME files = given PROVE stream = identity
    BY <1>1, <1>2, <2>1, <2>4, FollowingEnds
  <2> QED
    BY <2>3, <2>4
<1>7. DigestInv'
  BY <1>1, <1>5, <1>6 DEF TreesInv, DigestInv
<1> QED
  BY <1>3, <1>4, <1>7 DEF TreesInv

(* What cannot be read is given up.                                        *)
LEMMA CannotReadKeeps ==
  ASSUME TreesInv, CannotRead
  PROVE  TreesInv'
<1>1. /\ phase \in {"stored", "validated", "digest", "verify"} /\ phase' = "failed"
      /\ UNCHANGED <<checkout, archive, identity, forged, swaps, stream, left, bytes, offset, last,
                     files, aliased, given>>
  BY DEF CannotRead, planned, reading, extracted
<1> QED
  BY <1>1 DEF TreesInv, TreesType, PlanInv, ParseInv, DigestInv, Fits

(* The native program may change its files.                                *)
LEMMA NativeChangesKeeps ==
  ASSUME TreesInv, NativeChanges
  PROVE  TreesInv'
<1>1. /\ phase = "run" /\ phase' = "run" /\ files' \in Trees
      /\ UNCHANGED <<checkout, archive, identity, forged, swaps, stream, left, bytes, offset, last,
                     aliased, given>>
  BY DEF NativeChanges, planned, reading, extracted
<1>2. Directory(files')
  BY <1>1, TreesAreDirectories
<1>3. TreesType'
  BY <1>1, <1>2 DEF TreesInv, TreesType
<1> QED
  BY <1>1, <1>3 DEF TreesInv, PlanInv, ParseInv, DigestInv, Fits

(* The files are digested again when the native program has ended.         *)
LEMMA VerifyMaterializedKeeps ==
  ASSUME TreesInv, VerifyMaterialized
  PROVE  TreesInv'
<1>1. /\ phase = "run" /\ phase' = "verify" /\ left' = DOMAIN files /\ stream' = <<>>
      /\ UNCHANGED <<checkout, archive, identity, forged, swaps, bytes, offset, last, files, aliased, given>>
  BY DEF VerifyMaterialized, planned, reading, extracted
<1>2. /\ IsStream(identity, given, DOMAIN given) /\ identity \in Seq(Nat) /\ <<>> \in Seq(Nat)
  BY <1>1 DEF TreesInv, TreesType, DigestInv
<1>3. Following(identity, given, <<>>, DOMAIN given)
  BY <1>2, FollowingStarts
<1>4. Building(files)'
  <2>1. DOMAIN files \ DOMAIN files = {} /\ IsStream(<<>>, files, {})
    BY NoEntries
  <2> QED
    BY <1>1, <2>1 DEF Building
<1>5. TreesType'
  BY <1>1, <1>2 DEF TreesInv, TreesType
<1>6. PlanInv' /\ ParseInv'
  BY <1>1 DEF TreesInv, PlanInv, ParseInv, Fits
<1>7. DigestInv'
  BY <1>1, <1>2, <1>3, <1>4 DEF DigestInv
<1> QED
  BY <1>5, <1>6, <1>7 DEF TreesInv

(* Somebody replaces the archive.                                          *)
LEMMA SwapKeeps ==
  ASSUME TreesInv, Swap
  PROVE  TreesInv'
<1>1. /\ phase \in {"stored", "validated"} /\ swaps' = swaps + 1 /\ archive' \in Archives
      /\ \/ UNCHANGED <<identity, forged>>
         \/ archive' # <<>> /\ identity' = Tail(archive') /\ forged' = TRUE
      /\ UNCHANGED <<checkout, phase, stream, left, bytes, offset, last, files, aliased, given>>
  BY DEF Swap, reading, extracted
<1>2. archive' \in Seq(Nat)
  BY <1>1, TreeArchiveAssumption
<1>3. identity' \in Seq(Nat)
  <2>1. CASE UNCHANGED identity
    BY <2>1 DEF TreesInv, TreesType
  <2>2. CASE archive' # <<>> /\ identity' = Tail(archive')
    BY <1>2, <2>2, HeadTailProperties
  <2> QED
    BY <1>1, <2>1, <2>2
<1>4. swaps' \in Nat /\ swaps' > 0 /\ swaps' # 0
  BY <1>1 DEF TreesInv, TreesType
<1>5. forged' \in BOOLEAN
  BY <1>1, Zenon DEF TreesInv, TreesType
<1>6. TreesType'
  BY <1>1, <1>2, <1>3, <1>4, <1>5 DEF TreesInv, TreesType
<1>7. PlanInv'
  BY <1>1, <1>4 DEF TreesInv, PlanInv
<1>8. ParseInv' /\ DigestInv'
  BY <1>1, <1>4 DEF TreesInv, ParseInv, DigestInv
<1> QED
  BY <1>6, <1>7, <1>8 DEF TreesInv

(* The invariant holds of every tree, name and content, however often an   *)
(* archive is replaced.                                                    *)
THEOREM TreesInvariant == TreesSpec => []TreesInv
<1>1. TreesInit => TreesInv
  BY TreesStart
<1>2. TreesInv /\ [TreesNext]_trees => TreesInv'
  <2> SUFFICES ASSUME TreesInv, [TreesNext]_trees PROVE TreesInv'
    OBVIOUS
  <2>1. CASE WriteEntry
    BY <2>1, WriteEntryKeeps
  <2>2. CASE FinishArchive
    BY <2>2, FinishArchiveKeeps
  <2>3. CASE BeginValidate
    BY <2>3, BeginParseKeeps DEF BeginValidate
  <2>4. CASE BeginExtract
    BY <2>4, BeginParseKeeps DEF BeginExtract
  <2>5. CASE ParseEntry
    BY <2>5, ParseEntryKeeps
  <2>6. CASE EndOfArchive
    BY <2>6, EndOfArchiveKeeps
  <2>7. CASE DigestEntry
    BY <2>7, DigestEntryKeeps
  <2>8. CASE EndOfDigest
    BY <2>8, EndOfDigestKeeps
  <2>9. CASE NativeChanges
    BY <2>9, NativeChangesKeeps
  <2>10. CASE VerifyMaterialized
    BY <2>10, VerifyMaterializedKeeps
  <2>11. CASE Swap
    BY <2>11, SwapKeeps
  <2>12. CASE CannotRead
    BY <2>12, CannotReadKeeps
  <2>13. CASE UNCHANGED trees
    BY <2>13 DEF trees, planned, reading, extracted, TreesInv, TreesType, PlanInv, ParseInv, DigestInv, Building, Fits
  <2> QED
    BY <2>1, <2>2, <2>3, <2>4, <2>5, <2>6, <2>7, <2>8, <2>9, <2>10, <2>11, <2>12, <2>13
       DEF TreesNext
<1> QED
  BY <1>1, <1>2, PTL DEF TreesSpec

(* An archive that is parsed to its end is the one archive of the tree     *)
(* parsed from it: parse_tree_archive accepts no second encoding, and what *)
(* it extracts differs only where the file system kept a file under        *)
(* another name.                                                           *)
THEOREM ArchivesStayCanonical == TreesSpec => []ArchivesAreCanonical
<1>1. TreesInv => ArchivesAreCanonical
  BY DEF TreesInv, DigestInv, ArchivesAreCanonical
<1> QED
  BY <1>1, TreesInvariant, PTL

(* Of any tree: what was planned and not touched is given to the native    *)
(* program, and a change is found if and only if that made one.            *)
THEOREM TreesArrive == TreesSpec => []TreesArriveAsPlanned
<1>1. TreesInv => TreesArriveAsPlanned
  <2> SUFFICES ASSUME TreesInv PROVE TreesArriveAsPlanned
    OBVIOUS
  <2>1. /\ phase = "refused" => swaps > 0
        /\ phase = "changed" => files # given
        /\ phase = "verified" => files = given
    BY DEF TreesInv, DigestInv
  <2>2. ASSUME phase \in {"run", "verified"}, ~forged PROVE given = checkout
    <3>1. /\ IsStream(identity, given, DOMAIN given) /\ IsStream(identity, checkout, DOMAIN checkout)
          /\ Directory(given) /\ Directory(checkout) /\ identity \in Seq(Nat)
      BY <2>2 DEF TreesInv, TreesType, PlanInv, DigestInv
    <3> QED
      BY <3>1, OneDirectory
  <2> QED
    BY <2>1, <2>2 DEF TreesArriveAsPlanned
<1> QED
  BY <1>1, TreesInvariant, PTL
===============================================================================
