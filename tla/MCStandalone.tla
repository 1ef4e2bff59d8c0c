----------------------------- MODULE MCStandalone -----------------------------
(***************************************************************************)
(* The components that share no state with the others, one at a time: each *)
(* initial state picks one, which is the only one to take steps.  The pure *)
(* readers take one step, from an input to what they make of it.           *)
(***************************************************************************)
EXTENDS Registration, PythonAdmission, AuditTopology, ContainmentProbe, Readers, TreeArchive

CONSTANTS p1, p2, a1, a2, lister, measure, good, bad

VARIABLE which

(* Two capsules under one id, of which one cites evidence; a qualification *)
(* of each kind; and candidates, one of which breaks its contract.         *)
Asked(kind, id, declared, cites) ==
  [kind |-> kind, id |-> id, files |-> declared, cites |-> cites, capsule |-> None,
   paths |-> {}, sound |-> TRUE]
MCDescriptors ==
  {Asked("capsule", "c", 1 :> good @@ 2 :> bad, {}),
   Asked("capsule", "c", 1 :> good, {bad}),
   Asked("native", "n", 1 :> good, {}),
   Asked("candidate", "k1", <<>>, {bad}),
   [Asked("candidate", "k2", <<>>, {}) EXCEPT !.sound = FALSE],
   [Asked("python", None, <<>>, {good}) EXCEPT !.capsule = "c", !.paths = {2}]}

ASSUME RegistrationIsWellFormed == DescriptorsAreWellFormed

Symmetry == Permutations({p1, p2}) \cup Permutations({a1, a2})

(* The five checks of an admission hold of one of two sets of bytes.       *)
MCProves == good :> TRUE @@ bad :> FALSE

-----------------------------------------------------------------------------
(* Topologies: every document of up to two steps with lists of up to two   *)
(* predecessors, right or wrong, every graph of three and many of four     *)
(* steps, some of them with a list out of order or with a repetition.      *)
InOrderOf(set) == SetToSortSeq(set, <)
Numbered(n, choices) ==
  {[i \in 1..n |-> [id |-> i, plan |-> i, predecessors |-> f[i]]] : f \in [1..n -> choices]}
MCTopologies ==
  BoundedSeq([id : 1..2, plan : 1..2, predecessors : BoundedSeq(1..3, 2)], 2)
  \cup Numbered(3, {InOrderOf(set) : set \in SUBSET (1..3)} \cup {<<2, 1>>, <<1, 1>>, <<1, 3, 2>>})
  \cup Numbered(4, {<<>>, <<1, 2, 3>>, <<2, 1>>} \cup {<<i>> : i \in 1..4})

(* Trees of up to two names, one below the other or too long or unsafe;    *)
(* all archives of a few symbols, and those of up to two files in any      *)
(* order, whole or with a symbol more or less.                             *)
MCTrees ==
  UNION {[D -> {<<>>, <<1>>, <<1, 0>>}] :
           D \in kSubset(2, {<<0>>, <<0, 0>>, <<1>>}) \cup {{}, {<<1>>}, {<<1>>, <<0, 0, 0>>},
                                                        {<<1>>, <<0, 2>>}}}
(* A name that loses its last symbol, and one that gets another.           *)
MCKeptAs == {<< <<0, 0>>, <<0>> >>, << <<1>>, <<0, 1>> >>}
Entries == {EntryBytes(n, c) : n \in {<<0>>, <<0, 0>>, <<1>>, <<2>>}, c \in {<<>>, <<1, 0>>}}
MCArchives ==
  LET whole == {<<Magic>> \o s : s \in Entries \cup {s \o t : s, t \in Entries}}
  IN whole \cup {Front(a) : a \in whole} \cup {Append(a, 1) : a \in whole}
     \cup {<<Magic>> \o s : s \in BoundedSeq(Byte, 4)} \cup {<<>>, <<0>>, <<2, 1>>}

(* Images: one section at every place, one fixed; tables that end, do not  *)
(* end, or name modules at addresses inside and outside of them.           *)
MCImages ==
  [sections : {<<s, [va |-> 3, vsize |-> 1, raw |-> 2, rsize |-> 1]>> :
                 s \in [va : {0, 1, 4}, vsize : {0, 2, 4}, raw : {0, 2, 4}, rsize : {0, 1, 3}]},
   cells : {<<>>, <<0, 0>>, <<1, 0, 2>>, <<2, 3, 0, 1>>, <<1, 2, 3, 4>>, <<W, 0, 1, 1>>,
            <<1, 1, 0, 0>>, <<3, 0, 4, 0>>},
   importRva : 0..(W - 1), importSize : {0, 2, 3}, delayRva : {0, 1}, delaySize : {0, 2}]

(* Wheels: two files, one also under another spelling, and a RECORD.       *)
At(n, u) == [name |-> n, upper |-> u, record |-> n = "RECORD"]
MCPaths == {At("x", FALSE), At("x", TRUE), At("y", FALSE), At("RECORD", FALSE)}
MCSizeOf == [c \in {good, bad} |-> IF c = good THEN 1 ELSE 2]
Of(n, u, c) == [path |-> At(n, u), content |-> c]
Line(n, u, c, z) == [path |-> At(n, u), hash |-> c, size |-> z]
MemberLists ==
  BoundedSeq({Of("x", FALSE, good), Of("x", TRUE, good), Of("x", FALSE, bad),
              Of("RECORD", FALSE, good)}, 2)
  \cup {<<Of("RECORD", FALSE, bad), Of("x", FALSE, good), Of("y", FALSE, bad)>>}
LineLists ==
  BoundedSeq({Line("x", FALSE, good, 1), Line("x", FALSE, good, 2), Line("x", FALSE, bad, 2),
              Line("x", TRUE, good, 1), Line("y", FALSE, bad, 2), Line("RECORD", FALSE, good, 0)}, 2)
MCWheels == [members : MemberLists, record : LineLists, installed : LineLists]

-----------------------------------------------------------------------------
TopologyOff ==
  /\ topology = None /\ preds = None /\ inDegree = Empty /\ ready = None
  /\ visited = None /\ position = None /\ verdict = "off"
TreesOff ==
  /\ checkout = None /\ archive = None /\ identity = None /\ phase = "off"
  /\ stream = None /\ left = None /\ bytes = None /\ offset = None /\ last = None
  /\ files = None /\ given = None /\ aliased = None /\ forged = None /\ swaps = None
ReaderOff == input = None /\ output = NoOutput
AdmissionOff ==
  /\ capsule = None /\ qual = None /\ intact = None /\ admission = None
  /\ pc = [p \in Sessions |-> "idle"]
  /\ asked = None /\ stage = None /\ held = None /\ made = None /\ cursor = None
  /\ citing = None /\ rewrites = None
ProbeOff ==
  /\ parent = "off" /\ contained = None /\ assigned = None /\ child = None /\ exit = None
  /\ marker = None /\ reached = None /\ backlog = None /\ accepted = None /\ missed = None
  /\ polls = None /\ strangers = None /\ proof = None
RegistrationOff ==
  /\ descriptor = None /\ root = None /\ objects = None /\ records = None
  /\ step = [p \in Commands \cup Readers |-> "idle"]
  /\ program = None /\ linked = None /\ recorder = None /\ lists = None
  /\ unloaded = None /\ unverified = None /\ unsettled = None
  /\ request = None /\ todo = None /\ got = None /\ bound = None
  /\ changes = 0 /\ tampering = 0

MCInit ==
  \/ /\ which = "topology" /\ TopologyInit
     /\ ReaderOff /\ TreesOff /\ ProbeOff /\ RegistrationOff /\ AdmissionOff
  \/ /\ which = "reader" /\ ReadersInit
     /\ TopologyOff /\ TreesOff /\ ProbeOff /\ RegistrationOff /\ AdmissionOff
  \/ /\ which = "trees" /\ TreesInit
     /\ TopologyOff /\ ReaderOff /\ ProbeOff /\ RegistrationOff /\ AdmissionOff
  \/ /\ which = "probe" /\ ProbeInit
     /\ TopologyOff /\ ReaderOff /\ TreesOff /\ RegistrationOff /\ AdmissionOff
  \/ /\ which = "registration" /\ Init
     /\ TopologyOff /\ ReaderOff /\ TreesOff /\ ProbeOff /\ AdmissionOff
  \/ /\ which = "admission" /\ AdmissionsInit
     /\ TopologyOff /\ ReaderOff /\ TreesOff /\ ProbeOff /\ RegistrationOff

MCNext ==
  \/ /\ which = "topology" /\ TopologyNext
     /\ UNCHANGED <<which, reader, trees, probe, vars, admissions>>
  \/ /\ which = "reader" /\ ReadersNext
     /\ UNCHANGED <<which, topologyVars, trees, probe, vars, admissions>>
  \/ /\ which = "trees" /\ TreesNext
     /\ UNCHANGED <<which, topologyVars, reader, probe, vars, admissions>>
  \/ /\ which = "probe" /\ ProbeNext
     /\ UNCHANGED <<which, topologyVars, reader, trees, vars, admissions>>
  \/ /\ which = "registration" /\ Next
     /\ UNCHANGED <<which, topologyVars, reader, trees, probe, admissions>>
  \/ /\ which = "admission" /\ AdmissionsNext
     /\ UNCHANGED <<which, topologyVars, reader, trees, probe, vars>>

MCSpec ==
  MCInit /\ [][MCNext]_<<which, topologyVars, reader, trees, probe, vars, admissions>>
=============================================================================
