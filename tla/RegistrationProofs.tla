-------------------------- MODULE RegistrationProofs --------------------------
(***************************************************************************)
(* That what a registering command announces is registered, exactly.  The  *)
(* registry as a whole stays verifiable while nobody tampers with it: a    *)
(* record is published only after it was verified, objects only gain       *)
(* contents, and no published record is replaced; so what was verified     *)
(* before it was published verifies at any later moment.                   *)
(***************************************************************************)
EXTENDS Registration, TLAPS

(* A record under its own id, of its own kind, that holds together, by a   *)
(* build that has been installed.                                          *)
Registered(k, r) ==
  /\ r \in Records /\ r.recorder <= program
  /\ r.id = k[2] /\ r.request.kind = k[1]
  /\ k[1] # "python" => r.capsule = None
  /\ HoldsTogether(r)

RegistryVerifies ==
  \A k \in Keys : \A r \in {records[k]} \ {None} : Registered(k, r)

Typed ==
  /\ step = [p \in Commands \cup Readers |-> step[p]]
  /\ got = [p \in Commands |-> got[p]]
  /\ objects \in [Digests -> {"absent", "intact", "damaged"}]
  /\ records = [k \in Keys |-> records[k]]
  /\ descriptor \in {d \in Descriptors : d.kind # "python"}
  /\ request \in [Commands -> Descriptors \cup {None}]
  /\ bound \in [Commands -> CapsuleRecords \cup {None}]
  /\ program \in Nat /\ recorder \in [Commands -> 0..program]

(* Only a record has two names, and never that of a Python qualification.  *)
LinksHaveRecords == \A k \in linked : k \in Keys /\ k[1] # "python" /\ records[k] # None

(* What each command holds: its request, once it has begun; a capsule only *)
(* for a Python qualification; before publishing a record that verifies;   *)
(* and after, that record under its name, which no other command holds,    *)
(* with a second name until that is removed.                               *)
Begun(p) == step[p] # "idle" => request[p] \in Descriptors
Binds(p) ==
  /\ step[p] = "idle" => request[p] = None
  /\ request[p] = None \/ request[p].kind # "python" => bound[p] = None
Ready(p) ==
  step[p] \in {"publish", "unlink"} =>
    \A k \in {Key(p, request[p])}, r \in {RecordOf(p)} : Registered(k, r)
Holds(p) == step[p] \in {"unlink", "reload", "done"}
Published(p) ==
  Holds(p) =>
    /\ records[Key(p, request[p])] # None
    /\ records[Key(p, request[p])].request = request[p]
    /\ Key(p, request[p]) \in linked <=> step[p] = "unlink"
Alone(p) ==
  \A q \in Commands \ {p} :
    Holds(p) /\ Holds(q) => Key(p, request[p]) # Key(q, request[q])

Untampered ==
  /\ Typed
  /\ RegistryVerifies /\ LinksHaveRecords
  /\ \A p \in Commands : Begun(p) /\ Binds(p) /\ Ready(p) /\ Published(p) /\ Alone(p)

IInv == tampering \in Nat /\ (tampering = 0 => Untampered)

(* A step that takes nothing from the registry: objects stay intact, what  *)
(* readers accept stays as it is, and builds are numbered upwards.         *)
Grows ==
  /\ \A c \in Digests : Intact(c) => Intact(c)'
  /\ \A k \in Keys : Readable(k) => records'[k] = records[k] /\ k \notin linked'
  /\ program' >= program

-----------------------------------------------------------------------------
LEMMA KeyTyped ==
  ASSUME DescriptorsAreWellFormed, NEW p \in Commands, NEW d \in Descriptors
  PROVE  /\ Key(p, d) \in Keys /\ Key(p, d)[1] = d.kind /\ Key(p, d)[2] \in Ids
         /\ <<"capsule", d.capsule>> \in Keys
<1>1. d.kind \in Kinds /\ "capsule" \in Kinds
  BY DEF DescriptorsAreWellFormed, Kinds
<1>2. d.id \in Ids /\ d.capsule \in Ids /\ p \in Ids
  BY DEF Ids
<1> QED BY <1>1, <1>2 DEF Key, Keys

(* The capsules of the registry are typed as capsules.                     *)
LEMMA CapsuleTyped ==
  ASSUME NEW k \in Keys, k[1] = "capsule", NEW r, Registered(k, r)
  PROVE  r \in CapsuleRecords
  BY SMT DEF Registered, Records, CapsuleRecords

LEMMA PathsTyped ==
  ASSUME NEW f \in FileMaps, NEW S, S \subseteq DOMAIN f
  PROVE  Restrict(f, S) \in FileMaps
<1>1. PICK T \in SUBSET Named : f \in [T -> Blobs]
  BY DEF FileMaps
<1>2. S \in SUBSET Named /\ Restrict(f, S) \in [S -> Blobs]
  BY <1>1 DEF Restrict
<1> QED BY <1>2 DEF FileMaps

(* What a command made of its request is a record, once it verifies.       *)
LEMMA VerifiedIsRegistrable ==
  ASSUME DescriptorsAreWellFormed, Typed, NEW p \in Commands, Binds(p), request[p] \in Descriptors,
         HoldsTogether(RecordOf(p))
  PROVE  Registered(Key(p, request[p]), RecordOf(p))
<1> DEFINE d == request[p]
           r == RecordOf(p)
<1>1. r.id = Key(p, d)[2] /\ r.request = d /\ r.capsule = bound[p]
  BY DEF RecordOf
<1>2. r.id \in Ids /\ r.request.kind = Key(p, d)[1]
  BY <1>1, KeyTyped
<1>3. r.capsule \in CapsuleRecords \cup {None}
  BY <1>1 DEF Typed
<1>4. d.kind # "python" => r.capsule = None
  BY <1>1 DEF Binds, DescriptorsAreWellFormed
<1>5. r.stored \in Digests /\ r.files \in FileMaps
  <2>1. CASE d.kind = "python"
    <3>1. PythonQualificationVerifies(r)
      BY <2>1, <1>1 DEF HoldsTogether
    <3>2. r.capsule \in CapsuleRecords
      BY <3>1, <1>3 DEF PythonQualificationVerifies, Readable
    <3>3. r.capsule.files \in FileMaps
      BY <3>2 DEF CapsuleRecords
    <3> QED BY <1>1, <3>1, <3>3, PathsTyped DEF PythonQualificationVerifies, BindsFiles, Digests
  <2>2. CASE d.kind \in {"capsule", "native"}
    <3>1. DescriptorIsStored(r) /\ FilesAreStored(r)
      BY <2>2, <1>1 DEF HoldsTogether, CapsuleVerifies, QualificationVerifies
    <3> QED BY <3>1, <1>1 DEF DescriptorIsStored, FilesAreStored, Digests, DescriptorsAreWellFormed
  <2>3. CASE d.kind = "candidate"
    <3>1. DescriptorIsStored(r)
      BY <2>3, <1>1 DEF HoldsTogether, CandidateVerifies
    <3>2. r.files = NoFiles
      BY <2>3 DEF RecordOf, HasFiles
    <3>3. NoFiles \in [{} -> Blobs]
      BY DEF NoFiles
    <3> QED BY <1>1, <3>1, <3>2, <3>3 DEF DescriptorIsStored, Digests, FileMaps
  <2> QED BY <2>1, <2>2, <2>3 DEF DescriptorsAreWellFormed, Kinds
<1>6. r \in Records
  <2>1. recorder[p] \in Nat /\ r.recorder = recorder[p]
    BY DEF RecordOf, Typed
  <2> QED BY <2>1, <1>1, <1>2, <1>3, <1>5 DEF RecordOf, Records
<1>7. r.recorder <= program
  BY DEF RecordOf, Typed
<1> QED BY <1>1, <1>2, <1>4, <1>6, <1>7, KeyTyped DEF Registered

(* A record that holds together does so for ever, as long as nothing is    *)
(* taken from the registry.                                                *)
LEMMA StillRegistered ==
  ASSUME DescriptorsAreWellFormed, program \in Nat, program' \in Nat, Grows,
         NEW k \in Keys, NEW r, Registered(k, r)
  PROVE  Registered(k, r)'
<1>1. /\ r \in Records /\ r.request \in Descriptors /\ r.stored \in Digests
      /\ r.files \in FileMaps /\ r.capsule \in CapsuleRecords \cup {None}
  BY DEF Registered, Records
<1>2. ASSUME NEW c, c \in Records
      PROVE  /\ DescriptorIsStored(c) => DescriptorIsStored(c)'
             /\ FilesAreStored(c) => FilesAreStored(c)'
             /\ CitationsAreIntact(c.request) => CitationsAreIntact(c.request)'
             /\ CapsuleVerifies(c) => CapsuleVerifies(c)'
  <2>1. c.request \in Descriptors /\ c.stored \in Digests /\ c.files \in FileMaps
    BY <1>2 DEF Records
  <2>2. \A b \in {c.stored} \cup c.request.cites \cup Range(c.files) : Intact(b) => Intact(b)'
    BY <2>1 DEF DescriptorsAreWellFormed, Digests, FileMaps, Range, Grows
  <2>3. DescriptorIsStored(c) => DescriptorIsStored(c)'
    BY <2>2 DEF DescriptorIsStored
  <2>4. FilesAreStored(c) => FilesAreStored(c)'
    BY <2>2 DEF FilesAreStored
  <2>5. CitationsAreIntact(c.request) => CitationsAreIntact(c.request)'
    BY <2>2 DEF CitationsAreIntact
  <2> QED BY <2>3, <2>4, <2>5 DEF CapsuleVerifies
<1>3. ASSUME PythonQualificationVerifies(r)
      PROVE  PythonQualificationVerifies(r)'
  <2>1. r.capsule \in CapsuleRecords /\ r.capsule \in Records
    BY <1>1, <1>3 DEF PythonQualificationVerifies, Readable, CapsuleRecords, Records
  <2>2. CapsuleVerifies(r.capsule)'
    BY <1>2, <1>3, <2>1 DEF PythonQualificationVerifies
  <2>3. CitationsAreIntact(r.request)' /\ Intact(Wrapper)'
    BY <1>1, <1>2, <1>3 DEF PythonQualificationVerifies, Digests, Grows
  <2>4. <<"capsule", r.request.capsule>> \in Keys
    BY <1>1 DEF Keys, Kinds, Ids
  <2>5. /\ Readable(<<"capsule", r.request.capsule>>)'
        /\ records'[<<"capsule", r.request.capsule>>] = r.capsule
    BY <1>3, <2>4 DEF PythonQualificationVerifies, Readable, Grows
  <2> QED BY <1>3, <2>2, <2>3, <2>5 DEF PythonQualificationVerifies
<1>4. HoldsTogether(r)'
  BY <1>1, <1>2, <1>3 DEF Registered, HoldsTogether, QualificationVerifies, CandidateVerifies,
     DescriptorsAreWellFormed, Kinds
<1>5. r.recorder \in Nat /\ r.recorder <= program'
  BY DEF Registered, Records, Grows
<1> QED BY <1>4, <1>5 DEF Registered

LEMMA RegistryKept ==
  ASSUME DescriptorsAreWellFormed, program \in Nat, UNCHANGED <<registry, program>>
  PROVE  /\ \A k \in Keys : \A r : Registered(k, r) => Registered(k, r)'
         /\ RegistryVerifies => RegistryVerifies'
<1>1. ASSUME NEW k \in Keys, NEW r, Registered(k, r)
      PROVE  Registered(k, r)'
  BY <1>1, StillRegistered DEF Intact, Grows, Readable, registry
<1> QED BY <1>1 DEF RegistryVerifies, registry

-----------------------------------------------------------------------------
LEMMA InitHolds ==
  ASSUME DescriptorsAreWellFormed, Init
  PROVE  IInv
<1>1. Typed /\ RegistryVerifies /\ LinksHaveRecords /\ tampering \in Nat
  BY DEF Init, Typed, RegistryVerifies, LinksHaveRecords
<1>2. \A p \in Commands : step[p] = "idle" /\ request[p] = None /\ bound[p] = None
  BY DEF Init
<1>3. \A p \in Commands : Begun(p) /\ Binds(p) /\ Ready(p) /\ Published(p) /\ Alone(p)
  BY <1>2 DEF Begun, Binds, Ready, Published, Holds, Alone
<1> QED BY <1>1, <1>3 DEF IInv, Untampered

(* What a command is ready to publish it stays ready to publish.           *)
LEMMA ReadyKept ==
  ASSUME DescriptorsAreWellFormed, program \in Nat, program' \in Nat, Grows,
         NEW q \in Commands, Begun(q), Ready(q),
         step'[q] \in {"publish", "unlink"} =>
           /\ step[q] \in {"publish", "unlink"}
           /\ UNCHANGED <<request[q], got[q], bound[q], recorder[q]>>
  PROVE  Ready(q)'
<1> SUFFICES ASSUME step'[q] \in {"publish", "unlink"}
             PROVE  Ready(q)'
  BY DEF Ready
<1>1. RecordOf(q)' = RecordOf(q) /\ Key(q, request[q])' = Key(q, request[q])
  BY DEF RecordOf, Key
<1>2. PICK k, r : k = Key(q, request[q]) /\ r = RecordOf(q) /\ k \in Keys /\ Registered(k, r)
  BY KeyTyped DEF Begun, Ready
<1>3. Registered(k, r)'
  BY <1>2, StillRegistered
<1> QED BY <1>1, <1>2, <1>3 DEF Ready

(* Of a registry that stays as it is, all of this holds.                   *)
LEMMA UnchangedGrows ==
  ASSUME program \in Nat, UNCHANGED <<registry, program>>
  PROVE  Grows
  BY DEF Grows, registry, Intact, Readable

(* A step that only moves a process on, other than to the publication.     *)
LEMMA MovesOn ==
  ASSUME DescriptorsAreWellFormed, Untampered,
         NEW p \in Commands \cup Readers, NEW label, Goto(p, label),
         label \notin {"idle", "publish", "unlink"},
         label \in {"reload", "done"} => step[p] = "reload",
         p \in Commands => request[p] \in Descriptors,
         descriptor' \in {d \in Descriptors : d.kind # "python"},
         UNCHANGED <<registry, program, request, got, bound>>,
         recorder' \in [Commands -> 0..program],
         \A q \in Commands \ {p} : recorder'[q] = recorder[q]
  PROVE  Untampered' /\ Grows
<1>1. Typed' /\ LinksHaveRecords'
  BY DEF Untampered, Typed, LinksHaveRecords, Goto, registry
<1>2. program \in Nat /\ program' \in Nat /\ Grows
  BY UnchangedGrows DEF Untampered, Typed
<1>3. RegistryVerifies'
  BY <1>2, RegistryKept DEF Untampered
<1>4. \A q \in Commands : step'[q] = IF q = p THEN label ELSE step[q]
  BY DEF Untampered, Typed, Goto
<1>5. ASSUME NEW q \in Commands
      PROVE  Begun(q)' /\ Binds(q)' /\ Ready(q)' /\ Published(q)' /\ Alone(q)'
  <2>1. Begun(q) /\ Binds(q) /\ Ready(q) /\ Published(q) /\ Alone(q)
    BY DEF Untampered
  <2>2. Begun(q)' /\ Published(q)'
    BY <1>4, <2>1 DEF Begun, Published, Holds, Key, registry
  <2>3. Binds(q)'
    BY <1>4, <2>1 DEF Binds
  <2>4. Ready(q)'
    BY <1>2, <1>4, <2>1, ReadyKept
  <2>5. Alone(q)'
    BY <1>4, <2>1 DEF Alone, Holds, Key
  <2> QED BY <2>2, <2>3, <2>4, <2>5
<1> QED BY <1>1, <1>2, <1>3, <1>5 DEF Untampered

(* A command begins: it has imported nothing and published nothing yet.    *)
LEMMA Begins ==
  ASSUME DescriptorsAreWellFormed, Untampered, NEW p \in Commands, NEW d \in Descriptors, NEW label,
         Goto(p, label), label \in {"cites", "refused"},
         request' = [request EXCEPT ![p] = d],
         NEW c \in CapsuleRecords \cup {None}, bound' = [bound EXCEPT ![p] = c],
         d.kind # "python" => c = None,
         step[p] = "idle", UNCHANGED <<descriptor, registry, program, got, recorder>>
  PROVE  Untampered' /\ Grows
<1>0. program \in Nat /\ program' \in Nat /\ Grows
  BY UnchangedGrows DEF Untampered, Typed
<1>1. Typed' /\ LinksHaveRecords'
  BY DEF Untampered, Typed, LinksHaveRecords, Goto, registry
<1>2. RegistryVerifies'
  BY <1>0, RegistryKept DEF Untampered
<1>3. \A q \in Commands : /\ step'[q] = IF q = p THEN label ELSE step[q]
                          /\ request'[q] = IF q = p THEN d ELSE request[q]
                          /\ bound'[q] = IF q = p THEN c ELSE bound[q]
  BY DEF Untampered, Typed, Goto
<1>4. ASSUME NEW q \in Commands
      PROVE  Begun(q)' /\ Binds(q)' /\ Ready(q)' /\ Published(q)' /\ Alone(q)'
  <2>1. Begun(q) /\ Binds(q) /\ Ready(q) /\ Published(q) /\ Alone(q)
    BY DEF Untampered
  <2>2. Begun(q)' /\ Published(q)' /\ Binds(q)'
    <3>1. CASE q = p
      <4>1. step'[q] = label /\ request'[q] = d /\ bound'[q] = c
        BY <1>3, <3>1
      <4>2. d # None
        BY DEF DescriptorsAreWellFormed
      <4> QED BY <4>1, <4>2 DEF Begun, Published, Holds, Binds
    <3>2. CASE q # p
      <4>1. step'[q] = step[q] /\ request'[q] = request[q] /\ bound'[q] = bound[q]
        BY <1>3, <3>2
      <4> QED BY <2>1, <4>1 DEF Begun, Published, Holds, Binds, Key, registry
    <3> QED BY <3>1, <3>2
  <2>3. Ready(q)'
    BY <1>0, <1>3, <2>1, ReadyKept
  <2>4. Alone(q)'
    BY <1>3, <2>1 DEF Alone, Holds, Key
  <2> QED BY <2>2, <2>3, <2>4
<1> QED BY <1>0, <1>1, <1>2, <1>4 DEF Untampered

LEMMA ImportSafe ==
  ASSUME DescriptorsAreWellFormed, Untampered, NEW p \in Commands, Import(p)
  PROVE  Untampered' /\ Grows
<1> DEFINE d == request[p]
           n == NextItem(d, todo[p])
           c == BytesOf(d, n)
<1>0. request[p] \in Descriptors
  BY DEF Untampered, Begun, Import
<1>1. CASE c = None \/ objects[c] = "damaged"
  <2>1. Goto(p, "refused") /\ UNCHANGED <<sources, registry, got, request, bound, recorder>>
    BY <1>1 DEF Import, registry
  <2>2. descriptor' \in {e \in Descriptors : e.kind # "python"} /\ program' = program
        /\ recorder' \in [Commands -> 0..program]
    BY <2>1 DEF Untampered, Typed, sources
  <2> QED BY <1>0, <2>1, <2>2, MovesOn
<1>2. CASE ~(c = None \/ objects[c] = "damaged")
  <2>1. /\ objects' = [objects EXCEPT ![c] = "intact"]
        /\ got' = [got EXCEPT ![p] = [i \in DOMAIN @ \cup {n} |-> IF i = n THEN c ELSE @[i]]]
        /\ Goto(p, IF todo[p] = {n} THEN "verify" ELSE "import")
        /\ UNCHANGED <<sources, records, linked, request, bound, recorder>> /\ step[p] = "import"
    BY <1>2 DEF Import
  <2>2. Typed' /\ LinksHaveRecords'
    BY <2>1 DEF Untampered, Typed, LinksHaveRecords, Goto, sources
  <2>3. \A e \in Digests : Intact(e) => Intact(e)'
    BY <2>1 DEF Untampered, Typed, Intact
  <2>4. program \in Nat /\ program' \in Nat /\ Grows
    BY <2>1, <2>3 DEF Untampered, Typed, Grows, Readable, sources
  <2>5. RegistryVerifies'
    BY <2>1, <2>4, StillRegistered DEF Untampered, RegistryVerifies
  <2>6. \A q \in Commands :
          /\ step'[q] = IF q = p THEN IF todo[p] = {n} THEN "verify" ELSE "import" ELSE step[q]
          /\ q # p => got'[q] = got[q]
    BY <2>1 DEF Untampered, Typed, Goto
  <2>7. ASSUME NEW q \in Commands
        PROVE  Begun(q)' /\ Binds(q)' /\ Ready(q)' /\ Published(q)' /\ Alone(q)'
    <3>1. Begun(q) /\ Binds(q) /\ Ready(q) /\ Published(q) /\ Alone(q)
      BY DEF Untampered
    <3>2. Begun(q)' /\ Published(q)' /\ Binds(q)'
      BY <1>0, <2>1, <2>6, <3>1 DEF Begun, Published, Holds, Binds, Key
    <3>3. Ready(q)'
      BY <2>1, <2>4, <2>6, <3>1, ReadyKept
    <3>4. Alone(q)'
      BY <2>1, <2>6, <3>1 DEF Alone, Holds, Key
    <3> QED BY <3>2, <3>3, <3>4
  <2> QED BY <2>2, <2>4, <2>5, <2>7 DEF Untampered
<1> QED BY <1>1, <1>2

LEMMA PublishSafe ==
  ASSUME DescriptorsAreWellFormed, Untampered, NEW p \in Commands, Publish(p)
  PROVE  Untampered' /\ Grows
<1> DEFINE d == request[p]
           k == Key(p, d)
<1>0. d \in Descriptors /\ k \in Keys /\ step[p] = "publish"
  BY KeyTyped DEF Untampered, Begun, Publish
<1>1. CASE records[k] # None
  <2>1. Goto(p, "refused") /\ UNCHANGED <<sources, registry, got, request, bound, recorder>>
    BY <1>1 DEF Publish, registry
  <2>2. descriptor' \in {e \in Descriptors : e.kind # "python"} /\ program' = program
        /\ recorder' \in [Commands -> 0..program]
    BY <2>1 DEF Untampered, Typed, sources
  <2> QED BY <1>0, <2>1, <2>2, MovesOn
<1>2. CASE records[k] = None
  <2>1. PICK label :
          /\ records' = [records EXCEPT ![k] = RecordOf(p)] /\ Goto(p, label)
          /\ UNCHANGED <<sources, objects, request, got, bound, recorder>>
          /\ \/ label \in {"reload", "done"} /\ linked' = linked
             \/ label = "unlink" /\ d.kind # "python" /\ linked' = linked \cup {k}
    BY <1>2 DEF Publish
  <2>2. Typed'
    BY <2>1 DEF Untampered, Typed, Goto, sources
  <2>3. PICK r : r = RecordOf(p) /\ Registered(k, r)
    BY <1>0 DEF Untampered, Ready
  <2>4. r # None /\ r.request = d
    BY <2>3 DEF Registered, RecordOf, DescriptorsAreWellFormed
  <2>5. \A j \in Keys : records'[j] = IF j = k THEN r ELSE records[j]
    BY <2>1, <2>3 DEF Untampered, Typed
  <2>6. /\ \A j \in Keys : records[j] # None => records'[j] = records[j]
        /\ k \notin linked /\ LinksHaveRecords'
    BY <1>0, <1>2, <2>1, <2>4, <2>5, KeyTyped DEF Untampered, LinksHaveRecords
  <2>7. program \in Nat /\ program' \in Nat /\ Grows
    BY <1>2, <2>1, <2>6 DEF Untampered, Typed, Grows, Readable, Intact, sources
  <2>8. RegistryVerifies'
    <3>1. \A j \in Keys : \A e : e = records'[j] /\ e # None => Registered(j, e)
      BY <2>3, <2>5 DEF Untampered, RegistryVerifies
    <3> QED BY <2>7, <3>1, StillRegistered DEF RegistryVerifies
  <2>9. \A q \in Commands : step'[q] = IF q = p THEN label ELSE step[q]
    BY <2>1 DEF Untampered, Typed, Goto
  <2>10. ASSUME NEW q \in Commands
         PROVE  Begun(q)' /\ Binds(q)' /\ Ready(q)' /\ Published(q)' /\ Alone(q)'
    <3>1. Begun(q) /\ Binds(q) /\ Ready(q) /\ Published(q) /\ Alone(q)
      BY DEF Untampered
    <3>2. Begun(q)' /\ Binds(q)'
      BY <1>0, <2>1, <2>9, <3>1 DEF Begun, Binds
    <3>3. Ready(q)'
      BY <1>0, <2>1, <2>7, <2>9, <3>1, ReadyKept
    <3>4. Published(q)'
      <4>1. CASE q = p
        <5>1. records'[k] # None /\ records'[k].request = d
          BY <1>0, <2>4, <2>5
        <5>2. k \in linked' <=> label = "unlink"
          BY <2>1, <2>6
        <5> QED BY <2>1, <2>9, <4>1, <5>1, <5>2 DEF Published, Key
      <4>2. CASE q # p /\ Holds(q)
        <5>1. Key(q, request[q]) \in Keys /\ Key(q, request[q]) # k
          BY <1>2, <3>1, <4>2, KeyTyped DEF Begun, Published, Holds
        <5> QED BY <2>1, <2>5, <2>9, <3>1, <4>2, <5>1 DEF Published, Holds, Key
      <4>3. CASE q # p /\ ~Holds(q)
        BY <2>9, <4>3 DEF Published, Holds
      <4> QED BY <4>1, <4>2, <4>3
    <3>5. Alone(q)'
      <4>1. \A o \in Commands : Holds(o) => Key(o, request[o]) # k
        BY <1>2 DEF Untampered, Published
      <4> QED BY <2>1, <2>9, <3>1, <4>1 DEF Alone, Holds, Key
    <3> QED BY <3>2, <3>3, <3>4, <3>5
  <2> QED BY <2>2, <2>6, <2>7, <2>8, <2>10 DEF Untampered
<1> QED BY <1>1, <1>2

(* What may happen to a record that has two names: it loses one of them,   *)
(* or both, or keeps them.  No reader has accepted it.                     *)
LEMMA SettlesSafe ==
  ASSUME DescriptorsAreWellFormed, Untampered, NEW p \in Commands,
         Unlink(p) \/ Rollback(p) \/ RollbackFails(p)
  PROVE  Untampered' /\ Grows
<1> DEFINE k == Key(p, request[p])
<1>0. request[p] \in Descriptors /\ k \in Keys /\ step[p] = "unlink"
      /\ UNCHANGED <<sources, objects, request, got, bound, recorder>>
  BY KeyTyped DEF Untampered, Begun, Unlink, Rollback, RollbackFails
<1>1. PICK label :
        /\ Goto(p, label) /\ label \in {"done", "publish", "refused"}
        /\ \/ records' = records /\ linked' \in {linked, linked \ {k}}
           \/ records' = [records EXCEPT ![k] = None] /\ linked' = linked \ {k}
        /\ label = "done" => records' = records /\ linked' = linked \ {k}
  <2>1. CASE Unlink(p) \/ RollbackFails(p)
    BY <2>1 DEF Unlink, RollbackFails
  <2>2. CASE Rollback(p)
    BY <2>2 DEF Rollback
  <2> QED BY <2>1, <2>2
<1>2. Typed'
  BY <1>0, <1>1 DEF Untampered, Typed, Goto, sources
<1>3. k \in linked /\ records[k] # None
  BY <1>0 DEF Untampered, Published, Holds
<1>4. \A j \in Keys \ {k} : records'[j] = records[j] /\ (j \in linked' <=> j \in linked)
  BY <1>1 DEF Untampered, Typed
<1>5. /\ records'[k] \in {records[k], None} /\ (records'[k] = None => k \notin linked')
      /\ label = "done" => records'[k] = records[k] /\ k \notin linked'
  BY <1>0, <1>1, <1>3 DEF Untampered, Typed
<1>6. LinksHaveRecords'
  BY <1>0, <1>1, <1>4, <1>5 DEF Untampered, LinksHaveRecords
<1>7. program \in Nat /\ program' \in Nat /\ Grows
  <2>1. \A j \in Keys : Readable(j) => j # k
    BY <1>3 DEF Readable
  <2> QED BY <1>0, <1>4, <2>1 DEF Untampered, Typed, Grows, Readable, Intact, sources
<1>8. RegistryVerifies'
  <2>1. \A j \in Keys : \A e : e = records'[j] /\ e # None => Registered(j, e)
    BY <1>4, <1>5 DEF Untampered, RegistryVerifies
  <2> QED BY <1>7, <2>1, StillRegistered DEF RegistryVerifies
<1>9. \A q \in Commands : step'[q] = IF q = p THEN label ELSE step[q]
  BY <1>1 DEF Untampered, Typed, Goto
<1>10. ASSUME NEW q \in Commands
       PROVE  Begun(q)' /\ Binds(q)' /\ Ready(q)' /\ Published(q)' /\ Alone(q)'
  <2>1. Begun(q) /\ Binds(q) /\ Ready(q) /\ Published(q) /\ Alone(q)
    BY DEF Untampered
  <2>2. Begun(q)' /\ Binds(q)'
    BY <1>0, <1>1, <1>9, <2>1 DEF Begun, Binds
  <2>3. Ready(q)'
    BY <1>0, <1>1, <1>7, <1>9, <2>1, ReadyKept
  <2>4. Published(q)'
    <3>1. CASE q = p
      <4>1. Holds(p)' => label = "done"
        BY <1>1, <1>9 DEF Holds
      <4> QED BY <1>0, <1>1, <1>5, <1>9, <2>1, <3>1, <4>1 DEF Published, Holds, Key
    <3>2. CASE q # p /\ Holds(q)
      <4>1. Key(q, request[q]) \in Keys /\ Key(q, request[q]) # k
        BY <1>0, <2>1, <3>2, KeyTyped DEF Begun, Alone, Holds
      <4> QED BY <1>0, <1>4, <1>9, <2>1, <3>2, <4>1 DEF Published, Holds, Key
    <3>3. CASE q # p /\ ~Holds(q)
      BY <1>9, <3>3 DEF Published, Holds
    <3> QED BY <3>1, <3>2, <3>3
  <2>5. Alone(q)'
    <3>1. \A o \in Commands : Holds(o)' => Holds(o)
      BY <1>0, <1>9 DEF Holds
    <3> QED BY <1>0, <2>1, <3>1 DEF Alone, Key
  <2> QED BY <2>2, <2>3, <2>4, <2>5
<1> QED BY <1>2, <1>6, <1>7, <1>8, <1>10 DEF Untampered

LEMMA VerifySafe ==
  ASSUME DescriptorsAreWellFormed, Untampered, NEW p \in Commands, Verify(p)
  PROVE  Untampered' /\ Grows
<1>1. /\ step[p] = "verify" /\ request[p] \in Descriptors
      /\ UNCHANGED <<sources, registry, request, got, bound, recorder>>
  BY DEF Untampered, Begun, Verify
<1>2. descriptor' \in {e \in Descriptors : e.kind # "python"} /\ program' = program
      /\ recorder' \in [Commands -> 0..program]
  BY <1>1 DEF Untampered, Typed, sources
<1>3. CASE ~VerifyRecord(RecordOf(p))
  <2>1. Goto(p, "refused")
    BY <1>3 DEF Verify
  <2> QED BY <1>1, <1>2, <2>1, MovesOn
<1>4. CASE VerifyRecord(RecordOf(p))
  <2>1. Goto(p, "publish") /\ HoldsTogether(RecordOf(p))
    BY <1>4 DEF Verify, VerifyRecord
  <2>2. Typed' /\ LinksHaveRecords'
    BY <1>1, <2>1 DEF Untampered, Typed, LinksHaveRecords, Goto, sources, registry
  <2>3. program \in Nat /\ program' \in Nat /\ Grows
    BY <1>1, <1>2, UnchangedGrows DEF Untampered, Typed
  <2>4. RegistryVerifies'
    BY <1>1, <1>2, <2>3, RegistryKept DEF Untampered
  <2>5. \A q \in Commands : step'[q] = IF q = p THEN "publish" ELSE step[q]
    BY <2>1 DEF Untampered, Typed, Goto
  <2>6. Registered(Key(p, request[p]), RecordOf(p))
    BY <1>1, <2>1, VerifiedIsRegistrable DEF Untampered
  <2>7. ASSUME NEW q \in Commands
        PROVE  Begun(q)' /\ Binds(q)' /\ Ready(q)' /\ Published(q)' /\ Alone(q)'
    <3>1. Begun(q) /\ Binds(q) /\ Ready(q) /\ Published(q) /\ Alone(q)
      BY DEF Untampered
    <3>2. Begun(q)' /\ Binds(q)' /\ Published(q)' /\ Alone(q)'
      BY <1>1, <2>5, <3>1 DEF Begun, Binds, Published, Holds, Alone, Key, registry
    <3>3. Ready(q)'
      <4>1. CASE q = p
        <5>1. RecordOf(q)' = RecordOf(q) /\ Key(q, request[q])' = Key(q, request[q])
          BY <1>1 DEF RecordOf, Key
        <5>2. PICK k, r : k = Key(q, request[q]) /\ r = RecordOf(q) /\ k \in Keys
                          /\ Registered(k, r)
          BY <1>1, <2>6, <4>1, KeyTyped
        <5>3. Registered(k, r)'
          BY <2>3, <5>2, StillRegistered
        <5> QED BY <5>1, <5>2, <5>3 DEF Ready
      <4>2. CASE q # p
        BY <1>1, <2>3, <2>5, <3>1, <4>2, ReadyKept
      <4> QED BY <4>1, <4>2
    <3> QED BY <3>2, <3>3
  <2> QED BY <2>2, <2>3, <2>4, <2>7 DEF Untampered
<1> QED BY <1>3, <1>4

-----------------------------------------------------------------------------
LEMMA ReadDescriptorSafe ==
  ASSUME DescriptorsAreWellFormed, Untampered, NEW p \in Commands, ReadDescriptor(p)
  PROVE  Untampered' /\ Grows
<1> DEFINE label == IF descriptor.sound /\ records[Key(p, descriptor)] = None
                    THEN "cites" ELSE "refused"
<1>1. descriptor \in Descriptors /\ descriptor.kind # "python"
  BY DEF Untampered, Typed
<1>2. /\ step[p] = "idle" /\ request' = [request EXCEPT ![p] = descriptor] /\ Goto(p, label)
      /\ UNCHANGED <<descriptor, registry, program, got, bound, recorder>>
  BY DEF ReadDescriptor, sources
<1>3. bound[p] = None /\ bound' = [bound EXCEPT ![p] = None]
  BY <1>2 DEF Untampered, Binds, Typed
<1>4. PICK d \in Descriptors : d = descriptor
  BY <1>1
<1>5. PICK l : l = label
  OBVIOUS
<1>6. l \in {"cites", "refused"} /\ Goto(p, l) /\ request' = [request EXCEPT ![p] = d]
  BY <1>2, <1>4, <1>5
<1> QED BY <1>1, <1>2, <1>3, <1>4, <1>6, Begins

LEMMA BindCapsuleSafe ==
  ASSUME DescriptorsAreWellFormed, Untampered,
         NEW p \in Commands, NEW d \in Descriptors, BindCapsule(p, d)
  PROVE  Untampered' /\ Grows
<1> DEFINE k == <<"capsule", d.capsule>>
<1>1. PICK c : c = records[k]
  OBVIOUS
<1>2. PICK label : /\ Goto(p, label) /\ label \in {"cites", "refused"}
                   /\ bound' = [bound EXCEPT ![p] = c]
                   /\ request' = [request EXCEPT ![p] = d]
                   /\ d.kind = "python" /\ step[p] = "idle"
                   /\ UNCHANGED <<descriptor, registry, program, got, recorder>>
  BY <1>1 DEF BindCapsule, sources
<1>3. k \in Keys /\ k[1] = "capsule"
  BY KeyTyped
<1>4. c \in CapsuleRecords \cup {None}
  BY <1>1, <1>3, CapsuleTyped DEF Untampered, RegistryVerifies
<1> QED BY <1>2, <1>4, Begins

(* The steps that only move a process on.                                  *)
LEMMA OtherStepsSafe ==
  ASSUME DescriptorsAreWellFormed, Untampered, NEW p \in Commands,
         CheckCitations(p) \/ ListRoot(p) \/ ReadSource(p) \/ Reload(p)
  PROVE  Untampered' /\ Grows
<1>1. request[p] \in Descriptors
  BY DEF Untampered, Begun, CheckCitations, ListRoot, ReadSource, Reload
<1>2. UNCHANGED <<sources, registry, request, got, bound>>
      /\ (recorder' = recorder \/ recorder' = [recorder EXCEPT ![p] = program])
  <2>1. CASE CheckCitations(p)
    BY <2>1 DEF CheckCitations, Untampered, Typed
  <2>2. CASE ListRoot(p) \/ ReadSource(p) \/ Reload(p)
    BY <2>2 DEF ListRoot, ReadSource, Reload
  <2> QED BY <2>1, <2>2
<1>3. /\ descriptor' \in {e \in Descriptors : e.kind # "python"} /\ program' = program
      /\ recorder' \in [Commands -> 0..program]
      /\ \A q \in Commands \ {p} : recorder'[q] = recorder[q]
  BY <1>2 DEF Untampered, Typed, sources
<1>4. PICK label : /\ Goto(p, label)
                   /\ \/ label \in {"refused", "names", "sources", "import"}
                      \/ (label \in {"done", "refused"} /\ step[p] = "reload")
  <2>1. CASE CheckCitations(p)
    BY <2>1 DEF CheckCitations
  <2>2. CASE ListRoot(p)
    BY <2>2 DEF ListRoot
  <2>3. CASE ReadSource(p)
    BY <2>3 DEF ReadSource
  <2>4. CASE Reload(p)
    BY <2>4 DEF Reload
  <2> QED BY <2>1, <2>2, <2>3, <2>4
<1> QED BY <1>1, <1>2, <1>3, <1>4, MovesOn

(* The steps of a reader.                                                  *)
Reads(q) ==
  FindRecord(q) \/ LoadRecord(q) \/ VerifyListed(q) \/ \E d \in Descriptors : List(q, d.kind)

LEMMA ReadersSafe ==
  ASSUME DescriptorsAreWellFormed, Untampered, NEW q \in Readers,
         Reads(q)
  PROVE  Untampered' /\ Grows
<1>1. UNCHANGED <<sources, registry, request, got, bound, recorder>>
  BY DEF Reads, FindRecord, LoadRecord, VerifyListed, List
<1>2. descriptor' \in {e \in Descriptors : e.kind # "python"} /\ program' = program
      /\ recorder' \in [Commands -> 0..program]
  BY <1>1 DEF Untampered, Typed, sources
<1>3. PICK label : Goto(q, label) /\ label \in {"loading", "listing", "listed", "refused"}
  <2>1. CASE FindRecord(q)
    <3>1. Goto(q, "loading")
      BY <2>1 DEF FindRecord, Goto, Untampered, Typed
    <3> QED BY <3>1
  <2>2. CASE LoadRecord(q)
    <3>1. CASE UNCHANGED step
      <4>1. Goto(q, "loading")
        BY <2>2, <3>1 DEF LoadRecord, Goto, Untampered, Typed
      <4> QED BY <4>1
    <3>2. CASE Goto(q, "listing") \/ Goto(q, "refused")
      BY <3>2
    <3> QED BY <2>2, <3>1, <3>2 DEF LoadRecord
  <2>3. CASE VerifyListed(q)
    BY <2>3 DEF VerifyListed
  <2>4. CASE \E d \in Descriptors : List(q, d.kind)
    BY <2>4 DEF List
  <2> QED BY <2>1, <2>2, <2>3, <2>4 DEF Reads
<1>4. q \notin Commands
  BY DEF DescriptorsAreWellFormed
<1> QED BY <1>1, <1>2, <1>3, <1>4, MovesOn

LEMMA SourcesSafe ==
  ASSUME DescriptorsAreWellFormed, Untampered,
         descriptor' \in {d \in Descriptors : d.kind # "python"},
         program' \in {program, program + 1},
         UNCHANGED <<registry, step, request, got, bound, recorder>>
  PROVE  Untampered' /\ Grows
<1>1. Typed' /\ LinksHaveRecords'
  BY DEF Untampered, Typed, LinksHaveRecords, registry
<1>2. program \in Nat /\ program' \in Nat /\ Grows
  BY DEF Untampered, Typed, Grows, registry, Intact, Readable
<1>3. RegistryVerifies'
  BY <1>2, StillRegistered DEF Untampered, RegistryVerifies, registry
<1>4. ASSUME NEW p \in Commands
      PROVE  Begun(p)' /\ Binds(p)' /\ Ready(p)' /\ Published(p)' /\ Alone(p)'
  <2>1. Begun(p) /\ Binds(p) /\ Ready(p) /\ Published(p) /\ Alone(p)
    BY DEF Untampered
  <2>2. Begun(p)' /\ Binds(p)' /\ Published(p)' /\ Alone(p)'
    BY <2>1 DEF Begun, Binds, Published, Holds, Alone, Key, registry
  <2>3. Ready(p)'
    BY <1>2, <2>1, ReadyKept
  <2> QED BY <2>2, <2>3
<1> QED BY <1>1, <1>2, <1>3, <1>4 DEF Untampered

(* The steps of a command.                                                 *)
Registers(p) ==
  \/ ReadDescriptor(p) \/ CheckCitations(p) \/ ListRoot(p) \/ ReadSource(p)
  \/ Import(p) \/ Verify(p) \/ Publish(p)
  \/ Unlink(p) \/ Rollback(p) \/ RollbackFails(p) \/ Reload(p)
  \/ \E d \in Descriptors : BindCapsule(p, d)

LEMMA TamperingGrows ==
  ASSUME [Next]_vars
  PROVE  tampering' = tampering \/ (Tamper /\ tampering' = tampering + 1)
<1>1. ASSUME NEW p \in Commands, Registers(p)
      PROVE  tampering' = tampering
  BY <1>1 DEF Registers, ReadDescriptor, CheckCitations, ListRoot, ReadSource, Import, Verify,
              Publish, Unlink, Rollback, RollbackFails, Reload, BindCapsule, bounds
<1>2. ASSUME NEW q \in Readers, Reads(q)
      PROVE  tampering' = tampering
  BY <1>2 DEF Reads, FindRecord, LoadRecord, VerifyListed, List, bounds
<1>3. ChangeSources \/ UNCHANGED vars => tampering' = tampering
  BY DEF ChangeSources, vars, bounds
<1>4. Tamper => tampering' = tampering + 1
  BY DEF Tamper
<1> QED BY <1>1, <1>2, <1>3, <1>4, Zenon DEF Next, Registers, Reads

LEMMA CommandsSafe ==
  ASSUME DescriptorsAreWellFormed, Untampered, NEW p \in Commands, Registers(p)
  PROVE  Untampered' /\ Grows
  BY ReadDescriptorSafe, ImportSafe, VerifySafe, PublishSafe, SettlesSafe, OtherStepsSafe,
     BindCapsuleSafe DEF Registers

(* Whatever is done, short of tampering, takes nothing from the registry.  *)
LEMMA StepsGrow ==
  ASSUME DescriptorsAreWellFormed, Untampered, [Next]_vars, ~Tamper
  PROVE  Untampered' /\ Grows
<1>1. CASE \E p \in Commands : Registers(p)
  BY <1>1, CommandsSafe
<1>2. CASE \E q \in Readers : Reads(q)
  BY <1>2, ReadersSafe
<1>3. CASE ChangeSources
  <2>1. /\ descriptor' \in {d \in Descriptors : d.kind # "python"}
        /\ program' \in {program, program + 1}
        /\ UNCHANGED <<registry, step, request, got, bound, recorder>>
    BY <1>3 DEF ChangeSources, Untampered, Typed
  <2> QED BY <2>1, SourcesSafe
<1>4. CASE UNCHANGED vars
  <2>1. /\ descriptor' \in {d \in Descriptors : d.kind # "python"} /\ program' = program
        /\ UNCHANGED <<registry, step, request, got, bound, recorder>>
    BY <1>4 DEF vars, sources, Untampered, Typed
  <2> QED BY <2>1, SourcesSafe
<1> QED BY <1>1, <1>2, <1>3, <1>4, Zenon DEF Next, Registers, Reads

LEMMA NextHolds ==
  ASSUME DescriptorsAreWellFormed, IInv, [Next]_vars
  PROVE  IInv'
<1>1. tampering' = tampering \/ (Tamper /\ tampering' = tampering + 1)
  BY TamperingGrows
<1>2. tampering' \in Nat
  BY <1>1 DEF IInv
<1>3. SUFFICES ASSUME tampering' = 0 PROVE Untampered'
  BY <1>2 DEF IInv
<1>4. Untampered /\ ~Tamper
  BY <1>1, <1>3 DEF IInv, Tamper
<1> QED BY <1>4, StepsGrow

LEMMA RegistryIsExact ==
  ASSUME DescriptorsAreWellFormed, IInv
  PROVE  AnnouncedRecordsAreExact
<1> SUFFICES ASSUME tampering = 0, NEW p \in Commands, step[p] = "done"
             PROVE  LET r == records[Key(p, request[p])]
                        d == request[p]
                        exact(k, e) ==
                          /\ e # None /\ e.id = k[2] /\ e.stored = e.request /\ Intact(e.stored)
                          /\ HasFiles(e.request) =>
                               e.files = e.request.files /\ \A c \in Range(e.files) : Intact(c)
                    IN /\ \A q \in Commands \ {p} :
                            step[q] = "done" => Key(q, request[q]) # Key(p, request[p])
                       /\ r.request = d /\ \A b \in d.cites : Intact(b)
                       /\ IF d.kind # "python" THEN exact(Key(p, request[p]), r)
                          ELSE /\ r.id = p /\ r.stored = Wrapper /\ Intact(Wrapper)
                               /\ records[<<"capsule", d.capsule>>] = r.capsule
                               /\ exact(<<"capsule", d.capsule>>, r.capsule)
                               /\ r.files = Restrict(r.capsule.request.files, d.paths)
  BY DEF AnnouncedRecordsAreExact
<1> DEFINE d == request[p]
           k == Key(p, d)
           r == records[k]
<1>1. Begun(p) /\ Published(p) /\ Alone(p) /\ RegistryVerifies
  BY DEF IInv, Untampered
<1>2. d \in Descriptors /\ k \in Keys /\ k[1] = d.kind /\ r # None /\ r.request = d
  BY <1>1, KeyTyped DEF Begun, Published, Holds
<1>3. Registered(k, r)
  BY <1>1, <1>2 DEF RegistryVerifies
<1>4. \A q \in Commands \ {p} : step[q] = "done" => Key(q, request[q]) # k
  BY <1>1 DEF Alone, Holds
<1>5. CASE d.kind # "python"
  <2>1. HoldsTogether(r) /\ r.id = k[2] /\ d.kind \in Kinds
    BY <1>2, <1>3 DEF Registered, DescriptorsAreWellFormed
  <2>2. DescriptorIsStored(r) /\ CitationsAreIntact(d)
    BY <1>2, <1>5, <2>1 DEF HoldsTogether, CapsuleVerifies, QualificationVerifies,
       CandidateVerifies, CitationsAreIntact, DescriptorsAreWellFormed, Kinds
  <2>3. HasFiles(d) => FilesAreStored(r)
    BY <1>2, <2>1 DEF HasFiles, HoldsTogether, CapsuleVerifies, QualificationVerifies
  <2> QED BY <1>2, <1>4, <1>5, <2>1, <2>2, <2>3
          DEF DescriptorIsStored, FilesAreStored, CitationsAreIntact
<1>6. CASE d.kind = "python"
  <2>1. PythonQualificationVerifies(r) /\ r.id = p
    BY <1>2, <1>3, <1>6 DEF Registered, HoldsTogether, Key
  <2> DEFINE c == records[<<"capsule", d.capsule>>]
  <2>2. c = r.capsule /\ c # None /\ CapsuleVerifies(c)
    BY <1>2, <2>1 DEF PythonQualificationVerifies, Readable
  <2>3. c.id = d.capsule
    BY <1>1, <1>2, <2>2, KeyTyped DEF RegistryVerifies, Registered
  <2>4. r.files = Restrict(c.request.files, d.paths)
    BY <1>2, <2>1, <2>2 DEF PythonQualificationVerifies, CapsuleVerifies, FilesAreStored
  <2>5. r.stored = Wrapper /\ Intact(Wrapper) /\ \A b \in d.cites : Intact(b)
    BY <1>2, <2>1 DEF PythonQualificationVerifies, CitationsAreIntact
  <2>6. /\ c.stored = c.request /\ Intact(c.stored)
        /\ c.files = c.request.files /\ \A b \in Range(c.files) : Intact(b)
    BY <2>2 DEF CapsuleVerifies, DescriptorIsStored, FilesAreStored
  <2> QED BY <1>2, <1>4, <1>6, <2>1, <2>2, <2>3, <2>4, <2>5, <2>6
<1> QED BY <1>5, <1>6

(* For any number of commands and readers, any descriptors and any changes *)
(* to the caller's files: a command that reported success has registered   *)
(* what it announced, of the declared contents, under a name of its own.   *)
THEOREM AnnouncedIsExact == ASSUME DescriptorsAreWellFormed PROVE Spec => []AnnouncedRecordsAreExact
<1>1. Init => IInv
  BY InitHolds
<1>2. IInv /\ [Next]_vars => IInv'
  BY NextHolds
<1>3. IInv => AnnouncedRecordsAreExact
  BY RegistryIsExact
<1> QED BY <1>1, <1>2, <1>3, PTL DEF Spec

-----------------------------------------------------------------------------
(* A python qualification that another build recorded.                     *)
RecordedElsewhere ==
  \E k \in Keys : k[1] = "python" /\ records[k] # None /\ records[k].recorder # program

(* What a reader has found loads, unless it came upon a second name, which *)
(* no Python qualification has; what it has loaded is still registered;    *)
(* and a refusal has its reason.                                           *)
Found(q) ==
  \A k \in unloaded[q] : k \in Keys /\ k[1] = lists[q] /\ (unsettled[q] \/ Readable(k))
Loaded(q) ==
  /\ step[q] = "idle" => unverified[q] = {}
  /\ \A r \in unverified[q] : \E k \in Keys : k[1] = lists[q] /\ Readable(k) /\ records[k] = r
Settled(q) == lists[q] = "python" => ~unsettled[q]
Excused(q) ==
  step[q] = "refused" =>
    \/ lists[q] # "python" /\ unsettled[q]
    \/ lists[q] = "python" /\ RecordedElsewhere
Listed(q) == Found(q) /\ Loaded(q) /\ Settled(q) /\ Excused(q)

ListsTyped ==
  /\ lists = [q \in Readers |-> lists[q]]
  /\ unloaded = [q \in Readers |-> unloaded[q]]
  /\ unverified = [q \in Readers |-> unverified[q]]
  /\ unsettled \in [Readers -> BOOLEAN]

ListInv == IInv /\ (tampering = 0 => ListsTyped /\ \A q \in Readers : Listed(q))

(* What another process does leaves a reader's reasons as they were.       *)
LEMMA ListedStays ==
  ASSUME DescriptorsAreWellFormed, Untampered, Untampered', Grows, NEW q \in Readers, Listed(q),
         UNCHANGED <<step[q], lists[q], unloaded[q], unverified[q], unsettled[q]>>
  PROVE  Listed(q)'
<1>1. \A k \in Keys : Readable(k) => Readable(k)' /\ records'[k] = records[k]
  BY DEF Grows, Readable
<1>2. RecordedElsewhere => RecordedElsewhere'
  <2> SUFFICES ASSUME NEW k \in Keys, k[1] = "python", records[k] # None,
                      records[k].recorder # program
               PROVE  RecordedElsewhere'
    BY DEF RecordedElsewhere
  <2>1. Readable(k)
    BY DEF Untampered, LinksHaveRecords, Readable
  <2>2. Registered(k, records[k]) /\ program \in Nat /\ program' \in Nat
    BY DEF Untampered, Typed, RegistryVerifies
  <2>3. records[k].recorder < program
    BY <2>2 DEF Registered, Records
  <2>4. records'[k].recorder # program'
    BY <1>1, <2>1, <2>2, <2>3 DEF Registered, Records, Grows
  <2> QED BY <1>1, <2>1, <2>4 DEF RecordedElsewhere, Readable
<1>3. Found(q)'
  BY <1>1 DEF Listed, Found
<1>4. Loaded(q)'
  BY <1>1 DEF Listed, Loaded
<1>5. Settled(q)' /\ Excused(q)'
  BY <1>2 DEF Listed, Settled, Excused
<1> QED BY <1>3, <1>4, <1>5 DEF Listed

(* The steps of a reader leave the registry and the other readers alone.   *)
LEMMA ReadsOnly ==
  ASSUME DescriptorsAreWellFormed, ListsTyped, Typed, NEW q \in Readers, Reads(q)
  PROVE  /\ UNCHANGED <<registry, program>> /\ ListsTyped'
         /\ \A o \in Readers \ {q} :
              UNCHANGED <<step[o], lists[o], unloaded[o], unverified[o], unsettled[o]>>
<1>1. CASE \E d \in Descriptors : List(q, d.kind)
  BY <1>1 DEF List, Goto, Typed, ListsTyped, sources
<1>2. CASE FindRecord(q)
  BY <1>2 DEF FindRecord, Typed, ListsTyped, sources
<1>3. CASE LoadRecord(q)
  <2>1. /\ UNCHANGED <<sources, registry, lists, unsettled>>
        /\ step' = step \/ \E label : Goto(q, label)
    BY <1>3 DEF LoadRecord
  <2>2. /\ unloaded' = unloaded \/ \E x : unloaded' = [unloaded EXCEPT ![q] = x]
        /\ unverified' = unverified \/ \E x : unverified' = [unverified EXCEPT ![q] = x]
    BY <1>3 DEF LoadRecord
  <2> QED BY <2>1, <2>2 DEF Goto, Typed, ListsTyped, sources
<1>4. CASE VerifyListed(q)
  <2>1. /\ UNCHANGED <<sources, registry, lists, unloaded, unsettled>>
        /\ \E label : Goto(q, label)
        /\ unverified' = unverified \/ \E x : unverified' = [unverified EXCEPT ![q] = x]
    BY <1>4 DEF VerifyListed
  <2> QED BY <2>1 DEF Goto, Typed, ListsTyped, sources
<1> QED BY <1>1, <1>2, <1>3, <1>4 DEF Reads

LEMMA ListListed ==
  ASSUME DescriptorsAreWellFormed, Untampered, ListsTyped, NEW q \in Readers, Listed(q),
         NEW d \in Descriptors, List(q, d.kind)
  PROVE  Listed(q)'
<1> DEFINE there == {k \in Keys : k[1] = d.kind /\ records[k] # None}
<1>1. /\ unloaded'[q] = there /\ unsettled'[q] = (there \cap linked # {})
      /\ lists'[q] = d.kind /\ unverified'[q] = unverified[q] /\ step'[q] = "loading"
      /\ step[q] = "idle" /\ UNCHANGED registry
  BY DEF List, Goto, Untampered, Typed, ListsTyped
<1>2. Found(q)'
  BY <1>1 DEF Found, Readable, registry
<1>3. Settled(q)'
  BY <1>1 DEF Settled, Untampered, LinksHaveRecords
<1>4. Loaded(q)'
  BY <1>1 DEF Listed, Loaded
<1> QED BY <1>1, <1>2, <1>3, <1>4 DEF Listed, Excused

LEMMA FindListed ==
  ASSUME DescriptorsAreWellFormed, Untampered, ListsTyped, NEW q \in Readers, Listed(q),
         FindRecord(q)
  PROVE  Listed(q)'
<1>1. PICK k \in Keys :
        /\ k[1] = lists[q] /\ records[k] # None /\ unloaded'[q] = unloaded[q] \cup {k}
        /\ unsettled'[q] = (unsettled[q] \/ k \in linked) /\ lists[q] # "python"
        /\ UNCHANGED <<registry, program, step, lists, unverified>>
  BY DEF FindRecord, LoadsAsItReads, ListsTyped, sources
<1>2. Found(q)' /\ Settled(q)'
  BY <1>1 DEF Listed, Found, Settled, Readable, registry
<1>3. Loaded(q)'
  BY <1>1 DEF Listed, Loaded, Readable, registry
<1>4. Excused(q)'
  <2>1. unsettled[q] => unsettled'[q]
    BY <1>1
  <2> QED BY <1>1, <2>1 DEF Listed, Excused
<1> QED BY <1>2, <1>3, <1>4 DEF Listed

(* A name of the registry that does not load had two names when it was     *)
(* found.                                                                  *)
LEMMA LoadListed ==
  ASSUME DescriptorsAreWellFormed, Untampered, ListsTyped, NEW q \in Readers, Listed(q),
         LoadRecord(q)
  PROVE  Listed(q)'
<1>0. UNCHANGED <<registry, program, lists, unsettled>> /\ step[q] = "loading"
  BY DEF LoadRecord, sources
<1>1. Settled(q)' /\ Settled(q)
  BY <1>0 DEF Listed, Settled
<1>2. CASE unloaded[q] = {} /\ Goto(q, "listing") /\ UNCHANGED <<unloaded, unverified>>
  <2>1. step'[q] = "listing"
    BY <1>2 DEF Goto, Untampered, Typed
  <2>2. Found(q)'
    BY <1>0, <1>2 DEF Listed, Found, Readable, registry
  <2>3. Loaded(q)'
    BY <1>0, <1>2, <2>1 DEF Listed, Loaded, Readable, registry
  <2> QED BY <1>1, <2>1, <2>2, <2>3 DEF Listed, Excused
<1>3. ASSUME NEW k \in unloaded[q], unloaded' = [unloaded EXCEPT ![q] = @ \ {k}],
             IF Readable(k) /\ (lists[q] = "capsule" \/ records[k].id = k[2])
             THEN /\ unverified' = [unverified EXCEPT ![q] = @ \cup {records[k]}]
                  /\ UNCHANGED step
             ELSE /\ \/ Goto(q, "refused")
                     \/ LoadsAsItReads(q) /\ records[k] = None /\ UNCHANGED step
                  /\ UNCHANGED unverified
      PROVE  Listed(q)'
  <2>1. k \in Keys /\ k[1] = lists[q] /\ (unsettled[q] \/ Readable(k))
    BY DEF Listed, Found
  <2>2. unloaded'[q] \subseteq unloaded[q]
    BY <1>3 DEF ListsTyped
  <2>3. Found(q)'
    BY <1>0, <2>2 DEF Listed, Found, Readable, registry
  <2>4. Readable(k) => records[k].id = k[2]
    BY <2>1 DEF Untampered, RegistryVerifies, Registered, Readable
  <2>5. CASE Readable(k)
    <3>1. unverified'[q] = unverified[q] \cup {records[k]} /\ step'[q] = "loading"
      BY <1>0, <1>3, <2>4, <2>5 DEF ListsTyped
    <3>2. Loaded(q)'
      <4>1. \A r \in unverified[q] \cup {records[k]} :
              \E j \in Keys : j[1] = lists[q] /\ Readable(j) /\ records[j] = r
        BY <2>1, <2>5 DEF Listed, Loaded
      <4> QED BY <1>0, <3>1, <4>1 DEF Loaded, Readable, registry
    <3> QED BY <1>1, <2>3, <3>1, <3>2 DEF Listed, Excused
  <2>6. CASE ~Readable(k)
    <3>1. unverified'[q] = unverified[q] /\ step'[q] \in {"refused", "loading"}
      BY <1>0, <1>3, <2>6 DEF Goto, Untampered, Typed
    <3>2. unsettled[q] /\ lists[q] # "python"
      BY <1>1, <2>1, <2>6 DEF Settled
    <3>3. Loaded(q)'
      BY <1>0, <3>1 DEF Listed, Loaded, Readable, registry
    <3> QED BY <1>0, <1>1, <2>3, <3>1, <3>2, <3>3 DEF Listed, Excused
  <2> QED BY <2>5, <2>6
<1> QED BY <1>2, <1>3 DEF LoadRecord

(* A registered record holds together, so it is refused only for being     *)
(* recorded by another build.                                              *)
LEMMA VerifyListedListed ==
  ASSUME DescriptorsAreWellFormed, Untampered, ListsTyped, NEW q \in Readers, Listed(q),
         VerifyListed(q)
  PROVE  Listed(q)'
<1>0. UNCHANGED <<registry, program, lists, unloaded, unsettled>> /\ step[q] = "listing"
  BY DEF VerifyListed, sources
<1>1. Settled(q)' /\ Found(q)'
  BY <1>0 DEF Listed, Settled, Found, Readable, registry
<1>2. PICK label : /\ Goto(q, label) /\ unverified'[q] \subseteq unverified[q]
                   /\ label \in {"listed", "listing", "refused"}
                   /\ label = "refused" => \E r \in unverified[q] : ~VerifyRecord(r)
  <2>1. CASE unverified[q] = {} /\ Goto(q, "listed") /\ UNCHANGED unverified
    BY <2>1
  <2>2. ASSUME NEW r \in unverified[q], unverified' = [unverified EXCEPT ![q] = @ \ {r}],
               Goto(q, IF VerifyRecord(r) THEN "listing" ELSE "refused")
        PROVE  \E label : /\ Goto(q, label) /\ unverified'[q] \subseteq unverified[q]
                          /\ label \in {"listed", "listing", "refused"}
                          /\ label = "refused" => \E e \in unverified[q] : ~VerifyRecord(e)
    <3>1. unverified'[q] \subseteq unverified[q]
      BY <2>2 DEF ListsTyped
    <3>2. CASE VerifyRecord(r)
      BY <2>2, <3>1, <3>2
    <3>3. CASE ~VerifyRecord(r)
      BY <2>2, <3>1, <3>3
    <3> QED BY <3>2, <3>3
  <2> QED BY <2>1, <2>2 DEF VerifyListed
<1>3. step'[q] = label
  BY <1>2 DEF Goto, Untampered, Typed
<1>4. Loaded(q)'
  BY <1>0, <1>2, <1>3 DEF Listed, Loaded, Readable, registry
<1>5. Excused(q)'
  <2>1. SUFFICES ASSUME NEW r \in unverified[q], ~VerifyRecord(r)
                 PROVE  lists[q] = "python" /\ RecordedElsewhere'
    BY <1>0, <1>2, <1>3 DEF Excused
  <2>2. PICK k \in Keys : k[1] = lists[q] /\ Readable(k) /\ records[k] = r
    BY DEF Listed, Loaded
  <2>3. Registered(k, r)
    BY <2>2 DEF Untampered, RegistryVerifies, Readable
  <2>4. k[1] = "python" /\ records[k].recorder # program
    BY <2>1, <2>2, <2>3 DEF Registered, VerifyRecord, RecordedHere
  <2> QED BY <1>0, <2>2, <2>4 DEF RecordedElsewhere, Readable, registry
<1> QED BY <1>1, <1>4, <1>5 DEF Listed

LEMMA ReadsListed ==
  ASSUME DescriptorsAreWellFormed, Untampered, Untampered', Grows, ListsTyped,
         NEW q \in Readers, Reads(q), \A o \in Readers : Listed(o)
  PROVE  \A o \in Readers : Listed(o)'
<1>1. Listed(q)'
  BY ListListed, FindListed, LoadListed, VerifyListedListed DEF Reads
<1>2. ASSUME NEW o \in Readers \ {q}
      PROVE  Listed(o)'
  BY ReadsOnly, ListedStays DEF Untampered
<1> QED BY <1>1, <1>2

(* A step of another process changes nothing of the readers.               *)
LEMMA OthersReadNothing ==
  ASSUME DescriptorsAreWellFormed, Typed, ListsTyped,
         ChangeSources \/ UNCHANGED vars \/ \E p \in Commands : Registers(p)
  PROVE  /\ ListsTyped'
         /\ \A q \in Readers :
              UNCHANGED <<step[q], lists[q], unloaded[q], unverified[q], unsettled[q]>>
<1>1. CASE ChangeSources \/ UNCHANGED vars
  BY <1>1 DEF ChangeSources, vars, listings, ListsTyped
<1>2. ASSUME NEW p \in Commands, Registers(p)
      PROVE  /\ ListsTyped'
             /\ \A q \in Readers :
                  UNCHANGED <<step[q], lists[q], unloaded[q], unverified[q], unsettled[q]>>
  <2>1. UNCHANGED listings
    BY <1>2 DEF Registers, ReadDescriptor, CheckCitations, ListRoot, ReadSource, Import, Verify,
                Publish, Unlink, Rollback, RollbackFails, Reload, BindCapsule
  <2>2. PICK label : Goto(p, label)
    <3>1. CASE \/ ReadDescriptor(p) \/ CheckCitations(p) \/ ListRoot(p) \/ Verify(p) \/ Reload(p)
               \/ Unlink(p) \/ Rollback(p) \/ RollbackFails(p)
      BY <3>1 DEF ReadDescriptor, CheckCitations, ListRoot, Verify, Reload, Unlink, Rollback,
                  RollbackFails
    <3>2. CASE ReadSource(p)
      BY <3>2 DEF ReadSource
    <3>3. CASE Import(p)
      BY <3>3 DEF Import
    <3>4. CASE Publish(p)
      BY <3>4 DEF Publish
    <3>5. CASE \E d \in Descriptors : BindCapsule(p, d)
      BY <3>5 DEF BindCapsule
    <3> QED BY <1>2, <3>1, <3>2, <3>3, <3>4, <3>5 DEF Registers
  <2>3. \A q \in Readers : step'[q] = step[q]
    BY <2>2 DEF Goto, Typed, DescriptorsAreWellFormed
  <2> QED BY <2>1, <2>3 DEF listings, ListsTyped
<1> QED BY <1>1, <1>2

LEMMA ListKeeps ==
  ASSUME DescriptorsAreWellFormed, Untampered, Untampered', Grows, ListsTyped,
         \A q \in Readers : Listed(q), [Next]_vars, ~Tamper
  PROVE  ListsTyped' /\ \A q \in Readers : Listed(q)'
<1>1. CASE ChangeSources \/ UNCHANGED vars \/ \E p \in Commands : Registers(p)
  <2>1. /\ ListsTyped'
        /\ \A q \in Readers :
             UNCHANGED <<step[q], lists[q], unloaded[q], unverified[q], unsettled[q]>>
    BY <1>1, OthersReadNothing DEF Untampered
  <2> QED BY <2>1, ListedStays
<1>2. CASE \E q \in Readers : Reads(q)
  BY <1>2, ReadsOnly, ReadsListed DEF Untampered
<1> QED BY <1>1, <1>2, Zenon DEF Next, Registers, Reads

(* For any number of commands, readers, builds and changes from outside: a *)
(* list that reads what it needs is refused only by tampering, by a record *)
(* with two names that it came upon, or by a Python qualification of       *)
(* another build; whatever else runs, the records themselves hold.         *)
THEOREM RegistriesList == ASSUME DescriptorsAreWellFormed PROVE Spec => []UntouchedRegistriesList
<1>1. Init => ListInv
  <2> SUFFICES ASSUME Init PROVE ListInv
    OBVIOUS
  <2>1. ListsTyped
    BY DEF Init, ListsTyped
  <2>2. \A q \in Readers : Listed(q)
    BY DEF Init, Listed, Found, Loaded, Settled, Excused
  <2> QED BY <2>1, <2>2, InitHolds DEF ListInv
<1>2. ListInv /\ [Next]_vars => ListInv'
  <2> SUFFICES ASSUME ListInv, [Next]_vars, tampering' = 0
               PROVE  ListsTyped' /\ \A q \in Readers : Listed(q)'
    BY NextHolds DEF ListInv
  <2>1. tampering = 0 /\ ~Tamper
    BY TamperingGrows DEF ListInv, IInv, Tamper
  <2>2. Untampered /\ Untampered' /\ Grows
    BY <2>1, StepsGrow DEF ListInv, IInv
  <2> QED BY <2>1, <2>2, ListKeeps DEF ListInv
<1>3. ListInv => UntouchedRegistriesList
  <2> SUFFICES ASSUME ListInv, tampering = 0, NEW q \in Readers, step[q] = "refused"
               PROVE  \/ lists[q] # "python" /\ unsettled[q]
                      \/ lists[q] = "python" /\ RecordedElsewhere
    BY DEF UntouchedRegistriesList, RecordedElsewhere, ListInv, IInv
  <2> QED BY DEF ListInv, Listed, Excused
<1> QED BY <1>1, <1>2, <1>3, PTL DEF Spec
=============================================================================
