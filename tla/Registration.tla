----------------------------- MODULE Registration -----------------------------
(***************************************************************************)
(* How a record enters one of the registries that are filled from a        *)
(* descriptor file and a directory the caller may still be writing to:     *)
(* `capsules admit`, `qualifications admit`, `candidates import`, and      *)
(* `python-qualifications create`, whose arguments name a capsule and      *)
(* artifacts.  Each checks what it was given, copies it into the artifact  *)
(* store and verifies the copy as any later reader will, before the record *)
(* is published.  No command locks anything; `list` verifies every record. *)
(*                                                                         *)
(* A content is its own digest.  A record is published by one move, as on  *)
(* Windows, or by a link and the removal of its temporary name, as         *)
(* NoReplacePublish has it: in between, and for good if the command ends   *)
(* there, it has two names and no reader accepts it.  An object is taken   *)
(* to be stored in one step; what failing removals do to objects is in     *)
(* ArtifactStore, and is a kind of tampering here.  Which sets of values a *)
(* data contract admits is given with each descriptor; every build of the  *)
(* program has the same contracts.  A command or list may end after any    *)
(* step, as one does that a failing call of its own stops.                 *)
(***************************************************************************)
EXTENDS Naturals, FiniteSetsExt, Functions

CONSTANTS
  Commands,     \* each also names the Python qualification it may create
  Readers,
  Descriptors,  \* what may be in a descriptor file, or asked for
  Blobs,        \* the possible contents of the other files
  Wrapper,      \* the wrapper program embedded in the binary
  MaxChanges,   \* from outside: the files, the installed build, the workspace
  None

Descriptor == 0  \* the item that is the descriptor itself
Launcher == 1    \* the file of a capsule that is no supporting file

Kinds == {"capsule", "native", "candidate", "python"}
Ids == {d.id : d \in Descriptors} \cup {d.capsule : d \in Descriptors} \cup Commands
Keys == Kinds \X Ids
Named == UNION {DOMAIN d.files : d \in Descriptors}
Digests == Descriptors \cup Blobs \cup {Wrapper}
FileMaps == UNION {[S -> Blobs] : S \in SUBSET Named}

(* A record: what was asked for, what was stored for it, and of a Python   *)
(* qualification the record of the capsule it binds, and its recorder.     *)
CapsuleRecords ==
  [id : Ids, request : Descriptors, stored : Digests, capsule : {None}, recorder : Nat,
   files : FileMaps]
Records ==
  [id : Ids, request : Descriptors, stored : Digests, capsule : CapsuleRecords \cup {None},
   recorder : Nat, files : FileMaps]

(* Descriptors name files and contents, and None is no record.             *)
DescriptorsAreWellFormed ==
  /\ Commands \cap Readers = {}
  /\ \A d \in Descriptors :
       /\ d.kind \in Kinds /\ d.files \in FileMaps /\ d.cites \subseteq Digests
       /\ d.kind = "native" => d.cites = {}
  /\ None \notin Records \cup Descriptors

VARIABLES
  descriptor,  \* the contents of the descriptor file
  root,        \* the files under the root: a content or None
  program,     \* the build of the program that is installed
  objects,     \* the objects of the artifact store: absent, intact or damaged
  records,     \* the registries
  linked,      \* the names whose records still have their temporary name too
  step, request,
  todo,        \* the items a command has yet to read or import
  got,         \* the contents it imported
  bound,       \* the capsule record a Python qualification binds
  recorder,    \* the build that it says recorded it
  lists,       \* the registry that a reader lists
  unloaded,    \* the names it has found and not loaded
  unverified,  \* the records it has loaded and not verified
  unsettled,   \* history: a record had two names when the reader found it
  changes, tampering

registry == <<objects, records, linked>>
sources == <<descriptor, root, program>>
listings == <<lists, unloaded, unverified, unsettled>>
bounds == <<changes, tampering>>
vars == <<sources, registry, step, request, todo, got, bound, recorder, listings, bounds>>

Key(p, d) == <<d.kind, IF d.kind = "python" THEN p ELSE d.id>>
HasFiles(d) == d.kind \in {"capsule", "native"}
Items(d) == {Descriptor} \cup (IF HasFiles(d) THEN DOMAIN d.files ELSE {})
NoFiles == [n \in {} |-> None]
Intact(c) == objects[c] = "intact"
Goto(p, label) == step' = [step EXCEPT ![p] = label]

Init ==
  /\ descriptor \in {d \in Descriptors : d.kind # "python"}
  /\ root \in [Named -> Blobs]
  /\ program = 0
  /\ objects \in [Digests -> {"absent", "intact"}]
  /\ \A c \in Digests \ Blobs : objects[c] = "absent"
  /\ records = [k \in Keys |-> None]
  /\ linked = {}
  /\ step = [p \in Commands \cup Readers |-> "idle"]
  /\ request = [p \in Commands |-> None]
  /\ todo = [p \in Commands |-> {}]
  /\ got = [p \in Commands |-> <<>>]
  /\ bound = [p \in Commands |-> None]
  /\ recorder = [p \in Commands |-> 0]
  /\ lists = [q \in Readers |-> "capsule"]
  /\ unloaded = [q \in Readers |-> {}]
  /\ unverified = [q \in Readers |-> {}]
  /\ unsettled = [q \in Readers |-> FALSE]
  /\ changes = 0
  /\ tampering = 0

-----------------------------------------------------------------------------
(* The record of a request, of what was imported for it.                   *)
RecordOf(p) ==
  LET d == request[p] IN
  [id |-> Key(p, d)[2], request |-> d, stored |-> got[p][Descriptor], capsule |-> bound[p],
   recorder |-> recorder[p],
   files |-> CASE d.kind = "python" -> Restrict(bound[p].files, d.paths)
               [] HasFiles(d) -> Restrict(got[p], DOMAIN got[p] \ {Descriptor})
               [] OTHER -> NoFiles]

(* The stored descriptor reads back as the declared one.                   *)
DescriptorIsStored(r) == r.stored = r.request /\ Intact(r.stored)

(* Mutant: the snapshots are not compared with the declared files. *)
FilesAreStored_AsImported(r) == \A c \in Range(r.files) : Intact(c)

(* Each snapshot is the declared file, and its object hashes to its name.  *)
FilesAreStored(r) == r.files = r.request.files /\ \A c \in Range(r.files) : Intact(c)

CitationsAreIntact(d) == \A c \in d.cites : Intact(c)

CapsuleVerifies(r) ==
  r.request.sound /\ DescriptorIsStored(r) /\ FilesAreStored(r) /\ CitationsAreIntact(r.request)

QualificationVerifies(r) == r.request.sound /\ DescriptorIsStored(r) /\ FilesAreStored(r)

CandidateVerifies(r) ==
  r.request.sound /\ CitationsAreIntact(r.request) /\ DescriptorIsStored(r)

(* read_strict_json: there is a record of that name, and it has no other.  *)
Readable(k) == records[k] # None /\ k \notin linked

(* The paths name supporting files, each once, among the snapshots.        *)
BindsFiles(c, paths) == paths \subseteq DOMAIN c.files \ {Launcher}

(* The capsule is still the one that was bound, by digest, and verifies;   *)
(* the bound files are its snapshots; the wrapper is the embedded one.     *)
PythonQualificationVerifies(r) ==
  LET c == r.capsule
      d == r.request
  IN /\ d.sound
     /\ Readable(<<"capsule", d.capsule>>) /\ records[<<"capsule", d.capsule>>] = c
     /\ CapsuleVerifies(c)
     /\ BindsFiles(c, d.paths) /\ r.files = Restrict(c.files, d.paths)
     /\ CitationsAreIntact(d)
     /\ r.stored = Wrapper /\ Intact(Wrapper)

HoldsTogether(r) ==
  CASE r.request.kind = "capsule" -> CapsuleVerifies(r)
    [] r.request.kind = "native" -> QualificationVerifies(r)
    [] r.request.kind = "candidate" -> CandidateVerifies(r)
    [] r.request.kind = "python" -> PythonQualificationVerifies(r)

(* The digest of the running program is that of the recorder.              *)
RecordedHere(r) == r.request.kind = "python" => r.recorder = program

VerifyRecord(r) == RecordedHere(r) /\ HoldsTogether(r)

-----------------------------------------------------------------------------
(* The descriptor is read and parsed; its name must be free.               *)
ReadDescriptor(p) ==
  /\ step[p] = "idle"
  /\ request' = [request EXCEPT ![p] = descriptor]
  /\ Goto(p, IF descriptor.sound /\ records[Key(p, descriptor)] = None
             THEN "cites" ELSE "refused")
  /\ UNCHANGED <<sources, registry, todo, got, bound, recorder, listings, bounds>>

(* The arguments name a verified capsule, and supporting files of it.      *)
BindCapsule(p, d) ==
  /\ step[p] = "idle" /\ d.kind = "python"
  /\ LET k == <<"capsule", d.capsule>>
         c == records[k]
     IN
     /\ request' = [request EXCEPT ![p] = d]
     /\ bound' = [bound EXCEPT ![p] = c]
     /\ Goto(p, IF Readable(k) /\ CapsuleVerifies(c) /\ d.sound /\ BindsFiles(c, d.paths)
                THEN "cites" ELSE "refused")
  /\ UNCHANGED <<sources, registry, todo, got, recorder, listings, bounds>>

(* Artifacts that a descriptor cites are loaded and hashed; a Python       *)
(* qualification then notes who records it.                                *)
CheckCitations(p) ==
  /\ step[p] = "cites"
  /\ LET d == request[p] IN
     /\ Goto(p, CASE ~CitationsAreIntact(d) -> "refused"
                  [] d.kind = "capsule" -> "names"
                  [] d.kind = "native" -> "sources"
                  [] OTHER -> "import")
     /\ todo' = [todo EXCEPT ![p] = IF HasFiles(d) THEN DOMAIN d.files ELSE Items(d)]
     /\ recorder' = [recorder EXCEPT ![p] = IF d.kind = "python" THEN program ELSE @]
  /\ UNCHANGED <<sources, registry, request, got, bound, listings, bounds>>

(* A capsule lists all the files of its root, and there are no others.     *)
ListRoot(p) ==
  /\ step[p] = "names"
  /\ Goto(p, IF {n \in Named : root[n] # None} = DOMAIN request[p].files
             THEN "sources" ELSE "refused")
  /\ UNCHANGED <<sources, registry, request, todo, got, bound, recorder, listings, bounds>>

(* Each declared file is read, and must be what is declared.               *)
ReadSource(p) ==
  /\ step[p] = "sources"
  /\ LET d == request[p]
         n == Min(todo[p])
         rest == todo[p] \ {n}
     IN IF root[n] # d.files[n] THEN Goto(p, "refused") /\ UNCHANGED todo
        ELSE /\ Goto(p, IF rest = {} THEN "import" ELSE "sources")
             /\ todo' = [todo EXCEPT ![p] = IF rest = {} THEN Items(d) ELSE rest]
  /\ UNCHANGED <<sources, registry, request, got, bound, recorder, listings, bounds>>

(* A capsule's descriptor and files are read again from their paths; a     *)
(* qualification's and a candidate's bytes are those that were checked.    *)
BytesOf(d, n) ==
  CASE d.kind = "capsule" -> IF n = Descriptor THEN descriptor ELSE root[n]
    [] d.kind = "python" -> Wrapper
    [] OTHER -> IF n = Descriptor THEN d ELSE d.files[n]

NextItem(d, items) ==
  IF d.kind = "native" /\ items # {Descriptor} THEN Min(items \ {Descriptor}) ELSE Min(items)

(* An import commits the object, or verifies the one that is there.        *)
Import(p) ==
  /\ step[p] = "import"
  /\ LET d == request[p]
         n == NextItem(d, todo[p])
         c == BytesOf(d, n)
     IN IF c = None \/ objects[c] = "damaged"
        THEN Goto(p, "refused") /\ UNCHANGED <<objects, got, todo>>
        ELSE /\ objects' = [objects EXCEPT ![c] = "intact"]
             /\ got' = [got EXCEPT ![p] =
                          [i \in DOMAIN @ \cup {n} |-> IF i = n THEN c ELSE @[i]]]
             /\ todo' = [todo EXCEPT ![p] = @ \ {n}]
             /\ Goto(p, IF todo[p] = {n} THEN "verify" ELSE "import")
  /\ UNCHANGED <<sources, records, linked, request, bound, recorder, listings, bounds>>

(* Mutant: the record is published without being verified. *)
Verify_Skipped(p) ==
  /\ step[p] = "verify"
  /\ Goto(p, "publish")
  /\ UNCHANGED <<sources, registry, request, todo, got, bound, recorder, listings, bounds>>

(* What was imported is verified as a later reader will verify it.         *)
Verify(p) ==
  /\ step[p] = "verify"
  /\ Goto(p, IF VerifyRecord(RecordOf(p)) THEN "publish" ELSE "refused")
  /\ UNCHANGED <<sources, registry, request, todo, got, bound, recorder, listings, bounds>>

(* The record gets its name by a move, or by a link that leaves it its     *)
(* temporary name; Python qualifications are created on Windows only.      *)
Publish(p) ==
  /\ step[p] = "publish"
  /\ LET d == request[p]
         k == Key(p, d)
     IN IF records[k] # None THEN Goto(p, "refused") /\ UNCHANGED <<records, linked>>
        ELSE /\ records' = [records EXCEPT ![k] = RecordOf(p)]
             /\ \/ /\ Goto(p, IF d.kind = "python" THEN "reload" ELSE "done")
                   /\ UNCHANGED linked
                \/ /\ d.kind # "python"
                   /\ linked' = linked \cup {k}
                   /\ Goto(p, "unlink")
  /\ UNCHANGED <<sources, objects, request, todo, got, bound, recorder, listings, bounds>>

(* The temporary name is removed.                                          *)
Unlink(p) ==
  /\ step[p] = "unlink"
  /\ linked' = linked \ {Key(p, request[p])}
  /\ Goto(p, "done")
  /\ UNCHANGED <<sources, objects, records, request, todo, got, bound, recorder, listings, bounds>>

(* It cannot be removed, and the record is taken back: the whole           *)
(* publication is tried again, or given up.                                *)
Rollback(p) ==
  /\ step[p] = "unlink"
  /\ LET k == Key(p, request[p]) IN
     /\ records' = [records EXCEPT ![k] = None]
     /\ linked' = linked \ {k}
  /\ \E label \in {"publish", "refused"} : Goto(p, label)
  /\ UNCHANGED <<sources, objects, request, todo, got, bound, recorder, listings, bounds>>

(* Nor can the record be taken back; the last attempt to remove the        *)
(* temporary name may succeed, and the record stays though the command     *)
(* fails.                                                                  *)
RollbackFails(p) ==
  /\ step[p] = "unlink"
  /\ linked' \in {linked, linked \ {Key(p, request[p])}}
  /\ Goto(p, "refused")
  /\ UNCHANGED <<sources, objects, records, request, todo, got, bound, recorder, listings, bounds>>

(* A Python qualification is announced only when it loads and verifies.    *)
Reload(p) ==
  /\ step[p] = "reload"
  /\ LET k == Key(p, request[p])
         r == records[k]
     IN Goto(p, IF Readable(k) /\ r.id = p /\ VerifyRecord(r) THEN "done" ELSE "refused")
  /\ UNCHANGED <<sources, registry, request, todo, got, bound, recorder, listings, bounds>>

-----------------------------------------------------------------------------
(* The names of a registry are read.                                       *)
List(q, kind) ==
  /\ step[q] = "idle"
  /\ LET there == {k \in Keys : k[1] = kind /\ records[k] # None} IN
     /\ unloaded' = [unloaded EXCEPT ![q] = there]
     /\ unsettled' = [unsettled EXCEPT ![q] = there \cap linked # {}]
  /\ lists' = [lists EXCEPT ![q] = kind]
  /\ Goto(q, "loading")
  /\ UNCHANGED <<sources, registry, request, todo, got, bound, recorder, unverified, bounds>>

(* Those of capsules and candidates are loaded as they are read, so that   *)
(* one given in the meantime may be found as well, and one taken back in   *)
(* the meantime passed over.                                               *)
LoadsAsItReads(q) == lists[q] \in {"capsule", "candidate"}

FindRecord(q) ==
  /\ step[q] = "loading" /\ LoadsAsItReads(q)
  /\ \E k \in Keys :
       /\ k[1] = lists[q] /\ records[k] # None
       /\ k \notin unloaded[q] /\ records[k] \notin unverified[q]
       /\ unloaded' = [unloaded EXCEPT ![q] = @ \cup {k}]
       /\ unsettled' = [unsettled EXCEPT ![q] = @ \/ k \in linked]
  /\ UNCHANGED <<sources, registry, step, request, todo, got, bound, recorder, lists, unverified,
                 bounds>>

(* One that is gone, or that has two names, refuses the whole list.  A     *)
(* record under another name is refused as it is loaded, except that a     *)
(* capsule's name is not compared.                                         *)
LoadRecord(q) ==
  /\ step[q] = "loading"
  /\ \/ unloaded[q] = {} /\ Goto(q, "listing") /\ UNCHANGED <<unloaded, unverified>>
     \/ \E k \in unloaded[q] :
          /\ unloaded' = [unloaded EXCEPT ![q] = @ \ {k}]
          /\ IF Readable(k) /\ (lists[q] = "capsule" \/ records[k].id = k[2])
             THEN /\ unverified' = [unverified EXCEPT ![q] = @ \cup {records[k]}]
                  /\ UNCHANGED step
             ELSE /\ \/ Goto(q, "refused")
                     \/ LoadsAsItReads(q) /\ records[k] = None /\ UNCHANGED step
                  /\ UNCHANGED unverified
  /\ UNCHANGED <<sources, registry, request, todo, got, bound, recorder, lists, unsettled, bounds>>

(* The records are verified one by one, and one that fails refuses the     *)
(* whole list.                                                             *)
VerifyListed(q) ==
  /\ step[q] = "listing"
  /\ \/ unverified[q] = {} /\ Goto(q, "listed") /\ UNCHANGED unverified
     \/ \E r \in unverified[q] :
          /\ unverified' = [unverified EXCEPT ![q] = @ \ {r}]
          /\ Goto(q, IF VerifyRecord(r) THEN "listing" ELSE "refused")
  /\ UNCHANGED <<sources, registry, request, todo, got, bound, recorder, lists, unloaded, unsettled,
                 bounds>>

-----------------------------------------------------------------------------
(* The caller goes on writing to its files, or another build of the        *)
(* program is installed.                                                   *)
ChangeSources ==
  /\ changes + tampering < MaxChanges
  /\ changes' = changes + 1
  /\ \/ /\ \E d \in Descriptors : d.kind # "python" /\ descriptor' = d
        /\ UNCHANGED <<root, program>>
     \/ /\ \E n \in Named, b \in Blobs \cup {None} : root' = [root EXCEPT ![n] = b]
        /\ UNCHANGED <<descriptor, program>>
     \/ program' = program + 1 /\ UNCHANGED <<descriptor, root>>
  /\ UNCHANGED <<registry, step, request, todo, got, bound, recorder, listings, tampering>>

(* An object is damaged, or lost (an import whose removals fail may take   *)
(* back one that others have verified), or a record put under another      *)
(* record's name.                                                          *)
Tamper ==
  /\ changes + tampering < MaxChanges
  /\ tampering' = tampering + 1
  /\ UNCHANGED linked
  /\ \/ \E c \in Digests, state \in {"damaged", "absent"} :
          Intact(c) /\ objects' = [objects EXCEPT ![c] = state] /\ UNCHANGED records
     \/ \E j, k \in Keys : j[1] = k[1] /\ j # k /\ records[j] # None
                           /\ records' = [records EXCEPT ![k] = records[j]]
                           /\ UNCHANGED objects
  /\ UNCHANGED <<sources, step, request, todo, got, bound, recorder, listings, changes>>

Next ==
  \/ \E p \in Commands :
       \/ ReadDescriptor(p) \/ CheckCitations(p) \/ ListRoot(p) \/ ReadSource(p)
       \/ Import(p) \/ Verify(p) \/ Publish(p)
       \/ Unlink(p) \/ Rollback(p) \/ RollbackFails(p) \/ Reload(p)
       \/ \E d \in Descriptors : BindCapsule(p, d)
  \/ \E q \in Readers :
       \/ FindRecord(q) \/ LoadRecord(q) \/ VerifyListed(q)
       \/ \E d \in Descriptors : List(q, d.kind)
  \/ ChangeSources \/ Tamper

Spec == Init /\ [][Next]_vars

-----------------------------------------------------------------------------
(* A command that reported success has, under the name it announced and no *)
(* other command did, a record of the request it read, whose snapshots are *)
(* the declared contents; a bound capsule is still registered, and as      *)
(* exact.  The files may have changed between any two of its reads.        *)
AnnouncedRecordsAreExact ==
  LET named(p) == Key(p, request[p])
      exact(k, r) ==
        /\ r # None /\ r.id = k[2] /\ r.stored = r.request /\ Intact(r.stored)
        /\ HasFiles(r.request) =>
             r.files = r.request.files /\ \A c \in Range(r.files) : Intact(c)
  IN tampering = 0 =>
       \A p \in {c \in Commands : step[c] = "done"} :
         LET r == records[named(p)]
             d == request[p]
         IN /\ \A q \in Commands \ {p} : step[q] = "done" => named(q) # named(p)
            /\ r.request = d /\ \A b \in d.cites : Intact(b)
            /\ IF d.kind # "python" THEN exact(named(p), r)
               ELSE /\ r.id = p /\ r.stored = Wrapper /\ Intact(Wrapper)
                    /\ records[<<"capsule", d.capsule>>] = r.capsule
                    /\ exact(<<"capsule", d.capsule>>, r.capsule)
                    /\ r.files = Restrict(r.capsule.request.files, d.paths)

(* A registry is listed, whatever the callers do to their files and in     *)
(* whatever order commands run: a list refuses what it read only if the    *)
(* workspace was tampered with, if it came upon a record that had two      *)
(* names, or if a Python qualification was recorded by another build.  In  *)
(* particular no record that a command has announced, or left behind with  *)
(* one name, refuses it.  Not covered is a list that ends because an open  *)
(* or read of its own fails: it takes no further step here.                *)
UntouchedRegistriesList ==
  \A q \in Readers :
    step[q] = "refused" =>
      \/ tampering > 0
      \/ lists[q] # "python" /\ unsettled[q]
      \/ /\ lists[q] = "python"
         /\ \E k \in Keys : k[1] = "python" /\ records[k] # None /\ records[k].recorder # program
=============================================================================
