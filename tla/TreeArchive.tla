------------------------------ MODULE TreeArchive ------------------------------
(***************************************************************************)
(* How a Git working tree gets from a plan to a native program.  Planning  *)
(* writes the files of a checkout to an archive, a magic and then name and *)
(* content of each file after its length, and records a digest of it.      *)
(* Executing parses the archive twice, without and with creating files,    *)
(* digests the files created, and again when the native program has ended. *)
(* Each digest must be the recorded one.                                   *)
(*                                                                         *)
(* A digest is the sequence of symbols digested: counts and total lengths, *)
(* which the code compares too, follow from it.  A length field (four and  *)
(* eight bytes) is one symbol.  Unsafe stands for whatever                 *)
(* validate_relative_tree_path refuses, and a failure to create a file     *)
(* also for names that are each other's directories.                       *)
(*                                                                         *)
(* A file system need not keep a file under the name it was created by: on *)
(* Windows create_dir_all takes a directory that differs in case for the   *)
(* one wanted, and trailing dots are dropped.  Which other names it may    *)
(* choose is left to the constant KeptAs.                                  *)
(***************************************************************************)
EXTENDS Naturals, Sequences

CONSTANTS
  Byte, Magic, Unsafe, MaxName,
  Trees,      \* the directories there may be: functions from names to contents
  Archives,   \* what may be put in the place of an archive
  MaxSwaps,   \* how often that happens
  KeptAs      \* pairs of a name and another that the file system may give its file

ASSUME TreeArchiveAssumption ==
  /\ Byte \subseteq Nat /\ {Magic, Unsafe} \subseteq Byte /\ MaxName \in Nat
  /\ \A t \in Trees : t \in [DOMAIN t -> Seq(Byte)] /\ \A n \in DOMAIN t : n \in Seq(Byte)
  /\ \A a \in Archives : a \in Seq(Nat)
  /\ \A p \in KeptAs : p[2] \in Seq(Nat)

VARIABLES
  checkout,  \* the files planning found
  archive, identity,
  phase,
  stream,    \* what has been digested
  left,      \* the files not yet written or digested
  bytes,     \* the archive as it was read
  offset,    \* where the parser is in it
  last,      \* the name it read last, if any
  files,     \* the execution root
  aliased,   \* history: a file was not kept under the name it was created by
  given,     \* what it was when the native program was started
  forged,    \* somebody rewrote the plan's identity
  swaps

reading == <<bytes, offset, last>>
planned == <<archive, identity, forged, swaps>>
extracted == <<files, aliased>>
trees == <<checkout, planned, phase, stream, left, reading, extracted, given>>

EmptyTree == [n \in {} |-> <<>>]

SafeName(name) == name # <<>> /\ \A i \in DOMAIN name : name[i] # Unsafe

(* The order of byte strings: a proper prefix, or less where they differ.  *)
Before(a, b) ==
  \E i \in 1..Len(b) :
    /\ i <= Len(a) + 1
    /\ \A j \in 1..(i - 1) : a[j] = b[j]
    /\ i <= Len(a) => a[i] < b[i]
First(n, names) == n \in names /\ \A m \in names \ {n} : Before(n, m)

EntryBytes(name, content) == <<Len(name)>> \o name \o <<Len(content)>> \o content

TreesInit ==
  /\ checkout \in Trees
  /\ archive = <<Magic>> /\ identity = <<>>
  /\ phase = "plan"
  /\ stream = <<>>
  /\ left = DOMAIN checkout
  /\ bytes = <<>> /\ offset = 1 /\ last = <<>>
  /\ files = EmptyTree /\ given = EmptyTree /\ aliased = FALSE
  /\ forged = FALSE /\ swaps = 0

-----------------------------------------------------------------------------
(* write_tree_archive: sorted by name, with the checks of a reader.        *)
WriteEntry ==
  /\ phase = "plan"
  /\ \E n \in left :
       /\ First(n, left)
       /\ IF SafeName(n) /\ Len(n) <= MaxName
          THEN /\ archive' = archive \o EntryBytes(n, checkout[n])
               /\ stream' = stream \o EntryBytes(n, checkout[n])
               /\ left' = left \ {n}
               /\ UNCHANGED phase
          ELSE phase' = "unplanned" /\ UNCHANGED <<archive, stream, left>>
  /\ UNCHANGED <<checkout, identity, reading, extracted, given, forged, swaps>>

FinishArchive ==
  /\ phase = "plan" /\ left = {}
  /\ identity' = stream
  /\ phase' = "stored"
  /\ UNCHANGED <<checkout, archive, stream, left, reading, extracted, given, forged, swaps>>

-----------------------------------------------------------------------------
(* validate_planned_snapshot and extract_planned_tree both read the        *)
(* artifact and parse it.                                                  *)
BeginParse(from, to) ==
  /\ phase = from
  /\ bytes' = archive /\ offset' = 2 /\ last' = <<>> /\ stream' = <<>>
  /\ phase' = IF archive # <<>> /\ archive[1] = Magic THEN to ELSE "refused"
  /\ UNCHANGED <<checkout, planned, left, extracted, given>>
BeginValidate == BeginParse("stored", "validate")
BeginExtract == BeginParse("validated", "extract")

(* take_archive_bytes: is there that much left?                            *)
Holds(position, length) == position - 1 + length <= Len(bytes)
Take(position, length) == [i \in 1..length |-> bytes[position + i - 1]]

(* Mutant: a name may follow any other.                                    *)
InOrder_Any(name) == TRUE
(* A name must come after the one before it.                               *)
InOrder(name) == last = <<>> \/ Before(last, name)

NameFits(length) == length # 0 /\ length <= MaxName

Acceptable(length, name, at) ==
  /\ NameFits(length) /\ Holds(offset + 1, length)
  /\ InOrder(name) /\ SafeName(name)
  /\ Holds(at, 1) /\ Holds(at + 1, bytes[at])

(* The names under which the file of an entry may be kept.                 *)
Spellings(name) == {name} \cup {p[2] : p \in {q \in KeptAs : q[1] = name}}

(* One turn of the loop of parse_tree_archive; extracting creates the file *)
(* and fails if it is there, or if it cannot be created.                   *)
ParseEntry ==
  /\ phase \in {"validate", "extract"} /\ offset <= Len(bytes)
  /\ LET length == bytes[offset]
         name == Take(offset + 1, length)
         at == offset + 1 + length
         content == Take(at + 1, bytes[at])
     IN IF ~Acceptable(length, name, at)
        THEN phase' = "refused" /\ UNCHANGED <<stream, offset, last, extracted>>
        ELSE /\ stream' = stream \o EntryBytes(name, content)
             /\ offset' = at + 1 + Len(content)
             /\ last' = name
             /\ \/ phase = "validate" /\ UNCHANGED <<phase, extracted>>
                \/ /\ phase = "extract" /\ UNCHANGED phase
                   /\ \E kept \in Spellings(name) :
                        /\ kept \notin DOMAIN files
                        /\ files' = [n \in DOMAIN files \cup {kept} |->
                                       IF n = kept THEN content ELSE files[n]]
                        /\ aliased' = (aliased \/ kept # name)
                \/ phase = "extract" /\ phase' = "failed" /\ UNCHANGED extracted
  /\ UNCHANGED <<checkout, planned, left, bytes, given>>

(* Mutant: only the lengths are compared.                                  *)
IdentityHolds_Length == Len(stream) = Len(identity)
IdentityHolds == stream = identity

EndOfArchive ==
  /\ phase \in {"validate", "extract"} /\ offset > Len(bytes)
  /\ phase' = IF ~IdentityHolds THEN "refused"
              ELSE IF phase = "validate" THEN "validated" ELSE "digest"
  /\ left' = DOMAIN files
  /\ stream' = <<>>
  /\ UNCHANGED <<checkout, planned, reading, extracted, given>>

-----------------------------------------------------------------------------
(* hash_materialized_tree, of what was extracted and of what is left.      *)
DigestEntry ==
  /\ phase \in {"digest", "verify"}
  /\ \E n \in left :
       /\ First(n, left)
       /\ stream' = stream \o EntryBytes(n, files[n])
       /\ left' = left \ {n}
  /\ UNCHANGED <<checkout, planned, phase, reading, extracted, given>>

EndOfDigest ==
  /\ phase \in {"digest", "verify"} /\ left = {}
  /\ \/ phase = "digest" /\ IdentityHolds /\ phase' = "run" /\ given' = files
     \/ phase = "digest" /\ ~IdentityHolds /\ phase' = "differs" /\ UNCHANGED given
     \/ phase = "verify" /\ IdentityHolds /\ phase' = "verified" /\ UNCHANGED given
     \/ phase = "verify" /\ ~IdentityHolds /\ phase' = "changed" /\ UNCHANGED given
  /\ UNCHANGED <<checkout, planned, stream, left, reading, extracted>>

(* The archive, or a file to be digested, cannot be read.                  *)
CannotRead ==
  /\ phase \in {"stored", "validated", "digest", "verify"}
  /\ phase' = "failed"
  /\ UNCHANGED <<checkout, planned, stream, left, reading, extracted, given>>

(* The native program may leave any files behind.                          *)
NativeChanges ==
  /\ phase = "run"
  /\ files' \in Trees
  /\ UNCHANGED <<checkout, planned, phase, stream, left, reading, given, aliased>>

VerifyMaterialized ==
  /\ phase = "run"
  /\ phase' = "verify" /\ left' = DOMAIN files /\ stream' = <<>>
  /\ UNCHANGED <<checkout, planned, reading, extracted, given>>

(* Other programs replace the archive, before either of its two readings,  *)
(* and the identity in the plan, which is read before both.                *)
Swap ==
  /\ phase \in {"stored", "validated"} /\ swaps < MaxSwaps
  /\ swaps' = swaps + 1
  /\ archive' \in Archives
  /\ \/ UNCHANGED <<identity, forged>>
     \/ phase = "stored" /\ archive' # <<>> /\ identity' = Tail(archive') /\ forged' = TRUE
  /\ UNCHANGED <<checkout, phase, stream, left, reading, extracted, given>>

TreesNext ==
  \/ WriteEntry \/ FinishArchive
  \/ BeginValidate \/ BeginExtract \/ ParseEntry \/ EndOfArchive
  \/ DigestEntry \/ EndOfDigest \/ CannotRead \/ NativeChanges \/ VerifyMaterialized
  \/ Swap

TreesSpec == TreesInit /\ [][TreesNext]_trees

-----------------------------------------------------------------------------
(* An archive that the parser accepts, whoever wrote it, is the one that   *)
(* its files would be written to: the files extracted differ from those    *)
(* parsed only where the file system kept one under another name than the  *)
(* archive gives it.                                                       *)
ArchivesAreCanonical == phase = "differs" => aliased

(* A tree that was planned arrives.  Untouched, its archive is not refused *)
(* for what it holds; it is found changed when the native program has      *)
(* ended if and only if that changed it; and unless the plan itself was    *)
(* rewritten the native program is given the files that were planned,      *)
(* whatever became of the archive and of the names of its files.           *)
TreesArriveAsPlanned ==
  /\ phase = "refused" => swaps > 0
  /\ phase = "changed" => files # given
  /\ phase = "verified" => files = given
  /\ phase \in {"run", "verified"} /\ ~forged => given = checkout
=============================================================================
