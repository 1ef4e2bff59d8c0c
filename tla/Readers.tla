-------------------------------- MODULE Readers --------------------------------
(***************************************************************************)
(* Two readers of files that anybody may have written: parse_pe_imports,   *)
(* for the executables of a native qualification, and the wheel closure of *)
(* a Python admission.  Each takes one step, from an input to what it      *)
(* makes of it, which is held against what a loader or an installer would  *)
(* find there.                                                             *)
(***************************************************************************)
EXTENDS ImportTable, WheelRecord

CONSTANTS Images, Wheels, NoOutput

ASSUME ReadersAssumption ==
  /\ Images \subseteq Image
  /\ Wheels \subseteq [members : Seq(Member), record : Seq(RecordEntry),
                       installed : Seq(RecordEntry)]

VARIABLES input, output

reader == <<input, output>>

ReadersInit ==
  /\ \/ \E m \in Images : input = [reader |-> "imports", image |-> m]
     \/ \E w \in Wheels : input = [reader |-> "wheel", wheel |-> w]
  /\ output = NoOutput

ReadImports ==
  /\ output = NoOutput /\ input.reader = "imports"
  /\ output' = ParsePeImports(input.image)
  /\ UNCHANGED input

ReadWheel ==
  /\ output = NoOutput /\ input.reader = "wheel"
  /\ output' = ProveWheelRecordClosure(input.wheel.members, input.wheel.record,
                                       input.wheel.installed)
  /\ UNCHANGED input

ReadersNext == ReadImports \/ ReadWheel
ReadersSpec == ReadersInit /\ [][ReadersNext]_reader

-----------------------------------------------------------------------------
(* The closure of a wheel holds if and only if the wheel, its RECORD and   *)
(* the installed RECORD name the same files with the same contents, each   *)
(* under one name and one spelling.                                        *)
WheelClosureIsExact ==
  output # NoOutput /\ input.reader = "wheel" =>
    LET w == input.wheel IN
    output <=> /\ \A list \in {w.members, w.record, w.installed} : FoldedUnique(list)
               /\ \E i \in DOMAIN w.members : w.members[i].path.record
               /\ w.record # <<>> /\ w.installed # <<>>
               /\ FilesOf(w.record) = FilesIn(w.members)
               /\ FilesOf(w.record) = FilesOf(w.installed)

(* A table of count descriptors and a zero one begins at the address, all  *)
(* of it where a loader would map it and inside the file.                  *)
TableAt(m, o, rva, size, count) ==
  /\ LoadedFrom(m, rva, o)
  /\ count < size /\ o + count < Length(m) /\ Cell(m, o + count) = 0
  /\ \A i \in 0..(count - 1) : Cell(m, o + i) # 0
Loads(m, rva, n) ==
  \E o \in 0..(Length(m) - 1) : LoadedFrom(m, rva, o) /\ Cell(m, o) = n

(* Imports that are accepted are the names of all descriptors up to the    *)
(* first zero one, read where a loader would read them, inside the file;   *)
(* no sum of addresses wrapped and no name was guessed.                    *)
AcceptedImportsAreLoaded ==
  output # NoOutput /\ input.reader = "imports" /\ output # Rejected =>
    LET m == input.image
        offsets == 0..(Length(m) - 1)
    IN /\ \E o \in offsets, count \in 1..m.importSize :
            /\ TableAt(m, o, m.importRva, m.importSize, count)
            /\ \A i \in 0..(count - 1) :
                 \E n \in output.imports : Loads(m, Cell(m, o + i), n)
            /\ \A n \in output.imports :
                 n # 0 /\ \E i \in 0..(count - 1) : Loads(m, Cell(m, o + i), n)
       /\ m.delayRva # 0 =>
            \E o \in offsets : TableAt(m, o, m.delayRva, m.delaySize, output.delay)
=============================================================================
