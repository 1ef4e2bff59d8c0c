------------------------------ MODULE WheelRecord ------------------------------
(***************************************************************************)
(* prove_wheel_record_closure: a wheel, the RECORD inside it and the       *)
(* RECORD of its installation must agree on every file.  Files named       *)
(* RECORD, which cannot contain their own digest, are left out.            *)
(*                                                                         *)
(* A path is [name, record]: its case-folded form, and whether it is named *)
(* RECORD; upper tells spellings of one name apart.  A digest is modelled  *)
(* as the content; RECORD lines give it and the size separately.           *)
(***************************************************************************)
EXTENDS Naturals, Sequences, FiniteSets

CONSTANTS Paths, Contents, SizeOf

ASSUME WheelAssumption ==
  /\ Paths \subseteq [name : STRING, upper : BOOLEAN, record : BOOLEAN]
  /\ DOMAIN SizeOf = Contents

Member == [path : Paths, content : Contents]
RecordEntry == [path : Paths, hash : Contents, size : Nat]

FoldedUnique(items) ==
  \A i, j \in DOMAIN items : items[i].path.name = items[j].path.name => i = j

(* Mutant: what is installed in addition goes unnoticed.                   *)
InstalledListed_Any(installed, record) == TRUE
InstalledListed(installed, record) ==
  \A i \in DOMAIN installed :
    ~installed[i].path.record =>
      \E j \in DOMAIN record : record[j].path = installed[i].path

MembersListed(members, record) ==
  \A i \in DOMAIN members :
    ~members[i].path.record =>
      \E j \in DOMAIN record : record[j].path = members[i].path

EntryHolds(entry, members, installed) ==
  /\ \E i \in DOMAIN members :
       /\ members[i].path = entry.path
       /\ SizeOf[members[i].content] = entry.size
       /\ members[i].content = entry.hash
  /\ \E i \in DOMAIN installed :
       /\ installed[i].path = entry.path
       /\ installed[i].hash = entry.hash /\ installed[i].size = entry.size

(* inspect_zip and parse_record refuse names that differ in case only; the *)
(* entries of the wheel's RECORD are then compared one by one.             *)
ProveWheelRecordClosure(members, record, installed) ==
  /\ FoldedUnique(members) /\ FoldedUnique(record) /\ FoldedUnique(installed)
  /\ \E i \in DOMAIN members : members[i].path.record
  /\ record # <<>> /\ installed # <<>>
  /\ \A i \in DOMAIN record :
       ~record[i].path.record => EntryHolds(record[i], members, installed)
  /\ InstalledListed(installed, record)
  /\ MembersListed(members, record)

-----------------------------------------------------------------------------
(* The files a list names, and under which digest.                         *)
FilesOf(entries) ==
  {<<entries[i].path, entries[i].hash, entries[i].size>> :
     i \in {j \in DOMAIN entries : ~entries[j].path.record}}
FilesIn(members) ==
  {<<members[i].path, members[i].content, SizeOf[members[i].content]>> :
     i \in {j \in DOMAIN members : ~members[j].path.record}}
=============================================================================
