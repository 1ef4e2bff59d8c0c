---------------------------- MODULE ArtifactStore ----------------------------
(***************************************************************************)
(* The content-addressed artifact store of one workspace, used by any      *)
(* number of concurrent `ewb` processes: `artifacts add` (and every import *)
(* of a native output) commits an object under the name of its digest and  *)
(* then a record under a fresh id; `artifacts list` and `show` load        *)
(* records and re-verify the objects behind them.                          *)
(*                                                                         *)
(* A process runs one command.  An import creates one record, so the fresh *)
(* id of its record is the import itself; a blob is its own digest.        *)
(***************************************************************************)
EXTENDS NoReplacePublish, FiniteSets

CONSTANTS
  Importers,  \* the processes that import
  Readers,    \* the processes that list or show
  Blobs,      \* the possible contents of an artifact
  NoBlob

ASSUME StoreAssumption ==
  /\ Procs = Importers \cup Readers
  /\ Importers \cap Readers = {}
  /\ Names = Blobs \cup Importers
  /\ Blobs \cap Importers = {}
  /\ NoBlob \notin Blobs
  /\ None \notin Names

VARIABLES
  blob,    \* blob[i]: the bytes import i captured
  handle,  \* handle[p]: the writer of the file p has open, or None
  todo,    \* todo[q]: the records reader q has yet to load
  cur,     \* cur[q]: the record reader q is loading
  seen     \* seen[q]: the records reader q has loaded and will return

storeVars == <<blob, handle, todo, cur, seen>>
vars == <<publishVars, storeVars>>

Init ==
  /\ PublishInit
  /\ target = [p \in Procs |-> None]
  /\ blob = [i \in Importers |-> NoBlob]
  /\ handle = [p \in Procs |-> None]
  /\ todo = [q \in Readers |-> {}]
  /\ cur = [q \in Readers |-> None]
  /\ seen = [q \in Readers |-> {}]

-----------------------------------------------------------------------------
(* Import: the source is copied and hashed into a temporary.               *)
Capture(i, b) ==
  /\ pc[i] = "idle"
  /\ Stage(i, b, "captured")
  /\ blob' = [blob EXCEPT ![i] = b]
  /\ UNCHANGED <<handle, todo, cur, seen>>

(* Mutant: the record is committed before its object. *)
SourceStableRecordFirst(i) ==
  /\ pc[i] = "captured"
  /\ Stage(i, i, "link")
  /\ UNCHANGED storeVars

(* The source is stat-ed again: unchanged, the object can be committed;    *)
(* changed (or unreadable), the import ends and may leave its temporary.   *)
SourceStable(i) ==
  /\ pc[i] = "captured"
  /\ Goto(i, "link")
  /\ UNCHANGED <<dest, tmp, target, tries, storeVars>>

SourceChanged(i) ==
  /\ pc[i] = "captured"
  /\ tmp' \in {tmp, [tmp EXCEPT ![i] = FALSE]}
  /\ Goto(i, "failed")
  /\ UNCHANGED <<dest, target, tries, storeVars>>

(* The object exists: the loser drops its own temporary, then verifies the *)
(* existing object before it relies on it.                                 *)
LoserCleans(i) ==
  /\ pc[i] = "exists"
  /\ \/ /\ tmp' = [tmp EXCEPT ![i] = FALSE]
        /\ tries' = [tries EXCEPT ![i] = 0]
        /\ Goto(i, "open")
     \/ /\ Goto(i, "failed")
        /\ UNCHANGED <<tmp, tries>>
  /\ UNCHANGED <<dest, target, storeVars>>

(* Opening follows the name: whichever file it names now is held open.     *)
OpenExisting(i) ==
  /\ pc[i] = "open"
  /\ handle' = [handle EXCEPT ![i] = dest[blob[i]]]
  /\ Goto(i, IF dest[blob[i]] = None THEN "failed" ELSE "stat")
  /\ UNCHANGED <<dest, tmp, target, tries, blob, todo, cur, seen>>

(* A retry of the look, on a second name or a transient error.             *)
LookAgain(i) ==
  IF Retriable(i)
  THEN tries' = [tries EXCEPT ![i] = @ + 1] /\ Goto(i, "open")
  ELSE UNCHANGED tries /\ Goto(i, "failed")

OpenBusy(i) ==
  /\ pc[i] = "open"
  /\ LookAgain(i)
  /\ UNCHANGED <<dest, tmp, target, storeVars>>

(* Mutant: any file the loser could open counts as a committed object. *)
StatExistingAnyCount(i) ==
  /\ pc[i] = "stat"
  /\ Goto(i, "published")
  /\ UNCHANGED <<dest, tmp, target, tries, storeVars>>

(* Mutant: the loser keeps looking at a file with two names for ever. *)
StatExistingUnbounded(i) ==
  /\ pc[i] = "stat"
  /\ IF LinkCount(handle[i], blob[i]) = 1
     THEN Goto(i, "published") ELSE Goto(i, "open")
  /\ UNCHANGED <<dest, tmp, target, tries, storeVars>>

(* The names of the file held open are counted, not those of the name it   *)
(* was opened by; its bytes are those of the digest.                       *)
StatExisting(i) ==
  /\ pc[i] = "stat"
  /\ IF LinkCount(handle[i], blob[i]) = 1
     THEN Goto(i, "published") /\ UNCHANGED tries
     ELSE IF AtomicMove THEN Goto(i, "failed") /\ UNCHANGED tries
                        ELSE LookAgain(i)
  /\ UNCHANGED <<dest, tmp, target, storeVars>>

(* The object is committed: its record is staged under a fresh id.         *)
StageRecord(i) ==
  /\ pc[i] = "published"
  /\ target[i] = blob[i]
  /\ Stage(i, i, "link")
  /\ UNCHANGED storeVars

RecordStagingFails(i) ==
  /\ pc[i] = "published"
  /\ target[i] = blob[i]
  /\ Goto(i, "failed")
  /\ UNCHANGED <<dest, tmp, target, tries, storeVars>>

Finish(i) ==
  /\ pc[i] = "published"
  /\ target[i] = i
  /\ Goto(i, "done")
  /\ UNCHANGED <<dest, tmp, target, tries, storeVars>>

Import(i) ==
  \/ \E b \in Blobs : Capture(i, b)
  \/ SourceStable(i) \/ SourceChanged(i)
  \/ Publish(i, "failed") /\ UNCHANGED storeVars
  \/ LoserCleans(i) \/ OpenExisting(i) \/ OpenBusy(i) \/ StatExisting(i)
  \/ StageRecord(i) \/ RecordStagingFails(i) \/ Finish(i)

-----------------------------------------------------------------------------
(* List reads the names of the registry once and then loads each record;   *)
(* show loads the one it is given.                                         *)
Registered == {i \in Importers : dest[i] # None}

BeginRead(q) ==
  /\ pc[q] = "idle"
  /\ \E wanted \in {Registered} \cup {{i} : i \in Registered} :
       todo' = [todo EXCEPT ![q] = wanted]
  /\ Goto(q, "next")
  /\ UNCHANGED <<dest, tmp, target, tries, blob, handle, cur, seen>>

OpenRecord(q) ==
  /\ pc[q] = "next"
  /\ \E i \in todo[q] :
       /\ cur' = [cur EXCEPT ![q] = i]
       /\ handle' = [handle EXCEPT ![q] = dest[i]]
       /\ Goto(q, IF dest[i] = None THEN "failed" ELSE "record")
  /\ UNCHANGED <<dest, tmp, target, tries, blob, todo, seen>>

(* Mutant: the names of the record just opened are not counted. *)
StatRecordAnyCount(q) ==
  /\ pc[q] = "record"
  /\ Goto(q, "load")
  /\ UNCHANGED <<dest, tmp, target, tries, storeVars>>

StatRecord(q) ==
  /\ pc[q] = "record"
  /\ Goto(q, IF LinkCount(handle[q], cur[q]) = 1 THEN "load" ELSE "failed")
  /\ UNCHANGED <<dest, tmp, target, tries, storeVars>>

(* The object behind the record just read is opened and verified.          *)
OpenObject(q) ==
  /\ pc[q] = "load"
  /\ handle' = [handle EXCEPT ![q] = dest[blob[cur[q]]]]
  /\ Goto(q, IF dest[blob[cur[q]]] = None THEN "failed" ELSE "object")
  /\ UNCHANGED <<dest, tmp, target, tries, blob, todo, cur, seen>>

StatObject(q) ==
  /\ pc[q] = "object"
  /\ IF LinkCount(handle[q], blob[cur[q]]) = 1
     THEN /\ seen' = [seen EXCEPT ![q] = @ \cup {cur[q]}]
          /\ todo' = [todo EXCEPT ![q] = @ \ {cur[q]}]
          /\ Goto(q, "next")
     ELSE Goto(q, "failed") /\ UNCHANGED <<seen, todo>>
  /\ UNCHANGED <<dest, tmp, target, tries, blob, handle, cur>>

(* Any of these calls may also fail by itself: an I/O error or, on Windows, *)
(* another program that holds the file.  A reader tries nothing twice.     *)
ReadError(q) ==
  /\ pc[q] \in {"next", "record", "load", "object"}
  /\ Goto(q, "unread")
  /\ UNCHANGED <<dest, tmp, target, tries, storeVars>>

ReturnRecords(q) ==
  /\ pc[q] = "next"
  /\ todo[q] = {}
  /\ Goto(q, "done")
  /\ UNCHANGED <<dest, tmp, target, tries, storeVars>>

Read(q) ==
  \/ BeginRead(q) \/ OpenRecord(q) \/ StatRecord(q)
  \/ OpenObject(q) \/ StatObject(q) \/ ReadError(q) \/ ReturnRecords(q)

-----------------------------------------------------------------------------
Step(p) == (p \in Importers /\ Import(p)) \/ (p \in Readers /\ Read(p))

Next ==
  \/ \E i \in Importers : Import(i)
  \/ \E q \in Readers : Read(q)
  \/ \E p \in Procs : Crash(p) /\ UNCHANGED storeVars

Spec == Init /\ [][Next]_vars

(* A process that has started is run by the operating system until it ends *)
(* or crashes; nobody is obliged to start one.                             *)
FairSpec == Spec /\ \A p \in Procs : WF_vars(pc[p] # "idle" /\ Step(p))

-----------------------------------------------------------------------------
Labels ==
  {"idle", "captured", "link", "unlink", "rollback", "cleanup", "published",
   "exists", "open", "stat", "next", "record", "load", "object"} \cup Ended

TypeOK ==
  /\ dest \in [Names -> Procs \cup {None}]
  /\ tmp \in [Procs -> BOOLEAN]
  /\ target \in [Procs -> Names \cup {None}]
  /\ pc \in [Procs -> Labels]
  /\ tries \in [Procs -> 0 .. MaxTries - 1]
  /\ blob \in [Importers -> Blobs \cup {NoBlob}]
  /\ handle \in [Procs -> Procs \cup {None}]
  /\ todo \in [Readers -> SUBSET Importers]
  /\ cur \in [Readers -> Importers \cup {None}]
  /\ seen \in [Readers -> SUBSET Importers]

(* An artifact record that can be loaded describes an object that can be   *)
(* loaded: import commits the object first, whoever of several importers   *)
(* of the same bytes wins, and whatever crashes in between.                *)
RecordBacked == \A i \in Importers : SingleLink(i) => SingleLink(blob[i])

(* A committed object or record is never withdrawn, replaced or given a    *)
(* second name: rolling a publication back, cleaning up after it, losing a *)
(* race for it and publishing again all leave committed names alone.       *)
CommittedNamesStay ==
  [][\A n \in Names : SingleLink(n) => SingleLink(n)' /\ dest'[n] = dest[n]]_vars

(* What a successful list or show returned is in the store, record and     *)
(* object, for as long as anybody looks.                                   *)
ReturnedRecordsStay ==
  \A q \in Readers : \A i \in seen[q] : SingleLink(i) /\ SingleLink(blob[i])

(* An import that reported failure published no record, and one that       *)
(* reported success left a loadable record, a loadable object and no       *)
(* temporary file.                                                         *)
OutcomeIsTrue ==
  \A i \in Importers :
    /\ pc[i] = "failed" => dest[i] = None
    /\ pc[i] = "done" => SingleLink(i) /\ SingleLink(blob[i]) /\ ~tmp[i]

(* A list or show finds a record or an object missing, or refuses it for   *)
(* its names, only while the publication of the record it is reading is    *)
(* between its link and its unlink; where publication is one move, never.  *)
(* That a call of the reader itself fails (ReadError) is not excluded.     *)
ReadFailsOnlyAtAWindow ==
  [][\A q \in Readers : pc[q] # "failed" /\ pc'[q] = "failed"
                          => \E n \in Names : n = cur'[q] /\ TwoNames(n)]_vars

(* When no command is running and all of them succeeded, the store holds   *)
(* exactly the records of the imports, exactly the objects they describe,  *)
(* and no temporary file.                                                  *)
AllSucceeded == \A p \in Procs : pc[p] \in {"idle", "done"}
QuietStoreIsExact ==
  AllSucceeded =>
    /\ Registered = {i \in Importers : pc[i] = "done"}
    /\ {b \in Blobs : SingleLink(b)} = {blob[i] : i \in Registered}
    /\ \A p \in Procs : ~tmp[p]

(* Every command that starts ends, however publications, rollbacks and     *)
(* retries of others interleave with it: every retry loop is bounded.      *)
EveryCommandEnds == \A p \in Procs : pc[p] # "idle" ~> pc[p] \in Ended

(* The moment with two names is brief: it ends.                            *)
PublicationWindowCloses == \A n \in Names : TwoNames(n) ~> ~TwoNames(n)

-----------------------------------------------------------------------------
(* The inductive invariant.  ProtocolInv holds on every platform: which    *)
(* file a name can name, and what a process still owns where.              *)
PlaceInv(i) ==
  /\ pc[i] # "idle" => blob[i] \in Blobs /\ target[i] \in {blob[i], i}
  /\ pc[i] = "idle" => target[i] = None /\ blob[i] = NoBlob
  /\ pc[i] \in {"captured", "exists", "open", "stat"} => target[i] = blob[i]
  /\ pc[i] \in {"captured", "link", "exists"} => dest[target[i]] # i
  /\ pc[i] \in {"unlink", "rollback"} => tmp[i] /\ dest[target[i]] = i
  /\ dest[i] \in {None, i}
  /\ dest[i] = i => target[i] = i
ObjectInv(b) == dest[b] # None => dest[b] \in Importers /\ blob[dest[b]] = b
ReadInv(q) ==
  pc[q] \in {"record", "load", "object"} =>
    cur[q] \in Importers /\ blob[cur[q]] \in Blobs
ProtocolInv ==
  /\ \A i \in Importers : PlaceInv(i)
  /\ \A b \in Blobs : ObjectInv(b)
  /\ \A q \in Readers : ReadInv(q)

(* DurableInv holds where a final name is never withdrawn: the file a      *)
(* loser or a reader holds open is then the one its name still names, so   *)
(* the single name it counts is the final one.                             *)
NoRollback == AtomicMove \/ ~UnlinkFaults
DurableImport(i) ==
  /\ pc[i] # "rollback"
  /\ AtomicMove => pc[i] # "unlink"
  /\ pc[i] = "stat" => handle[i] = dest[blob[i]] /\ handle[i] # None
  /\ pc[i] = "published" /\ target[i] = blob[i] => SingleLink(blob[i])
  /\ target[i] = i => SingleLink(blob[i])
  /\ pc[i] = "published" /\ target[i] = i => SingleLink(i) /\ ~tmp[i]
  /\ pc[i] = "done" => target[i] = i /\ SingleLink(i) /\ ~tmp[i]
  /\ pc[i] \in {"cleanup", "failed"} => dest[i] = None
  /\ pc[i] = "cleanup" => dest[target[i]] # i
DurableRead(q) ==
  /\ pc[q] = "record" => handle[q] = cur[q] /\ dest[cur[q]] = cur[q]
  /\ pc[q] \in {"load", "object"} => SingleLink(cur[q])
  /\ pc[q] = "object" => handle[q] = dest[blob[cur[q]]] /\ handle[q] # None
  /\ \A i \in seen[q] : SingleLink(i)
DurableInv ==
  /\ \A i \in Importers : DurableImport(i)
  /\ \A q \in Readers : DurableRead(q)

(* The store implements the abstract registry, a name counting as          *)
(* committed once it is the only name of its file.                         *)
Registry == INSTANCE AtomicRegistry WITH
  Ids <- Importers,
  objects <- {b \in Blobs : SingleLink(b)},
  record <- [i \in Importers |-> IF SingleLink(i) THEN blob[i] ELSE NoBlob]
ImplementsRegistry == Registry!Spec
=============================================================================
