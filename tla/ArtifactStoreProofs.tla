------------------------- MODULE ArtifactStoreProofs -------------------------
(***************************************************************************)
(* Proofs about ArtifactStore for any number of processes and blobs.       *)
(*                                                                         *)
(* Type correctness and the stability of committed names need no           *)
(* assumption about the platform.  That a record never precedes its object *)
(* needs NoRollback: on a platform with an atomic move, or on one where    *)
(* removing a temporary never fails, a final name is never withdrawn.      *)
(***************************************************************************)
EXTENDS ArtifactStore, TLAPS


LEMMA InitTypeOK == Init => TypeOK
  BY PublishAssumption, StoreAssumption
  DEF Init, PublishInit, TypeOK, Labels, Ended

(* What an importer's step does to the types of the publication's state.   *)
LEMMA PublishTypeOK ==
  ASSUME TypeOK, NEW i \in Importers, Publish(i, "failed"), UNCHANGED storeVars
  PROVE  TypeOK'
<1> USE PublishAssumption, StoreAssumption DEF TypeOK, storeVars, Goto, Ended, Labels
<1>1. target[i] \in Names \cup {None} /\ i \in Procs
  OBVIOUS
<1>2. CASE Link(i)
  BY <1>1, <1>2 DEF Link
<1>3. CASE LinkExists(i)
  BY <1>3 DEF LinkExists
<1>4. CASE LinkError(i)
  BY <1>4 DEF LinkError, Retriable
<1>5. CASE UnlinkTemporary(i)
  BY <1>5 DEF UnlinkTemporary
<1>6. CASE UnlinkFails(i)
  BY <1>6 DEF UnlinkFails
<1>7. CASE Rollback(i)
  <2>1. dest' \in [Names -> Procs \cup {None}]
    BY <1>7 DEF Rollback
  <2>2. tries' \in [Procs -> 0 .. MaxTries - 1] /\ pc' \in [Procs -> Labels]
    BY <1>7 DEF Rollback, Retriable
  <2>3. QED
    BY <1>7, <2>1, <2>2 DEF Rollback
<1>8. CASE RollbackFails(i)
  BY <1>8 DEF RollbackFails
<1>9. CASE Cleanup(i, "failed")
  BY <1>9 DEF Cleanup
<1>10. QED
  BY <1>2, <1>3, <1>4, <1>5, <1>6, <1>7, <1>8, <1>9 DEF Publish

LEMMA NextTypeOK == TypeOK /\ ProtocolInv /\ [Next]_vars => TypeOK'
<1> SUFFICES ASSUME TypeOK, ProtocolInv, [Next]_vars PROVE TypeOK'
  OBVIOUS
<1> USE PublishAssumption, StoreAssumption DEF TypeOK, storeVars, Goto, Ended, Labels
<1>1. ASSUME NEW i \in Importers, Import(i) PROVE TypeOK'
  <2>0. i \in Procs /\ i \in Names
    OBVIOUS
  <2>1. ASSUME NEW b \in Blobs, Capture(i, b) PROVE TypeOK'
    BY <2>0, <2>1 DEF Capture, Stage
  <2>2. CASE SourceStable(i)
    BY <2>2 DEF SourceStable
  <2>3. CASE SourceChanged(i)
    BY <2>3 DEF SourceChanged
  <2>4. CASE Publish(i, "failed") /\ UNCHANGED storeVars
    BY <2>4, PublishTypeOK
  <2>5. CASE LoserCleans(i)
    <3>0. 0 \in 0 .. MaxTries - 1
      OBVIOUS
    <3>1. tmp' \in [Procs -> BOOLEAN] /\ tries' \in [Procs -> 0 .. MaxTries - 1]
      <4>1. CASE tmp' = [tmp EXCEPT ![i] = FALSE] /\ tries' = [tries EXCEPT ![i] = 0]
        BY <2>0, <3>0, <4>1
      <4>2. CASE tmp' = tmp /\ tries' = tries
        BY <4>2
      <4>3. QED
        BY <2>5, <4>1, <4>2 DEF LoserCleans
    <3>2. QED
      BY <2>5, <3>1 DEF LoserCleans
  <2>6. CASE OpenExisting(i)
    <3>1. dest[blob[i]] \in Procs \cup {None}
      BY <2>6 DEF OpenExisting, ProtocolInv, PlaceInv
    <3>2. QED
      BY <2>6, <3>1 DEF OpenExisting
  <2>7. CASE OpenBusy(i)
    BY <2>0, <2>7 DEF OpenBusy, LookAgain, Retriable
  <2>8. CASE StatExisting(i)
    BY <2>0, <2>8 DEF StatExisting, LookAgain, Retriable
  <2>9. CASE StageRecord(i)
    BY <2>0, <2>9 DEF StageRecord, Stage
  <2>10. CASE RecordStagingFails(i)
    BY <2>10 DEF RecordStagingFails
  <2>11. CASE Finish(i)
    BY <2>11 DEF Finish
  <2>12. QED
    BY <1>1, <2>1, <2>2, <2>3, <2>4, <2>5, <2>6, <2>7, <2>8, <2>9, <2>10, <2>11
    DEF Import
<1>2. ASSUME NEW q \in Readers, Read(q) PROVE TypeOK'
  <2>1. CASE BeginRead(q)
    BY <2>1 DEF BeginRead, Registered
  <2>2. CASE OpenRecord(q)
    BY <2>2 DEF OpenRecord
  <2>3. CASE StatRecord(q)
    BY <2>3 DEF StatRecord
  <2>4. CASE OpenObject(q)
    <3>1. dest[blob[cur[q]]] \in Procs \cup {None}
      BY <2>4 DEF OpenObject, ProtocolInv, ReadInv
    <3>2. QED
      BY <2>4, <3>1 DEF OpenObject
  <2>5. CASE StatObject(q)
    <3>1. cur[q] \in Importers
      BY <2>5 DEF StatObject, ProtocolInv, ReadInv
    <3>2. seen' \in [Readers -> SUBSET Importers]
           /\ todo' \in [Readers -> SUBSET Importers]
      BY <2>5, <3>1 DEF StatObject
    <3>3. QED
      BY <2>5, <3>2 DEF StatObject
  <2>6. CASE ReturnRecords(q) \/ ReadError(q)
    BY <2>6 DEF ReturnRecords, ReadError
  <2>7. QED
    BY <1>2, <2>1, <2>2, <2>3, <2>4, <2>5, <2>6 DEF Read
<1>3. ASSUME NEW p \in Procs, Crash(p), UNCHANGED storeVars PROVE TypeOK'
  BY <1>3 DEF Crash
<1>4. CASE UNCHANGED vars
  BY <1>4 DEF vars, publishVars
<1>5. QED
  BY <1>1, <1>2, <1>3, <1>4 DEF Next

-----------------------------------------------------------------------------
LEMMA InitProtocol == Init => ProtocolInv
  BY PublishAssumption, StoreAssumption DEF Init, PublishInit, ProtocolInv,
     PlaceInv, ObjectInv, ReadInv

LEMMA NextProtocol == TypeOK /\ ProtocolInv /\ [Next]_vars => ProtocolInv'
<1> SUFFICES ASSUME TypeOK, ProtocolInv, [Next]_vars PROVE ProtocolInv'
  OBVIOUS
<1> USE PublishAssumption, StoreAssumption DEF TypeOK, ProtocolInv, PlaceInv, ObjectInv, ReadInv,
             storeVars, Goto, Ended
<1>1. ASSUME NEW i \in Importers, Import(i) PROVE ProtocolInv'
  <2>0. i \in Procs /\ i \in Names
    OBVIOUS
  <2>1. ASSUME NEW b \in Blobs, Capture(i, b) PROVE ProtocolInv'
    <3>1. /\ pc[i] = "idle" /\ pc' = [pc EXCEPT ![i] = "captured"]
          /\ target' = [target EXCEPT ![i] = b] /\ blob' = [blob EXCEPT ![i] = b]
          /\ tmp' = [tmp EXCEPT ![i] = TRUE]
          /\ dest' = dest /\ cur' = cur
      BY <2>1 DEF Capture, Stage
    <3>2. ASSUME NEW j \in Importers PROVE PlaceInv(j)'
      BY <2>0, <3>1
    <3>3. ASSUME NEW c \in Blobs PROVE ObjectInv(c)'
      BY <3>1
    <3>4. ASSUME NEW q \in Readers PROVE ReadInv(q)'
      BY <3>1
    <3>5. QED
      BY <3>2, <3>3, <3>4
  <2>2. CASE SourceStable(i)
    BY <2>2 DEF SourceStable
  <2>3. CASE SourceChanged(i)
    BY <2>3 DEF SourceChanged
  <2>4. CASE Link(i) /\ UNCHANGED storeVars
    <3>1. /\ pc[i] = "link" /\ pc' \in {[pc EXCEPT ![i] = "published"],
                                       [pc EXCEPT ![i] = "unlink"]}
          /\ target[i] \in {blob[i], i} /\ blob[i] \in Blobs
          /\ dest' = [dest EXCEPT ![target[i]] = i]
          /\ target' = target /\ blob' = blob /\ cur' = cur
      BY <2>0, <2>4 DEF Link
    <3>2. ASSUME NEW j \in Importers PROVE PlaceInv(j)'
      <4>1. CASE j = i
        <5>1. dest'[target[i]] = i /\ (dest'[i] = i => target[i] = i)
          BY <2>0, <3>1
        <5>2. CASE AtomicMove
          BY <2>0, <2>4, <3>1, <4>1, <5>1, <5>2 DEF Link
        <5>3. CASE ~AtomicMove
          BY <2>0, <2>4, <3>1, <4>1, <5>1, <5>3 DEF Link
        <5>4. QED
          BY <5>2, <5>3
      <4>2. CASE j # i
        BY <2>0, <2>4, <3>1, <4>2 DEF Link
      <4>3. QED
        BY <4>1, <4>2
    <3>3. ASSUME NEW c \in Blobs PROVE ObjectInv(c)'
      BY <2>0, <3>1
    <3>4. ASSUME NEW q \in Readers PROVE ReadInv(q)'
      BY <2>0, <3>1
    <3>5. QED
      BY <3>2, <3>3, <3>4
  <2>5. CASE LinkExists(i) /\ UNCHANGED storeVars
    BY <2>0, <2>5 DEF LinkExists
  <2>6. CASE LinkError(i) /\ UNCHANGED storeVars
    BY <2>0, <2>6 DEF LinkError
  <2>7. CASE UnlinkTemporary(i) /\ UNCHANGED storeVars
    BY <2>0, <2>7 DEF UnlinkTemporary
  <2>8. CASE UnlinkFails(i) /\ UNCHANGED storeVars
    BY <2>0, <2>8 DEF UnlinkFails
  <2>9. CASE Rollback(i) /\ UNCHANGED storeVars
    BY <2>0, <2>9 DEF Rollback
  <2>10. CASE RollbackFails(i) /\ UNCHANGED storeVars
    BY <2>0, <2>10 DEF RollbackFails
  <2>11. CASE Cleanup(i, "failed") /\ UNCHANGED storeVars
    BY <2>0, <2>11 DEF Cleanup
  <2>12. CASE LoserCleans(i)
    BY <2>0, <2>12 DEF LoserCleans
  <2>13. CASE OpenExisting(i)
    BY <2>0, <2>13 DEF OpenExisting
  <2>14. CASE OpenBusy(i)
    BY <2>0, <2>14 DEF OpenBusy, LookAgain
  <2>15. CASE StatExisting(i)
    BY <2>0, <2>15 DEF StatExisting, LookAgain
  <2>16. CASE StageRecord(i)
    BY <2>0, <2>16 DEF StageRecord, Stage
  <2>17. CASE RecordStagingFails(i)
    BY <2>0, <2>17 DEF RecordStagingFails
  <2>18. CASE Finish(i)
    BY <2>0, <2>18 DEF Finish
  <2>19. QED
    BY <1>1, <2>1, <2>2, <2>3, <2>4, <2>5, <2>6, <2>7, <2>8, <2>9, <2>10, <2>11,
       <2>12, <2>13, <2>14, <2>15, <2>16, <2>17, <2>18
    DEF Import, Publish
<1>2. ASSUME NEW q \in Readers, Read(q) PROVE ProtocolInv'
  <2>0. \A i \in Importers : dest[i] # None => blob[i] \in Blobs
    OBVIOUS
  <2>1. CASE BeginRead(q)
    BY <2>1 DEF BeginRead
  <2>2. CASE OpenRecord(q)
    BY <2>0, <2>2 DEF OpenRecord
  <2>3. CASE StatRecord(q)
    BY <2>3 DEF StatRecord
  <2>4. CASE OpenObject(q)
    BY <2>4 DEF OpenObject
  <2>5. CASE StatObject(q)
    BY <2>5 DEF StatObject
  <2>6. CASE ReturnRecords(q) \/ ReadError(q)
    BY <2>6 DEF ReturnRecords, ReadError
  <2>7. QED
    BY <1>2, <2>1, <2>2, <2>3, <2>4, <2>5, <2>6 DEF Read
<1>3. ASSUME NEW p \in Procs, Crash(p), UNCHANGED storeVars PROVE ProtocolInv'
  BY <1>3 DEF Crash
<1>4. CASE UNCHANGED vars
  BY <1>4 DEF vars, publishVars
<1>5. QED
  BY <1>1, <1>2, <1>3, <1>4 DEF Next

LEMMA Protocol == Spec => [](TypeOK /\ ProtocolInv)
<1>1. Init => TypeOK /\ ProtocolInv
  BY InitTypeOK, InitProtocol
<1>2. TypeOK /\ ProtocolInv /\ [Next]_vars => (TypeOK /\ ProtocolInv)'
  BY NextTypeOK, NextProtocol
<1>3. QED
  BY <1>1, <1>2, PTL DEF Spec

(* The state of the store is always of the types TypeOK gives it.          *)
THEOREM Typing == Spec => []TypeOK
  BY Protocol, PTL

-----------------------------------------------------------------------------
(* A name is committed when its file has no temporary name any more.       *)
LEMMA SingleLinkDef ==
  ASSUME TypeOK, NEW n \in Names
  PROVE  SingleLink(n) <=>
           dest[n] \in Procs /\ ~(tmp[dest[n]] /\ target[dest[n]] = n)
  BY DEF SingleLink, LinkCount, TypeOK

(* Only the writer of a file can undo a publication, and only before it    *)
(* has removed the temporary.                                              *)
LEMMA CommittedStep ==
  ASSUME TypeOK, TypeOK', ProtocolInv, [Next]_vars, NEW n \in Names, SingleLink(n)
  PROVE  SingleLink(n)' /\ dest'[n] = dest[n]
<1> USE PublishAssumption, StoreAssumption
<1> DEFINE o == dest[n]
<1>0. o \in Procs /\ ~(tmp[o] /\ target[o] = n)
  BY SingleLinkDef
<1>1. o \in Importers /\ pc[o] # "idle" /\ (n = o \/ n \in Blobs)
  BY <1>0 DEF TypeOK, ProtocolInv, PlaceInv, ObjectInv
<1>2. SUFFICES dest'[n] = o /\ ~(tmp'[o] /\ target'[o] = n)
  BY <1>0, <1>2 DEF SingleLink, LinkCount, TypeOK
<1> HIDE DEF o
<1>3. dest[n] = o
  BY DEF o
<1>4. ASSUME NEW i \in Importers, Import(i)
      PROVE  dest'[n] = o /\ ~(tmp'[o] /\ target'[o] = n)
  <2> USE <1>0, <1>1, <1>3 DEF TypeOK, storeVars
  <2>1. ASSUME NEW b \in Blobs, Capture(i, b) PROVE dest'[n] = o /\ ~(tmp'[o] /\ target'[o] = n)
    BY <2>1 DEF Capture, Stage
  <2>2. CASE SourceStable(i) \/ SourceChanged(i)
    BY <2>2 DEF SourceStable, SourceChanged
  <2>3. CASE Publish(i, "failed")
    <3>1. CASE Link(i)
      BY <3>1 DEF Link
    <3>2. CASE Rollback(i)
      <4>1. tmp[i] /\ dest[target[i]] = i
        BY <3>2 DEF Rollback, ProtocolInv, PlaceInv
      <4>2. QED
        BY <3>2, <4>1 DEF Rollback
    <3>3. CASE UnlinkTemporary(i) \/ Cleanup(i, "failed")
      BY <3>3 DEF UnlinkTemporary, Cleanup
    <3>4. CASE LinkExists(i) \/ LinkError(i) \/ UnlinkFails(i) \/ RollbackFails(i)
      BY <3>4 DEF LinkExists, LinkError, UnlinkFails, RollbackFails
    <3>5. QED
      BY <2>3, <3>1, <3>2, <3>3, <3>4 DEF Publish
  <2>4. CASE LoserCleans(i)
    BY <2>4 DEF LoserCleans
  <2>5. CASE OpenExisting(i) \/ OpenBusy(i) \/ StatExisting(i)
    BY <2>5 DEF OpenExisting, OpenBusy, StatExisting
  <2>6. CASE StageRecord(i)
    <3>1. i = o => n # i
      BY <2>6 DEF StageRecord, ProtocolInv, PlaceInv
    <3>2. QED
      BY <2>6, <3>1 DEF StageRecord, Stage
  <2>7. CASE RecordStagingFails(i) \/ Finish(i)
    BY <2>7 DEF RecordStagingFails, Finish
  <2>8. QED
    BY <1>4, <2>1, <2>2, <2>3, <2>4, <2>5, <2>6, <2>7 DEF Import
<1>5. ASSUME NEW q \in Readers, Read(q)
      PROVE  dest' = dest /\ tmp' = tmp /\ target' = target
  BY <1>5 DEF Read, BeginRead, OpenRecord, StatRecord, OpenObject, StatObject,
     ReturnRecords, ReadError
<1>6. ASSUME NEW p \in Procs, Crash(p)
      PROVE  dest' = dest /\ tmp' = tmp /\ target' = target
  BY <1>6 DEF Crash
<1>7. QED
  BY <1>0, <1>3, <1>4, <1>5, <1>6 DEF Next, vars, publishVars

(* Rolling back, cleaning up, losing a race and publishing again leave the *)
(* committed objects and records alone, on every platform and whatever     *)
(* fails.                                                                  *)
THEOREM CommittedNamesAreStable == Spec => CommittedNamesStay
<1>1. TypeOK /\ ProtocolInv /\ TypeOK' /\ [Next]_vars =>
        [\A n \in Names : SingleLink(n) => SingleLink(n)' /\ dest'[n] = dest[n]]_vars
  BY CommittedStep
<1>2. QED
  BY <1>1, Protocol, PTL DEF Spec, CommittedNamesStay

-----------------------------------------------------------------------------
(* What a step can do to the names and captured blobs, where publications  *)
(* are never rolled back.                                                  *)
Steady ==
  /\ \A n \in Names : dest[n] # None => dest'[n] = dest[n]
  /\ \A n \in Names : SingleLink(n) => SingleLink(n)'
  /\ \A j \in Importers : blob[j] \in Blobs => blob'[j] = blob[j]
  /\ \A j \in Importers : dest[j] = None => dest'[j] = None \/ pc[j] = "link"
  /\ \A n \in Names, j \in Importers : dest'[n] = j => dest[n] = j \/ pc[j] = "link"

LEMMA SteadyStep ==
  ASSUME TypeOK, TypeOK', ProtocolInv, DurableInv, [Next]_vars
  PROVE  Steady
<1> USE PublishAssumption, StoreAssumption
<1>1. ASSUME NEW i \in Importers, Import(i)
      PROVE  /\ \A n \in Names : dest[n] # None => dest'[n] = dest[n]
             /\ \A j \in Importers : blob[j] \in Blobs => blob'[j] = blob[j]
             /\ \A j \in Importers : dest[j] = None => dest'[j] = None \/ pc[j] = "link"
             /\ \A n \in Names, j \in Importers :
                  dest'[n] = j => dest[n] = j \/ pc[j] = "link"
  <2> USE DEF TypeOK, storeVars
  <2>1. ASSUME NEW b \in Blobs, Capture(i, b)
        PROVE  dest' = dest /\ blob[i] \notin Blobs /\ blob' = [blob EXCEPT ![i] = b]
    BY <2>1 DEF Capture, Stage, ProtocolInv, PlaceInv
  <2>2. CASE Link(i) /\ UNCHANGED storeVars
    <3>1. target[i] \in {blob[i], i} /\ blob[i] \in Blobs
      BY <2>2 DEF Link, ProtocolInv, PlaceInv
    <3>2. QED
      BY <2>2, <3>1 DEF Link
  <2>3. CASE Rollback(i)
    BY <2>3 DEF Rollback, DurableInv, DurableImport
  <2>4. CASE dest' = dest /\ blob' = blob
    BY <2>4
  <2>5. CASE Publish(i, "failed") /\ UNCHANGED storeVars
    <3>1. CASE LinkExists(i) \/ LinkError(i) \/ UnlinkTemporary(i)
               \/ UnlinkFails(i) \/ RollbackFails(i) \/ Cleanup(i, "failed")
      BY <2>4, <2>5, <3>1 DEF LinkExists, LinkError, UnlinkTemporary, UnlinkFails,
         RollbackFails, Cleanup
    <3>2. QED
      BY <2>2, <2>3, <2>5, <3>1 DEF Publish
  <2>6. CASE SourceStable(i) \/ SourceChanged(i) \/ LoserCleans(i)
             \/ OpenExisting(i) \/ OpenBusy(i) \/ StatExisting(i)
    BY <2>4, <2>6 DEF SourceStable, SourceChanged, LoserCleans, OpenExisting,
       OpenBusy, StatExisting
  <2>7. CASE StageRecord(i) \/ RecordStagingFails(i) \/ Finish(i)
    BY <2>4, <2>7 DEF StageRecord, Stage, RecordStagingFails, Finish
  <2>8. QED
    BY <1>1, <2>1, <2>5, <2>6, <2>7 DEF Import
<1>2. ASSUME NEW q \in Readers, Read(q) PROVE dest' = dest /\ blob' = blob
  BY <1>2 DEF Read, BeginRead, OpenRecord, StatRecord, OpenObject, StatObject,
     ReturnRecords, ReadError, storeVars
<1>3. ASSUME NEW p \in Procs, Crash(p) /\ UNCHANGED storeVars
      PROVE  dest' = dest /\ blob' = blob
  BY <1>3 DEF Crash, storeVars
<1>4. CASE UNCHANGED vars
  BY <1>4, CommittedStep DEF vars, publishVars, storeVars, Steady
<1>5. QED
  BY <1>1, <1>2, <1>3, <1>4, CommittedStep DEF Next, Steady

(* A step of one process leaves the places of the others alone.            *)
Untouched(p) ==
  pc'[p] = pc[p] /\ tmp'[p] = tmp[p] /\ target'[p] = target[p] /\ handle'[p] = handle[p]

LEMMA ImportFrame ==
  ASSUME TypeOK, NEW i \in Importers, Import(i)
  PROVE  /\ \A p \in Procs \ {i} : Untouched(p)
         /\ cur' = cur /\ seen' = seen
<1> USE StoreAssumption DEF TypeOK, storeVars, Untouched, Goto
<1>1. ASSUME NEW b \in Blobs, Capture(i, b)
      PROVE  (\A p \in Procs \ {i} : Untouched(p)) /\ cur' = cur /\ seen' = seen
  BY <1>1 DEF Capture, Stage
<1>2. CASE SourceStable(i) \/ SourceChanged(i)
  BY <1>2 DEF SourceStable, SourceChanged
<1>3. CASE Publish(i, "failed") /\ UNCHANGED storeVars
  BY <1>3 DEF Publish, Link, LinkExists, LinkError, UnlinkTemporary, UnlinkFails,
     Rollback, RollbackFails, Cleanup
<1>4. CASE LoserCleans(i)
  BY <1>4 DEF LoserCleans
<1>5. CASE OpenExisting(i) \/ OpenBusy(i) \/ StatExisting(i)
  BY <1>5 DEF OpenExisting, OpenBusy, StatExisting, LookAgain
<1>6. CASE StageRecord(i) \/ RecordStagingFails(i) \/ Finish(i)
  BY <1>6 DEF StageRecord, Stage, RecordStagingFails, Finish
<1>7. QED
  BY <1>1, <1>2, <1>3, <1>4, <1>5, <1>6 DEF Import

(* The importer that takes the step.                                       *)
LEMMA DurableOwnStep ==
  ASSUME NoRollback, TypeOK, TypeOK', ProtocolInv, ProtocolInv', DurableInv, Steady,
         NEW i \in Importers, Import(i)
  PROVE  DurableImport(i)'
<1> USE PublishAssumption, StoreAssumption DEF TypeOK, storeVars, Goto
<1>1. \A n \in Names : SingleLink(n) <=>
        dest[n] \in Procs /\ ~(tmp[dest[n]] /\ target[dest[n]] = n)
  BY SingleLinkDef
<1>2. \A n \in Names : SingleLink(n)' <=>
        dest'[n] \in Procs /\ ~(tmp'[dest'[n]] /\ target'[dest'[n]] = n)
  BY DEF SingleLink, LinkCount
<1>3. PlaceInv(i) /\ PlaceInv(i)' /\ DurableImport(i)
  BY DEF ProtocolInv, DurableInv
<1>4. ASSUME NEW b \in Blobs, Capture(i, b) PROVE DurableImport(i)'
  BY <1>3, <1>4 DEF Capture, Stage, PlaceInv, DurableImport
<1>5. CASE SourceStable(i) \/ SourceChanged(i)
  BY <1>3, <1>5 DEF SourceStable, SourceChanged, PlaceInv, DurableImport, Steady
<1>6. CASE Publish(i, "failed") /\ UNCHANGED storeVars
  <2>1. CASE Link(i)
    <3>1. /\ pc[i] = "link" /\ pc'[i] \in {"published", "unlink"}
          /\ pc'[i] = "published" <=> AtomicMove
          /\ target' = target /\ blob' = blob /\ target[i] \in {blob[i], i}
          /\ i \in Names /\ target[i] \in Names
          /\ dest'[target[i]] = i /\ (tmp'[i] <=> ~AtomicMove)
      BY <1>3, <1>6, <2>1 DEF Link, PlaceInv
    <3>2. pc'[i] = "published" => SingleLink(target[i])' /\ ~tmp'[i]
      BY <1>2, <3>1
    <3>3. target[i] = i => SingleLink(blob[i])'
      BY <1>3, <3>1 DEF Steady, DurableImport, PlaceInv
    <3> QED BY <3>1, <3>2, <3>3 DEF DurableImport
  <2>2. CASE LinkExists(i) \/ LinkError(i) \/ Cleanup(i, "failed")
    BY <1>3, <1>6, <2>2 DEF LinkExists, LinkError, Cleanup, PlaceInv, DurableImport, Steady
  <2>3. CASE UnlinkTemporary(i)
    BY <1>2, <1>3, <1>6, <2>3 DEF UnlinkTemporary, PlaceInv, DurableImport, Steady
  <2>4. CASE UnlinkFails(i) \/ Rollback(i) \/ RollbackFails(i)
    BY <1>3, <2>4 DEF UnlinkFails, Rollback, RollbackFails, DurableImport, NoRollback
  <2>5. QED
    BY <1>6, <2>1, <2>2, <2>3, <2>4 DEF Publish
<1>7. CASE LoserCleans(i) \/ OpenExisting(i) \/ OpenBusy(i)
  BY <1>3, <1>7 DEF LoserCleans, OpenExisting, OpenBusy, LookAgain, PlaceInv,
     DurableImport, Steady
<1>8. CASE StatExisting(i)
  <2>1. pc[i] = "stat" /\ blob[i] \in Blobs /\ target[i] = blob[i]
    BY <1>3, <1>8 DEF StatExisting, PlaceInv
  <2>2. LinkCount(handle[i], blob[i]) = 1 => SingleLink(blob[i])
    BY <1>3, <2>1 DEF DurableImport, SingleLink
  <2>3. QED
    BY <1>3, <1>8, <2>1, <2>2 DEF StatExisting, LookAgain, PlaceInv, DurableImport, Steady
<1>9. CASE StageRecord(i)
  BY <1>3, <1>9 DEF StageRecord, Stage, PlaceInv, DurableImport, Steady
<1>10. CASE RecordStagingFails(i) \/ Finish(i)
  BY <1>3, <1>10 DEF RecordStagingFails, Finish, PlaceInv, DurableImport, Steady
<1>11. QED
  BY <1>4, <1>5, <1>6, <1>7, <1>8, <1>9, <1>10 DEF Import

(* The others keep their facts through a step that leaves them alone.      *)
LEMMA DurableOtherImport ==
  ASSUME TypeOK, ProtocolInv, DurableInv, Steady, NEW j \in Importers, Untouched(j)
  PROVE  DurableImport(j)'
<1>1. PlaceInv(j) /\ DurableImport(j)
  BY DEF ProtocolInv, DurableInv
<1>2. QED
  BY <1>1, StoreAssumption DEF TypeOK, PlaceInv, DurableImport, Steady, Untouched

LEMMA DurableOtherRead ==
  ASSUME TypeOK, ProtocolInv, DurableInv, Steady, NEW q \in Readers, Untouched(q),
         cur'[q] = cur[q], seen'[q] = seen[q]
  PROVE  DurableRead(q)'
<1>1. ReadInv(q) /\ DurableRead(q)
  BY DEF ProtocolInv, DurableInv
<1>2. QED
  BY <1>1, StoreAssumption, PublishAssumption
  DEF TypeOK, ReadInv, DurableRead, Steady, Untouched

LEMMA InitDurable == Init => DurableInv
  BY PublishAssumption, StoreAssumption
  DEF Init, PublishInit, DurableInv, DurableImport, DurableRead

LEMMA NextDurable ==
  ASSUME NoRollback, TypeOK, TypeOK', ProtocolInv, ProtocolInv', DurableInv, [Next]_vars
  PROVE  DurableInv'
<1> USE PublishAssumption, StoreAssumption
<1>1. Steady
  BY SteadyStep
<1>2. ASSUME NEW i \in Importers, Import(i) PROVE DurableInv'
  <2>1. \A p \in Procs \ {i} : Untouched(p)
    BY <1>2, ImportFrame
  <2>2. cur' = cur /\ seen' = seen
    BY <1>2, ImportFrame
  <2>3. DurableImport(i)'
    BY <1>1, <1>2, DurableOwnStep
  <2>4. ASSUME NEW j \in Importers PROVE DurableImport(j)'
    BY <1>1, <2>1, <2>3, DurableOtherImport
  <2>5. ASSUME NEW q \in Readers PROVE DurableRead(q)'
    <3>1. Untouched(q)
      BY <2>1
    <3>2. QED
      BY <1>1, <2>2, <3>1, DurableOtherRead
  <2>6. QED
    BY <2>4, <2>5 DEF DurableInv
<1>3. ASSUME NEW q \in Readers, Read(q) PROVE DurableInv'
  <2> USE DEF TypeOK, Goto, storeVars
  <2>1. dest' = dest /\ tmp' = tmp /\ target' = target /\ blob' = blob
        /\ \A p \in Procs \ {q} : Untouched(p) /\ (p \in Readers => cur'[p] = cur[p] /\ seen'[p] = seen[p])
    <3>1. CASE BeginRead(q) \/ OpenRecord(q)
      BY <3>1 DEF BeginRead, OpenRecord, Untouched
    <3>2. CASE StatRecord(q) \/ OpenObject(q)
      BY <3>2 DEF StatRecord, OpenObject, Untouched
    <3>3. CASE StatObject(q) \/ ReturnRecords(q) \/ ReadError(q)
      BY <3>3 DEF StatObject, ReturnRecords, ReadError, Untouched
    <3>4. QED
      BY <1>3, <3>1, <3>2, <3>3 DEF Read
  <2>2. ASSUME NEW j \in Importers PROVE DurableImport(j)'
    BY <1>1, <2>1, DurableOtherImport
  <2>3. ASSUME NEW r \in Readers, r # q PROVE DurableRead(r)'
    BY <1>1, <2>1, <2>3, DurableOtherRead
  <2>4. ReadInv(q) /\ DurableRead(q)
    BY DEF ProtocolInv, DurableInv
  <2>5. DurableRead(q)'
    <3>1. CASE BeginRead(q)
      BY <1>1, <2>4, <3>1 DEF BeginRead, DurableRead, Steady
    <3>2. CASE OpenRecord(q)
      BY <1>1, <2>4, <3>2 DEF OpenRecord, DurableRead, Steady, ProtocolInv, PlaceInv
    <3>3. CASE StatRecord(q)
      <4>1. LinkCount(handle[q], cur[q]) = 1 => SingleLink(cur[q])
        BY <2>4, <3>3 DEF StatRecord, ReadInv, DurableRead, SingleLink
      <4>2. QED
        BY <1>1, <2>4, <3>3, <4>1 DEF StatRecord, ReadInv, DurableRead, Steady
    <3>4. CASE OpenObject(q)
      BY <1>1, <2>4, <3>4 DEF OpenObject, ReadInv, DurableRead, Steady
    <3>5. CASE StatObject(q)
      BY <1>1, <2>4, <3>5 DEF StatObject, ReadInv, DurableRead, Steady
    <3>6. CASE ReturnRecords(q) \/ ReadError(q)
      BY <1>1, <2>4, <3>6 DEF ReturnRecords, ReadError, DurableRead, Steady
    <3>7. QED
      BY <1>3, <3>1, <3>2, <3>3, <3>4, <3>5, <3>6 DEF Read
  <2>6. QED
    BY <2>2, <2>3, <2>5 DEF DurableInv
<1>4. ASSUME NEW p \in Procs, Crash(p), UNCHANGED storeVars PROVE DurableInv'
  <2> USE DEF TypeOK, Goto, storeVars
  <2>1. \A r \in Procs \ {p} : Untouched(r)
    BY <1>4 DEF Crash, Untouched
  <2>2. pc'[p] = "crashed" /\ tmp' = tmp /\ target' = target
        /\ cur' = cur /\ seen' = seen /\ blob' = blob
    BY <1>4 DEF Crash
  <2>3. ASSUME NEW j \in Importers PROVE DurableImport(j)'
    <3>1. CASE j = p
      BY <1>1, <2>2, <3>1 DEF DurableInv, DurableImport, ProtocolInv, PlaceInv, Steady
    <3>2. CASE j # p
      BY <1>1, <2>1, <3>2, DurableOtherImport
    <3>3. QED
      BY <3>1, <3>2
  <2>4. ASSUME NEW q \in Readers PROVE DurableRead(q)'
    <3>1. CASE q = p
      BY <1>1, <2>2, <3>1 DEF DurableInv, DurableRead, Steady
    <3>2. CASE q # p
      BY <1>1, <2>1, <2>2, <3>2, DurableOtherRead
    <3>3. QED
      BY <3>1, <3>2
  <2>5. QED
    BY <2>3, <2>4 DEF DurableInv
<1>5. CASE UNCHANGED vars
  BY <1>5 DEF vars, publishVars, storeVars, DurableInv, DurableImport, DurableRead,
     SingleLink, LinkCount
<1>6. QED
  BY <1>2, <1>3, <1>4, <1>5 DEF Next

LEMMA Durable ==
  ASSUME NoRollback
  PROVE  Spec => [](TypeOK /\ ProtocolInv /\ DurableInv)
<1>1. Init => TypeOK /\ ProtocolInv /\ DurableInv
  BY InitTypeOK, InitProtocol, InitDurable
<1>2. (TypeOK /\ ProtocolInv /\ DurableInv) /\ [Next]_vars
        => (TypeOK /\ ProtocolInv /\ DurableInv)'
  BY NextTypeOK, NextProtocol, NextDurable
<1>3. QED
  BY <1>1, <1>2, PTL DEF Spec

(* A record that can be loaded has an object that can be loaded, whoever   *)
(* wins the races for the objects and whatever crashes.                    *)
THEOREM RecordsAreBacked == ASSUME NoRollback PROVE Spec => []RecordBacked
<1>1. TypeOK /\ ProtocolInv /\ DurableInv => RecordBacked
  <2> SUFFICES ASSUME TypeOK, ProtocolInv, DurableInv,
                      NEW i \in Importers, SingleLink(i)
               PROVE  SingleLink(blob[i])
    BY DEF RecordBacked
  <2>1. target[i] = i
    BY PublishAssumption, StoreAssumption DEF ProtocolInv, PlaceInv, SingleLink
  <2>2. QED
    BY <2>1 DEF DurableInv, DurableImport
<1>2. QED
  BY <1>1, Durable, PTL

(* What a list or show has returned can be loaded ever after.              *)
THEOREM ReturnedRecordsAreStable ==
  ASSUME NoRollback PROVE Spec => []ReturnedRecordsStay
<1>1. TypeOK /\ ProtocolInv /\ DurableInv => ReturnedRecordsStay
  <2> SUFFICES ASSUME TypeOK, ProtocolInv, DurableInv,
                      NEW q \in Readers, NEW i \in seen[q]
               PROVE  SingleLink(i) /\ SingleLink(blob[i])
    BY DEF ReturnedRecordsStay
  <2>1. i \in Importers /\ SingleLink(i)
    BY DEF TypeOK, DurableInv, DurableRead
  <2>2. target[i] = i
    BY <2>1, PublishAssumption, StoreAssumption DEF ProtocolInv, PlaceInv, SingleLink
  <2>3. QED
    BY <2>1, <2>2 DEF DurableInv, DurableImport
<1>2. QED
  BY <1>1, Durable, PTL

(* An import that failed left no record; one that succeeded left a record  *)
(* and an object that can be loaded, and no temporary.                     *)
THEOREM OutcomesAreTrue == ASSUME NoRollback PROVE Spec => []OutcomeIsTrue
<1>1. TypeOK /\ ProtocolInv /\ DurableInv => OutcomeIsTrue
  BY StoreAssumption DEF DurableInv, DurableImport, OutcomeIsTrue
<1>2. QED
  BY <1>1, Durable, PTL

-----------------------------------------------------------------------------
(* What makes a store exact once all succeeded, although links may be      *)
(* withdrawn: whoever relied on an object either finds it still, or there  *)
(* is an importer that withdrew it and has not succeeded yet.              *)
Withdrawing(w, b) ==
  target[w] = b /\ pc[w] \in {"link", "cleanup", "failed", "crashed"}
Answered(b) == dest[b] # None \/ \E w \in Importers : Withdrawing(w, b)
Relying(i) ==
  \/ pc[i] \notin {"idle", "captured", "link", "cleanup", "failed", "crashed"}
  \/ target[i] = i
ExactImport(i) ==
  /\ pc[i] \in {"idle", "open", "stat", "published", "done"} => ~tmp[i]
  /\ pc[i] = "published" /\ target[i] = i => dest[i] = i
  /\ pc[i] = "done" => target[i] = i /\ dest[i] = i
  /\ Relying(i) => Answered(blob[i])
ExactInv ==
  /\ \A i \in Importers : ExactImport(i)
  /\ \A q \in Readers : ~tmp[q]

LEMMA InitExact == Init => ExactInv
  BY PublishAssumption, StoreAssumption
  DEF Init, PublishInit, ExactInv, ExactImport, Relying

LEMMA AnsweredStep ==
  ASSUME TypeOK, ProtocolInv, NEW i \in Importers, Import(i),
         NEW b \in Blobs, Answered(b)
  PROVE  Answered(b)'
<1> USE PublishAssumption, StoreAssumption DEF TypeOK, Goto, storeVars
<1>0. /\ i \in Procs /\ PlaceInv(i)
      /\ \A w \in Importers \ {i} : Withdrawing(w, b)' <=> Withdrawing(w, b)
  BY ImportFrame DEF ProtocolInv, Untouched, Withdrawing
<1>1. CASE dest' = dest /\ ~Withdrawing(i, b)
  BY <1>0, <1>1 DEF Answered
<1>2. CASE Link(i) /\ UNCHANGED storeVars
  <2>1. dest' = [dest EXCEPT ![target[i]] = i] /\ b \in Names /\ i # None
    BY <1>0, <1>2 DEF Link
  <2>2. CASE target[i] = b
    BY <2>1, <2>2 DEF Answered
  <2>3. CASE target[i] # b
    BY <1>0, <2>1, <2>3 DEF Answered, Withdrawing
  <2>4. QED
    BY <2>2, <2>3
<1>3. CASE LinkExists(i) /\ UNCHANGED storeVars
  BY <1>0, <1>3 DEF LinkExists, Answered, Withdrawing
<1>4. CASE LinkError(i) /\ UNCHANGED storeVars
  BY <1>0, <1>4 DEF LinkError, Answered, Withdrawing
<1>5. CASE Rollback(i) /\ UNCHANGED storeVars
  BY <1>0, <1>5 DEF Rollback, Answered, Withdrawing
<1>6. CASE Cleanup(i, "failed") /\ UNCHANGED storeVars
  BY <1>0, <1>6 DEF Cleanup, Answered, Withdrawing
<1>7. CASE UnlinkTemporary(i) \/ UnlinkFails(i) \/ RollbackFails(i)
  BY <1>1, <1>7 DEF UnlinkTemporary, UnlinkFails, RollbackFails, Withdrawing
<1>8. ASSUME NEW c \in Blobs, Capture(i, c) PROVE Answered(b)'
  BY <1>1, <1>8 DEF Capture, Stage, Withdrawing
<1>9. CASE SourceStable(i) \/ SourceChanged(i)
  BY <1>1, <1>9 DEF SourceStable, SourceChanged, Withdrawing
<1>10. CASE LoserCleans(i) \/ OpenExisting(i) \/ OpenBusy(i) \/ StatExisting(i)
  BY <1>1, <1>10 DEF LoserCleans, OpenExisting, OpenBusy, StatExisting, Withdrawing
<1>11. CASE StageRecord(i) \/ RecordStagingFails(i) \/ Finish(i)
  BY <1>1, <1>11 DEF StageRecord, Stage, RecordStagingFails, Finish, Withdrawing
<1>12. QED
  BY <1>2, <1>3, <1>4, <1>5, <1>6, <1>7, <1>8, <1>9, <1>10, <1>11 DEF Import, Publish

LEMMA ExactOwnStep ==
  ASSUME TypeOK, ProtocolInv, ExactInv, NEW i \in Importers, Import(i)
  PROVE  ExactImport(i)'
<1> USE PublishAssumption, StoreAssumption DEF TypeOK, Goto, storeVars
<1>0. i \in Procs /\ PlaceInv(i) /\ ExactImport(i)
  BY DEF ProtocolInv, ExactInv
<1>a. blob[i] \in Blobs /\ blob'[i] = blob[i] /\ Answered(blob[i]) => Answered(blob[i])'
  <2> SUFFICES ASSUME blob[i] \in Blobs, blob'[i] = blob[i], Answered(blob[i])
               PROVE  Answered(blob[i])'
    OBVIOUS
  <2>1. \A b \in Blobs : Answered(b) => Answered(b)'
    BY AnsweredStep
  <2>2. Answered(blob[i])' <=> \E b \in Blobs : b = blob[i] /\ Answered(b)'
    BY DEF Answered, Withdrawing
  <2>3. QED
    BY <2>1, <2>2
<1>1. ASSUME NEW b \in Blobs, Capture(i, b) PROVE ExactImport(i)'
  BY <1>0, <1>1 DEF Capture, Stage, ExactImport, Relying
<1>2. CASE SourceStable(i) \/ SourceChanged(i)
  BY <1>0, <1>a, <1>2 DEF SourceStable, SourceChanged, ExactImport, Relying, PlaceInv
<1>3. CASE Link(i) /\ UNCHANGED storeVars
  <2>1. Answered(blob[i])'
    BY <1>0, <1>a, <1>3 DEF Link, PlaceInv, ExactImport, Relying, Answered
  <2>2. QED
    BY <1>0, <1>3, <2>1 DEF Link, ExactImport, Relying, PlaceInv
<1>4. CASE LinkExists(i) /\ UNCHANGED storeVars
  BY <1>0, <1>4 DEF LinkExists, ExactImport, Relying, PlaceInv, Answered
<1>5. CASE LinkError(i) /\ UNCHANGED storeVars
  BY <1>0, <1>a, <1>5 DEF LinkError, ExactImport, Relying, PlaceInv
<1>6. CASE (UnlinkTemporary(i) \/ UnlinkFails(i) \/ RollbackFails(i)) /\ UNCHANGED storeVars
  BY <1>0, <1>a, <1>6 DEF UnlinkTemporary, UnlinkFails, RollbackFails, ExactImport,
     Relying, PlaceInv
<1>7. CASE Rollback(i) /\ UNCHANGED storeVars
  BY <1>0, <1>a, <1>7 DEF Rollback, ExactImport, Relying, PlaceInv
<1>8. CASE Cleanup(i, "failed") /\ UNCHANGED storeVars
  BY <1>0, <1>a, <1>8 DEF Cleanup, ExactImport, Relying, PlaceInv
<1>9. CASE LoserCleans(i)
  BY <1>0, <1>a, <1>9 DEF LoserCleans, ExactImport, Relying, PlaceInv
<1>10. CASE OpenExisting(i) \/ OpenBusy(i) \/ StatExisting(i)
  BY <1>0, <1>a, <1>10 DEF OpenExisting, OpenBusy, StatExisting, LookAgain, ExactImport,
     Relying, PlaceInv
<1>11. CASE StageRecord(i)
  BY <1>0, <1>a, <1>11 DEF StageRecord, Stage, ExactImport, Relying, PlaceInv
<1>12. CASE RecordStagingFails(i) \/ Finish(i)
  BY <1>0, <1>a, <1>12 DEF RecordStagingFails, Finish, ExactImport, Relying, PlaceInv
<1>13. QED
  BY <1>1, <1>2, <1>3, <1>4, <1>5, <1>6, <1>7, <1>8, <1>9, <1>10, <1>11, <1>12
  DEF Import, Publish

LEMMA NextExact ==
  ASSUME TypeOK, TypeOK', ProtocolInv, ExactInv, [Next]_vars
  PROVE  ExactInv'
<1> USE PublishAssumption, StoreAssumption
<1>1. ASSUME NEW i \in Importers, Import(i) PROVE ExactInv'
  <2>1. \A p \in Procs \ {i} : Untouched(p)
    BY <1>1, ImportFrame
  <2>2. ASSUME NEW j \in Importers \ {i} PROVE ExactImport(j)'
    <3>0. ExactImport(j) /\ PlaceInv(j) /\ Untouched(j)
      BY <2>1 DEF ExactInv, ProtocolInv
    <3>1. dest[j] = j /\ ~tmp[j] => dest'[j] = j
      <4>1. dest[j] = j /\ ~tmp[j] => SingleLink(j)
        BY SingleLinkDef
      <4>2. QED
        BY <4>1, CommittedStep
    <3>2. blob'[j] = blob[j]
      <4>1. ASSUME NEW b \in Blobs, Capture(i, b) PROVE blob'[j] = blob[j]
        BY <4>1 DEF Capture, TypeOK
      <4>2. QED
        BY <1>1, <4>1 DEF Import, SourceStable, SourceChanged, LoserCleans, OpenExisting,
           OpenBusy, StatExisting, StageRecord, RecordStagingFails, Finish, storeVars
    <3>3. Relying(j) => blob[j] \in Blobs
      BY <3>0 DEF PlaceInv, Relying
    <3>4. \A b \in Blobs : Answered(b) => Answered(b)'
      BY <1>1, AnsweredStep
    <3>5. Relying(j)' => Answered(blob[j])'
      BY <3>0, <3>2, <3>3, <3>4 DEF Untouched, Relying, ExactImport, Answered, Withdrawing
    <3>6. QED
      BY <3>0, <3>1, <3>5 DEF Untouched, ExactImport
  <2>3. \A q \in Readers : ~tmp'[q]
    BY <2>1 DEF Untouched, ExactInv
  <2>4. QED
    BY <1>1, <2>2, <2>3, ExactOwnStep DEF ExactInv
<1>2. ASSUME NEW q \in Readers, Read(q) PROVE ExactInv'
  <2>1. /\ dest' = dest /\ tmp' = tmp /\ target' = target /\ blob' = blob
        /\ \A i \in Importers : pc'[i] = pc[i]
    BY <1>2 DEF Read, BeginRead, OpenRecord, StatRecord, OpenObject, StatObject,
       ReturnRecords, ReadError, storeVars, Goto, TypeOK
  <2>2. QED
    BY <2>1 DEF ExactInv, ExactImport, Relying, Answered, Withdrawing
<1>3. ASSUME NEW p \in Procs, Crash(p), UNCHANGED storeVars PROVE ExactInv'
  <2>1. /\ dest' = dest /\ tmp' = tmp /\ target' = target /\ blob' = blob
        /\ pc' = [pc EXCEPT ![p] = "crashed"] /\ pc[p] \notin Ended \cup {"idle"}
    BY <1>3 DEF Crash, Goto, storeVars
  <2>2. \A b : Answered(b) => Answered(b)'
    BY <2>1 DEF Answered, Withdrawing, TypeOK
  <2>3. QED
    BY <2>1, <2>2 DEF ExactInv, ExactImport, Relying, TypeOK
<1>4. CASE UNCHANGED vars
  BY <1>4 DEF vars, publishVars, storeVars, ExactInv, ExactImport, Relying, Answered,
     Withdrawing
<1>5. QED
  BY <1>1, <1>2, <1>3, <1>4 DEF Next

(* When no command runs and all succeeded, the store holds exactly what    *)
(* they imported, whatever was withdrawn and retried on the way there.     *)
THEOREM QuietStoresAreExact == Spec => []QuietStoreIsExact
<1>1. TypeOK /\ ProtocolInv /\ ExactInv => QuietStoreIsExact
  <2> SUFFICES ASSUME TypeOK, ProtocolInv, ExactInv, AllSucceeded
               PROVE  /\ Registered = {i \in Importers : pc[i] = "done"}
                      /\ {b \in Blobs : SingleLink(b)} = {blob[i] : i \in Registered}
                      /\ \A p \in Procs : ~tmp[p]
    BY DEF QuietStoreIsExact
  <2> USE PublishAssumption, StoreAssumption
  <2>1. \A i \in Importers : pc[i] \in {"idle", "done"} /\ PlaceInv(i) /\ ExactImport(i)
    BY DEF AllSucceeded, ProtocolInv, ExactInv
  <2>2. ASSUME NEW i \in Importers PROVE dest[i] # None <=> pc[i] = "done"
    BY <2>1 DEF PlaceInv, ExactImport
  <2>3. \A i \in Importers : ~tmp[i]
    BY <2>1 DEF PlaceInv, ExactImport
  <2>4. Registered = {i \in Importers : pc[i] = "done"}
    BY <2>2 DEF Registered
  <2>5. ASSUME NEW b \in Blobs, dest[b] # None
        PROVE  SingleLink(b) /\ b \in {blob[i] : i \in Registered}
    <3>1. dest[b] \in Importers /\ blob[dest[b]] = b
      BY <2>5 DEF ProtocolInv, ObjectInv
    <3>2. pc[dest[b]] = "done"
      BY <2>1, <3>1 DEF PlaceInv
    <3>3. QED
      BY <2>3, <2>4, <3>1, <3>2, SingleLinkDef
  <2>6. ASSUME NEW i \in Registered PROVE blob[i] \in Blobs /\ dest[blob[i]] # None
    <3>1. i \in Importers /\ pc[i] = "done"
      BY <2>4
    <3>2. blob[i] \in Blobs /\ Answered(blob[i])
      BY <2>1, <3>1 DEF PlaceInv, ExactImport, Relying
    <3>3. QED
      BY <2>1, <3>2 DEF Answered, Withdrawing
  <2>7. {b \in Blobs : SingleLink(b)} = {blob[i] : i \in Registered}
    BY <2>5, <2>6 DEF SingleLink
  <2>8. QED
    BY <2>3, <2>4, <2>7 DEF ExactInv
<1>2. TypeOK /\ ProtocolInv /\ TypeOK' /\ ExactInv /\ [Next]_vars => ExactInv'
  BY NextExact
<1>3. QED
  BY <1>1, <1>2, InitExact, Protocol, PTL DEF Spec

-----------------------------------------------------------------------------
(* A reader knows of records that were there; none is withdrawn.           *)
TodoInv == \A q \in Readers : \A i \in todo[q] : dest[i] # None

LEMMA NextTodo ==
  ASSUME TypeOK, TypeOK', ProtocolInv, DurableInv, TodoInv, [Next]_vars
  PROVE  TodoInv'
<1> USE PublishAssumption, StoreAssumption
<1>1. \A i \in Importers : dest[i] # None => dest'[i] # None
  BY SteadyStep DEF Steady
<1>2. ASSUME NEW q \in Readers, NEW i \in todo'[q] PROVE i \in todo[q] \/ dest[i] # None
  <2>1. ASSUME NEW j \in Importers, Import(j) PROVE todo' = todo
    BY <2>1 DEF Import, Capture, SourceStable, SourceChanged, LoserCleans, OpenExisting,
       OpenBusy, StatExisting, StageRecord, RecordStagingFails, Finish, storeVars
  <2>2. ASSUME NEW r \in Readers, Read(r) PROVE i \in todo[q] \/ dest[i] # None
    <3>1. CASE BeginRead(r)
      BY <1>2, <3>1 DEF BeginRead, Registered, TypeOK
    <3>2. CASE StatObject(r)
      BY <1>2, <3>2 DEF StatObject, TypeOK
    <3>3. CASE \/ OpenRecord(r) \/ StatRecord(r) \/ OpenObject(r)
               \/ ReturnRecords(r) \/ ReadError(r)
      BY <1>2, <3>3 DEF OpenRecord, StatRecord, OpenObject, ReturnRecords, ReadError, storeVars
    <3>4. QED
      BY <2>2, <3>1, <3>2, <3>3 DEF Read
  <2>3. QED
    BY <1>2, <2>1, <2>2 DEF Next, vars, storeVars
<1>3. QED
  BY <1>1, <1>2 DEF TodoInv, TypeOK

(* Where no link is withdrawn, a list or show that refuses what it reads   *)
(* has met a record between its link and its unlink: it never finds a      *)
(* record whose file or whose object is gone, nor an object with two       *)
(* names.  That a call of the reader fails by itself is not excluded.      *)
THEOREM ReadsFailAtWindows == ASSUME NoRollback PROVE Spec => ReadFailsOnlyAtAWindow
<1> USE PublishAssumption, StoreAssumption
<1>1. ASSUME TypeOK, ProtocolInv, DurableInv, TodoInv, [Next]_vars, NEW q \in Readers,
             pc[q] # "failed", pc'[q] = "failed"
      PROVE  \E n \in Names : n = cur'[q] /\ TwoNames(n)
  <2>1. Read(q)
    <3>1. ASSUME NEW i \in Importers, Import(i) PROVE pc'[q] = pc[q]
      BY <1>1, <3>1, ImportFrame DEF Untouched
    <3>2. ASSUME NEW r \in Readers \ {q}, Read(r) PROVE pc'[q] = pc[q]
      BY <1>1, <3>2 DEF Read, BeginRead, OpenRecord, StatRecord, OpenObject, StatObject,
         ReturnRecords, ReadError, Goto, TypeOK
    <3>3. ASSUME NEW p \in Procs, Crash(p) PROVE pc'[q] # "failed"
      BY <1>1, <3>3 DEF Crash, Goto, TypeOK
    <3>4. QED
      BY <1>1, <3>1, <3>2, <3>3 DEF Next, vars, publishVars
  <2>2. ReadInv(q) /\ DurableRead(q)
    BY <1>1 DEF ProtocolInv, DurableInv
  <2>3. ~BeginRead(q) /\ ~ReturnRecords(q) /\ ~ReadError(q)
    BY <1>1 DEF BeginRead, ReturnRecords, ReadError, Goto, TypeOK
  <2>4. ~OpenRecord(q)
    BY <1>1 DEF OpenRecord, Goto, TypeOK, TodoInv
  <2>5. ASSUME SingleLink(cur[q]), cur[q] \in Importers
        PROVE  SingleLink(blob[cur[q]]) /\ dest[blob[cur[q]]] # None
    <3>1. target[cur[q]] = cur[q]
      BY <1>1, <2>5 DEF ProtocolInv, PlaceInv, SingleLink
    <3>2. QED
      BY <1>1, <2>5, <3>1 DEF DurableInv, DurableImport, SingleLink
  <2>6. ~OpenObject(q)
    BY <1>1, <2>2, <2>5 DEF OpenObject, Goto, TypeOK, ReadInv, DurableRead
  <2>7. ~StatObject(q)
    <3> SUFFICES ASSUME StatObject(q) PROVE FALSE
      OBVIOUS
    <3>1. LinkCount(handle[q], blob[cur[q]]) = 1
      BY <2>2, <2>5 DEF StatObject, ReadInv, DurableRead, SingleLink
    <3>2. QED
      BY <1>1, <3>1 DEF StatObject, Goto, TypeOK
  <2>8. CASE StatRecord(q)
    <3>1. cur[q] \in Importers /\ handle[q] = cur[q] /\ dest[cur[q]] = cur[q]
      BY <2>2, <2>8 DEF StatRecord, ReadInv, DurableRead
    <3>2. LinkCount(cur[q], cur[q]) # 1
      BY <1>1, <2>8, <3>1 DEF StatRecord, Goto, TypeOK
    <3>3. TwoNames(cur[q])
      BY <3>1, <3>2 DEF TwoNames, LinkCount
    <3>4. cur'[q] = cur[q]
      BY <2>8 DEF StatRecord, storeVars
    <3>5. QED
      BY <3>1, <3>3, <3>4
  <2>9. QED
    BY <2>1, <2>3, <2>4, <2>6, <2>7, <2>8 DEF Read
<1>2. Init => TodoInv
  BY DEF Init, TodoInv
<1>3. TypeOK /\ ProtocolInv /\ DurableInv /\ TypeOK' /\ TodoInv /\ [Next]_vars => TodoInv'
  BY NextTodo
<1>4. TypeOK /\ ProtocolInv /\ DurableInv /\ TodoInv /\ [Next]_vars =>
        [\A q \in Readers : pc[q] # "failed" /\ pc'[q] = "failed"
                              => \E n \in Names : n = cur'[q] /\ TwoNames(n)]_vars
  BY <1>1
<1>5. QED
  BY <1>2, <1>3, <1>4, Durable, PTL DEF Spec, ReadFailsOnlyAtAWindow

(* Where a publication is one move, no file ever has two names.            *)
OneName == \A n \in Names : dest[n] # None => SingleLink(n)

LEMMA NextOneName ==
  ASSUME AtomicMove, TypeOK, TypeOK', ProtocolInv, DurableInv, OneName, [Next]_vars
  PROVE  OneName'
<1> SUFFICES ASSUME NEW n \in Names, dest'[n] # None PROVE SingleLink(n)'
  BY DEF OneName
<1> USE PublishAssumption, StoreAssumption
<1>1. CASE dest[n] # None
  BY <1>1, CommittedStep DEF OneName
<1>2. CASE dest[n] = None
  <2>1. PICK i \in Importers : Link(i)
    <3>1. ASSUME dest' = dest PROVE FALSE
      BY <1>2, <3>1
    <3>2. ASSUME NEW i \in Importers, Import(i), ~Link(i) PROVE dest' = dest
      <4>1. ASSUME NEW b \in Blobs, Capture(i, b) PROVE dest' = dest
        BY <4>1 DEF Capture, Stage
      <4>2. ~Rollback(i)
        BY DEF Rollback, DurableInv, DurableImport
      <4>3. QED
        BY <3>2, <4>1, <4>2 DEF Import, Publish, SourceStable, SourceChanged, LinkExists,
           LinkError, UnlinkTemporary, UnlinkFails, RollbackFails, Cleanup, LoserCleans,
           OpenExisting, OpenBusy, StatExisting, StageRecord, Stage, RecordStagingFails, Finish
    <3>3. ASSUME NEW q \in Readers, Read(q) PROVE dest' = dest
      BY <3>3 DEF Read, BeginRead, OpenRecord, StatRecord, OpenObject, StatObject,
         ReturnRecords, ReadError
    <3>4. QED
      BY <3>1, <3>2, <3>3 DEF Next, Crash, vars, publishVars
  <2>2. dest'[n] = i /\ tmp'[i] = FALSE
    BY <1>2, <2>1 DEF Link, TypeOK
  <2>3. QED
    BY <2>1, <2>2 DEF SingleLink, LinkCount
<1>3. QED
  BY <1>1, <1>2

(* Where a publication is one move, no file ever has two names, and so no  *)
(* list or show ever refuses what it reads, whatever crashes or is         *)
(* published meanwhile: if it fails, a call of its own failed ("unread").  *)
THEOREM ReadsRefuseNothingWhereMovesAreAtomic ==
  ASSUME AtomicMove PROVE Spec => [](\A q \in Readers : pc[q] # "failed")
<1> DEFINE NoRefusal == \A q \in Readers : pc[q] # "failed"
<1>1. NoRollback
  BY DEF NoRollback
<1>2. Init => OneName /\ NoRefusal
  BY PublishAssumption, StoreAssumption DEF Init, PublishInit, OneName
<1>3. TypeOK /\ ProtocolInv /\ DurableInv /\ TypeOK' /\ OneName /\ [Next]_vars => OneName'
  BY NextOneName
<1>4. OneName /\ NoRefusal
        /\ [\A q \in Readers : pc[q] # "failed" /\ pc'[q] = "failed"
                                 => \E n \in Names : n = cur'[q] /\ TwoNames(n)]_vars
        => NoRefusal'
  <2> SUFFICES ASSUME OneName, NoRefusal,
                      [\A q \in Readers : pc[q] # "failed" /\ pc'[q] = "failed"
                                            => \E n \in Names :
                                                 n = cur'[q] /\ TwoNames(n)]_vars
               PROVE  NoRefusal'
    OBVIOUS
  <2>1. \A n \in Names : ~TwoNames(n)
    BY PublishAssumption DEF OneName, TwoNames, SingleLink
  <2>2. QED
    BY <2>1 DEF vars, publishVars
<1>5. Spec => []OneName
  BY <1>1, <1>2, <1>3, Durable, PTL DEF Spec
<1>6. QED
  BY <1>1, <1>2, <1>4, <1>5, ReadsFailAtWindows, PTL DEF Spec, ReadFailsOnlyAtAWindow

-----------------------------------------------------------------------------
(* The refinement: a step commits no name, or exactly one, and a record    *)
(* only after its object.                                                  *)
Same(n) == SingleLink(n)' <=> SingleLink(n)
CommitsOne ==
  \E m \in Names :
    /\ ~SingleLink(m) /\ SingleLink(m)'
    /\ \A n \in Names \ {m} : Same(n)
    /\ m \in Importers => blob[m] \in Blobs /\ SingleLink(blob[m])

LEMMA CommitsAtMostOne ==
  ASSUME NoRollback, TypeOK, TypeOK', ProtocolInv, ProtocolInv', DurableInv,
         [Next]_vars
  PROVE  (\A n \in Names : Same(n)) \/ CommitsOne
<1> USE PublishAssumption, StoreAssumption
<1>1. \A n \in Names : SingleLink(n) <=>
        dest[n] \in Procs /\ ~(tmp[dest[n]] /\ target[dest[n]] = n)
  BY SingleLinkDef
<1>2. \A n \in Names : SingleLink(n)' <=>
        dest'[n] \in Procs /\ ~(tmp'[dest'[n]] /\ target'[dest'[n]] = n)
  BY DEF SingleLink, LinkCount, TypeOK
<1>3. ASSUME dest' = dest, tmp' = tmp, target' = target PROVE \A n \in Names : Same(n)
  BY <1>1, <1>2, <1>3 DEF Same
<1>4. ASSUME NEW i \in Importers, Import(i)
      PROVE  (\A n \in Names : Same(n)) \/ CommitsOne
  <2> USE DEF TypeOK, storeVars, Goto
  <2>1. PlaceInv(i) /\ DurableImport(i)
    BY DEF ProtocolInv, DurableInv
  <2>2. ASSUME NEW b \in Blobs, Capture(i, b) PROVE \A n \in Names : Same(n)
    <3>1. \A n \in Names : dest[n] # i
      BY <2>1, <2>2 DEF Capture, ProtocolInv, PlaceInv, ObjectInv
    <3>2. QED
      BY <1>1, <1>2, <2>2, <3>1 DEF Capture, Stage, Same
  <2>3. CASE SourceStable(i)
    BY <1>3, <2>3 DEF SourceStable
  <2>4. CASE SourceChanged(i) \/ LoserCleans(i) \/ Cleanup(i, "failed")
    <3>1. dest[target[i]] # i /\ dest' = dest /\ target' = target
          /\ tmp' \in {tmp, [tmp EXCEPT ![i] = FALSE]}
      BY <2>1, <2>4 DEF SourceChanged, LoserCleans, Cleanup, PlaceInv, DurableImport
    <3>2. QED
      BY <1>1, <1>2, <3>1 DEF Same
  <2>5. CASE Link(i) \/ UnlinkTemporary(i)
    <3>1. PICK m \in Names : m = target[i] /\ (m \in Importers => m = i)
      BY <2>1, <2>5 DEF Link, UnlinkTemporary, PlaceInv
    <3>2. \A n \in Names \ {m} : Same(n)
      BY <1>1, <1>2, <2>5, <3>1 DEF Link, UnlinkTemporary, Same
    <3>3. ~SingleLink(m)
      BY <1>1, <2>1, <2>5, <3>1 DEF Link, UnlinkTemporary, PlaceInv
    <3>4. m \in Importers => blob[m] \in Blobs /\ SingleLink(blob[m])
      BY <2>1, <2>5, <3>1 DEF Link, UnlinkTemporary, PlaceInv, DurableImport
    <3>5. CASE SingleLink(m)'
      BY <3>1, <3>2, <3>3, <3>4, <3>5 DEF CommitsOne
    <3>6. CASE ~SingleLink(m)'
      BY <3>2, <3>3, <3>6 DEF Same
    <3>7. QED
      BY <3>5, <3>6
  <2>6. CASE LinkExists(i) \/ LinkError(i) \/ UnlinkFails(i) \/ RollbackFails(i)
    BY <1>3, <2>6 DEF LinkExists, LinkError, UnlinkFails, RollbackFails
  <2>7. CASE Rollback(i)
    BY <2>1, <2>7 DEF Rollback, DurableImport
  <2>8. CASE OpenExisting(i) \/ OpenBusy(i) \/ StatExisting(i)
    BY <1>3, <2>8 DEF OpenExisting, OpenBusy, StatExisting
  <2>9. CASE StageRecord(i)
    <3>1. target[i] = blob[i] /\ blob[i] \in Blobs /\ dest[i] # i
          /\ SingleLink(blob[i])
      BY <2>1, <2>9 DEF StageRecord, PlaceInv, DurableImport
    <3>2. \A n \in Names : dest[n] = i => n = blob[i]
      BY <3>1 DEF ProtocolInv, PlaceInv, ObjectInv
    <3>3. QED
      BY <1>1, <1>2, <2>9, <3>1, <3>2 DEF StageRecord, Stage, Same
  <2>10. CASE RecordStagingFails(i) \/ Finish(i)
    BY <1>3, <2>10 DEF RecordStagingFails, Finish
  <2>11. QED
    BY <1>4, <2>2, <2>3, <2>4, <2>5, <2>6, <2>7, <2>8, <2>9, <2>10
    DEF Import, Publish
<1>5. ASSUME NEW q \in Readers, Read(q) PROVE \A n \in Names : Same(n)
  BY <1>3, <1>5 DEF Read, BeginRead, OpenRecord, StatRecord, OpenObject, StatObject,
     ReturnRecords, ReadError
<1>6. ASSUME NEW p \in Procs, Crash(p) PROVE \A n \in Names : Same(n)
  BY <1>3, <1>6 DEF Crash
<1>7. QED
  BY <1>3, <1>4, <1>5, <1>6 DEF Next, vars, publishVars

LEMMA RegistryInit == Init => Registry!Init
  BY PublishAssumption, StoreAssumption
  DEF Init, PublishInit, Registry!Init, SingleLink

LEMMA RegistryStep ==
  ASSUME NoRollback, TypeOK, TypeOK', ProtocolInv, ProtocolInv', DurableInv,
         [Next]_vars
  PROVE  [Registry!Next]_(Registry!vars)
<1> USE PublishAssumption, StoreAssumption
<1> DEFINE objects == {b \in Blobs : SingleLink(b)}
           record == [i \in Importers |-> IF SingleLink(i) THEN blob[i] ELSE NoBlob]
<1>1. \A i \in Importers : SingleLink(i) => blob[i] \in Blobs /\ blob'[i] = blob[i]
  <2>1. \A i \in Importers : SingleLink(i) => blob[i] \in Blobs
    BY DEF ProtocolInv, PlaceInv, SingleLink
  <2>2. QED
    BY <2>1, SteadyStep DEF Steady
<1>2. CASE \A n \in Names : Same(n)
  <2>1. objects' = objects
    BY <1>2 DEF Same
  <2>2. record' = record
    BY <1>1, <1>2 DEF Same
  <2>3. QED
    BY <2>1, <2>2 DEF Registry!vars
<1>3. CASE CommitsOne
  <2>1. PICK m \in Names :
          /\ ~SingleLink(m) /\ SingleLink(m)'
          /\ \A n \in Names \ {m} : Same(n)
          /\ m \in Importers => blob[m] \in Blobs /\ SingleLink(blob[m])
    BY <1>3 DEF CommitsOne
  <2>2. CASE m \in Blobs
    <3>1. objects' = objects \cup {m} /\ m \notin objects
      BY <2>1, <2>2 DEF Same
    <3>2. record' = record
      BY <1>1, <2>1, <2>2 DEF Same
    <3>3. QED
      BY <2>2, <3>1, <3>2 DEF Registry!Next, Registry!CommitObject
  <2>3. CASE m \in Importers
    <3>1. objects' = objects
      BY <2>1, <2>3 DEF Same
    <3>2. blob[m] \in objects /\ blob'[m] = blob[m]
      <4>1. blob[m] \in Blobs
        BY <2>1, <2>3
      <4>2. QED
        BY <2>1, <2>3, <4>1, SteadyStep DEF Steady
    <3>3. record[m] = NoBlob /\ record' = [record EXCEPT ![m] = blob[m]]
      BY <1>1, <2>1, <2>3, <3>2 DEF Same
    <3>4. QED
      BY <2>3, <3>1, <3>2, <3>3 DEF Registry!Next, Registry!CommitRecord
  <2>4. QED
    BY <2>2, <2>3
<1>4. QED
  BY <1>2, <1>3, CommitsAtMostOne

(* The store implements the abstract registry: objects and records appear  *)
(* in one step each, stay, and a record only after its object.             *)
THEOREM StoreImplementsRegistry == ASSUME NoRollback PROVE Spec => ImplementsRegistry
<1>1. TypeOK /\ ProtocolInv /\ DurableInv /\ (TypeOK /\ ProtocolInv)' /\ [Next]_vars
        => [Registry!Next]_(Registry!vars)
  BY RegistryStep
<1>2. QED
  BY <1>1, RegistryInit, Durable, PTL DEF Spec, ImplementsRegistry, Registry!Spec
=============================================================================
