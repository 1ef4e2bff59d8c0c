--------------------------- MODULE AtomicRegistry ---------------------------
(***************************************************************************)
(* What the artifact registry promises its readers: exact objects and      *)
(* records that appear in one step, are never changed or withdrawn, and a  *)
(* record only for an object that is already there.                        *)
(***************************************************************************)
CONSTANTS Blobs, Ids, NoBlob

VARIABLES
  objects,  \* the blobs stored
  record    \* record[i]: the blob artifact record i describes, or NoBlob

vars == <<objects, record>>

Init ==
  /\ objects = {}
  /\ record = [i \in Ids |-> NoBlob]

CommitObject(b) ==
  /\ b \notin objects
  /\ objects' = objects \cup {b}
  /\ UNCHANGED record

CommitRecord(i, b) ==
  /\ record[i] = NoBlob
  /\ b \in objects
  /\ record' = [record EXCEPT ![i] = b]
  /\ UNCHANGED objects

Next ==
  \/ \E b \in Blobs : CommitObject(b)
  \/ \E i \in Ids, b \in Blobs : CommitRecord(i, b)

Spec == Init /\ [][Next]_vars
=============================================================================
