-------------------------- MODULE NoReplacePublish --------------------------
(***************************************************************************)
(* The publication protocol every durable file of a workspace goes         *)
(* through: a process writes a private temporary file under .ewb/tmp and   *)
(* gives it its final name without ever replacing an existing one.         *)
(*                                                                         *)
(* Each process is one invocation of `ewb`; it publishes one file at a     *)
(* time.  A file (an inode) is identified by the process that wrote it and *)
(* the name it was written for: it is reachable through its temporary      *)
(* name while tmp[p], and through its final name n while dest[n] = p.      *)
(* The contents of a file never change after it is staged, so they are not *)
(* modelled.                                                               *)
(***************************************************************************)
EXTENDS Naturals

CONSTANTS
  Procs,         \* the invocations of ewb that ever run
  Names,         \* the final names they publish: objects, records, a marker
  None,          \* no process
  AtomicMove,    \* TRUE: MoveFileExW (Windows).  FALSE: link, then unlink
  UnlinkFaults,  \* TRUE: removing the temporary after the link may fail
  MaxTries       \* attempts of a bounded retry loop (25 in the code)

ASSUME PublishAssumption ==
  /\ None \notin Procs
  /\ AtomicMove \in BOOLEAN
  /\ UnlinkFaults \in BOOLEAN
  /\ MaxTries \in Nat \ {0}

VARIABLES
  dest,    \* dest[n]: the writer of the file n names, or None
  tmp,     \* tmp[p]: p's temporary file exists
  target,  \* target[p]: the name p's last temporary was written for
  pc,      \* pc[p]: where p is
  tries    \* tries[p]: attempts the current retry loop has used up

publishVars == <<dest, tmp, target, pc, tries>>

(* A reader that a failing call of its own stopped is "unread"; "failed"   *)
(* stands for what a command finds wrong, or a failing publication.        *)
Ended == {"done", "failed", "unread", "crashed"}

(* The number of names of the file p wrote for n is one or two while it is *)
(* reachable; the code accepts a file only when it is exactly one.         *)
LinkCount(p, n) ==
  (IF dest[n] = p THEN 1 ELSE 0) + (IF tmp[p] /\ target[p] = n THEN 1 ELSE 0)

(* The file n names has that one name only: what a reader accepts.         *)
SingleLink(n) == dest[n] \in Procs /\ LinkCount(dest[n], n) = 1

(* The file n names is still reachable as a temporary as well.             *)
TwoNames(n) == dest[n] \in Procs /\ LinkCount(dest[n], n) = 2

Retriable(p) == tries[p] + 1 < MaxTries

PublishInit ==
  /\ dest = [n \in Names |-> None]
  /\ tmp = [p \in Procs |-> FALSE]
  /\ pc = [p \in Procs |-> "idle"]
  /\ tries = [p \in Procs |-> 0]

Goto(p, label) == pc' = [pc EXCEPT ![p] = label]

(* A temporary of its own (create_new of a fresh uuid) for name n, written *)
(* and synced.                                                             *)
Stage(p, n, label) ==
  /\ tmp' = [tmp EXCEPT ![p] = TRUE]
  /\ target' = [target EXCEPT ![p] = n]
  /\ tries' = [tries EXCEPT ![p] = 0]
  /\ Goto(p, label)
  /\ UNCHANGED dest

-----------------------------------------------------------------------------
(* Mutant: a rename, which replaces an existing destination. *)
LinkReplacing(p) ==
  /\ pc[p] = "link"
  /\ dest' = [dest EXCEPT ![target[p]] = p]
  /\ tmp' = [tmp EXCEPT ![p] = ~AtomicMove]
  /\ Goto(p, IF AtomicMove THEN "published" ELSE "unlink")
  /\ UNCHANGED <<target, tries>>

(* The move, or the link that opens the window with two names.             *)
Link(p) ==
  /\ pc[p] = "link"
  /\ dest[target[p]] = None
  /\ dest' = [dest EXCEPT ![target[p]] = p]
  /\ tmp' = [tmp EXCEPT ![p] = ~AtomicMove]
  /\ Goto(p, IF AtomicMove THEN "published" ELSE "unlink")
  /\ UNCHANGED <<target, tries>>

(* AlreadyExists, which is not a transient error.                          *)
LinkExists(p) ==
  /\ pc[p] = "link"
  /\ dest[target[p]] # None
  /\ Goto(p, "exists")
  /\ UNCHANGED <<dest, tmp, target, tries>>

(* Mutant: a transient error is retried for ever. *)
LinkErrorUnbounded(p) ==
  /\ pc[p] = "link"
  /\ tries' = [tries EXCEPT ![p] = @ + 1]
  /\ UNCHANGED <<dest, tmp, target, pc>>

(* Another error: retried while it is transient and attempts remain.       *)
LinkError(p) ==
  /\ pc[p] = "link"
  /\ \/ /\ Retriable(p)
        /\ tries' = [tries EXCEPT ![p] = @ + 1]
        /\ UNCHANGED pc
     \/ /\ Goto(p, "cleanup")
        /\ UNCHANGED tries
  /\ UNCHANGED <<dest, tmp, target>>

UnlinkTemporary(p) ==
  /\ pc[p] = "unlink"
  /\ tmp' = [tmp EXCEPT ![p] = FALSE]
  /\ Goto(p, "published")
  /\ UNCHANGED <<dest, target, tries>>

(* Mutant: a clean commit is reported although two names are left. *)
UnlinkFailsIgnored(p) ==
  /\ UnlinkFaults
  /\ pc[p] = "unlink"
  /\ Goto(p, "published")
  /\ UNCHANGED <<dest, tmp, target, tries>>

UnlinkFails(p) ==
  /\ UnlinkFaults
  /\ pc[p] = "unlink"
  /\ Goto(p, "rollback")
  /\ UNCHANGED <<dest, tmp, target, tries>>

(* The destination is removed again; the error returned has the kind of    *)
(* the failed unlink, so a transient one has the whole publication retried.*)
Rollback(p) ==
  /\ pc[p] = "rollback"
  /\ dest' = [dest EXCEPT ![target[p]] = None]
  /\ \/ /\ Retriable(p)
        /\ tries' = [tries EXCEPT ![p] = @ + 1]
        /\ Goto(p, "link")
     \/ /\ Goto(p, "cleanup")
        /\ UNCHANGED tries
  /\ UNCHANGED <<tmp, target>>

RollbackFails(p) ==
  /\ pc[p] = "rollback"
  /\ Goto(p, "cleanup")
  /\ UNCHANGED <<dest, tmp, target, tries>>

(* Mutant: the cleanup removes the final name as well. *)
CleanupBoth(p, after) ==
  /\ pc[p] = "cleanup"
  /\ dest' = [dest EXCEPT ![target[p]] = None]
  /\ tmp' = [tmp EXCEPT ![p] = FALSE]
  /\ Goto(p, after)
  /\ UNCHANGED <<target, tries>>

(* Mutant: the caller forgets to return the error. *)
CleanupSwallowsError(p, after) ==
  /\ pc[p] = "cleanup"
  /\ tmp' = [tmp EXCEPT ![p] = FALSE]
  /\ Goto(p, "published")
  /\ UNCHANGED <<dest, target, tries>>

(* The caller of a failed publication removes the temporary, which may fail *)
(* for good, and goes on with the error at `after`.                        *)
Cleanup(p, after) ==
  /\ pc[p] = "cleanup"
  /\ tmp' \in {tmp, [tmp EXCEPT ![p] = FALSE]}
  /\ Goto(p, after)
  /\ UNCHANGED <<dest, target, tries>>

(* The process is killed, or its host stops: what it left stays as it is.  *)
Crash(p) ==
  /\ pc[p] \notin Ended \cup {"idle"}
  /\ Goto(p, "crashed")
  /\ UNCHANGED <<dest, tmp, target, tries>>

Publish(p, after) ==
  \/ Link(p) \/ LinkExists(p) \/ LinkError(p)
  \/ UnlinkTemporary(p) \/ UnlinkFails(p)
  \/ Rollback(p) \/ RollbackFails(p)
  \/ Cleanup(p, after)
=============================================================================
