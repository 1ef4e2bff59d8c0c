# TLA+ models of Evidence Workbench

Evidence Workbench (`ewb`) records runs of locally installed verification tools as evidence: it plans a
run, executes the reviewed plan, keeps the exact bytes the tool wrote and publishes records that refer
to each other by digest.  It gives no verdict of its own.  Every command is one operating-system
process; all state that outlives a command is the directory `.ewb/` of a workspace, and any number of
`ewb` processes may work in it at once.  There is no server, no index and no lock around the store:
what holds the workspace together is the order of file operations, files that are never replaced, and
digests.  That is what these modules are about.

Paths and line numbers below are those of the repository (`src/workspace.rs` and so on).

## Inventory

| Component | State | Operations | Must hold | Modelled in |
|---|---|---|---|---|
| No-replace publication (`workspace.rs` 1066-1109, 1566-1740) | a temporary and a final name per file | move, or link and unlink; rollback; retries; cleanup | a committed name is never replaced, withdrawn or doubled | `NoReplacePublish` |
| Artifact store (`workspace.rs` 432-595, 698-726) | objects under their digest, records under fresh ids | add, add bytes, list, show | a record has its object, a reported outcome is true, a read stays true | `ArtifactStore`, `AtomicRegistry` |
| Workspace layout and marker (`workspace.rs` 49-179, 1290-1345) | the storage directories, `WORKSPACE.json` | init, open | success means usable, the marker comes last, losing a race is no failure | `WorkspaceInit` |
| Plan execution (`cli.rs` 912-985, `native.rs` 695-1318) | lock file, execution root, native child and its job, captures, run record | execute | one execution at a time, bounded captures, no result that was not earned, no survivors | `PlanExecution` |
| Other registries (`workspace.rs` 181-430, 597-696) | plans, runs, handoffs, capsules, candidates, qualifications, admissions | write, load, list | digests are those of the bytes; lists are all or nothing, and none refuses what a finished command published on this build | `PlanGate`, `EvidenceLineage`, `Registration`, `PythonAdmission` |
| Run validation and handoffs (`run_validation.rs`, `evidence_handoffs.rs`) | none; reads records | validate, create, show, verify | a handoff binds the retained run digest, its plan and its artifacts; good evidence is not refused | `EvidenceLineage` |
| Planning gates (`cli.rs` 779-909, `upstream_pins.rs`, `manifests.rs`, `native.rs` 266-389) | shared staged launchers, a plan's application directory | plan | no plan past a closed gate, whatever was read twice | `PlanGate` |
| Capsules, native qualifications, candidates, Python qualifications (`runtime_capsules.rs`, `native_qualifications.rs`, `subject_candidates.rs`, `python_qualifications.rs`) | their registries | admit, import, create, list, show, verify | what is announced is what was declared, although the files change meanwhile | `Registration` |
| Python admissions (`python_admissions.rs`, `python_network.rs`, `python_containment.rs`) | admission records | admit, prove-containment, prove-network, verify | no admission over a stale link; denial of egress only if nothing got through; wheels close over their RECORD | `PythonAdmission`, `ContainmentProbe`, `WheelRecord`, `Readers` |
| Data contracts (`data_contract_validation.rs`) | none | validate a topology and other documents | topologies are acyclic and complete | `AuditTopology`; field rules are not modelled |
| Git subjects (`git_subject.rs`) | the archive of a tree, its identity in the plan, an extracted tree | archive and identify a tree, parse, extract, verify before and after the native program | one tree, one archive; a tree arrives as planned or is refused | `TreeArchive` |
| Import tables (`native_qualifications.rs` 748-947) | none; bytes | parse | every offset inside the file, imports as a loader would find them | `ImportTable`, `Readers` |
| Caller observations, candidate pins, strict JSON, build identity, command line | none | parse, print, dispatch | - | not modelled |

How they interact: `init` creates the layout in which everything else publishes; `artifacts add`,
`runs plan` and `runs execute` import bytes into the store; `runs execute` takes a plan's lock, makes
its execution root, runs the native program, imports what it captured and publishes a run record; run
records, plans and artifacts are bound together by handoffs.  `runs plan` reads qualifications and
admissions; an admission names a Python qualification, which names a capsule, which names artifacts.
No component calls back into another; they meet in the file system.

What is hard: processes interleave between any two file operations.  On Unix the fallback for a
no-replace rename is a link followed by an unlink, so a file has two names for a moment and readers,
which accept single-link files only, see that moment.  An unlink may fail and the publication be rolled
back after others have looked at it.  A process may be killed anywhere, and nothing recovers what it
left.  The native program forks, writes and exits when it likes, and its job object is attached after
it has started.  A command that binds records reads them one file at a time, from registries and caller's
directories that others may be rewriting.  PROJECT.json lists each of these at its line, with the
properties that would catch it.

## Modules

- **`NoReplacePublish`** - the publication protocol, shared by all that follows.  `dest[n]` is the
  writer of the file that the final name `n` names; `tmp[p]` says that `p`'s temporary exists and
  `target[p]` which name it was written for.  A file is therefore a pair of writer and name, and
  `LinkCount` is what `file_has_single_link` counts.  `Link`, `UnlinkTemporary`, `UnlinkFails`,
  `Rollback`, `RollbackFails` are the steps of `publish_file_no_replace` (with `AtomicMove`, `Link` is
  the whole of it); `LinkError` and the retrying half of `Rollback` are `retry_transient`; `Cleanup` is
  the callers' removal of the temporary, which may fail; `Crash` is a kill at any point.  Contents never
  change after staging and are not modelled.
- **`AtomicRegistry`** - what the store promises: objects and records that appear in one step, are never
  changed or withdrawn, and records only for objects already there.
- **`ArtifactStore`** - concurrent `import_artifact` and list or show.  An importer captures a blob,
  re-checks its source, publishes the object, and on `AlreadyExists` drops its own file and verifies the
  existing one (`OpenExisting`, `StatExisting`), retrying within bounds while that has two names; then
  it publishes its record.  Opening and counting links are two steps, because the code counts the links
  of the file it holds open.  A reader takes the names in the registry once and verifies each record
  and then the object behind it; `ReadError` is any of its calls failing by itself, which a reader does
  not try again.  The last section refines `AtomicRegistry`: a name counts as committed
  when it is the only name of its file.
- **`WorkspaceInit`** - concurrent `init` and open over every layout that an earlier invocation, of this
  or an older version, may have left.
- **`PlanExecution`** - `runs execute` for one plan by several processes.  Plans share neither lock nor
  root, so one plan is enough.  The native program (`NativeWrites`, `NativeForks`, `NativeExits`,
  `NativeChangesSubject`) and whoever may change the staged launcher (`LauncherChanges`) are the
  environment.  `pc` follows `execute` and `run_direct`; `GiveUp` is every `?` while the execution root
  is guarded.  When a process ends without a run record its local state is forgotten, but not what it
  left running.
- **`EvidenceLineage`** - the commands `runs execute` (as far as its record goes), `handoffs create`,
  `show` and `verify`, one step per file read.  A digest is the record it is the digest of, so what a
  command retained is a value that no rewriting of the registry changes; `mine` and `hand` are the run
  and the handoff it holds in memory.  `Rewrite` is any other program: it changes the plan, an artifact
  record, an object, the launcher, a run or a handoff, each consistently with its own digest.  `phase`
  says why a command is validating a run: before it is written, for a handoff about to be made, or for
  one it was asked to verify against a retained digest or only to show.
- **`PlanGate`** - `runs plan`, a gate per step in the order of `cli.rs`, then the private copies of the
  executable and re-validation.  `catalog` is what is built into the program, chosen initially among
  ones a later version could have, since with the catalog of today most gates refuse everything.
  `staged` are the launchers that planners of a tool share, by their number of names.
- **`Registration`** - the commands that fill a registry from a descriptor and a directory.
  `descriptor` and `root` are the caller's files, changed at any moment by `ChangeSources` (which also
  stands for `capsules snapshot`, a writer of descriptors outside the workspace); `got` is what was
  imported, and `RecordOf` the record made of it.  A record is published by a move or by `Publish`,
  `Unlink`, `Rollback` and `RollbackFails`, as in `NoReplacePublish`; `linked` are the names whose records have a second
  one at the moment, or for good, and `Readable` is `read_strict_json`.  A list reads the names (`List`,
  `FindRecord`), loads their records (`LoadRecord`) and verifies them one by one (`VerifyListed`).
  `program` numbers the builds that were installed: a Python qualification verifies only on the one
  that recorded it.
- **`PythonAdmission`** - admission records of the three schemas.  `Walk` goes from a record to the one
  it cites and `Compare` back, because the code verifies a cited record before it compares it with the
  citation; a recursion deeper than `MaxDepth` is `exhausted`.  `Sessions` are the commands; a session
  is also the name of the admission it creates.  **`ContainmentProbe`** is the network
  probe: parent, child, listener and other local programs, with the polls of the parent as steps.  An
  accept may fail with a connection waiting, which the code takes for none (`missed`).
- **`AuditTopology`** - the worklist of `validate_audit_topology`, one step per `Visit`.  A document
  lists predecessors in a sequence, which has to be `Ascending`.
- **`TreeArchive`** - a Git tree from the checkout to the check after its native program, one step per
  file or archive entry.  `phase` follows `write_tree_archive`, `parse_tree_archive` without and then with
  creating files (`extract_planned_tree`), `hash_materialized_tree`, the native program and `verify_materialized`.  `stream`
  is what the pass under way has archived or digested so far and `left` the names it still has to take;
  a digest is the sequence of symbols that were digested.  `Swap` is any other program: it replaces the
  archive before either of its readings, and before both the identity in the plan along with it.
  `KeptAs` says under which other names the file system may keep a file: Windows takes a directory that
  differs in case for the one wanted and drops trailing dots.  `aliased` remembers that it did.
- **`ImportTable`**, **`WheelRecord`** - pure algorithms.  An image is a sequence of `W`-limited cells
  with its sections; paths and contents of a wheel are model values.  Each is compared with a definition
  that does not follow the algorithm: **`Readers`** takes an image or a wheel in one step to what the
  reader makes of it, and states what that must be.
- **`ArtifactStoreProofs`**, **`WorkspaceInitProofs`**, **`PlanExecutionProofs`**,
  **`EvidenceLineageProofs`**, **`PlanGateProofs`**, **`RegistrationProofs`** - the
  theorems about the module of that name; **`AdmissionProofs`** - those about `PythonAdmission` and
  `ContainmentProbe`; **`ReaderProofs`** - those about what is made of documents and files:
  `AuditTopology`, `Readers` and `TreeArchive`.
- **`MC...`** - instances for TLC.  `MCStandalone` explores the components that share no state with
  another one at a time: each initial state picks one (`which`), the variables of the others keep a
  constant value, so the state spaces add up and do not multiply.

Definitions commented "Mutant" are deliberate mistakes.  No specification uses them; each property was
seen to fail when a mutant takes the place of the definition after it, so the property says something
about that definition.

## What is checked

| Run | Instance | Shows |
|---|---|---|
| `store_windows` | one-step moves; 3 importers, 2 blobs, 1 reader, 2 attempts, crashes | a list or show finds nothing missing and nothing with two names, whatever crashes; only a failing call of its own stops it (that the store implements `AtomicRegistry` here as well is proved, in `StoreImplementsRegistry`) |
| `store_unix` | link and unlink, 3 importers, 2 blobs, 1 reader, 2 attempts, crashes in the window; unlinks do not fail | every record is backed, what a read returned stays, outcomes are true; `AtomicRegistry` is implemented |
| `store_faults` | link and unlink, either of unlink and rollback may fail; 2 importers, 1 blob, 1 reader | committed names stay; the store is exact once all succeeded; every command ends |
| `store_incomplete` | as `store_faults` | *violated*: `RecordBacked` |
| `store_window` | as `store_unix`, smaller, with fairness | *violated*: `PublicationWindowCloses` |
| `workspace_init` | 2 inits, 1 opener, 2 directories, every initial layout | success is lasting, the marker is last, losing is no failure, every init ends |
| `lineage` | an execution, a producer, a consumer, an older artifact; 2 plan contents, 2 blobs, 2 rewrites | published handoffs are edges to the retained run, verified ones are the retained ones, accepted runs are reproducible, untouched evidence is accepted |
| `planning` | 2 planners, 3 executables, 3 tools, 5 catalogs, 8 requests, 2 faults | plans run admitted executables, Python is never planned, a launcher is refused only in a link window, and windows close |
| `standalone` | the other components, one at a time (below) | ten properties |
| `plan_safety` | 2 executions of one plan, `Limit` 1 | exclusion, ownership of roots, earned results, dead job trees, bounded captures |
| `plan_liveness` | 1 execution | every execution ends |
| `plan_capture` | 1 execution, `Limit` 0 | *violated*: `CaptureIsBounded` |

The parts of `standalone`:

| Part | Instance | Shows |
|---|---|---|
| `Registration` | 2 commands, 1 reader, 6 descriptors of all four kinds, moves and links, 1 change from outside: of the files, the installed build or the workspace | `AnnouncedRecordsAreExact`, `UntouchedRegistriesList` |
| `PythonAdmission` | 2 commands, an earlier chain or none, 1 rewrite, depth 8 | `AcceptedAdmissionsAreChained`, `OnlyCyclesNeverEnd` |
| `ContainmentProbe` | 1 stranger, 3 polls after the first | `DeniedEgressNeverGotThrough` |
| `AuditTopology` | all documents of up to 2 steps with lists of up to 2 predecessors in any order, all graphs of 3 and many of 4, also with lists out of order or with repetitions | `TheVerdictIsRight` |
| `TreeArchive` | trees of up to 2 names, also too long or unsafe ones; all archives of up to 4 symbols, those of up to 2 files in any order, whole or cut or prolonged by one; a name that may lose a symbol, one that may get another; 1 swap | `ArchivesAreCanonical`, `TreesArriveAsPlanned` |
| `ImportTable` | a fixed section and one anywhere, eight contents, all table addresses below `W` = 5 | `AcceptedImportsAreLoaded` |
| `WheelRecord` | lists of up to 2 files with a second spelling, one list of 3 | `WheelClosureIsExact` |

Bounds.  Three importers of two blobs give a winner, a loser and an unrelated object, with two distinct
records for one object; a reader meets any of them at any step, and importers do not react to readers,
so a second reader adds nothing it could observe.  Two attempts (`MaxTries`; 25 in the code) are the
least that let a loop both retry and give up.  `Limit` is the bound on captures in units of what the
native program writes: 0 and 1 distinguish within, at and above.  Two executions suffice for exclusion
because every interaction is between the holder of the lock or root and one other; the theorem removes
the bound.  Two directories are the least where one can precede the marker and one follow it.
One producer and one consumer suffice in `lineage` because handoffs do not meet: each command compares
only with what it retained.  Two rewrites are the least that can replace a record and then what it
refers to, consistently; the theorems hold for any number.  In `planning` two planners share a launcher
or do not; two faults are one to leave something behind and one to fall over it.  One change
between any two reads of a registering command is enough to separate every pair of its reads; two
capsule descriptors under one id, one of which cites evidence, make commands compete for a name, and one
candidate breaks its contract.  Two tree entries, two wheel entries and two import sections are the
least that can be out of order, collide or overlap.  A cycle of citations needs one record, and depth 8
is far beyond the two citations of the longest chain without one.
Deadlock is not checked: finished processes stay finished, and nobody has to start another.

Symmetry is used only in runs without liveness.  Importers, readers, blobs and executions are
interchangeable; an importer is also the name of its record, so both are permuted together.

Fairness.  `FairSpec` has weak fairness for the steps of a process that has started: the operating
system runs it until it ends, and a crash is an end.  Nothing forces a process to start, a native
program to do anything, or an error to go away.  In `PlanGate` a crash is a fault and a planner
that has begun goes on until it ends, which is what `LinkWindowsClose` needs; a request need not come.  `PlanExecution` adds strong fairness of `PollTimeout`:
time passes between two polls, so a child that is polled for ever is over its time at some poll.

## What the violations show

- `store_incomplete` (Unix).  A loser opens the object while it has two names.  The winner's unlink of
  its temporary fails, and the winner rolls the destination back.  Only then does the loser count the
  links of the file it has open: one, the winner's temporary.  It accepts the object as committed and
  publishes a record with no object behind it.  The check is of the open file and not of the name.
- `store_window` (Unix).  A crash between link and unlink leaves two names.  The window that the comment
  at `workspace.rs` 1649 calls brief then never closes: later imports of the same bytes fail, and so do
  lists that include a record left like this.
- `plan_capture` (Windows).  The captures are measured before the job is closed and imported after it.  A process that
  the native program started, in the job or not, can write between the two, so a recorded capture can be
  larger than README.md 555 says, in a run that is not recorded as interrupted.

## What is proved

`ArtifactStoreProofs`, for any finite or infinite sets of processes and blobs and any number of attempts:

- `Typing`: the type invariant, with the bound on attempts.
- `CommittedNamesAreStable`, on every platform and with every fault.  The invariant is `ProtocolInv`:
  `PlaceInv` says which file a name can name and what a process owns at each label (a process about to
  unlink or roll back still has its temporary and its destination names its own file), `ObjectInv` that
  an object holds the bytes of its digest.  So a rollback can only touch a file with two names, which is
  not committed.
- `RecordsAreBacked`, `ReturnedRecordsAreStable`, `OutcomesAreTrue`, `StoreImplementsRegistry`, under
  the assumption `NoRollback`: moves are atomic, or unlinks do not fail.  Without it they are false, as
  `store_incomplete` shows.  `DurableInv` says that a file a loser or reader holds open is still the one
  its name names, so the link it counts is the final one.  It is inductive only with `ProtocolInv`, and
  its steps use that committed names are stable.
- `QuietStoresAreExact`, with every fault: once all importers succeeded, the store is what they reported.
  `NoRollback` is not assumed, so an importer may rely on an object that is withdrawn again; `ExactInv`
  says that then the importer that withdrew it has not succeeded (`Withdrawing`), and it cannot succeed
  any more without publishing that object itself.
- `ReadsFailAtWindows`, under `NoRollback`: a list or show finds its record or object missing or with two
  names only while that very name has two.  `TodoInv` adds that names on a reader's list stay in the
  registry.  `ReadsRefuseNothingWhereMovesAreAtomic` needs nothing but `AtomicMove`: no file has two names
  then (`OneName`), so a list or show refuses nothing.  Neither says that the reader's own opens succeed:
  an I/O error or a sharing violation (`ReadError`) ends any read, on either platform.

`PlanExecutionProofs`, for any set of executing processes and any bound:

- `PlansAreExclusive` is inductive once the program counters are typed; `RootsStayTheirOwners` follows
  from the same invariant, because only the label at which the process owns the root removes it.
- `NothingInTheJobSurvives`, `ResultsAreEarned` and `SingleProcessCapturesAreBounded` come from one
  invariant, `OutcomeInv`: where a child can run, that a recorded exit is the exit of the child, and that
  a measured capture can only grow if some process other than the child writes it.
- `Typing`: the type invariant.  It needs `RecordedInv`, that a termination and a result are there by the
  time they are put into the run record.

`WorkspaceInitProofs`, for any sets of processes and directories and any number of attempts: the type
invariant, `MarkerComesLast` and `LosersSucceed`, from `LayoutInv` (a process past a directory has it,
and only one past them all publishes), and `SuccessStaysTrue` under `NoRollback`: a marker that was seen
is never withdrawn.

`PlanGateProofs`, for any catalogs, planners, requests and executables: `GateInv` says at each label what
the gates behind it established, of the values that the planner retained and nobody else can change.
`PlansAreAdmitted` needs that the identity is compared again after the bytes were staged, since the path
may have led elsewhere in between; `PythonStaysUnplanned` that the manifest is checked before anything
is resolved.  `RefusalsAreTransient` is about the launchers that planners share: `WindowInv` says that one
with two names is at that moment being linked by a planner, unless a temporary name was lost, so a
planner that is refused did not meet what a finished one left.

`EvidenceLineageProofs`, for any number of executions, producers, consumers and rewrites: `LineageInv`
says what a command has validated of the run it holds in memory (`Validated`) and what its comparisons
with retained digests bound.  The registries do not occur in it except for what one's own publication
wrote, which is why rewriting does not disturb it.  `UntouchedIsAccepted` is the converse, where the
registries do matter: `UntouchedInv` says that, before the first rewrite, every registry holds what its
writer has in memory and every reader has read just that, so no comparison can fail.

`RegistrationProofs`, for any descriptors that satisfy `DescriptorsAreWellFormed`, which the `standalone`
run evaluates for its own: while nobody tampers with the workspace, every record in it holds together
(`RegistryVerifies`).  This is inductive because a record is published only after it was verified,
objects only gain contents and no record that a reader accepts is replaced or withdrawn (`Grows`): only
one with two names is rolled back, which nobody has accepted.  So what a verification found stays; in
particular the capsule that a Python qualification binds stays.  `AnnouncedIsExact` follows.
`RegistriesList` needs more of the readers (`Listed`): a name one has found loads, unless it had two
names when it was found (`unsettled`), which no Python qualification ever has; what it has loaded is
still registered.  So a list that reads what it needs is refused, without tampering, for one of two
reasons only: a record in its publication window or left in it by a crash, or a Python qualification
of another build.  On Unix the first can refuse a list for ever; that is what `store_window` shows
of the store.

`AdmissionProofs`:

- `AdmissionsAreChained`, for any number of commands, operations, inputs and rewrites.  `AdmissionInv`
  says of each command what stage it is in and what it was asked for (`StageInv`), what the record it
  holds or made claims (`HeldInv`, `MadeInv`), and of its walk (`WalkInv`) that every record in `citing`
  passed its own checks, that the one at `cursor` is a whole chain as soon as comparing begins, and that
  the bottom of the stack is the record the command is about.  Rewriting disturbs none of it: what was
  read is in memory.
- `UnrewrittenVerificationsEnd`: without a rewrite no verification is `exhausted`, for any depth from two.
  In `TimeInv` every record cites one of a lower schema that is there (`Descends`), so the schema of the
  record at hand and the number behind it add up to three at most.  It needs that a command writes its
  record over none that was there, so no citation comes to lead upwards.
- `OneRewriteClosesACycle`, and `CyclesAreNeeded` for instances with one rewrite: where one record was
  rewritten, a verification is `exhausted` only if there is a cycle in the registry, for any number of
  sessions and records and any depth from five, which is room for six records.  `RewrittenInv` says that
  there is a cycle, which no command breaks because it publishes over nothing (`Own`), or there are ranks
  from 1 to 6 by which every citation descends (`Ranked`): of records in the registry, of what commands
  hold and are about to write, and of the walk: the rank of what it loads next and the number of records
  behind it add up to at most five.  Before
  the rewrite the schemas are such ranks.  If the rewrite makes a record cite another, `Citers` are those
  that lead to the first: either the second is one of them, and they are a cycle, or they all rank three
  higher from now on (`RankedRewrite`).  A new record ranks one above what it cites, and nothing can cite
  it yet.
- `DenialsAreTrue`, for any number of strangers and polls: `ProbeInv` relates the connection of the child
  to what the listener has queued; the parent's last accept finds it, unless the polls ran out or an
  accept failed.

`ReaderProofs`, for documents and files of every size:

- `WorklistIsCounted` says that each counter of the worklist is the number of predecessors not yet taken,
  so nothing underflows (`ListsAreCounted`: a list in order is as long as the set of its members).
  `VerdictIsRight` follows in one direction from the positions at which steps were
  taken; in the other from a rank of the steps, of which one not yet taken with the least rank would have
  had its counter at zero.
- `ClosuresAreExact` and `ImportsAreLoaded`, for addresses of every width.  `ClosureIsExact` goes both ways
  over lists of which no two entries fold to the same name; `ImportsLoaded` from the offset a table is
  read at (`OffsetsAreLoaded`: inside the file and where a loader maps it) over its first zero descriptor
  (`TerminatorIsFirst`) to the names.
- `ArchivesStayCanonical` and `TreesArrive`, for any trees, any length of names and contents and any
  number of swaps.  `Laid` says that a sequence consists of the entries of a directory, in the order of
  their names, and at which place each begins.  Two directories with one such sequence are equal
  (`StreamsTell`): of the entries at which they differ the first begins at the same place in both, and
  an entry tells its name and content by the lengths in front of them (`OneEntry`).  `TreesInv` says for
  each phase what has been laid out so far (`PlanInv`, `ParseInv`, `DigestInv`): what was archived, or
  digested, is laid out by the names no longer in `left`, each before all of those in it; what was parsed
  is laid out by the files read, because a name must come after the last one, whoever wrote the archive;
  and of an untouched archive the rest is laid out by the files not yet read, so no check of the parser
  refuses the next entry (`ReadsNext`).  So what was parsed to the end and has the recorded identity is
  the tree that was planned, and nothing else digests to the same.  A file kept under another name makes
  the extracted tree differ from the archive, so it is refused before the native program runs.

That there is a least number, or a first entry, is the well-foundedness of the naturals (`LeastNumber`),
the one use of induction.

The assumptions are the named `ASSUME`s of the modules and the stated premises: sets are disjoint, bounds
are naturals.  The inductive invariants were also evaluated by TLC on the small instances, but for
`TreesInv`, which quantifies over all sequences.

Every safety property of the passing runs is stated by one of these theorems.  Some hold under a
premise that the property needs: where an unlink can fail after a link (no `NoRollback`) the store
loses what `store_incomplete` shows, and where two records are rewritten a cycle can be closed, followed
and broken again, or a walk be led from record to record without any.

Only model-checked is liveness (`EveryCommandEnds`, `EveryInitEnds`, `EveryExecutionEnds`,
`LinkWindowsClose`), which the provers do not do under fairness.

## What is abstracted or left out

File contents, digests and JSON; the check that a directory is real and not a link; access rights; a
power failure that loses directory entries (files are synced, directories are not, and the code orders
nothing for it); other programs that rewrite `.ewb` by hand, except where a module says so (`Rewrite`,
`Tamper`, `Swap`).  In `PlanExecution` the validity of a plan and of a run are single choices and the
observations of a result are not told apart.  Two streams count as one, as the bound is on their sum.
The failing unlink is not part of the `workspace_init` run: there, an init may find the marker that
another is about to roll back, and `SuccessMeansUsable` fails the way `RecordBacked` does in the store.

A call of a command or reader that fails by itself (an I/O error, or a file that another program holds on
Windows) is a step of its own where others can see what it leaves: `ReadError`, `CannotRead`, `Cleanup`,
`Rollback`, `GiveUp`, `Crash`.  In `Registration` it is a command or list that takes no further step, and
in `EvidenceLineage` and `PythonAdmission` likewise: nothing is claimed of those.

In `EvidenceLineage` one of the two captured streams is modelled, and what a plan fixes is one value.  In
`PlanGate` the pins and manifests are the few facts the gates look at; `CheckCatalog` admits a capsule
for every admissible tool where `cli.rs` 816 admits it for one by name, which is a few catalogs more.

In `Registration` whether a document satisfies its contract is given with it, and is the same for every
build of the program; lengths and roles of artifacts go with their contents; whether a publication is a
move or a link is chosen anew for each, so one workspace may see both; `Rollback` may retry any number of
times.  Objects are imported in one step: what an import whose removals fail does to an object that
others rely on is a kind of `Tamper`, and `store_incomplete` shows it.  The build is that of the installed
file, which is what `recorder_identity` hashes.

In `PythonAdmission` the five checks on bytes are one, of which `WheelRecord` models the wheel closure;
the archive and path-configuration checks read embedded allow-lists.  A path of `WheelRecord` has one
flag for `.dist-info/RECORD` (`python_admissions.rs` 888) and for any `RECORD` (900), so a wheel with a
second `RECORD` elsewhere is not told apart.  `ContainmentProbe` takes the job, AppContainer and
access-right calls of Windows by their outcome.  `ImportTable` scales addresses of 32 bits down to `W` and
keeps saturation; it has no limit of 4096 descriptors, so it accepts what the code accepts and more.  In
`TreeArchive` which names a file system identifies is a constant (`KeptAs`), the same for every tree.

Not modelled: caller observations, the field rules of the data contracts and the strict JSON parser, which
test one document against a list of rules or map it to another; manifests, pins and candidate
pins as data; build identity; command-line dispatch; `git` itself; directory traversal and link checks.

## Plan

The modules were written in the order in which the inventory lists what they are about.  What could still
be added, in order:

1. A failing unlink in `workspace_init`: `SuccessMeansUsable` is violated there as `RecordBacked` is in
   `store_incomplete`.
2. `Registration` over `ArtifactStore` instead of one-step imports.
3. The CPython archive and path-configuration checks, and the observation contracts, as pure algorithms.
