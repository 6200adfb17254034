--------------------------- MODULE IndexRepository ---------------------------
(***************************************************************************)
(* The index repository: generations built by index operations, snapshots  *)
(* that name them, and the pointer to the active snapshot, in              *)
(* infrastructure/local_index.py, local_snapshots.py, sql_snapshots.py and *)
(* core/manifest.py.                                                       *)
(*                                                                         *)
(* An index operation is a durable job: until its outcome is recorded, a   *)
(* crash makes it run again from the start, under the same identifier and  *)
(* so on the same generation.  Every write to disk, to the vector store or *)
(* to the database is a step of its own; operations exclude each other     *)
(* only by the lease.                                                      *)
(***************************************************************************)
EXTENDS Integers, Sequences, FiniteSets

CONSTANTS
  Ops,          \* index operations; each names the generation it builds
  Media,        \* media identifiers
  Modalities,   \* capabilities with records in the vector store
  MediaOf,      \* the media an operation indexes
  ProfileOf,    \* its profile, taken as the set of modalities it enables
  Backends,     \* repositories to consider: "local", "sql"
  LateErrors,   \* may an operation fail after it completed its manifest?
  MaxCrashes,   \* bound: crashes of a process
  MaxRemovals,  \* bound: removals and clearings of the library
  Admin,        \* the process that removes media
  None          \* no generation, no process

ASSUME RepositoryAssumption ==
  /\ None \notin Ops \cup {Admin} /\ Admin \notin Ops
  /\ MediaOf \in [Ops -> Media]
  /\ ProfileOf \in [Ops -> SUBSET Modalities]
  /\ Backends \subseteq {"local", "sql"}
  /\ LateErrors \in BOOLEAN
  /\ MaxCrashes \in Nat /\ MaxRemovals \in Nat

Processes == Ops \cup {Admin}

VARIABLES
  backend,    \* the kind of repository
  lease,      \* who holds the repository lease
  at,         \* where each process is in its work
  doomed,     \* generations an operation has listed for cleaning
  outcome,    \* what the job backend has recorded of each operation
  manifest,   \* state of each generation's manifest
  counts,     \* {}, or {the modalities its manifest records counts for}
  records,    \* modalities of which the vector store holds its records
  snapshots,  \* the snapshot documents, in the order they were written
  active,     \* the active snapshot: an index of snapshots, 0 for none
  served,     \* history: generations the active snapshot has ever named
  crashes, removals

diskVars == <<manifest, counts, records>>
snapshotVars == <<snapshots, active, served>>
boundVars == <<crashes, removals>>

vars == <<backend, lease, at, doomed, outcome, diskVars, snapshotVars, boundVars>>

EmptySnapshot == [gens |-> [m \in Media |-> None], profile |-> {}]

Init ==
  /\ backend \in Backends
  /\ lease = None
  /\ at = [p \in Processes |-> "idle"]
  /\ doomed = [o \in Ops |-> {}]
  /\ outcome = [o \in Ops |-> "pending"]
  /\ manifest = [o \in Ops |-> "absent"]
  /\ counts = [o \in Ops |-> {}]
  /\ records = [o \in Ops |-> {}]
  /\ snapshots = <<>>
  /\ active = 0
  /\ served = {}
  /\ crashes = 0 /\ removals = 0

-----------------------------------------------------------------------------
(* Snapshots.                                                              *)

Active == IF active = 0 THEN EmptySnapshot ELSE snapshots[active]

Named(s) == {o \in Ops : s.gens[MediaOf[o]] = o}

\* generation_reference and validate_generation accept the manifest.
Referable(o) == manifest[o] = "complete" /\ counts[o] # {}

\* read_snapshot accepts the snapshot.
Sound(s) == \A o \in Named(s) : Referable(o) /\ ProfileOf[o] = s.profile

\* _validate_snapshot_storage accepts it too.
Readable(s) == Sound(s) /\ \A o \in Named(s) : counts[o] = {records[o]}

\* require_compatible_profile
Compatible(o) ==
  (\E m \in Media \ {MediaOf[o]} : Active.gens[m] # None) => Active.profile = ProfileOf[o]

Including(o) ==
  [gens |-> [Active.gens EXCEPT ![MediaOf[o]] = o], profile |-> ProfileOf[o]]

Without(gone) ==
  [gens |-> [m \in Media |-> IF m \in gone THEN None ELSE Active.gens[m]],
   profile |-> Active.profile]

Step(p, from, to) == at[p] = from /\ at' = [at EXCEPT ![p] = to]

\* Leaving the with-block of the lease, with an outcome.
Leave(o, result) ==
  /\ at' = [at EXCEPT ![o] = "idle"]
  /\ lease' = None
  /\ outcome' = [outcome EXCEPT ![o] = result]

-----------------------------------------------------------------------------
(* LocalIndexBackend.create.                                               *)

\* Mutant: the lease is not taken exclusively.
AcquireShared(o) ==
  /\ outcome[o] = "pending"
  /\ Step(o, "idle", "leased")
  /\ lease' = o
  /\ UNCHANGED <<backend, doomed, outcome, diskVars, snapshotVars, boundVars>>

Acquire(o) ==
  /\ outcome[o] = "pending"
  /\ lease = None
  /\ Step(o, "idle", "leased")
  /\ lease' = o
  /\ UNCHANGED <<backend, doomed, outcome, diskVars, snapshotVars, boundVars>>

\* IndexingInProgressError
Busy(o) ==
  /\ outcome[o] = "pending" /\ at[o] = "idle"
  /\ lease # None
  /\ outcome' = [outcome EXCEPT ![o] = "raised"]
  /\ UNCHANGED <<backend, lease, at, doomed, diskVars, snapshotVars, boundVars>>

Usable(o) == Compatible(o) /\ Readable(Active)

\* The profile differs from the library's, or the active snapshot is damaged.
Reject(o) ==
  /\ at[o] = "leased"
  /\ ~Usable(o)
  /\ Leave(o, "raised")
  /\ UNCHANGED <<backend, doomed, diskVars, snapshotVars, boundVars>>

\* The operation is already what the library serves.
ReturnCommitted(o) ==
  /\ Usable(o)
  /\ Active.gens[MediaOf[o]] = o
  /\ Step(o, "leased", "published")
  /\ UNCHANGED <<backend, lease, doomed, outcome, diskVars, snapshotVars, boundVars>>

\* An earlier attempt completed the generation: publish it, writing its counts
\* first if that attempt had not.
Resume(o) ==
  /\ Usable(o)
  /\ Active.gens[MediaOf[o]] # o
  /\ manifest[o] = "complete"
  /\ Step(o, "leased", "publish")
  /\ counts' = [counts EXCEPT ![o] = IF @ = {} THEN {records[o]} ELSE @]
  /\ UNCHANGED <<backend, lease, doomed, outcome, manifest, records, snapshotVars,
                 boundVars>>

\* Mutant: cleaning overlooks records whose directory is gone.
DebrisOnDisk == {g \in Ops : manifest[g] = "running"}

\* What _cleanup_abandoned_generations finds on disk and in the store.
Debris ==
  {g \in Ops : manifest[g] # "complete" /\ (manifest[g] # "absent" \/ records[g] # {})}

PlanCleaning(o) ==
  /\ Usable(o)
  /\ Active.gens[MediaOf[o]] # o
  /\ manifest[o] # "complete"
  /\ Step(o, "leased", "clean records")
  /\ doomed' = [doomed EXCEPT ![o] = Debris]
  /\ UNCHANGED <<backend, lease, outcome, diskVars, snapshotVars, boundVars>>

\* Only the modalities of the operation's own profile are cleaned.
CleanRecords(o) ==
  /\ Step(o, "clean records", "clean directories")
  /\ records' = [g \in Ops |-> IF g \in doomed[o] THEN records[g] \ ProfileOf[o]
                               ELSE records[g]]
  /\ UNCHANGED <<backend, lease, doomed, outcome, manifest, counts, snapshotVars,
                 boundVars>>

CleanDirectories(o) ==
  /\ Step(o, "clean directories", "initialize")
  /\ manifest' = [g \in Ops |-> IF g \in doomed[o] THEN "absent" ELSE manifest[g]]
  /\ counts' = [g \in Ops |-> IF g \in doomed[o] THEN {} ELSE counts[g]]
  /\ doomed' = [doomed EXCEPT ![o] = {}]
  /\ UNCHANGED <<backend, lease, outcome, records, snapshotVars, boundVars>>

\* ManifestStore.initialize and start_video; left-over records of the same
\* generation are deleted before new ones are written.
Initialize(o) ==
  /\ Step(o, "initialize", "build")
  /\ manifest' = [manifest EXCEPT ![o] = "running"]
  /\ counts' = [counts EXCEPT ![o] = {}]
  /\ records' = [records EXCEPT ![o] = @ \ ProfileOf[o]]
  /\ UNCHANGED <<backend, lease, doomed, outcome, snapshotVars, boundVars>>

WriteRecords(o) ==
  /\ at[o] = "build"
  /\ \E d \in ProfileOf[o] \ records[o] :
       records' = [records EXCEPT ![o] = @ \cup {d}]
  /\ UNCHANGED <<backend, lease, at, doomed, outcome, manifest, counts, snapshotVars,
                 boundVars>>

\* complete_video and complete_run
CompleteRun(o) ==
  /\ ProfileOf[o] \subseteq records[o]
  /\ Step(o, "build", "validate")
  /\ manifest' = [manifest EXCEPT ![o] = "complete"]
  /\ UNCHANGED <<backend, lease, doomed, outcome, counts, records, snapshotVars,
                 boundVars>>

\* _validate_generation_records and record_storage_counts
RecordCounts(o) ==
  /\ Step(o, "validate", "reference")
  /\ counts' = [counts EXCEPT ![o] = {records[o]}]
  /\ UNCHANGED <<backend, lease, doomed, outcome, manifest, records, snapshotVars,
                 boundVars>>

Reference(o) ==
  /\ Referable(o)
  /\ Step(o, "reference", "publish")
  /\ UNCHANGED <<backend, lease, doomed, outcome, diskVars, snapshotVars, boundVars>>

-----------------------------------------------------------------------------
(* Publication: two files in a local repository, one transaction in SQL.   *)

\* publish_generation of a local repository reads the active snapshot again.
WriteSnapshot(o) ==
  /\ backend = "local"
  /\ Compatible(o) /\ Sound(Active)
  /\ Step(o, "publish", "point")
  /\ snapshots' = Append(snapshots, Including(o))
  /\ UNCHANGED <<backend, lease, doomed, outcome, diskVars, active, served, boundVars>>

\* The pointer is replaced by the snapshot just written.
SetPointer(p) ==
  /\ at[p] = "point"
  /\ active' = Len(snapshots)
  /\ served' = served \cup Named(snapshots[Len(snapshots)])
  /\ IF p = Admin
     THEN at' = [at EXCEPT ![p] = "idle"] /\ lease' = None
     ELSE at' = [at EXCEPT ![p] = "published"] /\ UNCHANGED lease
  /\ UNCHANGED <<backend, doomed, outcome, diskVars, snapshots, boundVars>>

PublishSQL(o) ==
  /\ backend = "sql"
  /\ Sound(Active)
  /\ Step(o, "publish", "published")
  /\ snapshots' = Append(snapshots, Including(o))
  /\ active' = Len(snapshots')
  /\ served' = served \cup Named(Including(o))
  /\ UNCHANGED <<backend, lease, doomed, outcome, diskVars, boundVars>>

\* The step returns and the job backend records it.
Return(o) ==
  /\ at[o] = "published"
  /\ Leave(o, "returned")
  /\ UNCHANGED <<backend, doomed, diskVars, snapshotVars, boundVars>>

-----------------------------------------------------------------------------
(* Failure and cancellation.                                               *)

\* An error while abandoned generations are cleaned.
Fail(o) ==
  /\ at[o] \in {"clean records", "clean directories"}
  /\ Leave(o, "raised")
  /\ doomed' = [doomed EXCEPT ![o] = {}]
  /\ UNCHANGED <<backend, diskVars, snapshotVars, boundVars>>

\* An error while the generation is built.  An error after its manifest was
\* completed (while its records are validated, or its counts written) is
\* possible only with LateErrors.
FailBuild(o) ==
  /\ at[o] \in {"initialize", "build"} \cup (IF LateErrors THEN {"validate", "reference"} ELSE {})
  /\ at' = [at EXCEPT ![o] = "undo records"]
  /\ UNCHANGED <<backend, lease, doomed, outcome, diskVars, snapshotVars, boundVars>>

\* The job backend has recorded the cancellation before the build sees it.
Cancel(o) ==
  /\ at[o] \in {"initialize", "build", "validate", "reference"}
  /\ at' = [at EXCEPT ![o] = "undo records"]
  /\ outcome' = [outcome EXCEPT ![o] = "raised"]
  /\ UNCHANGED <<backend, lease, doomed, diskVars, snapshotVars, boundVars>>

\* Mutant: a failed publication removes the generation, as a failed build does.
FailPublishUndone(o) ==
  /\ at[o] \in {"publish", "point", "published"}
  /\ at' = [at EXCEPT ![o] = "undo records"]
  /\ UNCHANGED <<backend, lease, doomed, outcome, diskVars, snapshotVars, boundVars>>

\* Once validated, the generation is preserved, whatever was published.
FailPublish(o) ==
  /\ at[o] \in {"publish", "point", "published"}
  /\ Leave(o, "raised")
  /\ UNCHANGED <<backend, doomed, diskVars, snapshotVars, boundVars>>

\* _remove_uncommitted_generation; deleting the records is best effort.
UndoRecords(o) ==
  /\ Step(o, "undo records", "undo directory")
  /\ \E left \in SUBSET records[o] : records' = [records EXCEPT ![o] = left]
  /\ UNCHANGED <<backend, lease, doomed, outcome, manifest, counts, snapshotVars,
                 boundVars>>

UndoDirectory(o) ==
  /\ at[o] = "undo directory"
  /\ manifest' = [manifest EXCEPT ![o] = "absent"]
  /\ counts' = [counts EXCEPT ![o] = {}]
  /\ Leave(o, "raised")
  /\ UNCHANGED <<backend, doomed, records, snapshotVars, boundVars>>

\* The process dies: its lease is released, its generation left as it is.
Crash(p) ==
  /\ crashes < MaxCrashes
  /\ at[p] # "idle"
  /\ crashes' = crashes + 1
  /\ at' = [at EXCEPT ![p] = "idle"]
  /\ lease' = None
  /\ doomed' = [o \in Ops |-> IF o = p THEN {} ELSE doomed[o]]
  /\ UNCHANGED <<backend, outcome, diskVars, snapshotVars, removals>>

-----------------------------------------------------------------------------
(* Removing a media, or clearing the library.                              *)

\* Mutant: removal works without the lease.
WithdrawFree(gone) ==
  /\ at[Admin] = "idle"
  /\ removals < MaxRemovals
  /\ \E m \in gone : Active.gens[m] # None
  /\ removals' = removals + 1
  /\ snapshots' = Append(snapshots, Without(gone))
  /\ IF backend = "local"
     THEN /\ at' = [at EXCEPT ![Admin] = "point"]
          /\ UNCHANGED <<lease, active, served>>
     ELSE /\ active' = Len(snapshots')
          /\ UNCHANGED <<at, lease, served>>
  /\ UNCHANGED <<backend, doomed, outcome, diskVars, crashes>>

Withdraw(gone) ==
  /\ lease = None
  /\ removals < MaxRemovals
  /\ Sound(Active)
  /\ \E m \in gone : Active.gens[m] # None
  /\ removals' = removals + 1
  /\ snapshots' = Append(snapshots, Without(gone))
  /\ IF backend = "local"
     THEN /\ at' = [at EXCEPT ![Admin] = "point"] /\ lease' = Admin
          /\ UNCHANGED <<active, served>>
     ELSE /\ active' = Len(snapshots')
          /\ UNCHANGED <<at, lease, served>>
  /\ UNCHANGED <<backend, doomed, outcome, diskVars, crashes>>

-----------------------------------------------------------------------------

Create(o) ==
  \/ Acquire(o) \/ Busy(o) \/ Reject(o) \/ ReturnCommitted(o) \/ Resume(o)
  \/ PlanCleaning(o) \/ CleanRecords(o) \/ CleanDirectories(o)
  \/ Initialize(o) \/ WriteRecords(o) \/ CompleteRun(o)
  \/ RecordCounts(o) \/ Reference(o)
  \/ WriteSnapshot(o) \/ SetPointer(o) \/ PublishSQL(o) \/ Return(o)

GoWrong(o) ==
  \/ Fail(o) \/ FailBuild(o) \/ Cancel(o) \/ FailPublish(o)
  \/ UndoRecords(o) \/ UndoDirectory(o)

Next ==
  \/ \E o \in Ops : Create(o) \/ GoWrong(o)
  \/ \E m \in Media : Withdraw({m})
  \/ Withdraw(Media)
  \/ SetPointer(Admin)
  \/ \E p \in Processes : Crash(p)

Spec == Init /\ [][Next]_vars

-----------------------------------------------------------------------------

Places ==
  {"idle", "leased", "clean records", "clean directories", "initialize", "build",
   "validate", "reference", "publish", "point", "published", "undo records",
   "undo directory"}

Snapshot == [gens : [Media -> Ops \cup {None}], profile : SUBSET Modalities]

\* Whoever works holds the lease, and nobody else works.
ControlType ==
  /\ lease \in Processes \cup {None}
  /\ at \in [Processes -> Places] /\ at[Admin] \in {"idle", "point"}
  /\ \A p \in Processes : at[p] # "idle" <=> lease = p

DataType ==
  /\ backend \in Backends
  /\ doomed \in [Ops -> SUBSET Ops]
  /\ outcome \in [Ops -> {"pending", "returned", "raised"}]
  /\ manifest \in [Ops -> {"absent", "running", "complete"}]
  /\ counts \in [Ops -> SUBSET SUBSET Modalities]
  /\ records \in [Ops -> SUBSET Modalities]

SnapshotType ==
  /\ snapshots \in Seq(Snapshot)
  /\ active \in 0 .. Len(snapshots)
  /\ served \subseteq Ops

\* The state of the repository is well formed, and its lease excludes.
TypeOK ==
  /\ ControlType /\ DataType /\ SnapshotType
  /\ crashes \in 0 .. MaxCrashes /\ removals \in 0 .. MaxRemovals

\* The generation is complete, and the vector store holds what it counts.
Whole(o) ==
  manifest[o] = "complete" /\ counts[o] = {ProfileOf[o]} /\ records[o] = ProfileOf[o]

\* Every snapshot document, the active one and those a search resolved earlier,
\* names only generations that are whole and share its profile: no crash,
\* cancellation, clean-up or replay publishes a part of a generation or breaks
\* a published one.
SnapshotsWhole ==
  \A n \in 1 .. Len(snapshots) : \A o \in Named(snapshots[n]) :
    Whole(o) /\ ProfileOf[o] = snapshots[n].profile

\* An operation builds on clean ground: what earlier attempts and operations
\* abandoned is gone, from disk and from the modalities it searches.
CleanGround ==
  \A o \in Ops : at[o] = "build" =>
    \A g \in Ops \ {o} :
      manifest[g] # "complete" =>
        manifest[g] = "absent" /\ records[g] \cap ProfileOf[o] = {}

\* The repository keeps the promise of IndexLibrary.
Library == INSTANCE IndexLibrary WITH
  library <- Active.gens, ready <- {o \in Ops : Whole(o)}

KeepsLibrary == Library!Spec

\* "Retry is enabled only for idempotent steps": a replayed operation does not
\* publish its generation a second time over what came after it.
PublishedOnce ==
  [][\A m \in Media : Active.gens'[m] \in served => Active.gens'[m] = Active.gens[m]]_vars

=============================================================================
