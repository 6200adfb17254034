------------------------ MODULE IndexRepositoryProofs ------------------------
(***************************************************************************)
(* Proofs about IndexRepository, for any operations, media and modalities. *)
(*                                                                         *)
(* The argument.  The lease makes operations take turns, so what an        *)
(* operation finds when it looks at the disk is still so when it acts on   *)
(* it; a complete manifest is written only over all its records, and no    *)
(* cleaning touches it; and an operation that may be replayed has not been *)
(* undone after its manifest was complete.  The last point holds only if   *)
(* no error follows complete_run (~LateErrors): the run IndexLateError     *)
(* shows what happens otherwise.  That an operation publishes once needs   *)
(* no such thing, but that it is never replayed: what is served has        *)
(* returned, or is about to.                                               *)
(***************************************************************************)
EXTENDS IndexRepository, TLAPS

-----------------------------------------------------------------------------
(* Types, and the lease.                                                   *)

\* While one process works, every other is idle.
LEMMA Alone ==
  ASSUME ControlType, NEW p \in Processes, NEW q \in Processes, at[p] # "idle", q # p
  PROVE  at[q] = "idle" /\ lease = p
BY DEF ControlType

\* A process takes the lease, moves on under it, or gives it up.
LEMMA LeaseTaken ==
  ASSUME ControlType, NEW p \in Processes, NEW place \in Places \ {"idle"},
         p = Admin => place = "point",
         lease = None \/ lease = p, lease' = p, at' = [at EXCEPT ![p] = place]
  PROVE  ControlType'
BY RepositoryAssumption DEF ControlType, Processes

LEMMA LeaseGiven ==
  ASSUME ControlType, NEW p \in Processes, at[p] # "idle",
         lease' = None, at' = [at EXCEPT ![p] = "idle"]
  PROVE  ControlType'
BY RepositoryAssumption DEF ControlType, Processes, Places

LEMMA LeaseKept ==
  ASSUME ControlType, lease' = lease, at' = at
  PROVE  ControlType'
BY DEF ControlType

\* An operation moves on under its lease.
LEMMA StepType ==
  ASSUME ControlType, NEW o \in Ops, NEW place \in Places \ {"idle"},
         at[o] # "idle", lease' = lease, at' = [at EXCEPT ![o] = place]
  PROVE  ControlType'
<1>1. o \in Processes /\ o # Admin /\ lease = o
  BY RepositoryAssumption DEF ControlType, Processes
<1> QED BY <1>1, LeaseTaken

\* An operation leaves the with-block of the lease.
LEMMA LeaveType ==
  ASSUME ControlType, NEW o \in Ops, NEW r, at[o] # "idle", Leave(o, r)
  PROVE  ControlType'
BY LeaseGiven DEF Leave, Processes

\* The steps of an operation keep the lease exclusive.
LEMMA OperationControl ==
  ASSUME ControlType, NEW o \in Ops, Create(o) \/ GoWrong(o)
  PROVE  ControlType'
<1> USE DEF Step
<1>1. \A place \in {"leased", "clean records", "clean directories", "initialize",
                    "build", "validate", "reference", "publish", "point",
                    "published", "undo records", "undo directory"} :
        place \in Places \ {"idle"}
  BY DEF Places
<1>2. o \in Processes /\ o # Admin
  BY RepositoryAssumption DEF Processes
<1>3. CASE Acquire(o)
  BY <1>1, <1>2, <1>3, LeaseTaken DEF Acquire
<1>4. CASE Busy(o) \/ WriteRecords(o)
  BY <1>4, LeaseKept DEF Busy, WriteRecords
<1>5. CASE Reject(o) \/ Return(o) \/ Fail(o) \/ FailPublish(o) \/ UndoDirectory(o)
  BY <1>5, LeaveType DEF Reject, Return, Fail, FailPublish, UndoDirectory
<1>6. CASE ReturnCommitted(o) \/ Resume(o) \/ PlanCleaning(o)
  BY <1>1, <1>6, StepType DEF ReturnCommitted, Resume, PlanCleaning
<1>7. CASE CleanRecords(o) \/ CleanDirectories(o) \/ Initialize(o)
  BY <1>1, <1>7, StepType DEF CleanRecords, CleanDirectories, Initialize
<1>8. CASE CompleteRun(o) \/ RecordCounts(o) \/ Reference(o)
  BY <1>1, <1>8, StepType DEF CompleteRun, RecordCounts, Reference
<1>9. CASE WriteSnapshot(o) \/ PublishSQL(o) \/ UndoRecords(o)
  BY <1>1, <1>9, StepType DEF WriteSnapshot, PublishSQL, UndoRecords
<1>10. CASE SetPointer(o)
  BY <1>1, <1>2, <1>10, StepType DEF SetPointer
<1>11. CASE FailBuild(o) \/ Cancel(o)
  <2>1. at[o] # "idle"
    BY <1>11 DEF FailBuild, Cancel
  <2> QED BY <1>1, <1>11, <2>1, StepType DEF FailBuild, Cancel
<1> QED
  BY <1>3, <1>4, <1>5, <1>6, <1>7, <1>8, <1>9, <1>10, <1>11 DEF Create, GoWrong

\* So do removals and crashes.
LEMMA AdminControl ==
  ASSUME ControlType,
         \/ \E gone : Withdraw(gone)
         \/ SetPointer(Admin)
         \/ \E p \in Processes : Crash(p)
  PROVE  ControlType'
<1>1. Admin \in Processes /\ "point" \in Places \ {"idle"}
  BY DEF Processes, Places
<1>2. ASSUME NEW gone, Withdraw(gone)
      PROVE  ControlType'
  <2>1. CASE backend = "local"
    BY <1>1, <1>2, <2>1, LeaseTaken DEF Withdraw
  <2>2. CASE backend # "local"
    BY <1>2, <2>2, LeaseKept DEF Withdraw
  <2> QED BY <2>1, <2>2
<1>3. CASE SetPointer(Admin)
  BY <1>1, <1>3, LeaseGiven DEF SetPointer
<1>4. ASSUME NEW p \in Processes, Crash(p)
      PROVE  ControlType'
  BY <1>4, LeaseGiven DEF Crash
<1> QED BY <1>2, <1>3, <1>4

\* No step writes a value of the wrong kind to disk, store or job backend.
LEMMA OperationData ==
  ASSUME DataType, NEW o \in Ops, Create(o) \/ GoWrong(o)
  PROVE  DataType'
<1> USE DEF diskVars, snapshotVars, Leave, Step, DataType
<1>1. CASE Acquire(o) \/ Busy(o) \/ Reject(o) \/ ReturnCommitted(o)
  BY <1>1 DEF Acquire, Busy, Reject, ReturnCommitted
<1>2. CASE Resume(o) \/ RecordCounts(o)
  <2>1. {records[o]} \in SUBSET SUBSET Modalities
    OBVIOUS
  <2> QED BY <1>2, <2>1 DEF Resume, RecordCounts
<1>3. CASE PlanCleaning(o)
  BY <1>3 DEF PlanCleaning, Debris
<1>4. CASE CleanRecords(o)
  BY <1>4 DEF CleanRecords
<1>5. CASE CleanDirectories(o)
  BY <1>5 DEF CleanDirectories
<1>6. CASE Initialize(o)
  BY <1>6 DEF Initialize
<1>7. CASE WriteRecords(o)
  <2>1. PICK d \in ProfileOf[o] : records' = [records EXCEPT ![o] = @ \cup {d}]
    BY <1>7 DEF WriteRecords
  <2>2. records[o] \cup {d} \in SUBSET Modalities
    BY RepositoryAssumption
  <2> QED BY <1>7, <2>1, <2>2 DEF WriteRecords
<1>8. CASE CompleteRun(o) \/ Reference(o) \/ WriteSnapshot(o) \/ SetPointer(o)
  BY <1>8 DEF CompleteRun, Reference, WriteSnapshot, SetPointer
<1>9. CASE PublishSQL(o) \/ Return(o)
  BY <1>9 DEF PublishSQL, Return
<1>10. CASE Fail(o) \/ FailBuild(o) \/ Cancel(o) \/ FailPublish(o)
  BY <1>10 DEF Fail, FailBuild, Cancel, FailPublish
<1>11. CASE UndoRecords(o) \/ UndoDirectory(o)
  <2>1. CASE UndoRecords(o)
    <3>1. PICK left \in SUBSET records[o] : records' = [records EXCEPT ![o] = left]
      BY <2>1 DEF UndoRecords
    <3>2. left \in SUBSET Modalities
      OBVIOUS
    <3> QED BY <2>1, <3>1, <3>2 DEF UndoRecords
  <2>2. CASE UndoDirectory(o)
    BY <2>2 DEF UndoDirectory
  <2> QED BY <1>11, <2>1, <2>2
<1> QED
  BY <1>1, <1>2, <1>3, <1>4, <1>5, <1>6, <1>7, <1>8, <1>9, <1>10, <1>11
  DEF Create, GoWrong

\* The active snapshot, and what is written from it, are snapshots.
LEMMA SnapshotShapes ==
  ASSUME SnapshotType
  PROVE  /\ Active \in Snapshot
         /\ \A o \in Ops : Including(o) \in Snapshot
         /\ \A gone \in SUBSET Media : Without(gone) \in Snapshot
<1>1. EmptySnapshot \in Snapshot
  BY DEF EmptySnapshot, Snapshot
<1>2. active # 0 => snapshots[active] \in Snapshot
  BY DEF SnapshotType
<1>3. Active \in Snapshot
  BY <1>1, <1>2 DEF Active
<1>4. \A o \in Ops : MediaOf[o] \in Media /\ ProfileOf[o] \in SUBSET Modalities
  BY RepositoryAssumption
<1>5. \A m \in Media : Active.gens[m] \in Ops \cup {None}
  BY <1>3 DEF Snapshot
<1> QED BY <1>3, <1>4, <1>5 DEF Including, Without, Snapshot

\* The steps that write snapshots and move the pointer.
LEMMA SnapshotStep ==
  ASSUME SnapshotType,
         \/ \E o \in Ops : WriteSnapshot(o) \/ PublishSQL(o)
         \/ \E p \in Processes : SetPointer(p)
         \/ \E gone \in SUBSET Media : Withdraw(gone)
  PROVE  SnapshotType'
<1>1. ASSUME NEW s \in Snapshot, snapshots' = Append(snapshots, s),
             active' = active \/ active' = Len(snapshots'), served' \subseteq Ops
      PROVE  SnapshotType'
  BY <1>1 DEF SnapshotType
<1>2. ASSUME NEW o \in Ops, WriteSnapshot(o) \/ PublishSQL(o)
      PROVE  SnapshotType'
  <2>1. served' \subseteq Ops
    BY <1>2 DEF WriteSnapshot, PublishSQL, SnapshotType, Named
  <2> QED BY <1>1, <1>2, <2>1, SnapshotShapes DEF WriteSnapshot, PublishSQL
<1>3. ASSUME NEW p \in Processes, SetPointer(p)
      PROVE  SnapshotType'
  BY <1>3 DEF SetPointer, SnapshotType, Named
<1>4. ASSUME NEW gone \in SUBSET Media, Withdraw(gone)
      PROVE  SnapshotType'
  <2>1. served' \subseteq Ops
    BY <1>4 DEF Withdraw, SnapshotType
  <2> QED BY <1>1, <1>4, <2>1, SnapshotShapes DEF Withdraw
<1> QED BY <1>2, <1>3, <1>4

\* TypeOK is kept by every step.
LEMMA TypeStep ==
  ASSUME TypeOK, [Next]_vars
  PROVE  TypeOK'
<1> USE DEF TypeOK
<1>1. ASSUME NEW o \in Ops, Create(o) \/ GoWrong(o)
      PROVE  TypeOK'
  <2>1. ControlType' /\ DataType'
    BY <1>1, OperationControl, OperationData
  <2>2. CASE WriteSnapshot(o) \/ PublishSQL(o) \/ SetPointer(o)
    <3>1. SnapshotType'
      BY <2>2, SnapshotStep DEF Processes
    <3> QED BY <2>1, <2>2, <3>1 DEF WriteSnapshot, PublishSQL, SetPointer, boundVars
  <2>3. CASE ~(WriteSnapshot(o) \/ PublishSQL(o) \/ SetPointer(o))
    <3>1. UNCHANGED <<snapshotVars, boundVars>>
      BY <1>1, <2>3
      DEF Create, GoWrong, Acquire, Busy, Reject, ReturnCommitted, Resume,
          PlanCleaning, CleanRecords, CleanDirectories, Initialize, WriteRecords,
          CompleteRun, RecordCounts, Reference, Return, Fail, FailBuild, Cancel,
          FailPublish, UndoRecords, UndoDirectory
    <3> QED BY <2>1, <3>1 DEF snapshotVars, boundVars, SnapshotType
  <2> QED BY <2>2, <2>3
<1>2. ASSUME NEW gone \in SUBSET Media, Withdraw(gone)
      PROVE  TypeOK'
  <2>1. ControlType' /\ SnapshotType'
    BY <1>2, AdminControl, SnapshotStep
  <2>2. removals' \in 0 .. MaxRemovals
    BY <1>2, RepositoryAssumption DEF Withdraw
  <2> QED BY <1>2, <2>1, <2>2 DEF Withdraw, DataType, diskVars
<1>3. CASE SetPointer(Admin)
  <2>1. ControlType' /\ SnapshotType'
    BY <1>3, AdminControl, SnapshotStep DEF Processes
  <2> QED BY <1>3, <2>1 DEF SetPointer, DataType, diskVars, boundVars
<1>4. ASSUME NEW p \in Processes, Crash(p)
      PROVE  TypeOK'
  <2>1. ControlType'
    BY <1>4, AdminControl
  <2>2. crashes' \in 0 .. MaxCrashes
    BY <1>4, RepositoryAssumption DEF Crash
  <2>3. DataType' /\ SnapshotType'
    BY <1>4 DEF Crash, DataType, SnapshotType, diskVars, snapshotVars
  <2> QED BY <1>4, <2>1, <2>2, <2>3 DEF Crash
<1>5. CASE UNCHANGED vars
  BY <1>5 DEF vars, ControlType, DataType, SnapshotType, diskVars, snapshotVars, boundVars
<1> QED BY <1>1, <1>2, <1>3, <1>4, <1>5 DEF Next

\* TypeOK holds of every state, the lease being held by the one process at work.
THEOREM TypeCorrect == Spec => []TypeOK
<1>1. Init => TypeOK
  <2> SUFFICES ASSUME Init PROVE TypeOK
    OBVIOUS
  <2>1. ControlType
    BY RepositoryAssumption DEF Init, ControlType, Processes, Places
  <2>2. DataType /\ SnapshotType
    BY DEF Init, DataType, SnapshotType
  <2> QED BY <2>1, <2>2, RepositoryAssumption DEF Init, TypeOK
<1> QED BY <1>1, TypeStep, PTL DEF Spec

-----------------------------------------------------------------------------
(* The inductive invariant.                                                *)

\* A published generation is whole, and its operation where it cannot break it.
Settled(o) ==
  Whole(o) /\ at[o] \in {"idle", "leased", "publish", "point", "published"}

\* What a generation has reached, from where its operation is.
Progress(o) ==
  /\ records[o] \subseteq ProfileOf[o]
  /\ counts[o] \in {{}, {ProfileOf[o]}}
  /\ at[o] \in {"clean records", "clean directories", "initialize", "build"} =>
       manifest[o] # "complete"
  /\ at[o] \in {"validate", "reference"} =>
       manifest[o] = "complete" /\ records[o] = ProfileOf[o]
  /\ at[o] = "reference" => counts[o] = {ProfileOf[o]}
  /\ at[o] \in {"publish", "point", "published"} => Whole(o)
  /\ at[o] \in {"clean records", "clean directories", "initialize", "build",
                "validate", "reference", "publish"} => Compatible(o)

\* An operation that may run again has not lost the records of a complete
\* generation.
Replayable(o) ==
  /\ at[o] \notin {"idle", "undo records", "undo directory"} => outcome[o] = "pending"
  /\ outcome[o] = "pending" /\ at[o] \in {"undo records", "undo directory"} =>
       manifest[o] # "complete"
  /\ outcome[o] = "pending" /\ manifest[o] = "complete" => records[o] = ProfileOf[o]

\* Only generations whose manifest is not complete are cleaned.
Doomed(o) ==
  /\ doomed[o] # {} => at[o] \in {"clean records", "clean directories"}
  /\ \A g \in doomed[o] : manifest[g] # "complete"

Advances(o) == Progress(o) /\ Replayable(o) /\ Doomed(o)

\* Every snapshot names settled generations of its profile; so does the history.
Published ==
  /\ \A n \in 1 .. Len(snapshots) : \A o \in Named(snapshots[n]) :
       Settled(o) /\ ProfileOf[o] = snapshots[n].profile
  /\ \A o \in served : Settled(o)
  /\ Named(Active) \subseteq served

\* The document a process is about to make active is the one it wrote.
Written ==
  /\ \A p \in Processes : at[p] = "point" => snapshots # <<>>
  /\ \A o \in Ops : at[o] = "point" => snapshots[Len(snapshots)] = Including(o)
  /\ at[Admin] = "point" =>
       \E gone \in SUBSET Media : snapshots[Len(snapshots)] = Without(gone)

IInv == TypeOK /\ Published /\ Written /\ \A o \in Ops : Advances(o)

-----------------------------------------------------------------------------
(* What a step leaves alone.                                               *)

Untouched(o) ==
  manifest'[o] = manifest[o] /\ counts'[o] = counts[o] /\ records'[o] = records[o]

\* What another operation's cleaning may do to an incomplete generation.
Swept(o) ==
  /\ manifest[o] # "complete" /\ manifest'[o] \in {manifest[o], "absent"}
  /\ counts'[o] \in {counts[o], {}}
  /\ records'[o] \subseteq records[o]

\* An operation touches no other, except to clean it when it is not complete.
LEMMA Frame ==
  ASSUME TypeOK, NEW p \in Ops, NEW o \in Ops, o # p, Doomed(p),
         Create(p) \/ GoWrong(p)
  PROVE  /\ at'[o] = at[o] /\ doomed'[o] = doomed[o] /\ outcome'[o] = outcome[o]
         /\ Untouched(o) \/ (at[p] # "idle" /\ Swept(o))
<1> USE DEF TypeOK, DataType, ControlType, Processes, diskVars, snapshotVars,
            Leave, Step, Untouched
<1>1. CASE Acquire(p) \/ Busy(p) \/ Reject(p) \/ ReturnCommitted(p)
  BY <1>1 DEF Acquire, Busy, Reject, ReturnCommitted
<1>2. CASE Resume(p) \/ RecordCounts(p) \/ PlanCleaning(p)
  BY <1>2 DEF Resume, RecordCounts, PlanCleaning
<1>3. CASE CleanRecords(p)
  BY <1>3 DEF CleanRecords, Swept, Doomed
<1>4. CASE CleanDirectories(p)
  BY <1>4 DEF CleanDirectories, Swept, Doomed
<1>5. CASE Initialize(p) \/ WriteRecords(p) \/ CompleteRun(p)
  BY <1>5 DEF Initialize, WriteRecords, CompleteRun
<1>6. CASE Reference(p) \/ WriteSnapshot(p) \/ SetPointer(p)
  BY <1>6, RepositoryAssumption DEF Reference, WriteSnapshot, SetPointer
<1>7. CASE PublishSQL(p) \/ Return(p)
  BY <1>7 DEF PublishSQL, Return
<1>8. CASE Fail(p) \/ FailBuild(p) \/ Cancel(p) \/ FailPublish(p)
  BY <1>8 DEF Fail, FailBuild, Cancel, FailPublish
<1>9. CASE UndoRecords(p) \/ UndoDirectory(p)
  BY <1>9 DEF UndoRecords, UndoDirectory
<1> QED
  BY <1>1, <1>2, <1>3, <1>4, <1>5, <1>6, <1>7, <1>8, <1>9 DEF Create, GoWrong

\* Removals and crashes touch no generation.
LEMMA AdminFrame ==
  ASSUME TypeOK, NEW o \in Ops,
         \/ \E gone : Withdraw(gone)
         \/ SetPointer(Admin)
         \/ \E p \in Processes : Crash(p)
  PROVE  /\ Untouched(o) /\ outcome'[o] = outcome[o]
         /\ \/ at'[o] = at[o] /\ doomed'[o] = doomed[o]
            \/ at'[o] = "idle" /\ doomed'[o] = {}
<1> USE RepositoryAssumption DEF TypeOK, ControlType, DataType, Processes, Untouched,
                                 diskVars
<1>1. CASE \E gone : Withdraw(gone)
  BY <1>1 DEF Withdraw
<1>2. CASE SetPointer(Admin)
  BY <1>2 DEF SetPointer
<1>3. CASE \E p \in Processes : Crash(p)
  BY <1>3 DEF Crash
<1> QED BY <1>1, <1>2, <1>3

\* A new document leaves the active snapshot what it was.
LEMMA ActiveKept ==
  ASSUME SnapshotType, active' = active,
         snapshots' = snapshots \/ \E s : snapshots' = Append(snapshots, s)
  PROVE  Active' = Active
<1>1. active # 0 => snapshots'[active] = snapshots[active]
  BY DEF SnapshotType
<1> QED BY <1>1 DEF Active, EmptySnapshot

\* Apart from the pointer's own steps, the active snapshot stays.
LEMMA ActiveStays ==
  ASSUME TypeOK, Next
  PROVE  \/ Active' = Active
         \/ \E p \in Processes : SetPointer(p)
         \/ backend # "local" /\ \E o \in Ops : PublishSQL(o)
         \/ backend # "local" /\ \E gone \in SUBSET Media : Withdraw(gone)
<1> USE ActiveKept DEF TypeOK, snapshotVars
<1>1. ASSUME NEW o \in Ops, Create(o) \/ GoWrong(o), ~PublishSQL(o), ~SetPointer(o)
      PROVE  Active' = Active
  <2>1. CASE WriteSnapshot(o)
    BY <2>1 DEF WriteSnapshot
  <2>2. CASE ~WriteSnapshot(o)
    BY <1>1, <2>2
    DEF Create, GoWrong, Acquire, Busy, Reject, ReturnCommitted, Resume,
        PlanCleaning, CleanRecords, CleanDirectories, Initialize, WriteRecords,
        CompleteRun, RecordCounts, Reference, Return, Fail, FailBuild, Cancel,
        FailPublish, UndoRecords, UndoDirectory
  <2> QED BY <2>1, <2>2
<1>2. ASSUME NEW o \in Ops, PublishSQL(o)
      PROVE  backend # "local"
  BY <1>2 DEF PublishSQL
<1>3. ASSUME NEW gone \in SUBSET Media, Withdraw(gone), backend = "local"
      PROVE  Active' = Active
  BY <1>3 DEF Withdraw
<1>4. ASSUME NEW p \in Processes, Crash(p)
      PROVE  Active' = Active
  BY <1>4 DEF Crash
<1> QED BY <1>1, <1>2, <1>3, <1>4 DEF Next, Processes

-----------------------------------------------------------------------------
(* Advances is kept.                                                       *)

\* What an operation has checked and built survives the steps of the others.
LEMMA OtherAdvances ==
  ASSUME TypeOK, NEW p \in Ops, NEW o \in Ops, o # p, Advances(o), Doomed(p),
         Create(p) \/ GoWrong(p)
  PROVE  Advances(o)'
<1>1. /\ at'[o] = at[o] /\ doomed'[o] = doomed[o] /\ outcome'[o] = outcome[o]
      /\ Untouched(o) \/ (at[p] # "idle" /\ Swept(o))
  BY Frame DEF Advances
<1>2. CASE at[o] = "idle"
  BY <1>1, <1>2
  DEF Advances, Progress, Replayable, Doomed, Untouched, Swept, TypeOK, DataType
<1>3. CASE at[o] # "idle"
  <2>1. at[p] = "idle"
    BY <1>3, Alone DEF TypeOK, Processes
  <2>2. Acquire(p) \/ Busy(p)
    BY <2>1
    DEF Create, GoWrong, Step, Reject, ReturnCommitted, Resume, PlanCleaning,
        CleanRecords, CleanDirectories, Initialize, WriteRecords, CompleteRun,
        RecordCounts, Reference, WriteSnapshot, SetPointer, PublishSQL, Return,
        Fail, FailBuild, Cancel, FailPublish, UndoRecords, UndoDirectory
  <2>3. UNCHANGED <<manifest, counts, records, snapshots, active>>
    BY <2>2 DEF Acquire, Busy, diskVars, snapshotVars
  <2>4. Compatible(o)' = Compatible(o) /\ Whole(o)' = Whole(o)
    BY <2>3 DEF Compatible, Active, EmptySnapshot, Whole
  <2> QED
    BY <1>1, <2>3, <2>4 DEF Advances, Progress, Replayable, Doomed
<1> QED BY <1>2, <1>3

\* Removals and crashes leave every operation where it was, or idle.
LEMMA AdminAdvances ==
  ASSUME TypeOK, NEW o \in Ops, Advances(o),
         \/ \E gone \in SUBSET Media : Withdraw(gone)
         \/ SetPointer(Admin)
         \/ \E p \in Processes : Crash(p)
  PROVE  Advances(o)'
<1>1. /\ Untouched(o) /\ outcome'[o] = outcome[o]
      /\ \/ at'[o] = at[o] /\ doomed'[o] = doomed[o]
         \/ at'[o] = "idle" /\ doomed'[o] = {}
  BY AdminFrame
<1>2. manifest' = manifest
  BY DEF Withdraw, SetPointer, Crash, diskVars
<1>3. at'[o] = "idle" \/ Active' = Active
  <2>1. CASE \E gone : Withdraw(gone)
    <3>1. lease = None /\ at[o] = "idle"
      BY <2>1, RepositoryAssumption DEF Withdraw, TypeOK, ControlType, Processes
    <3> QED BY <1>1, <3>1
  <2>2. CASE SetPointer(Admin)
    BY <1>1, <2>2, Alone, RepositoryAssumption DEF SetPointer, TypeOK, Processes
  <2>3. CASE \E p \in Processes : Crash(p)
    BY <2>3, ActiveKept DEF Crash, snapshotVars, TypeOK
  <2> QED BY <2>1, <2>2, <2>3
<1>4. CASE at'[o] = "idle" /\ doomed'[o] = {}
  BY <1>1, <1>4 DEF Advances, Progress, Replayable, Doomed, Untouched
<1>5. CASE at'[o] = at[o] /\ doomed'[o] = doomed[o]
  <2>1. at'[o] = "publish" => Compatible(o)' = Compatible(o)
    BY <1>3 DEF Compatible
  <2>2. Active' = Active => Compatible(o)' = Compatible(o)
    BY DEF Compatible
  <2>3. Whole(o)' = Whole(o)
    BY <1>1 DEF Whole, Untouched
  <2> QED
    BY <1>1, <1>2, <1>3, <1>5, <2>2, <2>3
    DEF Advances, Progress, Replayable, Doomed, Untouched
<1> QED BY <1>1, <1>4, <1>5

\* A generation the active snapshot names is settled.
LEMMA ActiveSettled ==
  ASSUME SnapshotType, Published, NEW o \in Named(Active)
  PROVE  active # 0 /\ Settled(o) /\ ProfileOf[o] = Active.profile
<1>1. o \in Ops /\ MediaOf[o] \in Media /\ o # None
  BY RepositoryAssumption DEF Named
<1>2. active # 0
  BY <1>1 DEF Active, EmptySnapshot, Named
<1> QED BY <1>2 DEF Published, Active, SnapshotType

\* An operation's own steps: before it builds.
LEMMA StartAdvances ==
  ASSUME IInv, NEW o \in Ops,
         \/ Acquire(o) \/ Busy(o) \/ Reject(o) \/ ReturnCommitted(o) \/ Resume(o)
         \/ PlanCleaning(o) \/ CleanRecords(o) \/ CleanDirectories(o) \/ Initialize(o)
  PROVE  Advances(o)'
<1> USE DEF IInv, TypeOK, DataType, ControlType, Processes, Advances, Progress, Replayable,
            Doomed, Whole, Step, Leave, diskVars
<1>1. o \in Processes /\ Advances(o)
  OBVIOUS
<1>2. Active' = Active
  BY ActiveKept
  DEF Acquire, Busy, Reject, ReturnCommitted, Resume, PlanCleaning, CleanRecords,
      CleanDirectories, Initialize, snapshotVars
<1>3. Compatible(o)' = Compatible(o)
  BY <1>2 DEF Compatible
<1>4. CASE Acquire(o) \/ Busy(o)
  BY <1>1, <1>4 DEF Acquire, Busy
<1>5. CASE Reject(o)
  BY <1>1, <1>5 DEF Reject
<1>6. CASE ReturnCommitted(o)
  <2>1. Whole(o)
    BY <1>6, ActiveSettled DEF ReturnCommitted, Named, Settled
  <2> QED BY <1>1, <1>6, <2>1 DEF ReturnCommitted
<1>7. CASE Resume(o)
  BY <1>1, <1>3, <1>7 DEF Resume, Usable
<1>8. CASE PlanCleaning(o)
  BY <1>1, <1>3, <1>8 DEF PlanCleaning, Usable, Debris
<1>9. CASE CleanRecords(o)
  BY <1>1, <1>3, <1>9 DEF CleanRecords
<1>10. CASE CleanDirectories(o)
  BY <1>1, <1>3, <1>10 DEF CleanDirectories
<1>11. CASE Initialize(o)
  BY <1>1, <1>3, <1>11 DEF Initialize
<1> QED BY <1>4, <1>5, <1>6, <1>7, <1>8, <1>9, <1>10, <1>11

\* While it builds, up to the reference it publishes.
LEMMA BuildAdvances ==
  ASSUME IInv, NEW o \in Ops,
         WriteRecords(o) \/ CompleteRun(o) \/ RecordCounts(o) \/ Reference(o)
  PROVE  Advances(o)'
<1> USE DEF IInv, TypeOK, DataType, ControlType, Processes, Advances, Progress, Replayable,
            Doomed, Whole, Step, diskVars
<1>1. o \in Processes /\ Advances(o)
  OBVIOUS
<1>2. Active' = Active
  BY ActiveKept DEF WriteRecords, CompleteRun, RecordCounts, Reference, snapshotVars
<1>3. Compatible(o)' = Compatible(o)
  BY <1>2 DEF Compatible
<1>4. CASE WriteRecords(o)
  <2>1. PICK d \in ProfileOf[o] : records' = [records EXCEPT ![o] = @ \cup {d}]
    BY <1>4 DEF WriteRecords
  <2>2. records'[o] \subseteq ProfileOf[o] /\ at[o] = "build" /\ manifest[o] # "complete"
    BY <1>1, <1>4, <2>1 DEF WriteRecords
  <2> QED BY <1>1, <1>3, <1>4, <2>2 DEF WriteRecords
<1>5. CASE CompleteRun(o)
  BY <1>1, <1>3, <1>5 DEF CompleteRun
<1>6. CASE RecordCounts(o)
  BY <1>1, <1>3, <1>6 DEF RecordCounts
<1>7. CASE Reference(o)
  BY <1>1, <1>3, <1>7 DEF Reference, Referable
<1> QED BY <1>4, <1>5, <1>6, <1>7

\* As it publishes and returns.
LEMMA PublishAdvances ==
  ASSUME IInv, NEW o \in Ops,
         WriteSnapshot(o) \/ SetPointer(o) \/ PublishSQL(o) \/ Return(o)
  PROVE  Advances(o)'
<1> USE RepositoryAssumption
    DEF IInv, TypeOK, DataType, ControlType, Processes, Advances, Progress, Replayable,
        Doomed, Whole, Step, Leave, diskVars
<1>1. o \in Processes /\ Advances(o)
  OBVIOUS
<1>2. CASE WriteSnapshot(o)
  BY <1>1, <1>2 DEF WriteSnapshot
<1>3. CASE SetPointer(o)
  BY <1>1, <1>3 DEF SetPointer
<1>4. CASE PublishSQL(o)
  BY <1>1, <1>4 DEF PublishSQL
<1>5. CASE Return(o)
  BY <1>1, <1>5 DEF Return
<1> QED BY <1>2, <1>3, <1>4, <1>5

\* As it fails or is cancelled.  Here no error may follow complete_run.
LEMMA FailAdvances ==
  ASSUME IInv, ~LateErrors, NEW o \in Ops, GoWrong(o)
  PROVE  Advances(o)'
<1> USE DEF IInv, TypeOK, DataType, ControlType, Processes, Advances, Progress, Replayable,
            Doomed, Whole, Step, Leave, diskVars
<1>1. o \in Processes /\ Advances(o)
  OBVIOUS
<1>2. CASE Fail(o) \/ FailPublish(o)
  BY <1>1, <1>2 DEF Fail, FailPublish
<1>3. CASE FailBuild(o)
  BY <1>1, <1>3 DEF FailBuild
<1>4. CASE Cancel(o)
  BY <1>1, <1>4 DEF Cancel
<1>5. CASE UndoRecords(o)
  BY <1>1, <1>5 DEF UndoRecords
<1>6. CASE UndoDirectory(o)
  BY <1>1, <1>6 DEF UndoDirectory
<1> QED BY <1>2, <1>3, <1>4, <1>5, <1>6 DEF GoWrong

\* So every step keeps every operation's part of the invariant.
LEMMA AdvancesStep ==
  ASSUME IInv, ~LateErrors, Next, NEW o \in Ops
  PROVE  Advances(o)'
<1>1. /\ TypeOK /\ Advances(o) /\ \A p \in Ops : Doomed(p)
  BY DEF IInv, Advances
<1>2. ASSUME NEW p \in Ops, Create(p) \/ GoWrong(p), p # o
      PROVE  Advances(o)'
  BY <1>1, <1>2, OtherAdvances
<1>3. CASE Create(o) \/ GoWrong(o)
  BY <1>3, StartAdvances, BuildAdvances, PublishAdvances, FailAdvances DEF Create
<1>4. CASE \/ \E gone \in SUBSET Media : Withdraw(gone)
           \/ SetPointer(Admin)
           \/ \E p \in Processes : Crash(p)
  BY <1>1, <1>4, AdminAdvances
<1> QED BY <1>2, <1>3, <1>4 DEF Next

-----------------------------------------------------------------------------
(* What is published stays settled.                                        *)

LEMMA SettledStep ==
  ASSUME IInv, Next, NEW o \in Ops, Settled(o)
  PROVE  Settled(o)'
<1> USE DEF Settled, Whole
<1>1. /\ TypeOK /\ Advances(o) /\ \A p \in Ops : Doomed(p)
      /\ o \in Processes /\ manifest[o] = "complete"
  BY DEF IInv, Advances, Processes
<1>2. ASSUME NEW p \in Ops, Create(p) \/ GoWrong(p), p # o
      PROVE  Settled(o)'
  BY <1>1, <1>2, Frame DEF Untouched, Swept
<1>3. CASE \/ \E gone \in SUBSET Media : Withdraw(gone)
           \/ SetPointer(Admin)
           \/ \E p \in Processes : Crash(p)
  BY <1>1, <1>3, AdminFrame DEF Untouched
<1>4. CASE Create(o)
  <2> USE DEF Step, Leave, diskVars, TypeOK, ControlType, DataType
  <2>1. CASE Acquire(o) \/ Busy(o) \/ Reject(o) \/ ReturnCommitted(o)
    BY <1>1, <2>1 DEF Acquire, Busy, Reject, ReturnCommitted
  <2>2. CASE Resume(o)
    BY <1>1, <2>2 DEF Resume
  <2>3. CASE WriteSnapshot(o) \/ PublishSQL(o) \/ Return(o)
    BY <1>1, <2>3 DEF WriteSnapshot, PublishSQL, Return
  <2>4. CASE SetPointer(o)
    BY <1>1, <2>4, RepositoryAssumption DEF SetPointer
  <2>5. ~( \/ PlanCleaning(o) \/ CleanRecords(o) \/ CleanDirectories(o)
           \/ Initialize(o) \/ WriteRecords(o) \/ CompleteRun(o)
           \/ RecordCounts(o) \/ Reference(o) )
    BY <1>1
    DEF PlanCleaning, CleanRecords, CleanDirectories, Initialize, WriteRecords,
        CompleteRun, RecordCounts, Reference
  <2> QED BY <1>4, <2>1, <2>2, <2>3, <2>4, <2>5 DEF Create
<1>5. CASE GoWrong(o)
  <2>1. FailPublish(o)
    BY <1>5 DEF GoWrong, Step, Fail, FailBuild, Cancel, UndoRecords, UndoDirectory
  <2> QED
    BY <1>1, <2>1 DEF FailPublish, Leave, diskVars, TypeOK, ControlType
<1> QED BY <1>2, <1>3, <1>4, <1>5 DEF Next

\* What an operation is about to publish is settled and of one profile.
LEMMA IncludingNamed ==
  ASSUME IInv, NEW o \in Ops, at[o] = "publish", NEW g \in Named(Including(o))
  PROVE  /\ g \in Ops /\ Settled(g) /\ ProfileOf[g] = Including(o).profile
         /\ g = o \/ g \in Named(Active)
<1>1. SnapshotType /\ Published /\ Advances(o)
  BY DEF IInv, TypeOK
<1>2. g \in Ops /\ MediaOf[g] \in Media /\ MediaOf[o] \in Media /\ g # None
  BY RepositoryAssumption DEF Named
<1>3. Active.gens \in [Media -> Ops \cup {None}]
  BY <1>1, SnapshotShapes DEF Snapshot
<1>4. /\ Including(o).profile = ProfileOf[o]
      /\ Including(o).gens = [Active.gens EXCEPT ![MediaOf[o]] = o]
  BY DEF Including
<1>5. CASE MediaOf[g] = MediaOf[o]
  <2>1. g = o
    BY <1>2, <1>3, <1>4, <1>5 DEF Named
  <2> QED BY <1>1, <1>2, <1>4, <2>1 DEF Advances, Progress, Settled
<1>6. CASE MediaOf[g] # MediaOf[o]
  <2>1. g \in Named(Active) /\ Active.gens[MediaOf[g]] # None
    BY <1>2, <1>3, <1>4, <1>6 DEF Named
  <2>2. Active.profile = ProfileOf[o]
    BY <1>1, <1>2, <1>6, <2>1 DEF Advances, Progress, Compatible
  <2> QED BY <1>1, <1>2, <1>4, <2>1, <2>2, ActiveSettled
<1> QED BY <1>5, <1>6

\* Withdrawing media names nothing new.
LEMMA WithoutNamed ==
  ASSUME SnapshotType, NEW gone \in SUBSET Media, NEW g \in Named(Without(gone))
  PROVE  g \in Named(Active) /\ Without(gone).profile = Active.profile
<1>1. g \in Ops /\ MediaOf[g] \in Media /\ g # None
  BY RepositoryAssumption DEF Named
<1> QED BY <1>1 DEF Named, Without

\* A document added to settled ones, naming settled generations, keeps Published.
LEMMA AppendPublished ==
  ASSUME IInv, Next, NEW s \in Snapshot, snapshots' = Append(snapshots, s),
         \A o \in Named(s) : Settled(o) /\ ProfileOf[o] = s.profile
  PROVE  \A n \in 1 .. Len(snapshots') : \A o \in Named(snapshots'[n]) :
           Settled(o)' /\ ProfileOf[o] = snapshots'[n].profile
<1>1. snapshots \in Seq(Snapshot)
  BY DEF IInv, TypeOK, SnapshotType
<1> SUFFICES ASSUME NEW n \in 1 .. Len(snapshots'), NEW o \in Named(snapshots'[n])
             PROVE  Settled(o) /\ ProfileOf[o] = snapshots'[n].profile
  BY SettledStep DEF Named
<1>2. CASE n = Len(snapshots')
  <2>1. snapshots'[n] = s
    BY <1>1, <1>2
  <2> QED BY <2>1
<1>3. CASE n # Len(snapshots')
  <2>1. n \in 1 .. Len(snapshots) /\ snapshots'[n] = snapshots[n]
    BY <1>1, <1>3
  <2> QED BY <2>1 DEF IInv, Published
<1> QED BY <1>2, <1>3

LEMMA PublishedStep ==
  ASSUME IInv, Next
  PROVE  Published'
<1>1. /\ SnapshotType /\ Published /\ Written /\ ControlType
      /\ snapshots \in Seq(Snapshot)
  BY DEF IInv, TypeOK, SnapshotType
<1>2. \A o \in Ops : Settled(o) => Settled(o)'
  BY SettledStep
<1>3. \A s : Named(s) \subseteq Ops
  BY DEF Named
<1>4. served \subseteq Ops
  BY <1>1 DEF SnapshotType
<1>5. CASE UNCHANGED snapshotVars
  <2>1. Active' = Active
    BY <1>5 DEF snapshotVars, Active, EmptySnapshot
  <2> QED BY <1>1, <1>2, <1>3, <1>4, <1>5, <2>1 DEF Published, snapshotVars
<1>6. ASSUME NEW o \in Ops, WriteSnapshot(o)
      PROVE  Published'
  <2>1. Including(o) \in Snapshot /\ at[o] = "publish"
    BY <1>1, <1>6, SnapshotShapes DEF WriteSnapshot, Step
  <2>2. \A g \in Named(Including(o)) : Settled(g) /\ ProfileOf[g] = Including(o).profile
    BY <2>1, IncludingNamed
  <2>3. /\ snapshots' = Append(snapshots, Including(o))
        /\ active' = active /\ served' = served
    BY <1>6 DEF WriteSnapshot
  <2>4. Active' = Active
    BY <1>1, <2>3, ActiveKept
  <2> QED BY <1>1, <1>2, <1>4, <2>1, <2>2, <2>3, <2>4, AppendPublished DEF Published
<1>7. ASSUME NEW o \in Ops, PublishSQL(o)
      PROVE  Published'
  <2>1. Including(o) \in Snapshot /\ at[o] = "publish"
    BY <1>1, <1>7, SnapshotShapes DEF PublishSQL, Step
  <2>2. \A g \in Named(Including(o)) : Settled(g) /\ ProfileOf[g] = Including(o).profile
    BY <2>1, IncludingNamed
  <2>3. /\ snapshots' = Append(snapshots, Including(o))
        /\ active' = Len(snapshots') /\ served' = served \cup Named(Including(o))
    BY <1>7 DEF PublishSQL
  <2>4. Active' = Including(o)
    BY <1>1, <2>3 DEF Active
  <2> QED
    BY <1>1, <1>2, <1>3, <1>4, <2>1, <2>2, <2>3, <2>4, AppendPublished DEF Published
<1>8. ASSUME NEW p \in Processes, SetPointer(p)
      PROVE  Published'
  <2>1. Len(snapshots) \in 1 .. Len(snapshots)
    BY <1>1, <1>8 DEF SetPointer, Written
  <2>2. /\ snapshots' = snapshots /\ active' = Len(snapshots)
        /\ served' = served \cup Named(snapshots[Len(snapshots)])
    BY <1>8 DEF SetPointer
  <2>3. Active' = snapshots[Len(snapshots)]
    BY <2>1, <2>2 DEF Active
  <2> QED BY <1>1, <1>2, <1>3, <1>4, <2>1, <2>2, <2>3 DEF Published
<1>9. ASSUME NEW gone \in SUBSET Media, Withdraw(gone)
      PROVE  Published'
  <2>1. Without(gone) \in Snapshot
    BY <1>1, SnapshotShapes
  <2>2. \A g \in Named(Without(gone)) :
          g \in Named(Active) /\ Settled(g) /\ ProfileOf[g] = Without(gone).profile
    BY <1>1, WithoutNamed, ActiveSettled
  <2>3. /\ snapshots' = Append(snapshots, Without(gone)) /\ served' = served
        /\ active' = active \/ active' = Len(snapshots')
    BY <1>9 DEF Withdraw
  <2>4. Active' = Active \/ Active' = Without(gone)
    <3>1. CASE active' = active
      BY <1>1, <2>3, <3>1, ActiveKept
    <3>2. CASE active' = Len(snapshots')
      BY <1>1, <2>3, <3>2 DEF Active
    <3> QED BY <2>3, <3>1, <3>2
  <2>5. Named(Active') \subseteq served
    BY <1>1, <2>2, <2>4 DEF Published
  <2> QED
    BY <1>1, <1>2, <1>4, <2>1, <2>2, <2>3, <2>5, AppendPublished DEF Published
<1>10. \/ UNCHANGED snapshotVars
       \/ \E o \in Ops : WriteSnapshot(o) \/ PublishSQL(o)
       \/ \E p \in Processes : SetPointer(p)
       \/ \E gone \in SUBSET Media : Withdraw(gone)
  <2>1. ASSUME NEW o \in Ops, Create(o) \/ GoWrong(o),
               ~WriteSnapshot(o), ~PublishSQL(o), ~SetPointer(o)
        PROVE  UNCHANGED snapshotVars
    BY <2>1
    DEF Create, GoWrong, Acquire, Busy, Reject, ReturnCommitted, Resume,
        PlanCleaning, CleanRecords, CleanDirectories, Initialize, WriteRecords,
        CompleteRun, RecordCounts, Reference, Return, Fail, FailBuild, Cancel,
        FailPublish, UndoRecords, UndoDirectory
  <2>2. ASSUME NEW p \in Processes, Crash(p)
        PROVE  UNCHANGED snapshotVars
    BY <2>2 DEF Crash
  <2> QED BY <2>1, <2>2 DEF Next, Processes
<1> QED BY <1>5, <1>6, <1>7, <1>8, <1>9, <1>10

\* Only a snapshot just written puts a process at the pointer.
LEMMA PointOnlyWritten ==
  ASSUME TypeOK, Next, NEW q \in Processes, at'[q] = "point", at[q] # "point"
  PROVE  \/ q \in Ops /\ WriteSnapshot(q)
         \/ q = Admin /\ backend = "local" /\ \E gone \in SUBSET Media : Withdraw(gone)
<1> USE RepositoryAssumption DEF Processes, TypeOK, ControlType, Step, Leave
<1>1. ASSUME NEW o \in Ops, Create(o) \/ GoWrong(o), ~WriteSnapshot(o)
      PROVE  FALSE
  <2>1. CASE \/ Acquire(o) \/ Busy(o) \/ Reject(o) \/ ReturnCommitted(o) \/ Resume(o)
             \/ PlanCleaning(o) \/ CleanRecords(o) \/ CleanDirectories(o)
    BY <2>1
    DEF Acquire, Busy, Reject, ReturnCommitted, Resume, PlanCleaning, CleanRecords,
        CleanDirectories
  <2>2. CASE \/ Initialize(o) \/ WriteRecords(o) \/ CompleteRun(o) \/ RecordCounts(o)
             \/ Reference(o) \/ SetPointer(o) \/ PublishSQL(o) \/ Return(o)
    BY <2>2
    DEF Initialize, WriteRecords, CompleteRun, RecordCounts, Reference, SetPointer,
        PublishSQL, Return
  <2>3. CASE GoWrong(o)
    BY <2>3
    DEF GoWrong, Fail, FailBuild, Cancel, FailPublish, UndoRecords, UndoDirectory
  <2> QED BY <1>1, <2>1, <2>2, <2>3 DEF Create
<1>2. ASSUME NEW o \in Ops, WriteSnapshot(o)
      PROVE  q = o
  BY <1>2 DEF WriteSnapshot
<1>3. ASSUME NEW gone \in SUBSET Media, Withdraw(gone)
      PROVE  q = Admin /\ backend = "local"
  BY <1>3 DEF Withdraw
<1>4. ~SetPointer(Admin) /\ ~\E p \in Processes : Crash(p)
  BY DEF SetPointer, Crash
<1> QED BY <1>1, <1>2, <1>3, <1>4 DEF Next

\* A process at the pointer is alone, so its document stays the last one.
LEMMA PointStays ==
  ASSUME TypeOK, Next, NEW q \in Processes, at'[q] = "point", at[q] = "point"
  PROVE  UNCHANGED <<snapshots, active>>
<1> USE RepositoryAssumption DEF Processes, TypeOK, ControlType, Step
<1>1. ASSUME NEW o \in Ops, WriteSnapshot(o) \/ PublishSQL(o)
      PROVE  FALSE
  BY <1>1 DEF WriteSnapshot, PublishSQL
<1>2. ASSUME NEW p \in Processes, SetPointer(p)
      PROVE  FALSE
  BY <1>2 DEF SetPointer
<1>3. ASSUME NEW gone \in SUBSET Media, Withdraw(gone)
      PROVE  FALSE
  BY <1>3 DEF Withdraw
<1>4. ASSUME NEW o \in Ops, Create(o) \/ GoWrong(o)
      PROVE  UNCHANGED <<snapshots, active>>
  BY <1>1, <1>2, <1>4
  DEF snapshotVars, Create, GoWrong, Acquire, Busy, Reject, ReturnCommitted, Resume,
      PlanCleaning, CleanRecords, CleanDirectories, Initialize, WriteRecords,
      CompleteRun, RecordCounts, Reference, Return, Fail, FailBuild, Cancel,
      FailPublish, UndoRecords, UndoDirectory, Leave
<1> QED BY <1>2, <1>3, <1>4 DEF Next, Crash, snapshotVars

LEMMA WrittenStep ==
  ASSUME TypeOK, Written, [Next]_vars
  PROVE  Written'
<1>1. snapshots \in Seq(Snapshot) /\ SnapshotType
  BY DEF TypeOK, SnapshotType
<1>2. ASSUME Next, NEW q \in Processes, at'[q] = "point"
      PROVE  /\ snapshots' # <<>>
             /\ q \in Ops => snapshots'[Len(snapshots')] = Including(q)'
             /\ q = Admin => \E gone \in SUBSET Media :
                               snapshots'[Len(snapshots')] = Without(gone)'
  <2>1. CASE at[q] = "point"
    <3>1. snapshots' = snapshots /\ Active' = Active
      BY <1>1, <1>2, <2>1, PointStays, ActiveKept
    <3>2. /\ q \in Ops => Including(q)' = Including(q)
          /\ \A gone : Without(gone)' = Without(gone)
      BY <3>1 DEF Including, Without
    <3> QED BY <1>1, <2>1, <3>1, <3>2 DEF Written
  <2>2. CASE q \in Ops /\ WriteSnapshot(q)
    <3>1. snapshots' = Append(snapshots, Including(q)) /\ active' = active
      BY <2>2 DEF WriteSnapshot
    <3>2. Active' = Active
      BY <1>1, <3>1, ActiveKept
    <3>3. snapshots' # <<>> /\ snapshots'[Len(snapshots')] = Including(q)
      BY <1>1, <2>2, <3>1, SnapshotShapes
    <3> QED BY <2>2, <3>2, <3>3, RepositoryAssumption DEF Including
  <2>3. CASE q = Admin /\ backend = "local" /\ \E gone \in SUBSET Media : Withdraw(gone)
    <3>1. PICK gone \in SUBSET Media : Withdraw(gone)
      BY <2>3
    <3>2. snapshots' = Append(snapshots, Without(gone)) /\ active' = active
      BY <2>3, <3>1 DEF Withdraw
    <3>3. Active' = Active
      BY <1>1, <3>2, ActiveKept
    <3>4. snapshots' # <<>> /\ snapshots'[Len(snapshots')] = Without(gone)
      BY <1>1, <3>2, SnapshotShapes
    <3> QED BY <2>3, <3>3, <3>4, RepositoryAssumption DEF Without
  <2> QED BY <1>1, <1>2, <2>1, <2>2, <2>3, PointOnlyWritten
<1>3. CASE UNCHANGED vars
  <2>1. UNCHANGED <<at, snapshots, active>>
    BY <1>3 DEF vars, snapshotVars
  <2>2. Active' = Active
    BY <2>1 DEF Active, EmptySnapshot
  <2> QED BY <2>1, <2>2 DEF Written, Including, Without
<1> QED BY <1>2, <1>3 DEF Written, Processes

-----------------------------------------------------------------------------
(* The invariant, and the snapshots it protects.                           *)

LEMMA Initial == Init => IInv
<1> SUFFICES ASSUME Init PROVE IInv
  OBVIOUS
<1>1. TypeOK
  BY RepositoryAssumption
  DEF Init, TypeOK, ControlType, DataType, SnapshotType, Processes, Places
<1>2. \A o \in Ops : Advances(o)
  BY DEF Init, Advances, Progress, Replayable, Doomed, Processes
<1>3. Named(Active) = {}
  BY RepositoryAssumption DEF Init, Named, Active, EmptySnapshot
<1>4. Published
  BY <1>3 DEF Init, Published
<1>5. Written
  BY DEF Init, Written, Processes
<1> QED BY <1>1, <1>2, <1>4, <1>5 DEF IInv

LEMMA Inductive ==
  ASSUME ~LateErrors, IInv, [Next]_vars
  PROVE  IInv'
<1>1. CASE Next
  BY <1>1, TypeStep, AdvancesStep, PublishedStep, WrittenStep DEF IInv
<1>2. CASE UNCHANGED vars
  <2>1. UNCHANGED <<lease, at, doomed, outcome, manifest, counts, records, snapshots,
                    active, served>>
    BY <1>2 DEF vars, diskVars, snapshotVars
  <2>2. Active' = Active
    BY <2>1 DEF Active, EmptySnapshot
  <2>3. \A o \in Ops : Advances(o)'
    BY <2>1, <2>2 DEF IInv, Advances, Progress, Replayable, Doomed, Whole, Compatible
  <2>4. Published'
    BY <2>1, <2>2 DEF IInv, Published, Settled, Whole
  <2>5. Written'
    BY WrittenStep DEF IInv
  <2> QED BY <1>2, <2>3, <2>4, <2>5, TypeStep DEF IInv
<1> QED BY <1>1, <1>2

\* Every snapshot names whole generations of its profile, if no error follows
\* complete_run: no crash, cancellation, cleaning or replay breaks one.
THEOREM WholeSnapshots == ~LateErrors => (Spec => []SnapshotsWhole)
<1>1. IInv => SnapshotsWhole
  BY DEF IInv, Published, SnapshotsWhole, Settled
<1>2. ~LateErrors /\ IInv /\ [Next]_vars => IInv'
  BY Inductive
<1>3. CASE ~LateErrors
  BY <1>1, <1>2, <1>3, Initial, PTL DEF Spec
<1> QED BY <1>3

-----------------------------------------------------------------------------
(* Clean ground.                                                           *)

\* What is left of the generations that are not complete, as a cleaning goes on.
Cleaned(o) ==
  /\ \A g \in Ops : manifest[g] # "complete" =>
       /\ at[o] = "clean records" /\ g \notin doomed[o] =>
            manifest[g] = "absent" /\ records[g] = {}
       /\ at[o] = "clean directories" =>
            /\ g \notin doomed[o] => manifest[g] = "absent"
            /\ records[g] \cap ProfileOf[o] = {}
       /\ at[o] = "initialize" \/ (at[o] = "build" /\ g # o) =>
            manifest[g] = "absent" /\ records[g] \cap ProfileOf[o] = {}
  /\ at[o] \in {"clean records", "clean directories"} =>
       \A g \in doomed[o] : manifest[g] # "complete"

\* The cleaning operation's own steps do what Cleaned says.
LEMMA OwnCleaned ==
  ASSUME TypeOK, NEW o \in Ops, Cleaned(o), Create(o) \/ GoWrong(o)
  PROVE  Cleaned(o)'
<1> USE DEF TypeOK, DataType, ControlType, Processes, Cleaned, Step, Leave, diskVars
<1>1. CASE PlanCleaning(o)
  BY <1>1 DEF PlanCleaning, Debris
<1>2. CASE CleanRecords(o)
  BY <1>2 DEF CleanRecords
<1>3. CASE CleanDirectories(o)
  <2>1. at[o] = "clean directories" /\ at'[o] = "initialize" /\ records' = records
    BY <1>3 DEF CleanDirectories
  <2>2. ASSUME NEW g \in Ops, manifest'[g] # "complete"
        PROVE  manifest'[g] = "absent" /\ records'[g] \cap ProfileOf[o] = {}
    <3>1. CASE g \in doomed[o]
      <4>1. manifest'[g] = "absent"
        BY <1>3, <3>1 DEF CleanDirectories
      <4>2. CASE manifest[g] = "complete"
        BY <2>1, <3>1, <4>2
      <4>3. CASE manifest[g] # "complete"
        BY <2>1, <4>1, <4>3
      <4> QED BY <4>2, <4>3
    <3>2. CASE g \notin doomed[o]
      <4>1. manifest'[g] = manifest[g]
        BY <1>3, <3>2 DEF CleanDirectories
      <4> QED BY <2>1, <2>2, <3>2, <4>1
    <3> QED BY <3>1, <3>2
  <2> QED BY <2>1, <2>2
<1>4. CASE Initialize(o)
  BY <1>4 DEF Initialize
<1>5. CASE WriteRecords(o)
  <2>1. /\ \A g \in Ops \ {o} : records'[g] = records[g]
        /\ manifest' = manifest /\ at' = at /\ at[o] = "build"
    BY <1>5 DEF WriteRecords
  <2> QED BY <2>1
<1>6. CASE Busy(o)
  BY <1>6 DEF Busy
<1>7. CASE ~( \/ PlanCleaning(o) \/ CleanRecords(o) \/ CleanDirectories(o)
              \/ Initialize(o) \/ WriteRecords(o) \/ Busy(o) )
  <2>1. CASE Create(o)
    <3>1. at'[o] \notin {"clean records", "clean directories", "initialize", "build"}
      BY <1>7, <2>1, RepositoryAssumption
      DEF Create, Acquire, Reject, ReturnCommitted, Resume, CompleteRun, RecordCounts,
          Reference, WriteSnapshot, SetPointer, PublishSQL, Return
    <3> QED BY <3>1
  <2>2. CASE GoWrong(o)
    <3>1. at'[o] \notin {"clean records", "clean directories", "initialize", "build"}
      BY <2>2
      DEF GoWrong, Fail, FailBuild, Cancel, FailPublish, UndoRecords, UndoDirectory
    <3> QED BY <3>1
  <2> QED BY <2>1, <2>2
<1> QED BY <1>1, <1>2, <1>3, <1>4, <1>5, <1>6, <1>7

\* Nobody else writes while it cleans and builds.
LEMMA OtherCleaned ==
  ASSUME TypeOK, NEW o \in Ops, Cleaned(o), Next, ~Create(o), ~GoWrong(o)
  PROVE  Cleaned(o)'
<1> USE DEF TypeOK, DataType, ControlType, Processes, Cleaned
<1>1. ASSUME NEW p \in Ops, Create(p) \/ GoWrong(p), p # o
      PROVE  Cleaned(o)'
  <2>1. CASE Acquire(p) \/ Busy(p)
    <3>1. /\ at'[o] = at[o] /\ doomed' = doomed
          /\ manifest' = manifest /\ records' = records
      BY <1>1, <2>1 DEF Acquire, Busy, Step, diskVars
    <3> QED BY <3>1
  <2>2. CASE ~(Acquire(p) \/ Busy(p))
    <3>1. at[p] # "idle"
      BY <1>1, <2>2
      DEF Create, GoWrong, Step, Reject, ReturnCommitted, Resume, PlanCleaning,
          CleanRecords, CleanDirectories, Initialize, WriteRecords, CompleteRun,
          RecordCounts, Reference, WriteSnapshot, SetPointer, PublishSQL, Return,
          Fail, FailBuild, Cancel, FailPublish, UndoRecords, UndoDirectory
    <3>2. at[o] = "idle"
      BY <1>1, <3>1, Alone
    <3>3. at'[o] = "idle"
      BY <1>1, <3>2, RepositoryAssumption
      DEF Create, GoWrong, Step, Leave, Acquire, Busy, Reject, ReturnCommitted,
          Resume, PlanCleaning, CleanRecords, CleanDirectories, Initialize,
          WriteRecords, CompleteRun, RecordCounts, Reference, WriteSnapshot,
          SetPointer, PublishSQL, Return, Fail, FailBuild, Cancel, FailPublish,
          UndoRecords, UndoDirectory
    <3> QED BY <3>3
  <2> QED BY <2>1, <2>2
<1>2. CASE \/ \E gone \in SUBSET Media : Withdraw(gone)
           \/ SetPointer(Admin)
           \/ \E p \in Processes : Crash(p)
  <2>1. manifest' = manifest /\ records' = records
    BY <1>2 DEF Withdraw, SetPointer, Crash, diskVars
  <2>2. at'[o] = "idle" \/ (at'[o] = at[o] /\ doomed'[o] = doomed[o])
    BY <1>2, AdminFrame
  <2> QED BY <2>1, <2>2
<1> QED BY <1>1, <1>2 DEF Next

\* An operation builds with nothing abandoned left around it, whatever failed,
\* was cancelled or crashed before.
THEOREM GroundIsClean == Spec => []CleanGround
<1> DEFINE CInv == TypeOK /\ \A o \in Ops : Cleaned(o)
<1>1. Init => CInv
  BY Initial DEF Init, IInv, Cleaned, Processes
<1>2. CInv /\ [Next]_vars => CInv'
  <2> SUFFICES ASSUME CInv, [Next]_vars PROVE CInv'
    OBVIOUS
  <2>1. CASE Next
    BY <2>1, TypeStep, OwnCleaned, OtherCleaned
  <2>2. CASE UNCHANGED vars
    BY <2>2, TypeStep DEF vars, diskVars, Cleaned
  <2> QED BY <2>1, <2>2
<1>3. CInv => CleanGround
  BY DEF CleanGround, Cleaned
<1> QED BY <1>1, <1>2, <1>3, PTL DEF Spec

-----------------------------------------------------------------------------
(* The repository implements the library.                                  *)

\* Publishing o adds o to what is served, and to nothing else.
LEMMA IncludingPublishes ==
  ASSUME SnapshotType, Named(Active) \subseteq served, NEW o \in Ops
  PROVE  served \cup Named(Including(o)) = served \cup {o}
<1>1. Active.gens \in [Media -> Ops \cup {None}] /\ MediaOf \in [Ops -> Media]
  BY SnapshotShapes, RepositoryAssumption DEF Snapshot
<1>2. o \in Named(Including(o))
  BY <1>1 DEF Named, Including
<1>3. \A g \in Named(Including(o)) : g = o \/ g \in Named(Active)
  BY <1>1 DEF Named, Including
<1> QED BY <1>2, <1>3

\* Withdrawing adds nothing.
LEMMA WithoutPublishes ==
  ASSUME SnapshotType, Named(Active) \subseteq served, NEW gone \in SUBSET Media
  PROVE  served \cup Named(Without(gone)) = served
BY WithoutNamed

Publishes(o) ==
  /\ SetPointer(o) \/ PublishSQL(o)
  /\ Active' = Including(o) /\ served' = served \cup {o}

Withdraws(gone) ==
  /\ SetPointer(Admin) \/ \E m \in SUBSET Media : Withdraw(m)
  /\ Active' = Without(gone) /\ served' = served

\* What is served changes by the publication of one generation, or by a removal.
LEMMA ServedStep ==
  ASSUME TypeOK, Written, Named(Active) \subseteq served, Next
  PROVE  \/ \E o \in Ops : Publishes(o)
         \/ \E gone \in SUBSET Media : Withdraws(gone)
         \/ Active' = Active /\ served' = served
<1>1. SnapshotType /\ snapshots \in Seq(Snapshot)
  BY DEF TypeOK, SnapshotType
<1>2. ASSUME NEW o \in Ops, SetPointer(o) \/ PublishSQL(o)
      PROVE  Publishes(o)
  <2>1. Active' = Including(o) /\ served' = served \cup Named(Including(o))
    <3>1. CASE SetPointer(o)
      BY <1>1, <3>1 DEF SetPointer, Written, Active, Processes
    <3>2. CASE PublishSQL(o)
      BY <1>1, <3>2, SnapshotShapes DEF PublishSQL, Active
    <3> QED BY <1>2, <3>1, <3>2
  <2> QED BY <1>1, <1>2, <2>1, IncludingPublishes DEF Publishes
<1>3. ASSUME SetPointer(Admin)
      PROVE  \E gone \in SUBSET Media : Withdraws(gone)
  <2>1. PICK gone \in SUBSET Media : snapshots[Len(snapshots)] = Without(gone)
    BY <1>1, <1>3 DEF SetPointer, Written
  <2>2. Active' = Without(gone) /\ served' = served \cup Named(Without(gone))
    BY <1>1, <1>3, <2>1 DEF SetPointer, Written, Active, Processes
  <2> QED BY <1>1, <1>3, <2>2, WithoutPublishes DEF Withdraws
<1>4. ASSUME NEW gone \in SUBSET Media, Withdraw(gone)
      PROVE  Withdraws(gone) \/ (Active' = Active /\ served' = served)
  <2>1. CASE backend = "local"
    BY <1>1, <1>4, <2>1, ActiveKept DEF Withdraw
  <2>2. CASE backend # "local"
    BY <1>1, <1>4, <2>2, SnapshotShapes DEF Withdraw, Withdraws, Active
  <2> QED BY <2>1, <2>2
<1>5. ASSUME NEW o \in Ops, Create(o) \/ GoWrong(o), ~SetPointer(o), ~PublishSQL(o)
      PROVE  Active' = Active /\ served' = served
  <2>1. CASE WriteSnapshot(o)
    BY <1>1, <2>1, ActiveKept DEF WriteSnapshot
  <2>2. CASE ~WriteSnapshot(o)
    <3>1. UNCHANGED snapshotVars
      BY <1>5, <2>2
      DEF Create, GoWrong, Acquire, Busy, Reject, ReturnCommitted, Resume,
          PlanCleaning, CleanRecords, CleanDirectories, Initialize, WriteRecords,
          CompleteRun, RecordCounts, Reference, Return, Fail, FailBuild, Cancel,
          FailPublish, UndoRecords, UndoDirectory
    <3> QED BY <1>1, <3>1, ActiveKept DEF snapshotVars
  <2> QED BY <2>1, <2>2
<1>6. ASSUME NEW p \in Processes, Crash(p)
      PROVE  Active' = Active /\ served' = served
  BY <1>1, <1>6, ActiveKept DEF Crash, snapshotVars
<1> QED BY <1>2, <1>3, <1>4, <1>5, <1>6 DEF Next

\* An operation makes one generation whole, or breaks one that was never served.
LEMMA ReadyStep ==
  ASSUME IInv, Next, NEW o \in Ops, Create(o) \/ GoWrong(o)
  PROVE  LET ready == {g \in Ops : Whole(g)}
         IN  \/ ready' = ready
             \/ ready' = ready \cup {o}
             \/ ready' = ready \ {o} /\ o \notin served
<1>1. TypeOK /\ Doomed(o)
  BY DEF IInv, Advances
<1>2. \A g \in Ops : g # o => (Whole(g)' <=> Whole(g))
  BY <1>1, Frame DEF Whole, Untouched, Swept
<1>3. o \in served => Whole(o)'
  BY SettledStep DEF IInv, Published, Settled
<1> QED BY <1>2, <1>3

LEMMA LibraryStep ==
  ASSUME IInv, Next
  PROVE  Library!Next \/ UNCHANGED <<Active.gens, {o \in Ops : Whole(o)}, served>>
<1> DEFINE ready == {o \in Ops : Whole(o)}
<1>1. TypeOK /\ Published /\ Written /\ \A o \in Ops : Progress(o)
  BY DEF IInv, Advances
<1>2. ASSUME NEW o \in Ops, Publishes(o)
      PROVE  Library!Next
  <2>1. o \in ready /\ ready' = ready
    BY <1>1, <1>2 DEF Publishes, SetPointer, PublishSQL, Step, Progress, Whole, diskVars
  <2>2. Library!Publish(o)
    BY <1>2, <2>1 DEF Library!Publish, Publishes, Including
  <2> QED BY <2>2 DEF Library!Next
<1>3. ASSUME NEW gone \in SUBSET Media, Withdraws(gone)
      PROVE  Library!Next
  <2>1. ready' = ready
    BY <1>3 DEF Withdraws, Withdraw, SetPointer, Whole, diskVars
  <2>2. Library!Withdraw
    BY <1>3, <2>1 DEF Library!Withdraw, Withdraws, Without
  <2> QED BY <2>2 DEF Library!Next
<1>4. ASSUME Active' = Active, served' = served
      PROVE  Library!Next \/ UNCHANGED <<Active.gens, ready, served>>
  <2>1. ASSUME NEW o \in Ops, Create(o) \/ GoWrong(o)
        PROVE  Library!Next \/ UNCHANGED <<Active.gens, ready, served>>
    <3>1. CASE ready' = ready
      BY <1>4, <3>1
    <3>2. CASE ready' = ready \cup {o}
      <4>1. Library!Build(o)
        BY <1>4, <3>2 DEF Library!Build
      <4> QED BY <4>1 DEF Library!Next
    <3>3. CASE ready' = ready \ {o} /\ o \notin served
      <4>1. Library!Discard(o)
        BY <1>4, <3>3 DEF Library!Discard
      <4> QED BY <4>1 DEF Library!Next
    <3> QED BY <2>1, <3>1, <3>2, <3>3, ReadyStep
  <2>2. ASSUME \/ \E gone \in SUBSET Media : Withdraw(gone)
               \/ SetPointer(Admin)
               \/ \E p \in Processes : Crash(p)
        PROVE  ready' = ready
    BY <2>2 DEF Withdraw, SetPointer, Crash, diskVars, Whole
  <2> QED BY <1>4, <2>1, <2>2 DEF Next
<1> QED BY <1>1, <1>2, <1>3, <1>4, ServedStep DEF Published

\* The repository keeps the promise of IndexLibrary: the library changes by whole
\* generations, and a generation it has served is never broken.
THEOREM KeepsPromise == ~LateErrors => (Spec => KeepsLibrary)
<1>1. Init => Library!Init
  BY DEF Init, Library!Init, Active, EmptySnapshot, Whole
<1>2. IInv /\ [Next]_vars =>
        [Library!Next]_<<Active.gens, {o \in Ops : Whole(o)}, served>>
  <2> SUFFICES ASSUME IInv, [Next]_vars
               PROVE  Library!Next \/ UNCHANGED <<Active.gens, {o \in Ops : Whole(o)}, served>>
    OBVIOUS
  <2>1. CASE Next
    BY <2>1, LibraryStep
  <2>2. CASE UNCHANGED vars
    BY <2>2 DEF vars, diskVars, snapshotVars, Active, EmptySnapshot, Whole
  <2> QED BY <2>1, <2>2
<1>3. ~LateErrors /\ IInv /\ [Next]_vars => IInv'
  BY Inductive
<1>4. CASE ~LateErrors
  BY <1>1, <1>2, <1>3, <1>4, Initial, PTL DEF Spec, KeepsLibrary, Library!Spec
<1> QED BY <1>4

-----------------------------------------------------------------------------
(* Without crashes, no operation publishes twice.                          *)

\* An operation whose generation has been served is about to return, or over.
Once(o) ==
  o \in served => at[o] = "published" \/ (at[o] = "idle" /\ outcome[o] # "pending")

OnceInv ==
  TypeOK /\ Written /\ Named(Active) \subseteq served /\ \A o \in Ops : Once(o)

\* An operation leaves the place and the outcome of every other alone.
LEMMA OthersWait ==
  ASSUME TypeOK, Next, NEW o \in Ops,
         ~Create(o), ~GoWrong(o), ~\E p \in Processes : Crash(p)
  PROVE  at'[o] = at[o] /\ outcome'[o] = outcome[o]
<1> USE RepositoryAssumption DEF TypeOK, DataType, ControlType, Processes, Leave, Step
<1>1. ASSUME NEW p \in Ops, p # o, Create(p)
      PROVE  at'[o] = at[o] /\ outcome'[o] = outcome[o]
  BY <1>1
  DEF Create, Acquire, Busy, Reject, ReturnCommitted, Resume, PlanCleaning,
      CleanRecords, CleanDirectories, Initialize, WriteRecords, CompleteRun,
      RecordCounts, Reference, WriteSnapshot, SetPointer, PublishSQL, Return
<1>2. ASSUME NEW p \in Ops, p # o, GoWrong(p)
      PROVE  at'[o] = at[o] /\ outcome'[o] = outcome[o]
  BY <1>2
  DEF GoWrong, Fail, FailBuild, Cancel, FailPublish, UndoRecords, UndoDirectory
<1>3. ASSUME SetPointer(Admin) \/ \E gone \in SUBSET Media : Withdraw(gone)
      PROVE  at'[o] = at[o] /\ outcome'[o] = outcome[o]
  BY <1>3 DEF SetPointer, Withdraw
<1> QED BY <1>1, <1>2, <1>3 DEF Next

\* A served operation can only leave, and its outcome is then recorded.
LEMMA ServedLeaves ==
  ASSUME TypeOK, NEW o \in Ops, o \in served, Once(o), Create(o) \/ GoWrong(o)
  PROVE  at'[o] = "idle" /\ outcome'[o] # "pending"
<1> USE DEF TypeOK, DataType, ControlType, Processes, Leave, Step, Once
<1>1. CASE Create(o)
  BY <1>1
  DEF Create, Acquire, Busy, Reject, ReturnCommitted, Resume, PlanCleaning,
      CleanRecords, CleanDirectories, Initialize, WriteRecords, CompleteRun,
      RecordCounts, Reference, WriteSnapshot, SetPointer, PublishSQL, Return
<1>2. CASE GoWrong(o)
  BY <1>2
  DEF GoWrong, Fail, FailBuild, Cancel, FailPublish, UndoRecords, UndoDirectory
<1> QED BY <1>1, <1>2

LEMMA OnceStep ==
  ASSUME OnceInv, Next, ~\E p \in Processes : Crash(p)
  PROVE  OnceInv'
<1>1. TypeOK /\ Written /\ Named(Active) \subseteq served /\ SnapshotType
  BY DEF OnceInv, TypeOK
<1>2. TypeOK' /\ Written'
  BY <1>1, TypeStep, WrittenStep
<1>3. Named(Active)' \subseteq served'
  <2>1. \A o \in Ops : Publishes(o) => Named(Active)' \subseteq served'
    BY <1>1, IncludingPublishes DEF Publishes, Named
  <2>2. \A gone \in SUBSET Media : Withdraws(gone) => Named(Active)' \subseteq served'
    BY <1>1, WithoutPublishes DEF Withdraws, Named
  <2> QED BY <1>1, <2>1, <2>2, ServedStep DEF Named
<1>4. ASSUME NEW o \in Ops
      PROVE  Once(o)'
  <2>1. CASE o \in served
    BY <1>1, <2>1, ServedLeaves, OthersWait DEF OnceInv, Once
  <2>2. CASE o \notin served /\ o \in served'
    <3>1. Publishes(o)
      BY <1>1, <2>2, ServedStep DEF Publishes, Withdraws
    <3>2. at'[o] = "published"
      BY <1>1, <3>1, RepositoryAssumption
      DEF Publishes, SetPointer, PublishSQL, Step, TypeOK, ControlType, Processes
    <3> QED BY <3>2 DEF Once
  <2> QED BY <2>1, <2>2 DEF Once
<1> QED BY <1>2, <1>3, <1>4 DEF OnceInv

\* Only an operation that was not served publishes.
LEMMA PublishesNew ==
  ASSUME OnceInv, Next, NEW m \in Media, Active.gens'[m] \in served
  PROVE  Active.gens'[m] = Active.gens[m]
<1>1. TypeOK /\ Written /\ Named(Active) \subseteq served /\ SnapshotType
  BY DEF OnceInv, TypeOK
<1>2. Active.gens \in [Media -> Ops \cup {None}] /\ MediaOf \in [Ops -> Media]
  BY <1>1, SnapshotShapes, RepositoryAssumption DEF Snapshot
<1>3. ASSUME NEW o \in Ops, Publishes(o)
      PROVE  Active.gens'[m] = Active.gens[m]
  <2>1. o \notin served
    BY <1>1, <1>3, RepositoryAssumption
    DEF OnceInv, Once, Publishes, SetPointer, PublishSQL, Step
  <2> QED BY <1>2, <1>3, <2>1 DEF Publishes, Including
<1>4. ASSUME NEW gone \in SUBSET Media, Withdraws(gone)
      PROVE  Active.gens'[m] = Active.gens[m]
  <2>1. None \notin served
    BY <1>1, RepositoryAssumption DEF SnapshotType
  <2> QED BY <1>2, <1>4, <2>1 DEF Withdraws, Without
<1> QED BY <1>1, <1>3, <1>4, ServedStep

\* Where no process crashes, no operation publishes a second time, not even when
\* errors, cancellations and removals come in between: it takes the replay of
\* IndexReplay, a crash after publication and before its outcome is recorded.
THEOREM PublishesOnce == MaxCrashes = 0 => (Spec => PublishedOnce)
<1>1. Init => OnceInv
  <2> SUFFICES ASSUME Init PROVE OnceInv
    OBVIOUS
  <2>1. IInv /\ served = {}
    BY Initial DEF Init
  <2> QED BY <2>1 DEF IInv, Published, OnceInv, Once
<1>2. MaxCrashes = 0 /\ OnceInv /\ [Next]_vars => OnceInv'
  <2> SUFFICES ASSUME MaxCrashes = 0, OnceInv, [Next]_vars
               PROVE  OnceInv'
    OBVIOUS
  <2>1. ~\E p \in Processes : Crash(p)
    BY DEF OnceInv, TypeOK, Crash
  <2>2. CASE UNCHANGED vars
    <3>1. UNCHANGED <<at, outcome, snapshots, active, served>>
      BY <2>2 DEF vars, snapshotVars
    <3>2. Active' = Active
      BY <3>1 DEF Active, EmptySnapshot
    <3> QED BY <2>2, <3>1, <3>2, TypeStep, WrittenStep DEF OnceInv, Once, Named
  <2> QED BY <2>1, <2>2, OnceStep
<1>3. OnceInv /\ [Next]_vars =>
        [\A m \in Media : Active.gens'[m] \in served => Active.gens'[m] = Active.gens[m]]_vars
  BY PublishesNew
<1>4. CASE MaxCrashes = 0
  BY <1>1, <1>2, <1>3, <1>4, PTL DEF Spec, PublishedOnce
<1> QED BY <1>4

=============================================================================
