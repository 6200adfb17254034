----------------------- MODULE UploadIngestionProofs -----------------------
(***************************************************************************)
(* Proofs about UploadIngestion, for every set of intents, bodies, retries *)
(* and media, every quota, any number of crashes and of lost commits.       *)
(***************************************************************************)
EXTENDS UploadIngestion, FiniteSetTheorems, TLAPS

-----------------------------------------------------------------------------
(* The inductive invariant.  RecordValid is not inductive by itself: what  *)
(* the sweep saw of a row and where it stands in its work must stay true   *)
(* of the row it then changes.                                             *)

\* Rows as the catalog can hold them.
RowsInv ==
  \A i \in Intents :
    /\ row[i].state = "absent" => row[i] = NoRow
    /\ RowValid(i)
    /\ row[i].media => row[i].state \in {"ready", "indexed"}

\* What the sweep saw of a row is still true of it where it matters.
SeenInv ==
  phase = "advance" =>
    \A i \in Intents :
      /\ seen[i].state = "processing" => row[i].job
      /\ seen[i].state = "ready" => i \in IndexAfter

\* An import about to be submitted is linked.
PlaceInv ==
  place["sweep"].at = "submit_import" => row[place["sweep"].on].job

\* Pre-create requests that arrive after the intent's lifetime find it in a
\* state that may expire (see the run UploadLateCreation for the others).
TimelyCreation ==
  LateCreationStates \subseteq {"pending", "accepted", "failed", "expired"}

IInv ==
  /\ TypeOK
  /\ RowsInv
  /\ SeenInv
  /\ PlaceInv
  /\ ImportLinked
  /\ IndexedTruthful

-----------------------------------------------------------------------------
(* Types.                                                                  *)

\* A row of the catalog is a row.
LEMMA RowType ==
  ASSUME TypeOK, NEW i \in Intents
  PROVE  row[i] \in Rows
BY DEF TypeOK

\* update_upload writes rows and never a negative reservation.
LEMMA UpdateUploadType ==
  ASSUME TypeOK, NEW i \in Intents, NEW r \in Rows, UpdateUpload(i, r)
  PROVE  row' \in [Intents -> Rows] /\ reserved' \in Nat
<1>1. row[i].size \in Nat /\ reserved \in Nat /\ row \in [Intents -> Rows]
  BY DEF TypeOK, Rows
<1> QED  BY <1>1 DEF UpdateUpload

\* So does a compare-and-set, whether or not it applies.
LEMMA UpdateIfType ==
  ASSUME TypeOK, NEW i \in Intents, NEW r \in Rows, NEW e, UpdateIf(e, i, r)
  PROVE  row' \in [Intents -> Rows] /\ reserved' \in Nat
BY UpdateUploadType DEF UpdateIf, TypeOK, rowVars

\* So does _expire_intent.
LEMMA ExpireIntentType ==
  ASSUME TypeOK, NEW i \in Intents, NEW c, ExpireIntent(i, c)
  PROVE  row' \in [Intents -> Rows] /\ reserved' \in Nat
<1>1. [row[i] EXCEPT !.state = "expired", !.upload = IF c THEN None ELSE @] \in Rows
  BY RowType DEF Rows, UploadState
<1> QED BY <1>1, UpdateIfType DEF ExpireIntent

\* What unfinished work names, and where it may go next.
LEMMA PlaceType ==
  ASSUME TypeOK, NEW p \in {"sweep", "browser"}
  PROVE  /\ place[p].at \in {"submit_import", "submit_index", "expire"} =>
              place[p].on \in Intents
         /\ place[p].at \in {"cleanup", "terminated"} => place[p].on \in UploadIds
         /\ Idle \in Places
         /\ \A i \in Intents : \A at \in {"submit_import", "submit_index", "expire"} :
              [at |-> at, on |-> i] \in Places
         /\ \A u \in UploadIds : \A at \in {"cleanup", "terminated"} :
              [at |-> at, on |-> u] \in Places
<1>1. place[p] \in Places
  BY DEF TypeOK
<1> QED BY <1>1 DEF Places, Idle

\* A row may be given any state.
LEMMA StateUpdate ==
  ASSUME NEW r \in Rows, NEW s \in UploadState
  PROVE  [r EXCEPT !.state = s] \in Rows
BY DEF Rows

\* A deletion by tusd, with the hook that allows it, keeps the types.
LEMMA TusDeleteType ==
  ASSUME TypeOK, NEW i \in Intents, NEW removed \in BOOLEAN, TusDelete(i, removed)
  PROVE  /\ row' \in [Intents -> Rows] /\ reserved' \in Nat
         /\ content' \in [UploadIds -> {"none", "partial", "full", "removed"}]
         /\ approved' = approved /\ staged' = staged
         /\ sent' \subseteq {"finish", "terminate"} \X Intents
<1>1. Terminating(i) \in Rows
  BY RowType, StateUpdate DEF Terminating, UploadState
<1>2. <<"terminate", i>> \in {"finish", "terminate"} \X Intents
  OBVIOUS
<1> QED BY <1>1, <1>2, UpdateUploadType DEF TusDelete, TypeOK

\* The hooks and tusd keep the types.
LEMMA TusType ==
  ASSUME TypeOK, NEW i \in Intents, Tus(i)
  PROVE  TypeOK'
<1> USE DEF rowVars, tusVars, jobVars, sweepVars, callVars, envVars
<1>0. row[i] \in Rows
  BY RowType
<1>1. CASE ExpireCreation(i)
  <2>1. [row[i] EXCEPT !.state = "expired"] \in Rows
    BY <1>0, StateUpdate DEF UploadState
  <2> QED BY <1>1, <2>1, UpdateUploadType DEF ExpireCreation, TypeOK
<1>2. CASE AcceptCreation(i)
  <2>1. [row[i] EXCEPT !.state = "accepted", !.upload = i] \in Rows
    BY <1>0 DEF Rows, UploadState, UploadIds
  <2> QED BY <1>2, <2>1, UpdateUploadType DEF AcceptCreation, TypeOK
<1>3. CASE ReplayCreation(i)
  BY <1>3 DEF ReplayCreation, TypeOK
<1>4. CASE TusCreate(i)
  BY <1>4 DEF TusCreate, TypeOK
<1>5. CASE TusForget(i)
  BY <1>5 DEF TusForget, TypeOK
<1>6. CASE TusFinish(i)
  <2>1. <<"finish", i>> \in {"finish", "terminate"} \X Intents
    OBVIOUS
  <2> QED BY <1>6, <2>1 DEF TusFinish, TypeOK
<1>7. CASE PostFinish(i)
  <2>1. [row[i] EXCEPT !.state = "processing", !.job = TRUE] \in Rows
    BY <1>0 DEF Rows, UploadState
  <2> QED BY <1>7, <2>1, UpdateUploadType DEF PostFinish, CompleteTransfer, TypeOK
<1>8. CASE ClientTerminate(i)
  <2>1. PICK removed \in BOOLEAN : TusDelete(i, removed)
    BY <1>8 DEF ClientTerminate
  <2> QED BY <1>8, <2>1, TusDeleteType DEF ClientTerminate, TypeOK
<1>9. CASE PostTerminate(i)
  <2>1. \A j \in Intents : Terminated(j) \in Rows
    BY RowType DEF Terminated, UploadState, Rows
  <2> QED BY <1>9, <2>1, UpdateUploadType DEF PostTerminate, RecordTerminated, Owners, TypeOK
<1> QED BY <1>1, <1>2, <1>3, <1>4, <1>5, <1>6, <1>7, <1>8, <1>9 DEF Tus

\* Native multipart bodies keep the types.
LEMMA NativeType ==
  ASSUME TypeOK, NEW i \in Intents, Native(i)
  PROVE  TypeOK'
<1> USE DEF rowVars, tusVars, jobVars, sweepVars, callVars, envVars
<1>0. row[i] \in Rows
  BY RowType
<1>1. PICK a \in Attempts :
        Stage(a, i) \/ Claim(a, i) \/ RefuseClaim(a, i) \/ LoseClaim(a, i)
  BY DEF Native
<1>2. a \in UploadIds /\ <<a, i>> \in Attempts \X Intents
  BY DEF UploadIds
<1>3. CASE Stage(a, i)
  BY <1>2, <1>3 DEF Stage, TypeOK
<1>4. CASE Claim(a, i)
  <2>1. [row[i] EXCEPT !.state = "accepted", !.upload = a] \in Rows
    BY <1>0, <1>2 DEF Rows, UploadState
  <2>2. row' \in [Intents -> Rows] /\ reserved' \in Nat
    BY <1>4, <2>1, UpdateUploadType DEF Claim, TypeOK
  <2> QED BY <1>2, <1>4, <2>2 DEF Claim, TypeOK
<1>5. CASE RefuseClaim(a, i)
  BY <1>2, <1>5 DEF RefuseClaim, TypeOK
<1>6. CASE LoseClaim(a, i)
  <2>1. [row[i] EXCEPT !.state = "accepted", !.upload = a] \in Rows
    BY <1>0, <1>2 DEF Rows, UploadState
  <2>2. row' \in [Intents -> Rows] /\ reserved' \in Nat
    BY <1>6, <2>1, UpdateUploadType DEF LoseClaim, TypeOK
  <2>3. crashes < MaxCrashes => crashes + 1 \in 0 .. MaxCrashes
    BY UploadAssumption DEF TypeOK
  <2> QED BY <1>2, <1>6, <2>2, <2>3 DEF LoseClaim, TypeOK
<1> QED BY <1>1, <1>3, <1>4, <1>5, <1>6

\* The job worker keeps the types.
LEMMA WorkerType ==
  ASSUME TypeOK, Worker
  PROVE  TypeOK'
<1> USE DEF rowVars, tusVars, jobVars, sweepVars, callVars, envVars
<1>1. CASE \E i \in Intents : BeginImport(i)
  BY <1>1 DEF BeginImport, TypeOK
<1>2. CASE \E i \in Intents : FinishImport(i)
  BY <1>2 DEF FinishImport, TypeOK
<1>3. CASE \E i \in Intents : WorkerCrash(i)
  <2>1. crashes < MaxCrashes => crashes + 1 \in 0 .. MaxCrashes
    BY UploadAssumption DEF TypeOK
  <2> QED BY <1>3, <2>1 DEF WorkerCrash, TypeOK
<1>4. CASE \E j \in IndexJobs : FinishIndex(j)
  BY <1>4 DEF FinishIndex, TypeOK
<1> QED BY <1>1, <1>2, <1>3, <1>4 DEF Worker

\* Creation, cancellation and indexing retries keep the types.
LEMMA CallerType ==
  ASSUME TypeOK, Caller
  PROVE  TypeOK'
<1> USE DEF rowVars, tusVars, jobVars, sweepVars, callVars, envVars
<1>1. ASSUME NEW i \in Intents, CreateIntent(i)
      PROVE  TypeOK'
  <2>1. [NoRow EXCEPT !.state = "pending", !.size = SizeOf[i]] \in Rows
    BY UploadAssumption DEF NoRow, Rows, UploadState
  <2>2. reserved + SizeOf[i] \in Nat
    BY UploadAssumption DEF TypeOK
  <2> QED BY <1>1, <2>1, <2>2 DEF CreateIntent, TypeOK
<1>2. ASSUME NEW i \in Intents, CreateLocalIngestion(i)
      PROVE  TypeOK'
  <2>1. [NoRow EXCEPT !.state = "pending", !.size = SizeOf[i]] \in Rows
    BY UploadAssumption DEF NoRow, Rows, UploadState
  <2>2. [NoRow EXCEPT !.state = "failed", !.failed = TRUE] \in Rows
    BY DEF NoRow, Rows, UploadState
  <2>3. reserved + SizeOf[i] \in Nat
    BY UploadAssumption DEF TypeOK
  <2> QED BY <1>2, <2>1, <2>2, <2>3 DEF CreateLocalIngestion, TypeOK
<1>3. ASSUME NEW i \in Intents, RequestCancel(i)
      PROVE  TypeOK'
  <2>1. i \in UploadIds /\ row[i].upload \in UploadIds \cup {None}
    BY RowType DEF UploadIds, Rows
  <2>2. place' \in [{"sweep", "browser"} -> Places]
    <3>1. [at |-> "expire", on |-> i] \in Places
      BY PlaceType
    <3>2. row[i].upload # None => [at |-> "cleanup", on |-> row[i].upload] \in Places
      BY <2>1, PlaceType
    <3> QED BY <1>3, <3>1, <3>2 DEF RequestCancel, Go, TypeOK
  <2> QED BY <1>3, <2>2 DEF RequestCancel, TypeOK
<1>4. CASE CancelPending
  <2>1. row' \in [Intents -> Rows] /\ reserved' \in Nat
    BY <1>4, PlaceType, ExpireIntentType DEF CancelPending
  <2> QED BY <1>4, <2>1, PlaceType DEF CancelPending, Stop, TypeOK
<1>5. ASSUME NEW m \in Media, NEW r \in Retries, Relink(m, r)
      PROVE  TypeOK'
  <2>1. \A i \in Intents : [row[i] EXCEPT !.index = r, !.failed = FALSE] \in Rows
    BY RowType DEF Rows, IndexJobs
  <2>2. FailedIndexes(m) \subseteq Intents
    BY UploadAssumption DEF FailedIndexes
  <2> QED BY <1>5, <2>1, <2>2 DEF Relink, TypeOK
<1>6. CASE SubmitRetry
  BY <1>6 DEF SubmitRetry, EnqueueIndex, TypeOK
<1>7. CASE RefuseRetry
  <2>1. \A i \in Intents : [row[i] EXCEPT !.failed = TRUE] \in Rows
    BY RowType DEF Rows
  <2> QED BY <1>7, <2>1 DEF RefuseRetry, TypeOK
<1> QED BY <1>1, <1>2, <1>3, <1>4, <1>5, <1>6, <1>7 DEF Caller

\* _cleanup_upload keeps the types, by the sweep or by a browser.
LEMMA CleanupType ==
  ASSUME TypeOK, NEW p \in {"sweep", "browser"}, Cleanup(p)
  PROVE  TypeOK'
<1> USE DEF rowVars, tusVars, jobVars, sweepVars, callVars, envVars
<1> DEFINE u == place[p].on
<1>1. CASE CleanupLocal(p)
  <2>1. u \in UploadIds /\ [at |-> "terminated", on |-> u] \in Places
    BY <1>1, PlaceType DEF CleanupLocal
  <2> QED BY <1>1, <2>1 DEF CleanupLocal, Go, TypeOK
<1>2. CASE CleanupTus(p)
  <2>1. PICK i \in Intents :
          \/ Go(p, "terminated", i) /\ UNCHANGED <<rowVars, tusVars>>
          \/ Stop(p) /\ UNCHANGED <<rowVars, tusVars>>
          \/ \E removed \in BOOLEAN :
               /\ TusDelete(i, removed)
               /\ Go(p, "terminated", i) \/ Stop(p)
    BY <1>2 DEF CleanupTus, TusOwners, Owners
  <2>2. place' \in [{"sweep", "browser"} -> Places]
    <3>1. i \in UploadIds
      BY DEF UploadIds
    <3>2. CASE Go(p, "terminated", i)
      BY <3>1, <3>2, PlaceType DEF Go, TypeOK
    <3>3. CASE Stop(p)
      BY <3>3, PlaceType DEF Stop, TypeOK
    <3> QED BY <2>1, <3>2, <3>3
  <2>3. ASSUME NEW removed \in BOOLEAN, TusDelete(i, removed)
        PROVE  TypeOK'
    BY <1>2, <2>2, <2>3, TusDeleteType DEF CleanupTus, TypeOK
  <2> QED BY <1>2, <2>1, <2>2, <2>3 DEF CleanupTus, TypeOK
<1>3. CASE CleanupFails(p)
  BY <1>3, PlaceType DEF CleanupFails, Stop, TypeOK
<1>4. CASE FinishCleanup(p)
  <2>1. \A j \in Intents : Terminated(j) \in Rows
    BY RowType DEF Terminated, UploadState, Rows
  <2>2. row' \in [Intents -> Rows] /\ reserved' \in Nat
    BY <1>4, <2>1, UpdateUploadType DEF FinishCleanup, RecordTerminated, Owners, TypeOK
  <2> QED BY <1>4, <2>2, PlaceType DEF FinishCleanup, Stop, TypeOK
<1> QED BY <1>1, <1>2, <1>3, <1>4 DEF Cleanup

\* The lists the sweep reads hold rows; those to clean have an upload.
LEMMA BeginSweepType ==
  ASSUME TypeOK, BeginSweep
  PROVE  TypeOK'
<1> USE DEF rowVars, tusVars, jobVars, sweepVars, callVars, envVars
<1>1. NoRow \in Rows
  BY DEF NoRow, Rows
<1>2. NoRow.state = "absent"
  BY DEF NoRow
<1>3. CASE BeginPart("idle", "advance", Active)
  BY <1>1, <1>3 DEF BeginPart, TypeOK
<1>4. CASE BeginPart("advance", "recover", Recoverable)
  BY <1>1, <1>4 DEF BeginPart, TypeOK
<1>5. CASE BeginPart("recover", "expire", Expirable)
  BY <1>1, <1>5 DEF BeginPart, TypeOK
<1>6. CASE BeginPart("expire", "cleanup", Cleanable)
  BY <1>1, <1>2, <1>6 DEF BeginPart, Cleanable, TypeOK
<1>7. CASE BeginPart("cleanup", "idle", Nothing)
  BY <1>1, <1>7 DEF BeginPart, TypeOK
<1> QED BY <1>3, <1>4, <1>5, <1>6, <1>7 DEF BeginSweep

\* Taking a row off the list keeps its type.
LEMMA ForgetType ==
  ASSUME TypeOK, NEW i \in Intents, Forget(i), phase' = phase
  PROVE  /\ seen' \in [Intents -> Rows]
         /\ phase' = "cleanup" =>
              \A j \in Intents : seen'[j].state # "absent" => seen'[j].upload # None
<1>1. NoRow \in Rows /\ NoRow.state = "absent"
  BY DEF NoRow, Rows
<1> QED BY <1>1 DEF Forget, TypeOK

\* Every move of unfinished work leads to a place.
LEMMA GoType ==
  ASSUME TypeOK, NEW p \in {"sweep", "browser"}
  PROVE  /\ Stop(p) => place' \in [{"sweep", "browser"} -> Places]
         /\ \A i \in Intents : \A at \in {"submit_import", "submit_index", "expire"} :
              Go(p, at, i) => place' \in [{"sweep", "browser"} -> Places]
         /\ \A u \in UploadIds : \A at \in {"cleanup", "terminated"} :
              Go(p, at, u) => place' \in [{"sweep", "browser"} -> Places]
<1>1. \A x \in Places :
        place' = [place EXCEPT ![p] = x] => place' \in [{"sweep", "browser"} -> Places]
  BY DEF TypeOK
<1> QED BY <1>1, PlaceType DEF Go, Stop

\* The advancing part of the sweep keeps the types.
LEMMA AdvanceType ==
  ASSUME TypeOK, NEW i \in Intents,
         \/ StartImport(i) \/ ResubmitImport(i) \/ RegisterImport(i) \/ FailImport(i)
         \/ StartIndex(i) \/ ResubmitIndex(i) \/ RegisterIndex(i) \/ FailIndex(i)
         \/ Postpone(i)
  PROVE  TypeOK'
<1> USE DEF rowVars, tusVars, jobVars, sweepVars, callVars, envVars
<1>1. CASE StartImport(i)
  <2>1. [row[i] EXCEPT !.state = "processing", !.job = TRUE,
           !.upload = IF seen[i].upload = None THEN i ELSE seen[i].upload] \in Rows
    <3>1. seen[i].upload \in UploadIds \cup {None}
      BY DEF TypeOK, Rows
    <3> QED BY <3>1, RowType DEF Rows, UploadState, UploadIds
  <2>2. row' \in [Intents -> Rows] /\ reserved' \in Nat
    BY <1>1, <2>1, UpdateUploadType DEF StartImport, TypeOK
  <2>3. place' \in [{"sweep", "browser"} -> Places]
    BY <1>1, GoType DEF StartImport, TypeOK
  <2> QED BY <1>1, <2>2, <2>3, ForgetType DEF StartImport, TypeOK
<1>2. CASE ResubmitImport(i)
  <2>1. import' \in [Intents -> {"absent", "queued", "running", "succeeded", "failed"}]
    BY <1>2 DEF ResubmitImport, Enqueue, TypeOK
  <2> QED BY <1>2, <2>1, ForgetType DEF ResubmitImport, TypeOK
<1>3. CASE RegisterImport(i)
  <2>1. [row[i] EXCEPT !.state = "ready", !.media = TRUE] \in Rows
    BY RowType DEF Rows, UploadState
  <2>2. row' \in [Intents -> Rows] /\ reserved' \in Nat
    BY <1>3, <2>1, UpdateIfType DEF RegisterImport
  <2>3. NoRow \in Rows
    BY DEF NoRow, Rows
  <2>4. seen' \in [Intents -> Rows] /\ phase = "advance"
    BY <1>3, <2>2, <2>3 DEF RegisterImport, Takes, TypeOK
  <2> QED BY <1>3, <2>2, <2>4 DEF RegisterImport, TypeOK
<1>4. CASE FailImport(i)
  <2>1. [row[i] EXCEPT !.state = "failed", !.failed = TRUE] \in Rows
    BY RowType DEF Rows, UploadState
  <2>2. row' \in [Intents -> Rows] /\ reserved' \in Nat
    BY <1>4, <2>1, UpdateIfType DEF FailImport, FailImportOf
  <2>3. place' \in [{"sweep", "browser"} -> Places]
    BY <1>4, GoType DEF FailImport, TypeOK
  <2> QED BY <1>4, <2>2, <2>3, ForgetType DEF FailImport, TypeOK
<1>5. CASE StartIndex(i)
  <2>1. [row[i] EXCEPT !.index = i] \in Rows
    BY RowType DEF Rows, IndexJobs
  <2>2. row' \in [Intents -> Rows] /\ reserved' \in Nat
    BY <1>5, <2>1, UpdateUploadType DEF StartIndex, TypeOK
  <2>3. place' \in [{"sweep", "browser"} -> Places]
    BY <1>5, GoType DEF StartIndex, TypeOK
  <2> QED BY <1>5, <2>2, <2>3, ForgetType DEF StartIndex, TypeOK
<1>6. CASE ResubmitIndex(i)
  <2>1. index' \in [IndexJobs -> {"absent", "queued", "succeeded", "failed"}]
    BY <1>6 DEF ResubmitIndex, EnqueueIndex, TypeOK
  <2> QED BY <1>6, <2>1, ForgetType DEF ResubmitIndex, TypeOK
<1>7. CASE RegisterIndex(i)
  <2>1. [row[i] EXCEPT !.state = "indexed"] \in Rows
    BY RowType, StateUpdate DEF UploadState
  <2>2. row' \in [Intents -> Rows] /\ reserved' \in Nat
    BY <1>7, <2>1, UpdateIfType DEF RegisterIndex
  <2> QED BY <1>7, <2>2, ForgetType DEF RegisterIndex, TypeOK
<1>8. CASE FailIndex(i)
  <2>1. [row[i] EXCEPT !.failed = TRUE] \in Rows
    BY RowType DEF Rows
  <2>2. row' \in [Intents -> Rows] /\ reserved' \in Nat
    BY <1>8, <2>1, UpdateIfType DEF FailIndex
  <2>3. place' \in [{"sweep", "browser"} -> Places]
    BY <1>8, GoType DEF FailIndex, TypeOK
  <2> QED BY <1>8, <2>2, <2>3, ForgetType DEF FailIndex, TypeOK
<1>9. CASE Postpone(i)
  <2>1. place' \in [{"sweep", "browser"} -> Places]
    BY <1>9, GoType DEF Postpone, TypeOK
  <2> QED BY <1>9, <2>1, ForgetType DEF Postpone, TypeOK
<1> QED BY <1>1, <1>2, <1>3, <1>4, <1>5, <1>6, <1>7, <1>8, <1>9

\* The recovering, expiring and cleaning parts keep the types.
LEMMA ReclaimType ==
  ASSUME TypeOK, NEW i \in Intents,
         ProbeRecover(i) \/ ProbeFails(i) \/ ExpireTus(i) \/ Expire(i)
           \/ SpareActive(i) \/ CleanItem(i)
  PROVE  TypeOK'
<1> USE DEF rowVars, tusVars, jobVars, sweepVars, callVars, envVars
<1>0. Handed(i) \in UploadIds \cup {None}
  BY RowType DEF Handed, Rows
<1>1. CASE ProbeRecover(i)
  <2>1. [row[i] EXCEPT !.state = "processing", !.job = TRUE] \in Rows
    BY RowType DEF Rows, UploadState
  <2>2. /\ row' \in [Intents -> Rows] /\ reserved' \in Nat
        /\ import' \in [Intents -> {"absent", "queued", "running", "succeeded", "failed"}]
    BY <1>1, <2>1, UpdateUploadType DEF ProbeRecover, CompleteTransfer, TypeOK
  <2>3. probe' \in [Intents -> {"none", "failed", "missing", "present"}]
    BY <1>1 DEF ProbeRecover, TypeOK
  <2> QED BY <1>1, <2>2, <2>3, ForgetType DEF ProbeRecover, TypeOK
<1>2. CASE ProbeFails(i)
  BY <1>2, ForgetType DEF ProbeFails, TypeOK
<1>3. CASE ExpireTus(i)
  <2>1. row' \in [Intents -> Rows] /\ reserved' \in Nat
    BY <1>3, ExpireIntentType DEF ExpireTus, TypeOK
  <2>2. place' \in [{"sweep", "browser"} -> Places]
    BY <1>0, <1>3, GoType DEF ExpireTus, TypeOK
  <2> QED BY <1>3, <2>1, <2>2, ForgetType DEF ExpireTus, TypeOK
<1>4. CASE Expire(i)
  <2>1. row' \in [Intents -> Rows] /\ reserved' \in Nat
    BY <1>4, ExpireIntentType DEF Expire
  <2>2. place' \in [{"sweep", "browser"} -> Places]
    BY <1>0, <1>4, GoType DEF Expire, TypeOK
  <2> QED BY <1>4, <2>1, <2>2, ForgetType DEF Expire, TypeOK
<1>5. CASE SpareActive(i)
  BY <1>5, ForgetType DEF SpareActive, TypeOK
<1>6. CASE CleanItem(i)
  <2>1. seen[i].upload \in UploadIds
    <3>1. seen[i] \in Rows /\ seen[i].upload # None
      BY <1>6 DEF CleanItem, Takes, TypeOK
    <3> QED BY <3>1 DEF Rows
  <2>2. place' \in [{"sweep", "browser"} -> Places]
    BY <1>6, <2>1, GoType DEF CleanItem
  <2> QED BY <1>6, <2>2, ForgetType DEF CleanItem, TypeOK
<1> QED BY <1>1, <1>2, <1>3, <1>4, <1>5, <1>6

\* Every step keeps every variable within its type, and reconcile never meets
\* the row without an upload identifier that it asserts away.
THEOREM TypeCorrect == Spec => []TypeOK
<1> USE DEF rowVars, tusVars, jobVars, sweepVars, callVars, envVars
<1>1. Init => TypeOK
  BY UploadAssumption DEF Init, TypeOK, NoRow, Rows, Idle, Places
<1>2. TypeOK /\ [Next]_vars => TypeOK'
  <2> SUFFICES ASSUME TypeOK, [Next]_vars
               PROVE  TypeOK'
    OBVIOUS
  <2>1. CASE SubmitImport
    <3>1. place["sweep"].on \in Intents /\ place' \in [{"sweep", "browser"} -> Places]
      BY <2>1, PlaceType, GoType DEF SubmitImport
    <3> QED BY <2>1, <3>1 DEF SubmitImport, Enqueue, TypeOK
  <2>2. CASE SubmitIndex
    <3>1. place["sweep"].on \in IndexJobs /\ place' \in [{"sweep", "browser"} -> Places]
      BY <2>2, PlaceType, GoType DEF SubmitIndex, IndexJobs
    <3> QED BY <2>2, <3>1 DEF SubmitIndex, EnqueueIndex, TypeOK
  <2>3. CASE \E i \in Intents : TimePasses(i)
    BY <2>3 DEF TimePasses, TypeOK
  <2>4. CASE Crash
    <3>1. crashes + 1 \in 0 .. MaxCrashes
      BY <2>4, UploadAssumption DEF Crash, TypeOK
    <3>2. NoRow \in Rows /\ NoRow.state = "absent" /\ Idle \in Places
      BY PlaceType DEF NoRow, Rows
    <3> QED BY <2>4, <3>1, <3>2 DEF Crash, TypeOK
  <2>5. CASE UNCHANGED vars
    BY <2>5 DEF vars, TypeOK
  <2> QED
    BY <2>1, <2>2, <2>3, <2>4, <2>5, BeginSweepType, AdvanceType, ReclaimType,
       CleanupType, WorkerType, CallerType, TusType, NativeType DEF Next, Sweep
<1> QED BY <1>1, <1>2, PTL DEF Spec

-----------------------------------------------------------------------------
(* What a step does to a row and to the import job behind it.              *)

RowStep(i) ==
  LET r == row[i] IN
  \/ row'[i] = r
  \/ /\ r.state = "absent"
     /\ \/ \E s \in Nat : row'[i] = [NoRow EXCEPT !.state = "pending", !.size = s]
        \/ row'[i] = [NoRow EXCEPT !.state = "failed", !.failed = TRUE]
  \/ /\ r.state = "pending"
     /\ \E u \in UploadIds : row'[i] = [r EXCEPT !.state = "accepted", !.upload = u]
  \/ /\ r.state \in {"pending", "accepted"}
     /\ \E u \in UploadIds :
          row'[i] = [r EXCEPT !.state = "processing", !.job = TRUE, !.upload = u]
  \/ /\ r.state = "processing" /\ import[i] = "succeeded"
     /\ row'[i] = [r EXCEPT !.state = "ready", !.media = TRUE]
  \/ /\ r.state = "processing"
     /\ row'[i] = [r EXCEPT !.state = "failed", !.failed = TRUE]
  \/ /\ r.state \in {"pending", "accepted", "failed", "expired"}
     /\ \E u \in UploadIds \cup {None} :
          row'[i] = [r EXCEPT !.state = "expired", !.upload = u]
  \/ /\ r.state \in {"ready", "indexed"}
     /\ row'[i] = [r EXCEPT !.upload = None]
  \/ /\ r.state = "ready" /\ i \in IndexAfter
     /\ \E j \in IndexJobs, f \in BOOLEAN : row'[i] = [r EXCEPT !.index = j, !.failed = f]
  \/ /\ r.state = "ready"
     /\ row'[i] = [r EXCEPT !.failed = TRUE]
  \/ /\ r.state = "ready" /\ r.index # None /\ index[r.index] = "succeeded"
     /\ row'[i] = [r EXCEPT !.state = "indexed"]

WorkStep(i) ==
  \/ import'[i] = import[i]
  \/ import[i] = "absent" /\ import'[i] = "queued" /\ row'[i].job
  \/ import[i] = "queued" /\ import'[i] \in {"running", "failed"}
  \/ import[i] = "running" /\ import'[i] \in {"queued", "succeeded", "failed"}

\* One upload at a time moves on, and its row and its import change together
\* only in the transaction that commits a finished transfer.
StepShape ==
  /\ \A i \in Intents : RowStep(i) /\ WorkStep(i)
  /\ \E i : \A j \in Intents : j # i => /\ row'[j].state = row[j].state
                                       /\ import'[j] = import[j]
  /\ \A i \in Intents : \/ row'[i].state = row[i].state
                        \/ import'[i] = import[i]
                        \/ row'[i].state = "processing"

\* update_upload changes one row.
LEMMA OneRow ==
  ASSUME TypeOK, NEW i \in Intents, NEW r, UpdateUpload(i, r)
  PROVE  /\ row'[i] = r
         /\ \A j \in Intents : j # i => row'[j] = row[j]
BY DEF TypeOK, UpdateUpload

\* A compare-and-set changes one row, or none.
LEMMA OneRowIf ==
  ASSUME TypeOK, NEW i \in Intents, NEW r, NEW e, UpdateIf(e, i, r)
  PROVE  /\ (row'[i] = r /\ e) \/ row'[i] = row[i]
         /\ \A j \in Intents : j # i => row'[j] = row[j]
BY OneRow DEF UpdateIf, rowVars

\* A row or an import left alone is a step of it.
LEMMA SameRow ==
  ASSUME NEW i \in Intents
  PROVE  /\ row'[i] = row[i] => RowStep(i)
         /\ import'[i] = import[i] => WorkStep(i)
BY DEF RowStep, WorkStep

\* A step of one row.
LEMMA RowShape ==
  ASSUME TypeOK, NEW i \in Intents, RowStep(i), import' = import,
         \A j \in Intents : j # i => row'[j] = row[j]
  PROVE  StepShape
<1>1. \A j \in Intents : RowStep(j) /\ WorkStep(j)
  BY SameRow
<1> QED BY <1>1 DEF StepShape

\* A step of one import.
LEMMA WorkShape ==
  ASSUME TypeOK, row' = row, NEW i, i \in Intents => WorkStep(i),
         \A j \in Intents : j # i => import'[j] = import[j]
  PROVE  StepShape
<1>1. \A j \in Intents : RowStep(j) /\ WorkStep(j)
  BY SameRow
<1> QED BY <1>1 DEF StepShape

\* A step that leaves rows and imports alone.
LEMMA SameShape ==
  ASSUME TypeOK, row' = row, import' = import
  PROVE  StepShape
BY WorkShape DEF WorkStep

\* A transfer is completed: the row is linked and its import queued.
LEMMA CompleteShape ==
  ASSUME TypeOK, ImportLinked, NEW i \in Intents, CanComplete(i), CompleteTransfer(i)
  PROVE  StepShape
<1> DEFINE r == [row[i] EXCEPT !.state = "processing", !.job = TRUE]
<1>0. row[i] \in Rows /\ row[i].state = "accepted" /\ row[i].upload = i /\ import[i] = "absent"
  BY RowType DEF CanComplete, ImportLinked
<1>1. /\ row'[i] = r
      /\ \A j \in Intents : j # i => row'[j] = row[j]
  BY OneRow DEF CompleteTransfer
<1>2. r = [row[i] EXCEPT !.state = "processing", !.job = TRUE, !.upload = i]
  BY <1>0 DEF Rows
<1>3. RowStep(i)
  <2>1. row'[i] = [row[i] EXCEPT !.state = "processing", !.job = TRUE, !.upload = i]
    BY <1>1, <1>2
  <2>2. i \in UploadIds
    BY DEF UploadIds
  <2>3. \E u \in UploadIds : row'[i] = [row[i] EXCEPT !.state = "processing", !.job = TRUE, !.upload = u]
    BY <2>1, <2>2
  <2>4. row[i].state \in {"pending", "accepted"}
    BY <1>0
  <2> HIDE DEF r
  <2>5. QED BY <2>3, <2>4, Zenon DEF RowStep
<1>4. r.job /\ r.state = "processing"
  BY <1>0 DEF Rows
<1>5. import'[i] = "queued" /\ \A j \in Intents : j # i => import'[j] = import[j]
  BY DEF CompleteTransfer, TypeOK
<1>6. WorkStep(i)
  BY <1>0, <1>1, <1>4, <1>5 DEF WorkStep
<1>7. \A j \in Intents : RowStep(j) /\ WorkStep(j)
  BY <1>1, <1>3, <1>5, <1>6, SameRow
<1> QED BY <1>1, <1>4, <1>5, <1>7 DEF StepShape

\* Rows that expire, are terminated, or are terminated by tusd.
LEMMA ExpireShape ==
  ASSUME TypeOK, NEW i \in Intents, NEW c, ExpireIntent(i, c), import' = import
  PROVE  StepShape
<1>1. row[i].upload \in UploadIds \cup {None}
  BY RowType DEF Rows
<1> DEFINE u == IF c THEN None ELSE row[i].upload
           e == row[i].state \in {"pending", "accepted", "failed"}
           r == [row[i] EXCEPT !.state = "expired", !.upload = u]
<1>2. UpdateIf(e, i, r)
  BY DEF ExpireIntent
<1>3. /\ (row'[i] = r /\ e) \/ row'[i] = row[i]
      /\ \A j \in Intents : j # i => row'[j] = row[j]
  BY <1>2, OneRowIf
<1>4. e /\ row'[i] = r => RowStep(i)
  BY <1>1 DEF RowStep
<1> QED BY <1>3, <1>4, SameRow, RowShape

\* record_terminated clears identifiers and expires; it spares media.
LEMMA TerminatedShape ==
  ASSUME TypeOK, RowsInv, NEW u \in UploadIds, RecordTerminated(u), import' = import
  PROVE  StepShape
<1>1. CASE row' = row
  BY <1>1, SameShape
<1>2. ASSUME NEW i \in Owners(u), row[i].state # "processing", UpdateUpload(i, Terminated(i))
      PROVE  StepShape
  <2>1. i \in Intents /\ row[i] \in Rows /\ row[i].upload = u /\ u # None
    BY <1>2, RowType, UploadAssumption DEF Owners, UploadIds
  <2>2. row[i].state # "absent"
    BY <2>1 DEF RowsInv, NoRow
  <2>3. CASE row[i].state \in {"ready", "indexed"}
    <3>1. Terminated(i) = [row[i] EXCEPT !.upload = None]
      BY <2>1, <2>3 DEF Terminated, Rows
    <3> QED BY <1>2, <2>1, <2>3, <3>1, OneRow, RowShape DEF RowStep
  <2>4. CASE row[i].state \in {"pending", "accepted", "failed", "expired"}
    <3>1. Terminated(i) = [row[i] EXCEPT !.state = "expired", !.upload = None]
      BY <2>1, <2>4 DEF Terminated
    <3>2. row'[i] = Terminated(i) /\ \A j \in Intents : j # i => row'[j] = row[j]
      BY <1>2, <2>1, OneRow
    <3>3. RowStep(i)
      BY <2>4, <3>1, <3>2 DEF RowStep
    <3> QED BY <2>1, <3>2, <3>3, RowShape
  <2> QED BY <1>2, <2>1, <2>2, <2>3, <2>4 DEF Rows, UploadState
<1> QED BY <1>1, <1>2 DEF RecordTerminated, rowVars

\* A deletion by tusd expires what was accepted or failed.
LEMMA DeleteShape ==
  ASSUME TypeOK, NEW i \in Intents, NEW removed, TusDelete(i, removed), import' = import
  PROVE  StepShape
<1>1. row[i] \in Rows
  BY RowType
<1>2. CASE row[i].state \in {"accepted", "failed"}
  <2>1. Terminating(i) = [row[i] EXCEPT !.state = "expired", !.upload = row[i].upload]
    BY <1>1, <1>2 DEF Terminating, Rows
  <2>2. row[i].upload \in UploadIds \cup {None}
    BY <1>1 DEF Rows
  <2>3. row'[i] = Terminating(i) /\ \A j \in Intents : j # i => row'[j] = row[j]
    BY OneRow DEF TusDelete
  <2>4. RowStep(i)
    BY <1>2, <2>1, <2>2, <2>3 DEF RowStep
  <2> QED BY <2>3, <2>4, RowShape
<1>3. CASE row[i].state \notin {"accepted", "failed"}
  BY <1>3, OneRow, RowShape DEF RowStep, TusDelete, Terminating
<1> QED BY <1>2, <1>3

\* Steps of the hooks and of tusd.
LEMMA TusShape ==
  ASSUME IInv, TimelyCreation, NEW i \in Intents, Tus(i)
  PROVE  StepShape
<1> USE DEF rowVars, tusVars, jobVars, sweepVars, callVars, envVars
<1>0. TypeOK /\ RowsInv /\ ImportLinked /\ row[i] \in Rows
  BY RowType DEF IInv
<1>1. CASE ExpireCreation(i)
  <2> DEFINE r == [row[i] EXCEPT !.state = "expired"]
  <2>1. r = [row[i] EXCEPT !.state = "expired", !.upload = row[i].upload]
          /\ row[i].upload \in UploadIds \cup {None}
    BY <1>0 DEF Rows
  <2>2. row'[i] = r /\ \A j \in Intents : j # i => row'[j] = row[j]
    BY <1>0, <1>1, OneRow DEF ExpireCreation
  <2>3. RowStep(i)
    BY <1>1, <2>1, <2>2 DEF RowStep, ExpireCreation, TimelyCreation
  <2> QED BY <1>0, <1>1, <2>2, <2>3, RowShape DEF ExpireCreation
<1>2. CASE AcceptCreation(i)
  <2>1. /\ row'[i] = [row[i] EXCEPT !.state = "accepted", !.upload = i]
        /\ \A j \in Intents : j # i => row'[j] = row[j]
    BY <1>0, <1>2, OneRow DEF AcceptCreation
  <2>2. RowStep(i)
    BY <1>2, <2>1 DEF RowStep, AcceptCreation, UploadIds
  <2> QED BY <1>0, <1>2, <2>1, <2>2, RowShape DEF AcceptCreation
<1>3. CASE ReplayCreation(i) \/ TusCreate(i) \/ TusForget(i) \/ TusFinish(i)
  BY <1>0, <1>3, SameShape DEF ReplayCreation, TusCreate, TusForget, TusFinish
<1>4. CASE PostFinish(i)
  BY <1>0, <1>4, CompleteShape DEF PostFinish
<1>5. CASE ClientTerminate(i)
  BY <1>0, <1>5, DeleteShape DEF ClientTerminate
<1>6. CASE PostTerminate(i)
  BY <1>0, <1>6, TerminatedShape DEF PostTerminate, UploadIds
<1> QED BY <1>1, <1>2, <1>3, <1>4, <1>5, <1>6 DEF Tus

\* Steps of native multipart bodies.
LEMMA NativeShape ==
  ASSUME IInv, NEW i \in Intents, Native(i)
  PROVE  StepShape
<1> USE DEF rowVars, tusVars, jobVars, sweepVars, callVars, envVars
<1>0. TypeOK
  BY DEF IInv
<1>1. PICK a \in Attempts :
        Stage(a, i) \/ Claim(a, i) \/ RefuseClaim(a, i) \/ LoseClaim(a, i)
  BY DEF Native
<1>2. CASE row' = row
  BY <1>0, <1>1, <1>2, SameShape DEF Stage, Claim, RefuseClaim, LoseClaim
<1>3. CASE /\ row[i].state = "pending" /\ import' = import
           /\ UpdateUpload(i, [row[i] EXCEPT !.state = "accepted", !.upload = a])
  <2>1. /\ row'[i] = [row[i] EXCEPT !.state = "accepted", !.upload = a]
        /\ \A j \in Intents : j # i => row'[j] = row[j]
    BY <1>0, <1>3, OneRow
  <2>2. RowStep(i)
    BY <1>3, <2>1 DEF RowStep, UploadIds
  <2> QED BY <1>0, <1>3, <2>1, <2>2, RowShape
<1> QED BY <1>1, <1>2, <1>3 DEF Stage, Claim, RefuseClaim, LoseClaim

\* Steps of the job worker.
LEMMA WorkerShape ==
  ASSUME IInv, Worker
  PROVE  StepShape
<1> USE DEF rowVars, tusVars, jobVars, sweepVars, callVars, envVars
<1>0. TypeOK
  BY DEF IInv
<1>1. ASSUME NEW i \in Intents, BeginImport(i) \/ FinishImport(i) \/ WorkerCrash(i)
      PROVE  StepShape
  <2>1. row' = row /\ WorkStep(i) /\ \A j \in Intents : j # i => import'[j] = import[j]
    BY <1>0, <1>1 DEF BeginImport, FinishImport, WorkerCrash, WorkStep, TypeOK
  <2> QED BY <1>0, <2>1, WorkShape
<1>2. CASE \E j \in IndexJobs : FinishIndex(j)
  BY <1>0, <1>2, SameShape DEF FinishIndex
<1> QED BY <1>1, <1>2 DEF Worker

\* Relinking changes several rows at once, none of them in state.
LEMMA RelinkShape ==
  ASSUME TypeOK, import' = import,
         \A i \in Intents : RowStep(i) /\ row'[i].state = row[i].state
  PROVE  StepShape
BY SameRow DEF StepShape

\* Creation, cancellation and indexing retries.
LEMMA CallerShape ==
  ASSUME IInv, Caller
  PROVE  StepShape
<1> USE DEF rowVars, tusVars, jobVars, sweepVars, callVars, envVars
<1>0. TypeOK
  BY DEF IInv
<1>1. ASSUME NEW i \in Intents, CreateIntent(i) \/ CreateLocalIngestion(i)
      PROVE  StepShape
  <2>0. /\ row[i].state = "absent" /\ SizeOf[i] \in Nat
        /\ \/ row'[i] = [NoRow EXCEPT !.state = "pending", !.size = SizeOf[i]]
           \/ row'[i] = [NoRow EXCEPT !.state = "failed", !.failed = TRUE]
    BY <1>0, <1>1, UploadAssumption DEF CreateIntent, CreateLocalIngestion, TypeOK
  <2>1. RowStep(i)
    BY <2>0 DEF RowStep
  <2>2. \A j \in Intents : j # i => row'[j] = row[j]
    BY <1>0, <1>1 DEF CreateIntent, CreateLocalIngestion, TypeOK
  <2> QED BY <1>0, <1>1, <2>1, <2>2, RowShape DEF CreateIntent, CreateLocalIngestion
<1>2. CASE \E i \in Intents : RequestCancel(i)
  BY <1>0, <1>2, SameShape DEF RequestCancel
<1>3. CASE CancelPending
  BY <1>0, <1>3, PlaceType, ExpireShape DEF CancelPending
<1>4. ASSUME NEW m \in Media, NEW r \in Retries, Relink(m, r)
      PROVE  StepShape
  <2>1. ASSUME NEW i \in Intents
        PROVE  RowStep(i) /\ row'[i].state = row[i].state
    <3>1. CASE i \in FailedIndexes(m)
      <4>1. row'[i] = [row[i] EXCEPT !.index = r, !.failed = FALSE]
        BY <1>4, <3>1 DEF Relink
      <4>2. row[i].state = "ready" /\ i \in IndexAfter /\ r \in IndexJobs
        BY <3>1 DEF FailedIndexes, IndexJobs
      <4>3. RowStep(i)
        BY <4>1, <4>2 DEF RowStep
      <4> QED BY <4>1, <4>3, <1>0, RowType DEF Rows
    <3>2. CASE i \notin FailedIndexes(m)
      BY <1>4, <3>2, SameRow DEF Relink
    <3> QED BY <3>1, <3>2
  <2> QED BY <1>0, <1>4, <2>1, RelinkShape DEF Relink
<1>5. CASE SubmitRetry
  BY <1>0, <1>5, SameShape DEF SubmitRetry
<1>6. CASE RefuseRetry
  <2>1. ASSUME NEW i \in Intents
        PROVE  RowStep(i) /\ row'[i].state = row[i].state
    <3>1. \/ row'[i] = row[i]
          \/ row'[i] = [row[i] EXCEPT !.failed = TRUE] /\ row[i].state = "ready"
      BY <1>6 DEF RefuseRetry, Awaits
    <3>2. RowStep(i)
      BY <3>1 DEF RowStep
    <3> QED BY <3>1, <3>2, <1>0, RowType DEF Rows
  <2> QED BY <1>0, <1>6, <2>1, RelinkShape DEF RefuseRetry
<1> QED BY <1>1, <1>2, <1>3, <1>4, <1>5, <1>6 DEF Caller

\* Steps of _cleanup_upload.
LEMMA CleanupShape ==
  ASSUME IInv, NEW p \in {"sweep", "browser"}, Cleanup(p)
  PROVE  StepShape
<1> USE DEF rowVars, tusVars, jobVars, sweepVars, callVars, envVars
<1>0. TypeOK /\ RowsInv
  BY DEF IInv
<1>1. CASE CleanupLocal(p) \/ CleanupFails(p)
  BY <1>0, <1>1, SameShape DEF CleanupLocal, CleanupFails
<1>2. CASE CleanupTus(p)
  <2>1. CASE UNCHANGED rowVars
    BY <1>0, <1>2, <2>1, SameShape DEF CleanupTus
  <2>2. ASSUME NEW i \in Intents, NEW removed \in BOOLEAN, TusDelete(i, removed)
        PROVE  StepShape
    BY <1>0, <1>2, <2>2, DeleteShape DEF CleanupTus
  <2> QED BY <1>2, <2>1, <2>2 DEF CleanupTus, TusOwners, Owners
<1>3. CASE FinishCleanup(p)
  BY <1>0, <1>3, PlaceType, TerminatedShape DEF FinishCleanup
<1> QED BY <1>1, <1>2, <1>3 DEF Cleanup

\* Steps of the advancing part of the sweep.
LEMMA AdvanceShape ==
  ASSUME IInv, NEW i \in Intents,
         \/ StartImport(i) \/ ResubmitImport(i) \/ RegisterImport(i) \/ FailImport(i)
         \/ StartIndex(i) \/ ResubmitIndex(i) \/ RegisterIndex(i) \/ FailIndex(i)
         \/ Postpone(i)
  PROVE  StepShape
<1> USE DEF rowVars, tusVars, jobVars, sweepVars, callVars, envVars
<1>0. TypeOK /\ RowsInv /\ SeenInv /\ row[i] \in Rows /\ seen[i] \in Rows
  BY RowType DEF IInv, TypeOK
<1>1. CASE StartImport(i)
  <2> DEFINE u == IF seen[i].upload = None THEN i ELSE seen[i].upload
             r == [row[i] EXCEPT !.state = "processing", !.job = TRUE, !.upload = u]
  <2>1. u \in UploadIds
    BY <1>0 DEF Rows, UploadIds
  <2>2. CASE row[i].state = seen[i].state /\ ~row[i].job
    <3>0. UpdateUpload(i, r)
      BY <1>1, <2>2 DEF StartImport
    <3>1. row'[i] = r /\ \A j \in Intents : j # i => row'[j] = row[j]
      BY <1>0, <3>0, OneRow
    <3>2. RowStep(i)
      BY <1>1, <2>1, <2>2, <3>1 DEF RowStep, StartImport, Takes
    <3> QED BY <1>0, <1>1, <3>1, <3>2, RowShape DEF StartImport
  <2>3. CASE ~(row[i].state = seen[i].state /\ ~row[i].job)
    BY <1>0, <1>1, <2>3, SameShape DEF StartImport
  <2> QED BY <2>2, <2>3
<1>2. CASE ResubmitImport(i)
  <2>1. row[i].job
    BY <1>0, <1>2 DEF ResubmitImport, Takes, SeenInv
  <2>2. row' = row /\ WorkStep(i) /\ \A j \in Intents : j # i => import'[j] = import[j]
    BY <1>0, <1>2, <2>1 DEF ResubmitImport, Enqueue, WorkStep, TypeOK
  <2> QED BY <1>0, <2>2, WorkShape
<1>3. CASE RegisterImport(i)
  <2>1. /\ (row'[i] = [row[i] EXCEPT !.state = "ready", !.media = TRUE] /\ Importing(i))
             \/ row'[i] = row[i]
        /\ \A j \in Intents : j # i => row'[j] = row[j]
    BY <1>0, <1>3, OneRowIf DEF RegisterImport
  <2>2. RowStep(i)
    BY <1>3, <2>1 DEF RowStep, RegisterImport, Importing
  <2> QED BY <1>0, <1>3, <2>1, <2>2, RowShape DEF RegisterImport
<1>4. CASE FailImport(i)
  <2>1. /\ (row'[i] = [row[i] EXCEPT !.state = "failed", !.failed = TRUE] /\ Importing(i))
             \/ row'[i] = row[i]
        /\ \A j \in Intents : j # i => row'[j] = row[j]
    BY <1>0, <1>4, OneRowIf DEF FailImport, FailImportOf
  <2>2. RowStep(i)
    BY <2>1 DEF RowStep, Importing
  <2> QED BY <1>0, <1>4, <2>1, <2>2, RowShape DEF FailImport
<1>5. CASE StartIndex(i)
  <2>1. CASE row[i].state = "ready" /\ row[i].index = None
    <3>1. /\ row'[i] = [row[i] EXCEPT !.index = i]
          /\ \A j \in Intents : j # i => row'[j] = row[j]
      BY <1>0, <1>5, <2>1, OneRow DEF StartIndex
    <3>2. row'[i] = [row[i] EXCEPT !.index = i, !.failed = row[i].failed]
            /\ row[i].failed \in BOOLEAN /\ i \in IndexJobs
      BY <1>0, <3>1 DEF Rows, IndexJobs
    <3>3. i \in IndexAfter
      BY <1>0, <1>5 DEF StartIndex, Takes, SeenInv
    <3>4. RowStep(i)
      BY <2>1, <3>2, <3>3 DEF RowStep
    <3> QED BY <1>0, <1>5, <3>1, <3>4, RowShape DEF StartIndex
  <2>2. CASE ~(row[i].state = "ready" /\ row[i].index = None)
    BY <1>0, <1>5, <2>2, SameShape DEF StartIndex
  <2> QED BY <2>1, <2>2
<1>6. CASE ResubmitIndex(i) \/ Postpone(i)
  BY <1>0, <1>6, SameShape DEF ResubmitIndex, Postpone
<1>7. CASE RegisterIndex(i)
  <2>1. /\ \/ row'[i] = row[i]
           \/ /\ row'[i] = [row[i] EXCEPT !.state = "indexed"]
              /\ Awaits(i, seen[i].index)
        /\ \A j \in Intents : j # i => row'[j] = row[j]
    BY <1>0, <1>7, OneRowIf DEF RegisterIndex
  <2>2. Awaits(i, seen[i].index) =>
          row[i].state = "ready" /\ row[i].index # None /\ index[row[i].index] = "succeeded"
    BY <1>7 DEF RegisterIndex, Awaits
  <2>3. RowStep(i)
    BY <2>1, <2>2 DEF RowStep
  <2> QED BY <1>0, <1>7, <2>1, <2>3, RowShape DEF RegisterIndex
<1>8. CASE FailIndex(i)
  <2>1. PICK j : UpdateIf(Awaits(i, j), i, [row[i] EXCEPT !.failed = TRUE])
    BY <1>8 DEF FailIndex
  <2>2. /\ \/ row'[i] = row[i]
           \/ row'[i] = [row[i] EXCEPT !.failed = TRUE] /\ Awaits(i, j)
        /\ \A k \in Intents : k # i => row'[k] = row[k]
    BY <1>0, <2>1, OneRowIf
  <2>3. RowStep(i)
    BY <2>2 DEF RowStep, Awaits
  <2> QED BY <1>0, <1>8, <2>2, <2>3, RowShape DEF FailIndex
<1> QED BY <1>1, <1>2, <1>3, <1>4, <1>5, <1>6, <1>7, <1>8

\* Steps of the recovering, expiring and cleaning parts.
LEMMA ReclaimShape ==
  ASSUME IInv, NEW i \in Intents,
         ProbeRecover(i) \/ ProbeFails(i) \/ ExpireTus(i) \/ Expire(i)
           \/ SpareActive(i) \/ CleanItem(i)
  PROVE  StepShape
<1> USE DEF rowVars, tusVars, jobVars, sweepVars, callVars, envVars
<1>0. TypeOK /\ ImportLinked
  BY DEF IInv
<1>1. CASE ProbeRecover(i)
  BY <1>0, <1>1, CompleteShape, SameShape DEF ProbeRecover
<1>2. CASE ProbeFails(i) \/ SpareActive(i) \/ CleanItem(i)
  BY <1>0, <1>2, SameShape DEF ProbeFails, SpareActive, CleanItem
<1>3. CASE ExpireTus(i)
  BY <1>0, <1>3, ExpireShape, SameShape DEF ExpireTus
<1>4. CASE Expire(i)
  BY <1>0, <1>4, ExpireShape DEF Expire
<1> QED BY <1>1, <1>2, <1>3, <1>4

\* Every step.
LEMMA NextShape ==
  ASSUME IInv, TimelyCreation, [Next]_vars
  PROVE  StepShape
<1> USE DEF rowVars, tusVars, jobVars, sweepVars, callVars, envVars
<1>0. TypeOK /\ PlaceInv
  BY DEF IInv
<1>1. CASE BeginSweep
  BY <1>0, <1>1, SameShape DEF BeginSweep, BeginPart
<1>2. CASE SubmitImport
  <2> DEFINE i == place["sweep"].on
  <2>1. i \in Intents /\ row[i].job
    BY <1>0, <1>2, PlaceType DEF SubmitImport, PlaceInv
  <2>2. row' = row /\ WorkStep(i) /\ \A j \in Intents : j # i => import'[j] = import[j]
    BY <1>0, <1>2, <2>1 DEF SubmitImport, Enqueue, WorkStep, TypeOK
  <2> QED BY <1>0, <2>2, WorkShape
<1>3. CASE SubmitIndex \/ Crash \/ \E i \in Intents : TimePasses(i)
  BY <1>0, <1>3, SameShape DEF SubmitIndex, Crash, TimePasses
<1>4. CASE UNCHANGED vars
  BY <1>0, <1>4, SameShape DEF vars
<1> QED
  BY <1>1, <1>2, <1>3, <1>4, AdvanceShape, ReclaimShape, CleanupShape, WorkerShape,
     CallerShape, TusShape, NativeShape DEF Next, Sweep

-----------------------------------------------------------------------------
(* The invariant is kept.                                                  *)

\* No step writes a row the catalog cannot read.
LEMMA RowsKept ==
  ASSUME IInv, StepShape
  PROVE  RowsInv'
<1> SUFFICES ASSUME NEW i \in Intents
             PROVE  /\ row'[i].state = "absent" => row'[i] = NoRow
                    /\ RowValid(i)'
                    /\ row'[i].media => row'[i].state \in {"ready", "indexed"}
  BY DEF RowsInv
<1> DEFINE r == row[i]
<1>1. /\ r \in Rows /\ RowStep(i)
      /\ r.state = "absent" => r = NoRow
      /\ RowValid(i)
      /\ r.media => r.state \in {"ready", "indexed"}
  BY RowType DEF IInv, RowsInv, StepShape
<1>2. None \notin UploadIds
  BY UploadAssumption DEF UploadIds
<1>3. CASE row'[i] = r
  BY <1>1, <1>3 DEF RowValid
<1>4. CASE /\ r.state = "absent"
           /\ \/ \E s \in Nat : row'[i] = [NoRow EXCEPT !.state = "pending", !.size = s]
              \/ row'[i] = [NoRow EXCEPT !.state = "failed", !.failed = TRUE]
  BY <1>4 DEF RowValid, NoRow
<1>5. CASE /\ r.state = "pending"
           /\ \E u \in UploadIds : row'[i] = [r EXCEPT !.state = "accepted", !.upload = u]
  BY <1>1, <1>2, <1>5 DEF RowValid, Rows
<1>6. CASE /\ r.state \in {"pending", "accepted"}
           /\ \E u \in UploadIds :
                row'[i] = [r EXCEPT !.state = "processing", !.job = TRUE, !.upload = u]
  BY <1>1, <1>2, <1>6 DEF RowValid, Rows
<1>7. CASE /\ r.state = "processing"
           /\ row'[i] = [r EXCEPT !.state = "ready", !.media = TRUE]
  BY <1>1, <1>7 DEF RowValid, Rows
<1>8. CASE /\ r.state = "processing"
           /\ row'[i] = [r EXCEPT !.state = "failed", !.failed = TRUE]
  BY <1>1, <1>8 DEF RowValid, Rows
<1>9. CASE /\ r.state \in {"pending", "accepted", "failed", "expired"}
           /\ \E u \in UploadIds \cup {None} :
                row'[i] = [r EXCEPT !.state = "expired", !.upload = u]
  BY <1>1, <1>9 DEF RowValid, Rows
<1>10. CASE r.state \in {"ready", "indexed"} /\ row'[i] = [r EXCEPT !.upload = None]
  BY <1>1, <1>10 DEF RowValid, Rows
<1>11. CASE /\ r.state = "ready" /\ i \in IndexAfter
            /\ \E j \in IndexJobs, f \in BOOLEAN :
                 row'[i] = [r EXCEPT !.index = j, !.failed = f]
  BY <1>1, <1>11 DEF RowValid, Rows
<1>12. CASE r.state = "ready" /\ row'[i] = [r EXCEPT !.failed = TRUE]
  BY <1>1, <1>12 DEF RowValid, Rows
<1>13. CASE r.state = "ready" /\ row'[i] = [r EXCEPT !.state = "indexed"]
  BY <1>1, <1>13 DEF RowValid, Rows
<1> QED
  BY <1>1, <1>3, <1>4, <1>5, <1>6, <1>7, <1>8, <1>9, <1>10, <1>11, <1>12, <1>13
  DEF RowStep

\* A link to an import job is never lost.
LEMMA JobStays ==
  ASSUME IInv, StepShape, NEW i \in Intents, row[i].job
  PROVE  row'[i].job
<1>1. row[i] \in Rows /\ RowStep(i) /\ row[i].state # "absent"
  BY RowType DEF IInv, RowsInv, StepShape, NoRow
<1> QED BY <1>1 DEF RowStep, Rows

\* No step leaves an import without a row that links it.
LEMMA ImportLinkedKept ==
  ASSUME IInv, StepShape
  PROVE  ImportLinked'
<1> SUFFICES ASSUME NEW i \in Intents
             PROVE  /\ import'[i] # "absent" => row'[i].job
                    /\ row'[i].media => import'[i] = "succeeded"
  BY DEF ImportLinked
<1>1. /\ row[i] \in Rows /\ RowStep(i) /\ WorkStep(i)
      /\ import[i] # "absent" => row[i].job
      /\ row[i].media => import[i] = "succeeded"
  BY RowType DEF IInv, StepShape, ImportLinked
<1>2. import'[i] # "absent" => row'[i].job
  BY <1>1, JobStays DEF WorkStep
<1>3. row'[i].media => row[i].media \/ import[i] = "succeeded"
  BY <1>1 DEF RowStep, Rows, NoRow
<1>4. import[i] = "succeeded" => import'[i] = "succeeded"
  BY <1>1 DEF WorkStep
<1> QED BY <1>1, <1>2, <1>3, <1>4

\* An index job that succeeded stays so.
LEMMA IndexStays ==
  ASSUME TypeOK, [Next]_vars, NEW j \in IndexJobs, index[j] = "succeeded"
  PROVE  index'[j] = "succeeded"
<1> USE DEF rowVars, tusVars, jobVars, sweepVars, callVars, envVars
<1>1. ASSUME NEW k, EnqueueIndex(k)
      PROVE  index'[j] = "succeeded"
  BY <1>1 DEF EnqueueIndex, TypeOK
<1>2. CASE UNCHANGED index
  BY <1>2
<1>3. CASE \E k \in IndexJobs : FinishIndex(k)
  BY <1>3 DEF FinishIndex, TypeOK
<1>4. CASE Sweep
  BY <1>1, <1>2, <1>4
  DEF Sweep, BeginSweep, BeginPart, SubmitImport, SubmitIndex, StartImport, ResubmitImport,
      RegisterImport, FailImport, StartIndex, ResubmitIndex, RegisterIndex, FailIndex,
      Postpone, ProbeRecover, ProbeFails, ExpireTus, Expire, SpareActive, CleanItem
<1>5. CASE Caller
  BY <1>1, <1>2, <1>5
  DEF Caller, CreateIntent, CreateLocalIngestion, RequestCancel, CancelPending, Relink,
      SubmitRetry, RefuseRetry
<1>6. CASE \E p \in {"sweep", "browser"} : Cleanup(p)
  BY <1>2, <1>6 DEF Cleanup, CleanupLocal, CleanupTus, CleanupFails, FinishCleanup
<1>7. CASE \E i \in Intents : BeginImport(i) \/ FinishImport(i) \/ WorkerCrash(i)
  BY <1>2, <1>7 DEF BeginImport, FinishImport, WorkerCrash
<1>8. CASE \E i \in Intents : Tus(i)
  BY <1>2, <1>8
  DEF Tus, ExpireCreation, AcceptCreation, ReplayCreation, TusCreate, TusForget,
      TusFinish, PostFinish, ClientTerminate, PostTerminate
<1>9. CASE \E i \in Intents : Native(i) \/ TimePasses(i)
  BY <1>2, <1>9 DEF Native, Stage, Claim, RefuseClaim, LoseClaim, TimePasses
<1>10. CASE Crash \/ UNCHANGED vars
  BY <1>2, <1>10 DEF Crash, vars
<1> QED
  BY <1>3, <1>4, <1>5, <1>6, <1>7, <1>8, <1>9, <1>10 DEF Next, Worker

\* No step shows an upload as indexed before its job succeeded.
LEMMA IndexedKept ==
  ASSUME IInv, StepShape, [Next]_vars
  PROVE  IndexedTruthful'
<1> SUFFICES ASSUME NEW i \in Intents, row'[i].state = "indexed"
             PROVE  row'[i].index # None /\ index'[row'[i].index] = "succeeded"
  BY DEF IndexedTruthful
<1>1. /\ TypeOK /\ row[i] \in Rows /\ RowStep(i)
      /\ row[i].state = "indexed" =>
           row[i].index # None /\ index[row[i].index] = "succeeded"
  BY RowType DEF IInv, StepShape, IndexedTruthful
<1>2. row'[i].index = row[i].index /\ row[i].index # None /\ index[row[i].index] = "succeeded"
  BY <1>1 DEF RowStep, Rows, NoRow
<1>3. row[i].index \in IndexJobs
  BY <1>1, <1>2 DEF Rows
<1> QED BY <1>1, <1>2, <1>3, IndexStays

\* During advancement, what the sweep saw is forgotten or becomes a ready row
\* to index.
LEMMA SeenStep ==
  ASSUME TypeOK, [Next]_vars, phase' = "advance"
  PROVE  \/ BeginPart("idle", "advance", Active)
         \/ /\ phase = "advance"
            /\ \A j \in Intents : \/ seen'[j] = seen[j] \/ seen'[j] = NoRow
                                  \/ seen'[j].state = "ready" /\ j \in IndexAfter
<1> USE DEF rowVars, tusVars, jobVars, sweepVars, callVars, envVars
<1>1. CASE UNCHANGED <<phase, seen>>
  BY <1>1
<1>2. ASSUME phase' = phase, NEW i \in Intents, Forget(i)
      PROVE  \A j \in Intents : seen'[j] = seen[j] \/ seen'[j] = NoRow
  BY <1>2 DEF Forget, TypeOK
<1>3. CASE \E i \in Intents : RegisterImport(i)
  BY <1>3 DEF RegisterImport, TypeOK
<1>4. CASE \E i \in Intents :
             \/ StartImport(i) \/ ResubmitImport(i) \/ FailImport(i)
             \/ StartIndex(i) \/ ResubmitIndex(i) \/ RegisterIndex(i) \/ FailIndex(i)
             \/ Postpone(i)
  BY <1>1, <1>2, <1>4
  DEF StartImport, ResubmitImport, FailImport, StartIndex, ResubmitIndex, RegisterIndex,
      FailIndex, Postpone
<1>5. CASE \E i \in Intents :
             \/ ProbeRecover(i) \/ ProbeFails(i)
             \/ ExpireTus(i) \/ Expire(i) \/ SpareActive(i) \/ CleanItem(i)
  BY <1>1, <1>2, <1>5
  DEF ProbeRecover, ProbeFails, ExpireTus, Expire, SpareActive, CleanItem
<1>6. CASE BeginSweep
  BY <1>6 DEF BeginSweep, BeginPart
<1>7. CASE SubmitImport \/ SubmitIndex
  BY <1>1, <1>7 DEF SubmitImport, SubmitIndex
<1>8. CASE Caller
  BY <1>1, <1>8
  DEF Caller, CreateIntent, CreateLocalIngestion, RequestCancel, CancelPending, Relink,
      SubmitRetry, RefuseRetry
<1>9. CASE \E p \in {"sweep", "browser"} : Cleanup(p)
  BY <1>1, <1>9 DEF Cleanup, CleanupLocal, CleanupTus, CleanupFails, FinishCleanup
<1>10. CASE Worker
  BY <1>1, <1>10 DEF Worker, BeginImport, FinishImport, WorkerCrash, FinishIndex
<1>11. CASE \E i \in Intents : Tus(i)
  BY <1>1, <1>11
  DEF Tus, ExpireCreation, AcceptCreation, ReplayCreation, TusCreate, TusForget,
      TusFinish, PostFinish, ClientTerminate, PostTerminate
<1>12. CASE \E i \in Intents : Native(i) \/ TimePasses(i)
  BY <1>1, <1>12 DEF Native, Stage, Claim, RefuseClaim, LoseClaim, TimePasses
<1>13. CASE Crash
  BY <1>13 DEF Crash
<1>14. CASE UNCHANGED vars
  BY <1>1, <1>14 DEF vars
<1> QED
  BY <1>3, <1>4, <1>5, <1>6, <1>7, <1>8, <1>9, <1>10, <1>11, <1>12, <1>13, <1>14
  DEF Next, Sweep

\* What the sweep saw of a row stays true of it.
LEMMA SeenKept ==
  ASSUME IInv, StepShape, [Next]_vars
  PROVE  SeenInv'
<1> SUFFICES ASSUME phase' = "advance", NEW i \in Intents
             PROVE  /\ seen'[i].state = "processing" => row'[i].job
                    /\ seen'[i].state = "ready" => i \in IndexAfter
  BY DEF SeenInv
<1>0. TypeOK /\ SeenInv /\ NoRow.state = "absent"
  BY DEF IInv, NoRow
<1>1. CASE BeginPart("idle", "advance", Active)
  <2>1. seen'[i] = (IF Active(row[i], i) THEN row[i] ELSE NoRow) /\ row' = row
    BY <1>1 DEF BeginPart, rowVars
  <2>2. RowValid(i)
    BY DEF IInv, RowsInv
  <2> QED BY <1>0, <2>1, <2>2 DEF Active, RowValid
<1>2. CASE /\ phase = "advance"
           /\ \/ seen'[i] = seen[i] \/ seen'[i] = NoRow
              \/ seen'[i].state = "ready" /\ i \in IndexAfter
  BY <1>0, <1>2, JobStays DEF SeenInv
<1> QED BY <1>0, <1>1, <1>2, SeenStep

\* An import is submitted only after its row is linked.
LEMMA PlaceKept ==
  ASSUME IInv, StepShape, [Next]_vars
  PROVE  PlaceInv'
<1> USE DEF rowVars, tusVars, jobVars, sweepVars, callVars, envVars
<1> SUFFICES ASSUME place'["sweep"].at = "submit_import"
             PROVE  row'[place'["sweep"].on].job
  BY DEF PlaceInv
<1>0. TypeOK /\ PlaceInv
  BY DEF IInv
<1>1. CASE place'["sweep"] = place["sweep"]
  BY <1>0, <1>1, PlaceType, JobStays DEF PlaceInv
<1>2. CASE place'["sweep"] = Idle
  BY <1>2 DEF Idle
<1>3. ASSUME NEW p \in {"sweep", "browser"}, Stop(p)
      PROVE  FALSE \/ place'["sweep"] = place["sweep"] \/ place'["sweep"] = Idle
  BY <1>0, <1>3 DEF Stop, TypeOK
<1>4. ASSUME NEW p \in {"sweep", "browser"}, NEW at, NEW u, Go(p, at, u)
      PROVE  place'["sweep"] = place["sweep"] \/ place'["sweep"].at = at
  BY <1>0, <1>4 DEF Go, TypeOK
<1>5. ASSUME NEW i \in Intents, StartImport(i)
      PROVE  row'[place'["sweep"].on].job
  <2>1. CASE UNCHANGED place
    BY <1>1, <2>1
  <2>2. CASE /\ Go("sweep", "submit_import", i)
             /\ UpdateUpload(i, [row[i] EXCEPT
                  !.state = "processing", !.job = TRUE,
                  !.upload = IF seen[i].upload = None THEN i ELSE seen[i].upload])
    <3>1. place'["sweep"].on = i
      BY <1>0, <2>2 DEF Go, TypeOK
    <3>2. row'[i].job
      <4> DEFINE u == IF seen[i].upload = None THEN i ELSE seen[i].upload
      <4>1. row'[i] = [row[i] EXCEPT !.state = "processing", !.job = TRUE, !.upload = u]
        BY <1>0, <2>2, OneRow
      <4>2. row[i] \in Rows
        BY <1>0, RowType
      <4> QED BY <4>1, <4>2 DEF Rows
    <3> QED BY <3>1, <3>2
  <2> QED BY <1>5, <2>1, <2>2 DEF StartImport
<1>6. CASE \E i \in Intents :
             \/ ResubmitImport(i) \/ RegisterImport(i) \/ FailImport(i)
             \/ StartIndex(i) \/ ResubmitIndex(i) \/ RegisterIndex(i) \/ FailIndex(i)
             \/ Postpone(i)
  BY <1>1, <1>2, <1>3, <1>4, <1>6
  DEF ResubmitImport, RegisterImport, FailImport, StartIndex, ResubmitIndex,
      RegisterIndex, FailIndex, Postpone
<1>7. CASE \E i \in Intents :
             \/ ProbeRecover(i) \/ ProbeFails(i)
             \/ ExpireTus(i) \/ Expire(i) \/ SpareActive(i) \/ CleanItem(i)
  BY <1>1, <1>4, <1>7
  DEF ProbeRecover, ProbeFails, ExpireTus, Expire, SpareActive, CleanItem
<1>8. CASE BeginSweep \/ SubmitImport \/ SubmitIndex
  BY <1>1, <1>2, <1>3, <1>8 DEF BeginSweep, BeginPart, SubmitImport, SubmitIndex
<1>9. CASE Caller
  BY <1>1, <1>2, <1>3, <1>4, <1>9
  DEF Caller, CreateIntent, CreateLocalIngestion, RequestCancel, CancelPending, Relink,
      SubmitRetry, RefuseRetry
<1>10. CASE \E p \in {"sweep", "browser"} : Cleanup(p)
  BY <1>1, <1>2, <1>3, <1>4, <1>10
  DEF Cleanup, CleanupLocal, CleanupTus, CleanupFails, FinishCleanup
<1>11. CASE Worker
  BY <1>1, <1>11 DEF Worker, BeginImport, FinishImport, WorkerCrash, FinishIndex
<1>12. CASE \E i \in Intents : Tus(i)
  BY <1>1, <1>12
  DEF Tus, ExpireCreation, AcceptCreation, ReplayCreation, TusCreate, TusForget,
      TusFinish, PostFinish, ClientTerminate, PostTerminate
<1>13. CASE \E i \in Intents : Native(i) \/ TimePasses(i)
  BY <1>1, <1>13 DEF Native, Stage, Claim, RefuseClaim, LoseClaim, TimePasses
<1>14. CASE Crash
  BY <1>2, <1>14 DEF Crash
<1>15. CASE UNCHANGED vars
  BY <1>1, <1>15 DEF vars
<1> QED
  BY <1>5, <1>6, <1>7, <1>8, <1>9, <1>10, <1>11, <1>12, <1>13, <1>14, <1>15
  DEF Next, Sweep

\* The inductive invariant holds of every reachable state.
LEMMA Inductive ==
  ASSUME TimelyCreation
  PROVE  Spec => []IInv
<1>1. Init => IInv
  <2>1. Init => TypeOK
    BY UploadAssumption DEF Init, TypeOK, NoRow, Rows, Idle, Places
  <2>2. Init => \A i \in Intents : row[i] = NoRow /\ RowValid(i)
    BY DEF Init, RowValid, NoRow
  <2>3. NoRow.state = "absent" /\ NoRow.media = FALSE
    BY DEF NoRow
  <2>4. Init => RowsInv /\ IndexedTruthful
    BY <2>2, <2>3 DEF RowsInv, IndexedTruthful
  <2>5. Init => ImportLinked
    BY <2>2, <2>3 DEF Init, ImportLinked
  <2>6. Init => SeenInv
    BY DEF Init, SeenInv
  <2>7. Init => PlaceInv
    <3>1. Init => place["sweep"] = Idle
      BY DEF Init
    <3>2. Idle.at # "submit_import"
      BY DEF Idle
    <3> QED BY <3>1, <3>2 DEF PlaceInv
  <2> QED BY <2>1, <2>4, <2>5, <2>6, <2>7 DEF IInv
<1>2. TypeOK' /\ IInv /\ [Next]_vars => IInv'
  <2> SUFFICES ASSUME TypeOK', IInv, [Next]_vars
               PROVE  IInv'
    OBVIOUS
  <2>1. StepShape
    BY NextShape
  <2> QED
    BY <2>1, RowsKept, SeenKept, PlaceKept, ImportLinkedKept, IndexedKept DEF IInv
<1> QED BY <1>1, <1>2, TypeCorrect, PTL DEF Spec

\* No interleaving of hooks, sweeps, browsers, retries and crashes writes a row
\* that UploadIntentRecord refuses to read back.
THEOREM RecordsValid ==
  ASSUME TimelyCreation
  PROVE  Spec => []RecordValid
<1>1. IInv => RecordValid
  BY DEF IInv, RowsInv, RecordValid
<1> QED BY <1>1, Inductive, PTL

\* Every import job belongs to a row that links it, and media to a job that
\* succeeded.
THEOREM ImportsLinked ==
  ASSUME TimelyCreation
  PROVE  Spec => []ImportLinked
<1>1. IInv => ImportLinked
  BY DEF IInv
<1> QED BY <1>1, Inductive, PTL

\* An upload is shown as indexed only when the job it links succeeded.
THEOREM IndexedIsTruthful ==
  ASSUME TimelyCreation
  PROVE  Spec => []IndexedTruthful
<1>1. IInv => IndexedTruthful
  BY DEF IInv
<1> QED BY <1>1, Inductive, PTL

-----------------------------------------------------------------------------
(* The quota.  The reservation is exact because an update releases bytes    *)
(* only with the row that reserves them, and reserves them only at its      *)
(* creation.                                                                *)

Reserves(i) == row[i].state \in ReservedStates

QuotaInv == IsFiniteSet(ReservedBytes) /\ QuotaExact

\* A block of bytes has as many as its size.
LEMMA BlockSize ==
  ASSUME NEW i, NEW n \in Nat
  PROVE  IsFiniteSet({i} \X (1 .. n)) /\ Cardinality({i} \X (1 .. n)) = n
<1> DEFINE f == [k \in 1 .. n |-> <<i, k>>]
<1>1. IsFiniteSet(1 .. n) /\ Cardinality(1 .. n) = n
  BY FS_Interval
<1>2. f \in [1 .. n -> {i} \X (1 .. n)]
  OBVIOUS
<1>3. \A x, y \in 1 .. n : f[x] = f[y] => x = y
  OBVIOUS
<1>4. ASSUME NEW z \in {i} \X (1 .. n)
      PROVE  \E x \in 1 .. n : f[x] = z
  <2>1. z[2] \in 1 .. n /\ f[z[2]] = z
    OBVIOUS
  <2> QED BY <2>1
<1> HIDE DEF f
<1>5. f \in Injection(1 .. n, {i} \X (1 .. n))
  BY <1>2, <1>3 DEF Injection, IsInjective
<1>6. f \in Surjection(1 .. n, {i} \X (1 .. n))
  BY <1>2, <1>4 DEF Surjection
<1>7. ExistsBijection(1 .. n, {i} \X (1 .. n))
  BY <1>5, <1>6 DEF ExistsBijection, Bijection
<1> QED BY <1>1, <1>7, FS_Bijection

\* What is reserved depends on which rows reserve, and on their sizes.
LEMMA BytesMember ==
  ASSUME NEW x
  PROVE  x \in ReservedBytes <=> \E i \in Intents : Reserves(i) /\ x \in BytesOf(i)
BY DEF ReservedBytes, Reserves

\* A block belongs to one row.
LEMMA BytesApart ==
  ASSUME NEW i, NEW j, NEW x \in BytesOf(i), NEW n, x \in {j} \X (1 .. n)
  PROVE  i = j
BY DEF BytesOf

\* The rows reserve what they did.
LEMMA QuotaSame ==
  ASSUME QuotaInv, reserved' = reserved,
         \A i \in Intents : /\ (row'[i].state \in ReservedStates) = Reserves(i)
                            /\ Reserves(i) => row'[i].size = row[i].size
  PROVE  QuotaInv'
<1>1. \A x : x \in ReservedBytes' <=> x \in ReservedBytes
  <2> TAKE x
  <2>1. x \in ReservedBytes' <=>
          \E i \in Intents : row'[i].state \in ReservedStates /\ x \in {i} \X (1 .. row'[i].size)
    BY DEF ReservedBytes, BytesOf
  <2>2. x \in ReservedBytes <=>
          \E i \in Intents : Reserves(i) /\ x \in {i} \X (1 .. row[i].size)
    BY BytesMember DEF BytesOf
  <2> QED BY <2>1, <2>2
<1>2. ReservedBytes' = ReservedBytes
  BY <1>1
<1> QED BY <1>2 DEF QuotaInv, QuotaExact

\* A new row reserves bytes of its own.
LEMMA QuotaReserved ==
  ASSUME QuotaInv, NEW i \in Intents, NEW n \in Nat, ~Reserves(i), reserved \in Nat,
         reserved' = reserved + n, row'[i].state \in ReservedStates, row'[i].size = n,
         \A j \in Intents : j # i => row'[j] = row[j]
  PROVE  QuotaInv'
<1> DEFINE B == {i} \X (1 .. n)
<1>1. \A x : x \in ReservedBytes' <=> x \in ReservedBytes \/ x \in B
  <2> TAKE x
  <2>1. x \in ReservedBytes' <=>
          \E j \in Intents : row'[j].state \in ReservedStates /\ x \in {j} \X (1 .. row'[j].size)
    BY DEF ReservedBytes, BytesOf
  <2>2. x \in ReservedBytes <=>
          \E j \in Intents : Reserves(j) /\ x \in {j} \X (1 .. row[j].size)
    BY BytesMember DEF BytesOf
  <2> QED BY <2>1, <2>2 DEF Reserves
<1>2. ReservedBytes' = ReservedBytes \cup B
  BY <1>1
<1>3. ReservedBytes \cap B = {}
  <2> SUFFICES ASSUME NEW x \in ReservedBytes, x \in B
               PROVE  FALSE
    OBVIOUS
  <2>1. PICK j \in Intents : Reserves(j) /\ x \in BytesOf(j)
    BY BytesMember
  <2>2. j = i
    BY <2>1, BytesApart
  <2> QED BY <2>1, <2>2
<1>4. IsFiniteSet(B) /\ Cardinality(B) = n
  BY BlockSize
<1>5. IsFiniteSet(ReservedBytes) /\ Cardinality(ReservedBytes) = reserved
  BY DEF QuotaInv, QuotaExact
<1> HIDE DEF B
<1>6. IsFiniteSet(ReservedBytes \cup B) /\ Cardinality(ReservedBytes \cup B) = reserved + n
  <2>1. Cardinality({}) = 0
    BY FS_EmptySet
  <2>2. /\ IsFiniteSet(ReservedBytes \cup B)
        /\ Cardinality(ReservedBytes \cup B) =
             Cardinality(ReservedBytes) + Cardinality(B) - Cardinality(ReservedBytes \cap B)
    BY <1>4, <1>5, FS_Union
  <2>3. Cardinality(ReservedBytes \cap B) = 0
    BY <1>3, <2>1
  <2> QED BY <1>4, <1>5, <2>2, <2>3
<1> QED BY <1>2, <1>6 DEF QuotaInv, QuotaExact

\* update_upload releases what the row reserved, once.
LEMMA QuotaUpdated ==
  ASSUME TypeOK, QuotaInv, NEW i \in Intents, NEW r, UpdateUpload(i, r),
         r.size = row[i].size, r.state \in ReservedStates => Reserves(i)
  PROVE  QuotaInv'
<1>0. row[i].size \in Nat /\ reserved \in Nat
  BY RowType DEF TypeOK, Rows
<1>1. row'[i] = r /\ \A j \in Intents : j # i => row'[j] = row[j]
  BY OneRow
<1>2. CASE ~Releases(i, r)
  <2>1. reserved' = reserved
    BY <1>2 DEF UpdateUpload
  <2>2. \A j \in Intents : /\ (row'[j].state \in ReservedStates) = Reserves(j)
                           /\ Reserves(j) => row'[j].size = row[j].size
    BY <1>1, <1>2 DEF Releases, Reserves
  <2> QED BY <2>1, <2>2, QuotaSame
<1>3. CASE Releases(i, r)
  <2>1. Reserves(i) /\ row'[i].state \notin ReservedStates
    BY <1>1, <1>3 DEF Releases, Reserves
  <2>2. \A x : x \in ReservedBytes' <=> x \in ReservedBytes \ BytesOf(i)
    <3> TAKE x
    <3>1. x \in ReservedBytes' <=>
            \E j \in Intents : row'[j].state \in ReservedStates /\ x \in {j} \X (1 .. row'[j].size)
      BY DEF ReservedBytes, BytesOf
    <3>2. x \in ReservedBytes <=>
            \E j \in Intents : Reserves(j) /\ x \in {j} \X (1 .. row[j].size)
      BY BytesMember DEF BytesOf
    <3>3. CASE x \in BytesOf(i)
      <4>1. \A j, n : x \in {j} \X (1 .. n) => j = i
        BY <3>3, BytesApart
      <4> QED BY <2>1, <3>1, <3>3, <4>1
    <3>4. CASE x \notin BytesOf(i)
      <4>1. x \notin {i} \X (1 .. row[i].size)
        BY <3>4 DEF BytesOf
      <4> QED BY <1>1, <2>1, <3>1, <3>2, <3>4, <4>1 DEF Reserves
    <3> QED BY <3>3, <3>4
  <2>3. ReservedBytes' = ReservedBytes \ BytesOf(i)
    BY <2>2
  <2>4. BytesOf(i) \subseteq ReservedBytes
    BY <2>1, BytesMember
  <2>5. IsFiniteSet(BytesOf(i)) /\ Cardinality(BytesOf(i)) = row[i].size
    BY <1>0, BlockSize DEF BytesOf
  <2>6. IsFiniteSet(ReservedBytes) /\ Cardinality(ReservedBytes) = reserved
    BY DEF QuotaInv, QuotaExact
  <2>7. row[i].size <= reserved
    BY <2>4, <2>5, <2>6, FS_Subset
  <2>8. reserved' = reserved - row[i].size
    BY <1>0, <1>3, <2>7 DEF UpdateUpload
  <2>9. ReservedBytes \cap BytesOf(i) = BytesOf(i)
    BY <2>4
  <2>10. /\ IsFiniteSet(ReservedBytes \ BytesOf(i))
         /\ Cardinality(ReservedBytes \ BytesOf(i)) = reserved - row[i].size
    <3>1. /\ IsFiniteSet(ReservedBytes \ BytesOf(i))
          /\ Cardinality(ReservedBytes \ BytesOf(i)) =
               Cardinality(ReservedBytes) - Cardinality(ReservedBytes \cap BytesOf(i))
      BY <2>6, FS_Difference
    <3> QED BY <2>5, <2>6, <2>9, <3>1
  <2> QED BY <2>3, <2>8, <2>10 DEF QuotaInv, QuotaExact
<1> QED BY <1>2, <1>3

\* So does a compare-and-set, whether or not it applies.
LEMMA QuotaUpdatedIf ==
  ASSUME TypeOK, QuotaInv, NEW i \in Intents, NEW r, NEW e, UpdateIf(e, i, r),
         r.size = row[i].size, e /\ r.state \in ReservedStates => Reserves(i)
  PROVE  QuotaInv'
<1>1. CASE e
  BY <1>1, QuotaUpdated DEF UpdateIf
<1>2. CASE ~e
  BY <1>2, QuotaSame DEF UpdateIf, rowVars, Reserves
<1> QED BY <1>1, <1>2

\* Expiry, termination and deletion release the reservation.
LEMMA QuotaReleased ==
  ASSUME TypeOK, QuotaInv
  PROVE  /\ \A i \in Intents, c \in BOOLEAN : ExpireIntent(i, c) => QuotaInv'
         /\ \A u : RecordTerminated(u) => QuotaInv'
         /\ \A i \in Intents : \A removed : TusDelete(i, removed) => QuotaInv'
<1>1. ASSUME NEW i \in Intents, NEW c \in BOOLEAN, ExpireIntent(i, c)
      PROVE  QuotaInv'
  <2> DEFINE r == [row[i] EXCEPT !.state = "expired", !.upload = IF c THEN None ELSE @]
             e == row[i].state \in {"pending", "accepted", "failed"}
  <2>1. r.size = row[i].size /\ r.state = "expired"
    BY RowType DEF Rows
  <2>2. UpdateIf(e, i, r)
    BY <1>1 DEF ExpireIntent
  <2>3. r.state \notin ReservedStates
    BY <2>1 DEF ReservedStates
  <2> HIDE DEF r, e
  <2> QED BY <2>1, <2>2, <2>3, QuotaUpdatedIf
<1>2. ASSUME NEW u, RecordTerminated(u)
      PROVE  QuotaInv'
  <2>1. CASE UNCHANGED rowVars
    BY <2>1, QuotaSame DEF rowVars, Reserves
  <2>2. ASSUME NEW i \in Owners(u), UpdateUpload(i, Terminated(i))
        PROVE  QuotaInv'
    <3>1. i \in Intents /\ row[i] \in Rows
      BY RowType DEF Owners
    <3>2. Terminated(i).size = row[i].size /\ Terminated(i).state \notin ReservedStates
      BY <3>1 DEF Terminated, Rows, ReservedStates
    <3> QED BY <2>2, <3>1, <3>2, QuotaUpdated
  <2> QED BY <1>2, <2>1, <2>2 DEF RecordTerminated
<1>3. ASSUME NEW i \in Intents, NEW removed, TusDelete(i, removed)
      PROVE  QuotaInv'
  <2>1. Terminating(i).size = row[i].size
    BY RowType DEF Terminating, Rows
  <2>2. Terminating(i).state \in ReservedStates => Reserves(i)
    BY RowType DEF Terminating, Rows, ReservedStates, Reserves
  <2> QED BY <1>3, <2>1, <2>2, QuotaUpdated DEF TusDelete
<1> QED BY <1>1, <1>2, <1>3

\* Completing a transfer keeps the reservation.
LEMMA QuotaCompleted ==
  ASSUME TypeOK, QuotaInv, NEW i \in Intents, CanComplete(i), CompleteTransfer(i)
  PROVE  QuotaInv'
<1> DEFINE r == [row[i] EXCEPT !.state = "processing", !.job = TRUE]
<1>1. r.size = row[i].size /\ Reserves(i)
  BY RowType DEF CanComplete, Reserves, ReservedStates, Rows
<1>2. UpdateUpload(i, r)
  BY DEF CompleteTransfer
<1> HIDE DEF r
<1> QED BY <1>1, <1>2, QuotaUpdated

\* Creation, cancellation and indexing retries keep the quota exact.
LEMMA CallerQuota ==
  ASSUME TypeOK, QuotaInv, Caller
  PROVE  QuotaInv'
<1> USE DEF rowVars, tusVars, jobVars, sweepVars, callVars, envVars
<1>0. reserved \in Nat
  BY DEF TypeOK
<1>1. ASSUME NEW i \in Intents, CreateIntent(i) \/ CreateLocalIngestion(i)
      PROVE  QuotaInv'
  <2>1. ~Reserves(i) /\ SizeOf[i] \in Nat
    BY <1>1, UploadAssumption DEF Reserves, ReservedStates, CreateIntent, CreateLocalIngestion
  <2>2. \A j \in Intents : j # i => row'[j] = row[j]
    BY <1>1 DEF CreateIntent, CreateLocalIngestion, TypeOK
  <2>3. CASE /\ row' = [row EXCEPT ![i] = [NoRow EXCEPT !.state = "pending", !.size = SizeOf[i]]]
             /\ reserved' = reserved + SizeOf[i]
    <3>1. row'[i].state \in ReservedStates /\ row'[i].size = SizeOf[i]
      BY <2>3 DEF TypeOK, ReservedStates, NoRow
    <3> QED BY <1>0, <2>1, <2>2, <2>3, <3>1, QuotaReserved
  <2>4. CASE /\ row' = [row EXCEPT ![i] = [NoRow EXCEPT !.state = "failed", !.failed = TRUE]]
             /\ reserved' = reserved
    <3>1. row'[i].state \in ReservedStates /\ row'[i].size = 0
      BY <2>4 DEF TypeOK, ReservedStates, NoRow
    <3>2. reserved' = reserved + 0
      BY <1>0, <2>4
    <3> QED BY <1>0, <2>1, <2>2, <3>1, <3>2, QuotaReserved
  <2> QED BY <1>1, <2>3, <2>4 DEF CreateIntent, CreateLocalIngestion
<1>2. CASE (\E i \in Intents : RequestCancel(i)) \/ SubmitRetry
  BY <1>2, QuotaSame DEF RequestCancel, SubmitRetry, Reserves
<1>3. CASE CancelPending
  <2>1. place["browser"].on \in Intents /\ ExpireIntent(place["browser"].on, FALSE)
    BY <1>3, PlaceType DEF CancelPending
  <2> QED BY <2>1, QuotaReleased
<1>4. ASSUME NEW m \in Media, NEW r \in Retries, Relink(m, r)
      PROVE  QuotaInv'
  <2>1. \A i \in Intents : row'[i].state = row[i].state /\ row'[i].size = row[i].size
    <3> TAKE i \in Intents
    <3>1. CASE i \in FailedIndexes(m)
      <4>1. row'[i] = [row[i] EXCEPT !.index = r, !.failed = FALSE]
        BY <1>4, <3>1 DEF Relink
      <4> QED BY <4>1, RowType DEF Rows
    <3>2. CASE i \notin FailedIndexes(m)
      BY <1>4, <3>2 DEF Relink
    <3> QED BY <3>1, <3>2
  <2>2. reserved' = reserved
    BY <1>4 DEF Relink
  <2> QED BY <2>1, <2>2, QuotaSame DEF Reserves
<1>5. CASE RefuseRetry
  <2>1. \A i \in Intents : row'[i].state = row[i].state /\ row'[i].size = row[i].size
    <3> TAKE i \in Intents
    <3>1. row'[i] = row[i] \/ row'[i] = [row[i] EXCEPT !.failed = TRUE]
      BY <1>5 DEF RefuseRetry
    <3> QED BY <3>1, RowType DEF Rows
  <2> QED BY <1>5, <2>1, QuotaSame DEF RefuseRetry, Reserves
<1> QED BY <1>1, <1>2, <1>3, <1>4, <1>5 DEF Caller

\* So do the hooks, tusd and native bodies.
LEMMA TransferQuota ==
  ASSUME TypeOK, QuotaInv, NEW i \in Intents, Tus(i) \/ Native(i)
  PROVE  QuotaInv'
<1> USE DEF rowVars, tusVars, jobVars, sweepVars, callVars, envVars
<1>0. row[i] \in Rows
  BY RowType
<1>1. CASE ExpireCreation(i)
  <2> DEFINE r == [row[i] EXCEPT !.state = "expired"]
  <2>1. r.size = row[i].size /\ r.state \notin ReservedStates
    BY <1>0 DEF Rows, ReservedStates
  <2>2. UpdateUpload(i, r)
    BY <1>1 DEF ExpireCreation
  <2> HIDE DEF r
  <2> QED BY <2>1, <2>2, QuotaUpdated
<1>2. CASE AcceptCreation(i)
  <2> DEFINE r == [row[i] EXCEPT !.state = "accepted", !.upload = i]
  <2>1. r.size = row[i].size /\ Reserves(i)
    BY <1>0, <1>2 DEF AcceptCreation, Reserves, ReservedStates, Rows
  <2>2. UpdateUpload(i, r)
    BY <1>2 DEF AcceptCreation
  <2> HIDE DEF r
  <2> QED BY <2>1, <2>2, QuotaUpdated
<1>3. CASE ReplayCreation(i) \/ TusCreate(i) \/ TusForget(i) \/ TusFinish(i)
  BY <1>3, QuotaSame DEF ReplayCreation, TusCreate, TusForget, TusFinish, Reserves
<1>4. CASE PostFinish(i)
  BY <1>4, QuotaCompleted DEF PostFinish
<1>5. CASE ClientTerminate(i) \/ PostTerminate(i)
  BY <1>5, QuotaReleased DEF ClientTerminate, PostTerminate
<1>6. ASSUME NEW a \in Attempts,
            Stage(a, i) \/ Claim(a, i) \/ RefuseClaim(a, i) \/ LoseClaim(a, i)
      PROVE  QuotaInv'
  <2>1. CASE row' = row /\ reserved' = reserved
    BY <2>1, QuotaSame DEF Reserves
  <2> DEFINE r == [row[i] EXCEPT !.state = "accepted", !.upload = a]
  <2>2. CASE row[i].state = "pending" /\ UpdateUpload(i, r)
    <3>1. r.size = row[i].size /\ Reserves(i)
      BY <1>0, <2>2 DEF Reserves, ReservedStates, Rows
    <3> HIDE DEF r
    <3> QED BY <2>2, <3>1, QuotaUpdated
  <2> QED BY <1>6, <2>1, <2>2 DEF Stage, Claim, RefuseClaim, LoseClaim
<1> QED BY <1>1, <1>2, <1>3, <1>4, <1>5, <1>6 DEF Tus, Native

\* So does the sweep.
LEMMA SweepQuota ==
  ASSUME TypeOK, QuotaInv, Sweep
  PROVE  QuotaInv'
<1> USE DEF rowVars, tusVars, jobVars, sweepVars, callVars, envVars
<1>1. CASE BeginSweep \/ SubmitImport \/ SubmitIndex
  <2>1. row' = row /\ reserved' = reserved
    BY <1>1 DEF BeginSweep, BeginPart, SubmitImport, SubmitIndex
  <2> QED BY <2>1, QuotaSame DEF Reserves
<1>2. ASSUME NEW i \in Intents, row[i] \in Rows,
             \/ StartImport(i) \/ RegisterImport(i) \/ FailImport(i)
             \/ StartIndex(i) \/ RegisterIndex(i) \/ FailIndex(i)
      PROVE  QuotaInv'
  <2>1. CASE StartImport(i)
    <3> DEFINE u == IF seen[i].upload = None THEN i ELSE seen[i].upload
               r == [row[i] EXCEPT !.state = "processing", !.job = TRUE, !.upload = u]
    <3>1. CASE UNCHANGED <<row, reserved>>
      BY <3>1, QuotaSame DEF Reserves
    <3>2. CASE row[i].state = seen[i].state /\ UpdateUpload(i, r)
      <4>1. row[i].state \in {"pending", "accepted"}
        BY <2>1, <3>2 DEF StartImport, Takes
      <4>2. r.size = row[i].size /\ Reserves(i)
        BY <1>2, <4>1 DEF Reserves, ReservedStates, Rows
      <4> HIDE DEF r
      <4> QED BY <3>2, <4>2, QuotaUpdated
    <3> QED BY <2>1, <3>1, <3>2 DEF StartImport
  <2>2. CASE RegisterImport(i)
    <3> DEFINE r == [row[i] EXCEPT !.state = "ready", !.media = TRUE]
    <3>1. r.size = row[i].size /\ r.state \notin ReservedStates
      BY <1>2 DEF Rows, ReservedStates
    <3>2. UpdateIf(Importing(i), i, r)
      BY <2>2 DEF RegisterImport
    <3> HIDE DEF r
    <3> QED BY <3>1, <3>2, QuotaUpdatedIf
  <2>3. CASE FailImport(i)
    <3> DEFINE r == [row[i] EXCEPT !.state = "failed", !.failed = TRUE]
    <3>1. r.size = row[i].size
      BY <1>2 DEF Rows
    <3>2. Importing(i) => Reserves(i)
      BY DEF Importing, Reserves, ReservedStates
    <3>3. UpdateIf(Importing(i), i, r)
      BY <2>3 DEF FailImport, FailImportOf
    <3> HIDE DEF r
    <3> QED BY <3>1, <3>2, <3>3, QuotaUpdatedIf
  <2>4. CASE StartIndex(i)
    <3> DEFINE r == [row[i] EXCEPT !.index = i]
    <3>1. CASE UNCHANGED <<row, reserved>>
      BY <3>1, QuotaSame DEF Reserves
    <3>2. CASE UpdateUpload(i, r)
      <4>1. r.size = row[i].size /\ r.state = row[i].state
        BY <1>2 DEF Rows
      <4> HIDE DEF r
      <4> QED BY <3>2, <4>1, QuotaUpdated DEF Reserves
    <3> QED BY <2>4, <3>1, <3>2 DEF StartIndex
  <2>5. CASE RegisterIndex(i)
    <3> DEFINE r == [row[i] EXCEPT !.state = "indexed"]
    <3>1. r.size = row[i].size /\ r.state \notin ReservedStates
      BY <1>2 DEF Rows, ReservedStates
    <3>2. UpdateIf(Awaits(i, seen[i].index), i, r)
      BY <2>5 DEF RegisterIndex
    <3> HIDE DEF r
    <3> QED BY <3>1, <3>2, QuotaUpdatedIf
  <2>6. CASE FailIndex(i)
    <3> DEFINE r == [row[i] EXCEPT !.failed = TRUE]
    <3>1. r.size = row[i].size /\ r.state = row[i].state
      BY <1>2 DEF Rows
    <3>2. \E j : UpdateIf(Awaits(i, j), i, r)
      <4>1. CASE UpdateIf(Awaits(i, seen[i].index), i, r)
        BY <4>1
      <4>2. CASE UpdateIf(Awaits(i, i), i, r)
        BY <4>2
      <4> QED BY <2>6, <4>1, <4>2 DEF FailIndex
    <3> HIDE DEF r
    <3> QED BY <3>1, <3>2, QuotaUpdatedIf DEF Reserves
  <2> QED BY <1>2, <2>1, <2>2, <2>3, <2>4, <2>5, <2>6
<1>3. ASSUME NEW i \in Intents,
             \/ ResubmitImport(i) \/ ResubmitIndex(i) \/ Postpone(i) \/ ProbeFails(i)
             \/ SpareActive(i) \/ CleanItem(i)
      PROVE  QuotaInv'
  <2>1. row' = row /\ reserved' = reserved
    <3>1. CASE ResubmitImport(i) \/ ResubmitIndex(i) \/ Postpone(i)
      BY <3>1 DEF ResubmitImport, ResubmitIndex, Postpone
    <3>2. CASE ProbeFails(i) \/ SpareActive(i) \/ CleanItem(i)
      BY <3>2 DEF ProbeFails, SpareActive, CleanItem
    <3> QED BY <1>3, <3>1, <3>2
  <2> QED BY <2>1, QuotaSame DEF Reserves
<1>4. ASSUME NEW i \in Intents, ProbeRecover(i) \/ ExpireTus(i) \/ Expire(i)
      PROVE  QuotaInv'
  <2>1. \/ row' = row /\ reserved' = reserved
        \/ CanComplete(i) /\ CompleteTransfer(i)
        \/ \E c \in BOOLEAN : ExpireIntent(i, c)
    BY <1>4 DEF ProbeRecover, ExpireTus, Expire
  <2>2. CASE row' = row /\ reserved' = reserved
    BY <2>2, QuotaSame DEF Reserves
  <2> QED BY <2>1, <2>2, QuotaCompleted, QuotaReleased
<1> QED BY <1>1, <1>2, <1>3, <1>4, RowType DEF Sweep

\* The reserved bytes are those of the rows that hold a reservation.
THEOREM QuotaIsExact == Spec => []QuotaExact
<1> USE DEF rowVars, tusVars, jobVars, sweepVars, callVars, envVars
<1>1. Init => QuotaInv
  <2> SUFFICES ASSUME Init PROVE QuotaInv
    OBVIOUS
  <2>1. \A i \in Intents : ~Reserves(i)
    BY DEF Init, Reserves, ReservedStates, NoRow
  <2>2. ReservedBytes = {}
    BY <2>1, BytesMember
  <2> QED BY <2>2, FS_EmptySet DEF Init, QuotaInv, QuotaExact
<1>2. TypeOK /\ QuotaInv /\ [Next]_vars => QuotaInv'
  <2> SUFFICES ASSUME TypeOK, QuotaInv, [Next]_vars
               PROVE  QuotaInv'
    OBVIOUS
  <2>1. CASE Worker \/ (\E i \in Intents : TimePasses(i)) \/ Crash \/ UNCHANGED vars
    <3>1. row' = row /\ reserved' = reserved
      BY <2>1 DEF Worker, BeginImport, FinishImport, WorkerCrash, FinishIndex, TimePasses,
                  Crash, vars
    <3> QED BY <3>1, QuotaSame DEF Reserves
  <2>2. ASSUME NEW p \in {"sweep", "browser"}, Cleanup(p)
        PROVE  QuotaInv'
    <3>1. \/ row' = row /\ reserved' = reserved
          \/ \E u : RecordTerminated(u)
          \/ \E i \in Intents, removed \in BOOLEAN : TusDelete(i, removed)
      BY <2>2 DEF Cleanup, CleanupLocal, CleanupTus, CleanupFails, FinishCleanup,
                  TusOwners, Owners
    <3>2. CASE row' = row /\ reserved' = reserved
      BY <3>2, QuotaSame DEF Reserves
    <3> QED BY <3>1, <3>2, QuotaReleased
  <2> QED BY <2>1, <2>2, CallerQuota, TransferQuota, SweepQuota DEF Next
<1>3. QuotaInv => QuotaExact
  BY DEF QuotaInv
<1> QED BY <1>1, <1>2, <1>3, TypeCorrect, PTL DEF Spec

-----------------------------------------------------------------------------
(* The bytes of an upload.  They are kept because every body has one name, *)
(* every name one row, and nothing that deletes a name was ever handed one *)
(* whose row still waits for its import.                                   *)

Multipart(i) == BackendOf[i] = "multipart"

\* The identifiers the upload of an intent can have.
Names(i) == {None} \cup (IF Multipart(i) THEN Attempts ELSE {i})

Named ==
  \A i \in Intents :
    /\ row[i].upload \in Names(i) /\ seen[i].upload \in Names(i)
    /\ \A j \in Intents : row[j].upload = row[i].upload /\ row[i].upload # None => i = j

\* A body's name is in use from its claim on; it is never staged again.
Used(a) ==
  \/ \E i \in Intents : a \in {row[i].upload, seen[i].upload}
  \/ \E p \in {"sweep", "browser"} : place[p].on = a

Claimed ==
  \A a \in Attempts :
    Used(a) => content[a] # "none" /\ \A i \in Intents : <<a, i>> \notin staged

Bodies ==
  \A a \in Attempts, i \in Intents :
    <<a, i>> \in staged => /\ content[a] = "full"
                           /\ Multipart(i)
                           /\ \A j \in Intents : <<a, j>> \in staged => j = i

\* tusd knows nothing of an upload that was not accepted; a finished transfer
\* is full until it is no longer accepted.
Fresh(i) == row[i].state \in {"absent", "pending"}

Transferred ==
  \A i \in Intents :
    /\ Fresh(i) => i \notin approved /\ content[i] = "none" /\ <<"finish", i>> \notin sent
    /\ <<"finish", i>> \in sent /\ row[i].state = "accepted" => content[i] = "full"

\* Intents whose bytes may go: a browser cancelled them, or a claim did not
\* learn that it had won.
Forfeit == cancelled \cup unsure

\* The bytes an import will read.
Waits(i) == row[i].state = "processing" \/ (row[i].state = "accepted" /\ Multipart(i))

Kept ==
  \A i \in Intents :
    Waits(i) /\ BackendOf[i] # "local_path" =>
      /\ row[i].upload # None
      /\ content[row[i].upload] = "full" \/ (Multipart(i) /\ i \in Forfeit)

\* What the sweep is about to import is what it saw.
Seen ==
  phase = "advance" =>
    \A i \in Intents :
      /\ seen[i].state = "pending" => BackendOf[i] = "local_path"
      /\ seen[i].state = "accepted" =>
           /\ Multipart(i) /\ seen[i].upload # None /\ ~Fresh(i)
           /\ row[i].state = "accepted" => seen[i].upload = row[i].upload

\* No row still waits for the bytes under u, but a forfeit one.
Spent(u) ==
  \A i \in Intents : row[i].upload = u /\ Multipart(i) /\ Waits(i) => i \in Forfeit

Deletable ==
  /\ phase = "cleanup" => \A i \in Intents : seen[i].state # "absent" => Spent(seen[i].upload)
  /\ \A p \in {"sweep", "browser"} : place[p].at = "cleanup" => Spent(place[p].on)

KeptInv == Named /\ Claimed /\ Bodies /\ Transferred /\ Kept /\ Seen /\ Deletable


-----------------------------------------------------------------------------
(* What a step does to the bytes of an upload and to their names.          *)

RowMove(i) ==
  LET r == row[i]
      new == row'[i] IN
  \/ new.state = r.state /\ new.upload = r.upload
  \/ r.state = "absent" /\ new.state = "pending" /\ new.upload = None
  \/ /\ new.state \notin {"absent", "pending", "accepted", "processing"}
     /\ new.upload \in {r.upload, None}
  \/ /\ BackendOf[i] = "tus" /\ r.state = "pending"
     /\ new.state = "accepted" /\ new.upload = i
  \/ /\ Multipart(i) /\ r.state = "pending" /\ new.state = "accepted"
     /\ \E a \in Attempts : <<a, i>> \in staged /\ <<a, i>> \notin staged' /\ new.upload = a
  \/ /\ r.state = "accepted" /\ new.state = "processing" /\ new.upload = r.upload
     /\ r.upload # None
     /\ Multipart(i) \/ (r.upload = i /\ content[i] = "full")
  \/ /\ BackendOf[i] = "local_path" /\ r.state = "pending"
     /\ new.state = "processing" /\ new.upload = i

ContentMove(u) ==
  \/ content'[u] = content[u]
  \/ /\ u \in Intents
     /\ \/ u \in approved /\ content[u] = "none"
        \/ content[u] = "partial" /\ content'[u] = "full"
        \/ row'[u].state \notin {"absent", "pending", "accepted", "processing"}
  \/ /\ u \in Attempts
     /\ \/ content[u] = "none" /\ content'[u] = "full"
        \/ /\ content'[u] = "removed" /\ row' = row
           /\ \/ \E i \in Intents : <<u, i>> \in staged /\ <<u, i>> \notin staged'
              \/ Used(u) /\ Spent(u)
        \/ /\ content'[u] = "removed"
           /\ \E i \in Forfeit' \cap Intents :
                /\ <<u, i>> \in staged /\ <<u, i>> \notin staged'
                /\ row'[i].upload = u

StageMove(a, i) ==
  <<a, i>> \in staged' =>
    \/ <<a, i>> \in staged
    \/ /\ content[a] = "none" /\ content'[a] = "full" /\ Multipart(i)
       /\ \A j \in Intents : <<a, j>> \in staged' => j = i \/ <<a, j>> \in staged

TransferMove(i) ==
  /\ i \in approved' => i \in approved \/ row'[i].state = "accepted"
  /\ <<"finish", i>> \in sent' =>
       <<"finish", i>> \in sent \/ (content[i] = "partial" /\ content'[i] = "full")

BytesStep ==
  /\ \A i \in Intents : RowMove(i) /\ TransferMove(i)
  /\ \A u \in UploadIds : ContentMove(u)
  /\ \A a \in Attempts, i \in Intents : StageMove(a, i)
  /\ Forfeit \subseteq Forfeit'

SeenFrom(i) ==
  \/ seen'[i] = seen[i] /\ phase' = phase
  \/ seen'[i] = NoRow
  \/ /\ seen'[i] = row'[i]
     /\ \/ phase' = "advance" /\ row'[i].state = "ready"
        \/ phase' = "advance" /\ row' = row /\ Active(row[i], i)
        \/ phase' = "cleanup" /\ row' = row /\ Cleanable(row[i], i)
        \/ phase' \notin {"advance", "cleanup"}

PlaceFrom(p) ==
  \/ place'[p] = place[p]
  \/ /\ place'[p].at # "cleanup"
     /\ \/ place'[p].on \in {place[p].on, None} \cup Intents
        \/ \E i \in Intents : place'[p].on = row[i].upload
  \/ \E i \in Intents : /\ place'[p].on = row[i].upload /\ row[i].upload # None
                        /\ row'[i].state = "expired" \/ i \in Forfeit'
  \/ /\ phase = "cleanup"
     /\ \E i \in Intents : place'[p].on = seen[i].upload /\ seen[i].state # "absent"

\* Spent, after the step, for a name known before it.
SpentNext(u) ==
  \A i \in Intents :
    row'[i].upload = u /\ Multipart(i) /\ row'[i].state \in {"accepted", "processing"} =>
      i \in Forfeit'

NamesStep ==
  /\ \A i \in Intents : SeenFrom(i)
  /\ \A p \in {"sweep", "browser"} : PlaceFrom(p)

\* Identifiers of the three kinds are distinct.
LEMMA Apart ==
  /\ \A a \in Attempts : a \notin Intents /\ a # None /\ a \in UploadIds
  /\ \A i \in Intents : i # None /\ i \in UploadIds
  /\ NoRow.upload = None /\ NoRow.state = "absent"
BY UploadAssumption DEF UploadIds, NoRow

\* A name in use was in use, or is claimed by this step.
LEMMA UsedFrom ==
  ASSUME KeptInv, BytesStep, NamesStep, NEW a \in Attempts, Used(a)'
  PROVE  Used(a) \/ \E i \in Intents : <<a, i>> \in staged /\ <<a, i>> \notin staged'
<1>0. a \notin Intents /\ a # None
  BY Apart
<1>1. ASSUME NEW i \in Intents, row'[i].upload = a
      PROVE  Used(a) \/ (<<a, i>> \in staged /\ <<a, i>> \notin staged')
  <2>1. RowMove(i)
    BY DEF BytesStep
  <2> QED BY <1>0, <1>1, <2>1 DEF RowMove, Used
<1>2. ASSUME NEW i \in Intents, seen'[i].upload = a
      PROVE  Used(a) \/ row'[i].upload = a
  <2>1. SeenFrom(i)
    BY DEF NamesStep
  <2> QED BY <1>0, <1>2, <2>1, Apart DEF SeenFrom, Used
<1>3. ASSUME NEW p \in {"sweep", "browser"}, place'[p].on = a
      PROVE  Used(a)
  <2>1. PlaceFrom(p)
    BY DEF NamesStep
  <2> QED BY <1>0, <1>3, <2>1 DEF PlaceFrom, Used
<1>4. \/ \E i \in Intents : row'[i].upload = a \/ seen'[i].upload = a
      \/ \E p \in {"sweep", "browser"} : place'[p].on = a
  BY DEF Used
<1> QED BY <1>1, <1>2, <1>3, <1>4

\* No step takes a name from another upload.
LEMMA NamedKept ==
  ASSUME KeptInv, BytesStep, NamesStep
  PROVE  Named'
<1>0. Named /\ Claimed /\ Bodies
  BY DEF KeptInv
<1>1. ASSUME NEW i \in Intents
      PROVE  /\ row'[i].upload \in Names(i)
             /\ \/ row'[i].upload \in {row[i].upload, None, i}
                \/ /\ row'[i].upload \in Attempts
                   /\ <<row'[i].upload, i>> \in staged
  <2>1. RowMove(i) /\ row[i].upload \in Names(i)
    BY <1>0 DEF BytesStep, Named
  <2> QED BY <2>1 DEF RowMove, Names, Multipart
<1>2. ASSUME NEW i \in Intents
      PROVE  seen'[i].upload \in Names(i)
  <2>1. SeenFrom(i) /\ seen[i].upload \in Names(i)
    BY <1>0 DEF NamesStep, Named
  <2> QED BY <1>1, <2>1, Apart DEF SeenFrom, Names
<1>3. ASSUME NEW i \in Intents, NEW j \in Intents,
             row'[i].upload = row'[j].upload, row'[i].upload # None
      PROVE  i = j
  <2>1. CASE row'[i].upload \notin Attempts
    BY <1>1, <1>3, <2>1 DEF Names
  <2>2. CASE row'[i].upload \in Attempts
    <3> DEFINE a == row'[i].upload
    <3>1. a \in Attempts /\ a \notin Intents /\ a # None
      BY <2>2, Apart
    <3>2. a = row[i].upload \/ <<a, i>> \in staged
      BY <1>1, <3>1
    <3>3. a = row[j].upload \/ <<a, j>> \in staged
      <4>1. row'[j].upload = a
        BY <1>3
      <4> QED BY <1>1, <3>1, <4>1
    <3> HIDE DEF a
    <3>4. \A k \in Intents : a = row[k].upload => \A l \in Intents : <<a, l>> \notin staged
      BY <1>0, <3>1 DEF Claimed, Used
    <3>5. CASE a = row[i].upload /\ a = row[j].upload
      BY <1>0, <3>1, <3>5 DEF Named
    <3>6. CASE <<a, i>> \in staged /\ <<a, j>> \in staged
      BY <1>0, <3>1, <3>6 DEF Bodies
    <3> QED BY <3>2, <3>3, <3>4, <3>5, <3>6
  <2> QED BY <2>1, <2>2
<1> QED BY <1>1, <1>2, <1>3 DEF Named, Names, Multipart

\* A name in use is never staged again.
LEMMA ClaimedKept ==
  ASSUME KeptInv, BytesStep, NamesStep
  PROVE  Claimed'
<1> SUFFICES ASSUME NEW a \in Attempts, Used(a)'
             PROVE  content'[a] # "none" /\ \A i \in Intents : <<a, i>> \notin staged'
  BY DEF Claimed
<1>0. Claimed /\ Bodies /\ a \notin Intents /\ ContentMove(a)
  BY Apart DEF KeptInv, BytesStep
<1>1. ASSUME content[a] # "none"
      PROVE  content'[a] # "none"
  BY <1>0, <1>1 DEF ContentMove
<1>2. ASSUME content[a] # "none", NEW i \in Intents, <<a, i>> \in staged'
      PROVE  <<a, i>> \in staged
  <2>1. StageMove(a, i)
    BY DEF BytesStep
  <2> QED BY <1>2, <2>1 DEF StageMove
<1>3. CASE Used(a)
  <2>1. content[a] # "none" /\ \A i \in Intents : <<a, i>> \notin staged
    BY <1>0, <1>3 DEF Claimed
  <2> QED BY <1>1, <1>2, <2>1
<1>4. ASSUME NEW i \in Intents, <<a, i>> \in staged, <<a, i>> \notin staged'
      PROVE  content'[a] # "none" /\ \A j \in Intents : <<a, j>> \notin staged'
  <2>1. content[a] = "full" /\ \A j \in Intents : <<a, j>> \in staged => j = i
    BY <1>0, <1>4 DEF Bodies
  <2> QED BY <1>1, <1>2, <1>4, <2>1
<1> QED BY <1>3, <1>4, UsedFrom

\* A staged body is whole, and of one upload.
LEMMA BodiesKept ==
  ASSUME KeptInv, BytesStep
  PROVE  Bodies'
<1> SUFFICES ASSUME NEW a \in Attempts, NEW i \in Intents, <<a, i>> \in staged'
             PROVE  /\ content'[a] = "full" /\ Multipart(i)
                    /\ \A j \in Intents : <<a, j>> \in staged' => j = i
  BY DEF Bodies, Multipart
<1>0. /\ Claimed /\ Bodies /\ a \notin Intents /\ ContentMove(a)
      /\ \A j \in Intents : StageMove(a, j)
  BY Apart DEF KeptInv, BytesStep
<1>1. CASE <<a, i>> \in staged
  <2>1. /\ content[a] = "full" /\ Multipart(i)
        /\ \A j \in Intents : <<a, j>> \in staged => j = i
    BY <1>0, <1>1 DEF Bodies
  <2>2. ~Used(a)
    BY <1>0, <1>1 DEF Claimed
  <2>3. content'[a] = "full"
    BY <1>0, <2>1, <2>2 DEF ContentMove
  <2> QED BY <1>0, <2>1, <2>3 DEF StageMove
<1>2. CASE <<a, i>> \notin staged
  <2>1. /\ content[a] = "none" /\ content'[a] = "full" /\ Multipart(i)
        /\ \A j \in Intents : <<a, j>> \in staged' => j = i \/ <<a, j>> \in staged
    BY <1>0, <1>2 DEF StageMove
  <2>2. \A j \in Intents : <<a, j>> \notin staged
    BY <1>0, <2>1 DEF Bodies
  <2> QED BY <2>1, <2>2
<1> QED BY <1>1, <1>2

\* A finished transfer is full for as long as it may be completed.
LEMMA TransferredKept ==
  ASSUME KeptInv, BytesStep
  PROVE  Transferred'
<1> SUFFICES ASSUME NEW i \in Intents
             PROVE  /\ row'[i].state \in {"absent", "pending"} =>
                         /\ i \notin approved' /\ content'[i] = "none"
                         /\ <<"finish", i>> \notin sent'
                    /\ <<"finish", i>> \in sent' /\ row'[i].state = "accepted" =>
                         content'[i] = "full"
  BY DEF Transferred, Fresh
<1>0. /\ i \notin Attempts /\ RowMove(i) /\ TransferMove(i) /\ ContentMove(i)
      /\ Fresh(i) => i \notin approved /\ content[i] = "none" /\ <<"finish", i>> \notin sent
      /\ <<"finish", i>> \in sent /\ row[i].state = "accepted" => content[i] = "full"
  BY Apart DEF KeptInv, BytesStep, Transferred
<1>1. CASE row'[i].state \in {"absent", "pending"}
  <2>1. Fresh(i)
    BY <1>0, <1>1 DEF RowMove, Fresh
  <2>2. content'[i] = "none"
    BY <1>0, <1>1, <2>1 DEF ContentMove
  <2> QED BY <1>0, <1>1, <2>1, <2>2 DEF TransferMove
<1>2. CASE row'[i].state = "accepted" /\ <<"finish", i>> \in sent'
  <2>1. Fresh(i) \/ row[i].state = "accepted"
    BY <1>0, <1>2 DEF RowMove, Fresh
  <2>2. CASE <<"finish", i>> \in sent
    <3>1. content[i] = "full"
      BY <1>0, <2>1, <2>2
    <3> QED BY <1>0, <1>2, <3>1 DEF ContentMove
  <2>3. CASE <<"finish", i>> \notin sent
    BY <1>0, <1>2, <2>3 DEF TransferMove
  <2> QED BY <1>2, <2>2, <2>3
<1> QED BY <1>1, <1>2

\* The bytes of an upload that waits for its import stay.
LEMMA KeptKept ==
  ASSUME KeptInv, BytesStep
  PROVE  Kept'
<1> SUFFICES ASSUME NEW i \in Intents, Waits(i)', BackendOf[i] # "local_path"
             PROVE  /\ row'[i].upload # None
                    /\ \/ content'[row'[i].upload] = "full"
                       \/ BackendOf[i] = "multipart" /\ i \in Forfeit'
  BY DEF Kept, Multipart
<1>a. row'[i].upload # None
  <2>1. RowMove(i) /\ Kept /\ row'[i].state \in {"accepted", "processing"}
    BY DEF KeptInv, BytesStep, Waits
  <2>2. Waits(i) => row[i].upload # None
    BY <2>1 DEF Kept
  <2>3. row'[i].state = "accepted" => Multipart(i)
    BY DEF Waits, Multipart
  <2> QED BY <2>1, <2>2, <2>3, Apart DEF RowMove, Waits, Multipart
<1> SUFFICES ASSUME ~(Multipart(i) /\ i \in Forfeit')
             PROVE  row'[i].upload # None /\ content'[row'[i].upload] = "full"
  BY <1>a DEF Multipart
<1>0. /\ Named /\ Claimed /\ Bodies /\ Kept
      /\ RowMove(i) /\ row[i].upload \in Names(i)
      /\ ~(Multipart(i) /\ i \in Forfeit)
      /\ row'[i].state = "processing" \/ (row'[i].state = "accepted" /\ Multipart(i))
  BY DEF KeptInv, BytesStep, Named, Waits, Multipart
<1>1. ASSUME Waits(i), row'[i].upload = row[i].upload
      PROVE  row'[i].upload # None /\ content'[row'[i].upload] = "full"
  <2> DEFINE u == row[i].upload
  <2>1. u # None /\ content[u] = "full"
    BY <1>0, <1>1 DEF Kept
  <2>2. u \in UploadIds /\ ContentMove(u)
    BY <1>0, <2>1 DEF Names, UploadIds, BytesStep
  <2>3. CASE u \in Intents
    <3>1. u = i /\ u \notin Attempts
      BY <1>0, <2>3, Apart DEF Names
    <3> QED BY <1>0, <1>1, <2>1, <2>2, <3>1 DEF ContentMove
  <2>4. CASE u \in Attempts
    <3>1. u \notin Intents /\ Multipart(i)
      BY <1>0, <2>1, <2>4, Apart DEF Names
    <3>2. \A j \in Intents : <<u, j>> \notin staged
      BY <1>0, <2>4 DEF Claimed, Used
    <3>3. ~Spent(u)
      BY <1>0, <1>1, <3>1 DEF Spent
    <3> HIDE DEF u
    <3>4. content'[u] = "full"
      BY <2>1, <2>2, <3>1, <3>2, <3>3 DEF ContentMove
    <3> QED BY <1>1, <2>1, <3>4 DEF u
  <2> QED BY <2>2, <2>3, <2>4 DEF UploadIds
<1>2. CASE row'[i].state = row[i].state /\ row'[i].upload = row[i].upload
  BY <1>0, <1>1, <1>2 DEF Waits
<1>3. ASSUME NEW a \in Attempts, <<a, i>> \in staged, row[i].state = "pending",
             row'[i].state = "accepted", row'[i].upload = a
      PROVE  row'[i].upload # None /\ content'[row'[i].upload] = "full"
  <2>1. a \notin Intents /\ a # None /\ a \in UploadIds
    BY Apart
  <2>2. /\ content[a] = "full" /\ ~Used(a) /\ Multipart(i)
        /\ \A j \in Intents : <<a, j>> \in staged => j = i
    BY <1>0, <1>3 DEF Bodies, Claimed
  <2>3. row' # row
    BY <1>3
  <2>4. ContentMove(a)
    BY <2>1 DEF BytesStep
  <2> QED BY <1>3, <2>1, <2>2, <2>3, <2>4 DEF ContentMove
<1>4. CASE /\ row[i].state = "accepted" /\ row'[i].upload = row[i].upload
           /\ Multipart(i)
  BY <1>1, <1>4 DEF Waits
<1>5. CASE /\ row'[i].state = "processing" /\ row'[i].upload = row[i].upload
           /\ row[i].upload = i /\ content[i] = "full"
  <2>1. ContentMove(i) /\ i \notin Attempts /\ i # None
    BY Apart DEF BytesStep
  <2> QED BY <1>5, <2>1 DEF ContentMove
<1> QED BY <1>0, <1>2, <1>3, <1>4, <1>5 DEF RowMove, Multipart

\* What the sweep is about to import is still what it saw.
LEMMA SeenStays ==
  ASSUME KeptInv, BytesStep, NamesStep
  PROVE  Seen'
<1> SUFFICES ASSUME phase' = "advance", NEW i \in Intents
             PROVE  /\ seen'[i].state = "pending" => BackendOf[i] = "local_path"
                    /\ seen'[i].state = "accepted" =>
                         /\ Multipart(i) /\ seen'[i].upload # None
                         /\ row'[i].state \notin {"absent", "pending"}
                         /\ row'[i].state = "accepted" => seen'[i].upload = row'[i].upload
  BY DEF Seen, Multipart, Fresh
<1>0. Seen /\ Kept /\ Named /\ RowMove(i) /\ SeenFrom(i)
  BY DEF KeptInv, BytesStep, NamesStep
<1>1. CASE seen'[i] = seen[i] /\ phase = "advance"
  <2>1. /\ seen[i].state = "pending" => BackendOf[i] = "local_path"
        /\ seen[i].state = "accepted" =>
             /\ Multipart(i) /\ seen[i].upload # None
             /\ row[i].state \notin {"absent", "pending"}
             /\ row[i].state = "accepted" => seen[i].upload = row[i].upload
    BY <1>0, <1>1 DEF Seen, Fresh
  <2> QED BY <1>0, <1>1, <2>1 DEF RowMove
<1>2. CASE seen'[i] = NoRow
  BY <1>2, Apart
<1>3. CASE seen'[i] = row'[i] /\ row'[i].state = "ready"
  BY <1>3
<1>4. CASE seen'[i] = row[i] /\ row' = row /\ Active(row[i], i)
  <2>1. row[i].state = "pending" => BackendOf[i] = "local_path"
    BY <1>4 DEF Active
  <2>2. row[i].state = "accepted" => Multipart(i)
    BY <1>4 DEF Active, Multipart
  <2>3. row[i].state = "accepted" => row[i].upload # None
    BY <1>0, <2>2 DEF Kept, Waits, Multipart
  <2> QED BY <1>4, <2>1, <2>2, <2>3
<1> QED BY <1>0, <1>1, <1>2, <1>3, <1>4 DEF SeenFrom

\* Nothing comes to wait again for bytes no one waited for.
LEMMA SpentStays ==
  ASSUME KeptInv, BytesStep, NEW STATE u, u \in Attempts => Used(u), Spent(u)
  PROVE  SpentNext(u)
<1> SUFFICES ASSUME NEW i \in Intents, row'[i].upload = u, Multipart(i),
                    row'[i].state \in {"accepted", "processing"}
             PROVE  i \in Forfeit'
  BY DEF SpentNext
<1>0. /\ RowMove(i) /\ Claimed /\ Forfeit \subseteq Forfeit' /\ BackendOf[i] = "multipart"
  BY DEF BytesStep, KeptInv, Multipart
<1>1. CASE row[i].state \in {"processing", "accepted"} /\ row'[i].upload = row[i].upload
  BY <1>0, <1>1 DEF Spent, Waits
<1>2. ASSUME NEW a \in Attempts, <<a, i>> \in staged, row'[i].upload = a
      PROVE  FALSE
  BY <1>0, <1>2 DEF Claimed
<1> QED BY <1>0, <1>1, <1>2 DEF RowMove

\* Neither the sweep nor a browser deletes bytes an upload waits for.
LEMMA DeletableKept ==
  ASSUME KeptInv, BytesStep, NamesStep
  PROVE  Deletable'
<1>0. Named /\ Deletable /\ Claimed
  BY DEF KeptInv
<1>1. ASSUME NEW i \in Intents, row[i].upload # None,
             \/ row'[i].state \notin {"accepted", "processing"}
             \/ i \in Forfeit'
      PROVE  SpentNext(row[i].upload)
  <2> SUFFICES ASSUME NEW j \in Intents, row'[j].upload = row[i].upload, Multipart(j),
                      row'[j].state \in {"accepted", "processing"}
               PROVE  j \in Forfeit'
    BY DEF SpentNext
  <2>1. RowMove(j) /\ BackendOf[j] = "multipart"
    BY DEF BytesStep, Multipart
  <2>2. CASE row[j].upload = row[i].upload
    BY <1>0, <1>1, <2>2 DEF Named
  <2>3. ASSUME NEW a \in Attempts, <<a, j>> \in staged, row[i].upload = a
        PROVE  FALSE
    BY <1>0, <2>3 DEF Claimed, Used
  <2> QED BY <2>1, <2>2, <2>3 DEF RowMove
<1>2. ASSUME phase' = "cleanup", NEW i \in Intents, seen'[i].state # "absent"
      PROVE  SpentNext(seen'[i].upload)
  <2>1. SeenFrom(i)
    BY DEF NamesStep
  <2>2. CASE seen'[i] = seen[i] /\ phase = "cleanup"
    <3>1. Spent(seen[i].upload)
      BY <1>0, <1>2, <2>2 DEF Deletable
    <3>2. seen[i].upload \in Attempts => Used(seen[i].upload)
      BY DEF Used
    <3>3. SpentNext(seen[i].upload)
      BY <3>1, <3>2, SpentStays
    <3> QED BY <2>2, <3>3
  <2>3. CASE seen'[i] = row'[i] /\ row' = row /\ Cleanable(row[i], i)
    <3>1. SpentNext(row[i].upload)
      BY <1>1, <2>3 DEF Cleanable
    <3> QED BY <2>3, <3>1
  <2> QED BY <1>2, <2>1, <2>2, <2>3, Apart DEF SeenFrom
<1>3. ASSUME NEW p \in {"sweep", "browser"}, place'[p].at = "cleanup"
      PROVE  SpentNext(place'[p].on)
  <2>1. PlaceFrom(p)
    BY DEF NamesStep
  <2>2. CASE place'[p] = place[p]
    <3>1. Spent(place[p].on)
      BY <1>0, <1>3, <2>2 DEF Deletable
    <3>2. place[p].on \in Attempts => Used(place[p].on)
      BY DEF Used
    <3>3. SpentNext(place[p].on)
      BY <3>1, <3>2, SpentStays
    <3> QED BY <2>2, <3>3
  <2>3. ASSUME NEW i \in Intents, place'[p].on = row[i].upload, row[i].upload # None,
               row'[i].state = "expired" \/ i \in Forfeit'
        PROVE  SpentNext(place'[p].on)
    <3>1. SpentNext(row[i].upload)
      BY <1>1, <2>3
    <3> QED BY <2>3, <3>1
  <2>4. ASSUME NEW i \in Intents, phase = "cleanup", place'[p].on = seen[i].upload,
               seen[i].state # "absent"
        PROVE  SpentNext(place'[p].on)
    <3>1. Spent(seen[i].upload)
      BY <1>0, <2>4 DEF Deletable
    <3>2. seen[i].upload \in Attempts => Used(seen[i].upload)
      BY DEF Used
    <3>3. SpentNext(seen[i].upload)
      BY <3>1, <3>2, SpentStays
    <3> QED BY <2>4, <3>3
  <2> QED BY <1>3, <2>1, <2>2, <2>3, <2>4 DEF PlaceFrom
<1> QED BY <1>2, <1>3 DEF Deletable, Spent, SpentNext, Waits, Multipart

-----------------------------------------------------------------------------
(* Every step is such a step.                                              *)

\* A step of one row.
LEMMA MoveOne ==
  ASSUME NEW i \in Intents, RowMove(i), \A j \in Intents : j # i => row'[j] = row[j]
  PROVE  \A j \in Intents : RowMove(j)
BY DEF RowMove

\* A step that leaves the bytes alone.
LEMMA RowsBytes ==
  ASSUME \A j \in Intents : RowMove(j), content' = content, sent' = sent,
         staged' \subseteq staged, Forfeit \subseteq Forfeit',
         \A j \in Intents : j \in approved' => j \in approved \/ row'[j].state = "accepted"
  PROVE  BytesStep
<1>1. \A j \in Intents : TransferMove(j)
  BY DEF TransferMove
<1>2. \A u \in UploadIds : ContentMove(u)
  BY DEF ContentMove
<1>3. \A a \in Attempts, j \in Intents : StageMove(a, j)
  BY DEF StageMove
<1> QED BY <1>1, <1>2, <1>3 DEF BytesStep

\* A step that leaves rows and bytes alone.
LEMMA StillBytes ==
  ASSUME row' = row, content' = content, sent' = sent, staged' \subseteq staged,
         Forfeit \subseteq Forfeit', approved' \subseteq approved
  PROVE  BytesStep
<1>1. \A j \in Intents : RowMove(j)
  BY DEF RowMove
<1> QED BY <1>1, RowsBytes

\* Expiry never leaves an upload that waits for its import.
LEMMA ExpireMove ==
  ASSUME TypeOK, NEW i \in Intents, NEW c \in BOOLEAN, ExpireIntent(i, c)
  PROVE  /\ \A j \in Intents : RowMove(j)
         /\ row[i].state \in {"pending", "accepted", "failed"} => row'[i].state = "expired"
<1> DEFINE r == [row[i] EXCEPT !.state = "expired", !.upload = IF c THEN None ELSE @]
           e == row[i].state \in {"pending", "accepted", "failed"}
<1>1. r.state = "expired" /\ r.upload \in {row[i].upload, None}
  BY RowType DEF Rows
<1>2. UpdateIf(e, i, r)
  BY DEF ExpireIntent
<1>3. (row'[i] = r /\ e) \/ (row'[i] = row[i] /\ ~e)
  BY <1>2, OneRow DEF UpdateIf, rowVars
<1>4. \A j \in Intents : j # i => row'[j] = row[j]
  BY <1>2, OneRowIf
<1> HIDE DEF r
<1>5. RowMove(i)
  BY <1>1, <1>3 DEF RowMove
<1> QED BY <1>1, <1>3, <1>4, <1>5, MoveOne

\* record_terminated spares an upload that is being imported.
LEMMA TerminatedMove ==
  ASSUME TypeOK, NEW u, RecordTerminated(u)
  PROVE  \A j \in Intents : RowMove(j)
<1>1. CASE UNCHANGED rowVars
  BY <1>1 DEF RowMove, rowVars
<1>2. ASSUME NEW i \in Owners(u), row[i].state # "processing", UpdateUpload(i, Terminated(i))
      PROVE  \A j \in Intents : RowMove(j)
  <2>1. i \in Intents /\ row[i] \in Rows
    BY RowType DEF Owners
  <2>2. /\ Terminated(i).upload = None
        /\ Terminated(i).state \in {"ready", "indexed", "expired"}
    BY <2>1 DEF Terminated, Rows
  <2>3. row'[i] = Terminated(i) /\ \A j \in Intents : j # i => row'[j] = row[j]
    BY <1>2, <2>1, OneRow
  <2>4. RowMove(i)
    BY <2>2, <2>3 DEF RowMove
  <2> QED BY <2>1, <2>3, <2>4, MoveOne
<1> QED BY <1>1, <1>2 DEF RecordTerminated

\* A transfer is completed only when its bytes are there.
LEMMA CompleteMove ==
  ASSUME TypeOK, NEW i \in Intents, CanComplete(i), CompleteTransfer(i), content[i] = "full"
  PROVE  \A j \in Intents : RowMove(j)
<1> DEFINE r == [row[i] EXCEPT !.state = "processing", !.job = TRUE]
<1>1. r.state = "processing" /\ r.upload = row[i].upload
  BY RowType DEF Rows
<1>2. row'[i] = r /\ \A j \in Intents : j # i => row'[j] = row[j]
  BY OneRow DEF CompleteTransfer
<1>3. row[i].state = "accepted" /\ row[i].upload = i /\ i # None
  BY Apart DEF CanComplete
<1> HIDE DEF r
<1>4. RowMove(i)
  BY <1>1, <1>2, <1>3 DEF RowMove
<1> QED BY <1>2, <1>4, MoveOne

\* tusd deletes only what no import waits for.
LEMMA DeleteMove ==
  ASSUME TypeOK, NEW i \in Intents, NEW internal \in BOOLEAN, MayTerminate(i, internal),
         NEW removed \in BOOLEAN, TusDelete(i, removed), Forfeit' = Forfeit
  PROVE  BytesStep
<1>1. /\ row'[i] = Terminating(i)
      /\ \A j \in Intents : j # i => row'[j] = row[j]
  BY OneRow DEF TusDelete
<1>2. /\ Terminating(i).upload = row[i].upload
      /\ Terminating(i).state \in {"ready", "indexed", "expired"}
  BY RowType DEF Terminating, MayTerminate, Rows
<1>3. RowMove(i)
  BY <1>1, <1>2 DEF RowMove
<1>4. \A j \in Intents : RowMove(j)
  BY <1>1, <1>3, MoveOne
<1>5. \A u \in UploadIds : ContentMove(u)
  <2> TAKE u \in UploadIds
  <2>1. CASE u = i
    BY <1>1, <1>2, <2>1 DEF ContentMove
  <2>2. CASE u # i
    BY <2>2 DEF ContentMove, TusDelete, TypeOK
  <2> QED BY <2>1, <2>2
<1>6. \A j \in Intents : TransferMove(j)
  BY DEF TransferMove, TusDelete
<1>7. \A a \in Attempts, j \in Intents : StageMove(a, j)
  BY DEF StageMove, TusDelete
<1> QED BY <1>4, <1>5, <1>6, <1>7 DEF BytesStep

\* A step that leaves the sweep and the browser where they are.
LEMMA NamesSame ==
  ASSUME UNCHANGED <<phase, seen, place>>
  PROVE  NamesStep
BY DEF NamesStep, SeenFrom, PlaceFrom

\* Taking a row off the list.
LEMMA ForgetFrom ==
  ASSUME TypeOK, NEW i \in Intents, Forget(i), phase' = phase
  PROVE  \A j \in Intents : SeenFrom(j)
BY DEF Forget, SeenFrom, TypeOK

\* Moving on in a cleanup, a submission or an expiry.
LEMMA GoFrom ==
  ASSUME TypeOK, NEW p \in {"sweep", "browser"}
  PROVE  /\ Stop(p) => \A q \in {"sweep", "browser"} : PlaceFrom(q)
         /\ \A i \in Intents : \A at \in {"submit_import", "submit_index", "expire", "terminated"} :
              Go(p, at, i) => \A q \in {"sweep", "browser"} : PlaceFrom(q)
         /\ \A i \in Intents :
              Go(p, "terminated", row[i].upload) => \A q \in {"sweep", "browser"} : PlaceFrom(q)
         /\ Go(p, "terminated", place[p].on) => \A q \in {"sweep", "browser"} : PlaceFrom(q)
<1>0. place \in [{"sweep", "browser"} -> Places]
  BY DEF TypeOK
<1>1. ASSUME NEW at, NEW on, place' = [place EXCEPT ![p] = [at |-> at, on |-> on]]
      PROVE  /\ place'[p].at = at /\ place'[p].on = on
             /\ \A q \in {"sweep", "browser"} : q # p => place'[q] = place[q]
  BY <1>0, <1>1
<1>2. ASSUME PlaceFrom(p), \A q \in {"sweep", "browser"} : q # p => place'[q] = place[q]
      PROVE  \A q \in {"sweep", "browser"} : PlaceFrom(q)
  BY <1>2 DEF PlaceFrom
<1>3. CASE Stop(p)
  BY <1>1, <1>2, <1>3 DEF Stop, Idle, PlaceFrom
<1>4. ASSUME NEW i \in Intents,
             NEW at \in {"submit_import", "submit_index", "expire", "terminated"}, Go(p, at, i)
      PROVE  \A q \in {"sweep", "browser"} : PlaceFrom(q)
  <2>1. PlaceFrom(p)
    BY <1>1, <1>4 DEF Go, PlaceFrom
  <2> QED BY <1>1, <1>2, <1>4, <2>1 DEF Go
<1>5. ASSUME NEW i \in Intents, Go(p, "terminated", row[i].upload)
      PROVE  \A q \in {"sweep", "browser"} : PlaceFrom(q)
  <2>1. PlaceFrom(p)
    BY <1>1, <1>5 DEF Go, PlaceFrom
  <2> QED BY <1>1, <1>2, <1>5, <2>1 DEF Go
<1>6. ASSUME Go(p, "terminated", place[p].on)
      PROVE  \A q \in {"sweep", "browser"} : PlaceFrom(q)
  <2>1. PlaceFrom(p)
    BY <1>1, <1>6 DEF Go, PlaceFrom
  <2> QED BY <1>1, <1>2, <1>6, <2>1 DEF Go
<1> QED BY <1>3, <1>4, <1>5, <1>6

\* Creation, cancellation and indexing retries.
LEMMA CallerKeeps ==
  ASSUME TypeOK, KeptInv, Caller
  PROVE  BytesStep /\ NamesStep
<1> USE DEF rowVars, tusVars, jobVars, sweepVars, callVars, envVars, Forfeit
<1>1. ASSUME NEW i \in Intents, CreateIntent(i) \/ CreateLocalIngestion(i)
      PROVE  BytesStep /\ NamesStep
  <2>1. /\ row[i].state = "absent"
        /\ row'[i].upload = None /\ row'[i].state \in {"pending", "failed"}
        /\ \A j \in Intents : j # i => row'[j] = row[j]
    <3> DEFINE new == [NoRow EXCEPT !.state = "pending", !.size = SizeOf[i]]
               bad == [NoRow EXCEPT !.state = "failed", !.failed = TRUE]
    <3>1. /\ new.state = "pending" /\ new.upload = None
          /\ bad.state = "failed" /\ bad.upload = None
      BY DEF NoRow
    <3>2. /\ row[i].state = "absent"
          /\ row' = [row EXCEPT ![i] = new] \/ row' = [row EXCEPT ![i] = bad]
      BY <1>1 DEF CreateIntent, CreateLocalIngestion
    <3> HIDE DEF new, bad
    <3> QED BY <3>1, <3>2 DEF TypeOK
  <2>2. RowMove(i)
    BY <2>1 DEF RowMove
  <2>3. \A j \in Intents : RowMove(j)
    BY <2>1, <2>2, MoveOne
  <2>4. UNCHANGED <<tusVars, sweepVars, callVars, unsure>>
    BY <1>1 DEF CreateIntent, CreateLocalIngestion
  <2> QED BY <2>3, <2>4, RowsBytes, NamesSame
<1>2. ASSUME NEW i \in Intents, RequestCancel(i)
      PROVE  BytesStep /\ NamesStep
  <2>1. /\ UNCHANGED <<rowVars, tusVars, sweepVars>>
        /\ Forfeit \subseteq Forfeit' /\ i \in Forfeit'
        /\ IF row[i].upload = None THEN Go("browser", "expire", i)
           ELSE Go("browser", "cleanup", row[i].upload)
    BY <1>2 DEF RequestCancel
  <2>2. BytesStep
    BY <2>1, StillBytes
  <2>3. \A j \in Intents : SeenFrom(j)
    BY <2>1 DEF SeenFrom
  <2>4. CASE row[i].upload = None
    <3>1. \A q \in {"sweep", "browser"} : PlaceFrom(q)
      BY <2>1, <2>4, GoFrom
    <3> QED BY <2>2, <2>3, <3>1 DEF NamesStep
  <2>5. CASE row[i].upload # None
    <3>1. /\ place'["browser"].on = row[i].upload
          /\ place'["sweep"] = place["sweep"]
      BY <2>1, <2>5 DEF Go, TypeOK
    <3>2. PlaceFrom("browser") /\ PlaceFrom("sweep")
      BY <2>1, <2>5, <3>1 DEF PlaceFrom
    <3> QED BY <2>2, <2>3, <3>2 DEF NamesStep
  <2> QED BY <2>4, <2>5
<1>3. CASE CancelPending
  <2>1. /\ place["browser"].on \in Intents /\ ExpireIntent(place["browser"].on, FALSE)
        /\ Stop("browser") /\ UNCHANGED <<tusVars, sweepVars, Forfeit>>
    BY <1>3, PlaceType DEF CancelPending
  <2>2. \A j \in Intents : RowMove(j)
    BY <2>1, ExpireMove
  <2>3. \A j \in Intents : SeenFrom(j)
    BY <2>1 DEF SeenFrom
  <2>4. \A q \in {"sweep", "browser"} : PlaceFrom(q)
    BY <2>1, GoFrom
  <2> QED BY <2>1, <2>2, <2>3, <2>4, RowsBytes DEF NamesStep
<1>4. ASSUME NEW m \in Media, NEW r \in Retries, Relink(m, r)
      PROVE  BytesStep /\ NamesStep
  <2>1. \A i \in Intents : row'[i].state = row[i].state /\ row'[i].upload = row[i].upload
    <3> TAKE i \in Intents
    <3>1. CASE i \in FailedIndexes(m)
      <4>1. row'[i] = [row[i] EXCEPT !.index = r, !.failed = FALSE]
        BY <1>4, <3>1 DEF Relink
      <4> QED BY <4>1, RowType DEF Rows
    <3>2. CASE i \notin FailedIndexes(m)
      BY <1>4, <3>2 DEF Relink
    <3> QED BY <3>1, <3>2
  <2>2. \A i \in Intents : RowMove(i)
    BY <2>1 DEF RowMove
  <2>3. UNCHANGED <<tusVars, sweepVars, place, Forfeit>>
    BY <1>4 DEF Relink
  <2> QED BY <2>2, <2>3, RowsBytes, NamesSame
<1>5. CASE SubmitRetry
  <2>1. UNCHANGED <<row, tusVars, sweepVars, place, Forfeit>>
    BY <1>5 DEF SubmitRetry
  <2> QED BY <2>1, StillBytes, NamesSame
<1>6. CASE RefuseRetry
  <2>1. \A i \in Intents : row'[i].state = row[i].state /\ row'[i].upload = row[i].upload
    <3> TAKE i \in Intents
    <3>1. row'[i] = row[i] \/ row'[i] = [row[i] EXCEPT !.failed = TRUE]
      BY <1>6 DEF RefuseRetry
    <3> QED BY <3>1, RowType DEF Rows
  <2>2. \A i \in Intents : RowMove(i)
    BY <2>1 DEF RowMove
  <2>3. UNCHANGED <<tusVars, sweepVars, place, Forfeit>>
    BY <1>6 DEF RefuseRetry
  <2> QED BY <2>2, <2>3, RowsBytes, NamesSame
<1> QED BY <1>1, <1>2, <1>3, <1>4, <1>5, <1>6 DEF Caller

\* The hooks and tusd.
LEMMA TusKeeps ==
  ASSUME TypeOK, KeptInv, NEW i \in Intents, Tus(i)
  PROVE  BytesStep /\ NamesStep
<1> USE DEF rowVars, tusVars, jobVars, sweepVars, callVars, envVars, Forfeit
<1>0. row[i] \in Rows /\ Transferred
  BY RowType DEF KeptInv
<1>a. NamesStep /\ UNCHANGED Forfeit
  <2>1. UNCHANGED <<phase, seen, place, Forfeit>>
    BY DEF Tus, ExpireCreation, AcceptCreation, ReplayCreation, TusCreate, TusForget,
           TusFinish, PostFinish, ClientTerminate, PostTerminate
  <2> QED BY <2>1, NamesSame
<1>1. CASE ExpireCreation(i)
  <2> DEFINE r == [row[i] EXCEPT !.state = "expired"]
  <2>1. r.state = "expired" /\ r.upload = row[i].upload
    BY <1>0 DEF Rows
  <2>2. UpdateUpload(i, r) /\ UNCHANGED tusVars
    BY <1>1 DEF ExpireCreation
  <2> HIDE DEF r
  <2>3. row'[i] = r /\ \A j \in Intents : j # i => row'[j] = row[j]
    BY <2>2, OneRow
  <2>4. RowMove(i)
    BY <2>1, <2>3 DEF RowMove
  <2>5. \A j \in Intents : RowMove(j)
    BY <2>3, <2>4, MoveOne
  <2> QED BY <1>a, <2>2, <2>5, RowsBytes
<1>2. CASE AcceptCreation(i)
  <2> DEFINE r == [row[i] EXCEPT !.state = "accepted", !.upload = i]
  <2>1. r.state = "accepted" /\ r.upload = i
    BY <1>0 DEF Rows
  <2>2. /\ UpdateUpload(i, r) /\ UNCHANGED <<content, sent, staged>>
        /\ approved' = approved \cup {i} /\ BackendOf[i] = "tus" /\ row[i].state = "pending"
    BY <1>2 DEF AcceptCreation
  <2> HIDE DEF r
  <2>3. row'[i] = r /\ \A j \in Intents : j # i => row'[j] = row[j]
    BY <2>2, OneRow
  <2>4. RowMove(i)
    BY <2>1, <2>2, <2>3 DEF RowMove
  <2>5. \A j \in Intents : RowMove(j)
    BY <2>3, <2>4, MoveOne
  <2> QED BY <1>a, <2>1, <2>2, <2>3, <2>5, RowsBytes
<1>3. CASE ReplayCreation(i) \/ TusForget(i)
  <2>1. /\ UNCHANGED <<row, content, sent, staged>>
        /\ \A j \in Intents : j \in approved' => j \in approved \/ row'[j].state = "accepted"
    BY <1>3 DEF ReplayCreation, TusForget
  <2>2. \A j \in Intents : RowMove(j)
    BY <2>1 DEF RowMove
  <2> QED BY <1>a, <2>1, <2>2, RowsBytes
<1>4. CASE TusCreate(i) \/ TusFinish(i)
  <2>1. /\ UNCHANGED <<row, staged>> /\ approved' \subseteq approved
        /\ \A u \in UploadIds : u # i => content'[u] = content[u]
        /\ \/ i \in approved /\ content[i] = "none" /\ sent' = sent
           \/ /\ content[i] = "partial" /\ content'[i] = "full"
              /\ sent' = sent \cup {<<"finish", i>>}
    BY <1>4, Apart DEF TusCreate, TusFinish, TypeOK
  <2>2. \A j \in Intents : RowMove(j) /\ TransferMove(j)
    BY <2>1 DEF RowMove, TransferMove
  <2>3. \A u \in UploadIds : ContentMove(u)
    BY <2>1 DEF ContentMove
  <2>4. \A a \in Attempts, j \in Intents : StageMove(a, j)
    BY <2>1 DEF StageMove
  <2> QED BY <1>a, <2>2, <2>3, <2>4 DEF BytesStep
<1>5. CASE PostFinish(i)
  <2>1. /\ CanComplete(i) /\ CompleteTransfer(i) /\ UNCHANGED tusVars
        /\ <<"finish", i>> \in sent
    BY <1>5 DEF PostFinish
  <2>2. content[i] = "full"
    BY <1>0, <2>1 DEF CanComplete, Transferred
  <2>3. \A j \in Intents : RowMove(j)
    BY <2>1, <2>2, CompleteMove
  <2> QED BY <1>a, <2>1, <2>3, RowsBytes
<1>6. CASE ClientTerminate(i)
  <2>1. MayTerminate(i, FALSE) /\ \E removed \in BOOLEAN : TusDelete(i, removed)
    BY <1>6 DEF ClientTerminate
  <2> QED BY <1>a, <2>1, DeleteMove
<1>7. CASE PostTerminate(i)
  <2>1. RecordTerminated(i) /\ UNCHANGED tusVars
    BY <1>7 DEF PostTerminate
  <2>2. \A j \in Intents : RowMove(j)
    BY <2>1, TerminatedMove
  <2> QED BY <1>a, <2>1, <2>2, RowsBytes
<1> QED BY <1>1, <1>2, <1>3, <1>4, <1>5, <1>6, <1>7 DEF Tus

\* Native multipart bodies.
LEMMA NativeKeeps ==
  ASSUME TypeOK, KeptInv, NEW i \in Intents, Native(i)
  PROVE  BytesStep /\ NamesStep
<1> USE DEF rowVars, tusVars, jobVars, sweepVars, callVars, envVars, Forfeit
<1>1. PICK a \in Attempts :
        Stage(a, i) \/ Claim(a, i) \/ RefuseClaim(a, i) \/ LoseClaim(a, i)
  BY DEF Native
<1>2. a \notin Intents /\ a \in UploadIds /\ Bodies
  BY Apart DEF KeptInv
<1>3. NamesStep /\ Forfeit \subseteq Forfeit' /\ UNCHANGED <<approved, sent>>
  <2>1. UNCHANGED <<phase, seen, place, approved, sent>> /\ Forfeit \subseteq Forfeit'
    BY <1>1 DEF Stage, Claim, RefuseClaim, LoseClaim
  <2> QED BY <2>1, NamesSame
<1>4. CASE Stage(a, i)
  <2>1. /\ UNCHANGED row /\ content[a] = "none" /\ content'[a] = "full" /\ Multipart(i)
        /\ staged' = staged \cup {<<a, i>>}
        /\ \A u \in UploadIds : u # a => content'[u] = content[u]
    BY <1>2, <1>4 DEF Stage, Multipart, TypeOK
  <2>2. \A j \in Intents : RowMove(j) /\ TransferMove(j)
    BY <1>3, <2>1 DEF RowMove, TransferMove
  <2>3. \A u \in UploadIds : ContentMove(u)
    BY <2>1 DEF ContentMove
  <2>4. \A b \in Attempts, j \in Intents : StageMove(b, j)
    BY <2>1 DEF StageMove
  <2> QED BY <1>3, <2>2, <2>3, <2>4 DEF BytesStep
<1>5. CASE /\ <<a, i>> \in staged /\ staged' = staged \ {<<a, i>>}
           /\ content' = [content EXCEPT ![a] = "removed"] /\ row' = row
  <2>1. /\ content'[a] = "removed"
        /\ \A u \in UploadIds : u # a => content'[u] = content[u]
    BY <1>2, <1>5 DEF TypeOK
  <2>2. \A j \in Intents : RowMove(j) /\ TransferMove(j)
    BY <1>3, <1>5, <2>1, <1>2 DEF RowMove, TransferMove
  <2>3. \A u \in UploadIds : ContentMove(u)
    BY <1>5, <2>1 DEF ContentMove
  <2>4. \A b \in Attempts, j \in Intents : StageMove(b, j)
    BY <1>5 DEF StageMove
  <2> QED BY <1>3, <2>2, <2>3, <2>4 DEF BytesStep
<1>6. CASE Claim(a, i) /\ row[i].state = "pending"
  <2> DEFINE r == [row[i] EXCEPT !.state = "accepted", !.upload = a]
  <2>1. r.state = "accepted" /\ r.upload = a
    BY RowType DEF Rows
  <2>2. /\ UpdateUpload(i, r) /\ content' = content
        /\ <<a, i>> \in staged /\ staged' = staged \ {<<a, i>>}
    BY <1>6 DEF Claim
  <2> HIDE DEF r
  <2>3. row'[i] = r /\ \A j \in Intents : j # i => row'[j] = row[j]
    BY <2>2, OneRow
  <2>4. Multipart(i)
    BY <1>2, <2>2 DEF Bodies
  <2>5. RowMove(i)
    BY <1>6, <2>1, <2>2, <2>3, <2>4 DEF RowMove
  <2>6. \A j \in Intents : RowMove(j)
    BY <2>3, <2>5, MoveOne
  <2> QED BY <1>3, <2>2, <2>6, RowsBytes
<1>7. CASE LoseClaim(a, i)
  <2> DEFINE r == [row[i] EXCEPT !.state = "accepted", !.upload = a]
  <2>1. r.state = "accepted" /\ r.upload = a
    BY RowType DEF Rows
  <2>2. /\ UpdateUpload(i, r) /\ row[i].state = "pending" /\ i \in Forfeit'
        /\ content' = [content EXCEPT ![a] = "removed"]
        /\ <<a, i>> \in staged /\ staged' = staged \ {<<a, i>>}
    BY <1>7 DEF LoseClaim
  <2> HIDE DEF r
  <2>3. /\ row'[i] = r /\ \A j \in Intents : j # i => row'[j] = row[j]
        /\ content'[a] = "removed" /\ \A u \in UploadIds : u # a => content'[u] = content[u]
    BY <1>2, <2>2, OneRow DEF TypeOK
  <2>4. Multipart(i)
    BY <1>2, <2>2 DEF Bodies
  <2>5. RowMove(i)
    BY <2>1, <2>2, <2>3, <2>4 DEF RowMove
  <2>6. \A j \in Intents : RowMove(j) /\ TransferMove(j)
    BY <1>3, <2>3, <2>5, MoveOne DEF TransferMove
  <2>7. \A u \in UploadIds : ContentMove(u)
    BY <2>1, <2>2, <2>3 DEF ContentMove
  <2>8. \A b \in Attempts, j \in Intents : StageMove(b, j)
    BY <2>2 DEF StageMove
  <2> QED BY <1>3, <2>6, <2>7, <2>8 DEF BytesStep
<1> QED BY <1>1, <1>3, <1>4, <1>5, <1>6, <1>7 DEF Claim, RefuseClaim

\* _cleanup_upload, by the sweep or by a browser.
LEMMA CleanupKeeps ==
  ASSUME TypeOK, KeptInv, NEW p \in {"sweep", "browser"}, Cleanup(p)
  PROVE  BytesStep /\ NamesStep
<1> USE DEF rowVars, tusVars, jobVars, sweepVars, callVars, envVars, Forfeit
<1> DEFINE u == place[p].on
<1>0. UNCHANGED <<phase, seen, Forfeit>> /\ Named /\ Deletable
  BY DEF Cleanup, CleanupLocal, CleanupTus, CleanupFails, FinishCleanup, KeptInv
<1>a. \A j \in Intents : SeenFrom(j)
  BY <1>0 DEF SeenFrom
<1>1. CASE CleanupLocal(p)
  <2>1. /\ UNCHANGED <<row, approved, sent, staged>> /\ Go(p, "terminated", u)
        /\ content' = IF \E i \in Owners(u) : BackendOf[i] = "multipart"
                      THEN [content EXCEPT ![u] = "removed"] ELSE content
        /\ place[p].at = "cleanup"
    BY <1>1 DEF CleanupLocal
  <2>2. NamesStep
    <3>1. \A q \in {"sweep", "browser"} : PlaceFrom(q)
      BY <2>1, GoFrom
    <3> QED BY <1>a, <3>1 DEF NamesStep
  <2>3. CASE content' = content
    BY <1>0, <2>1, <2>2, <2>3, StillBytes
  <2>4. CASE /\ \E i \in Owners(u) : BackendOf[i] = "multipart"
             /\ content' = [content EXCEPT ![u] = "removed"]
    <3>1. PICK i \in Intents : row[i].upload = u /\ Multipart(i)
      BY <2>4 DEF Owners, Multipart
    <3>2. u \in UploadIds
      BY <2>1, PlaceType
    <3>3. u \in Attempts /\ u # None /\ Used(u) /\ Spent(u)
      <4>1. u # None
        BY <3>2, Apart DEF UploadIds
      <4>2. u \in Attempts
        BY <1>0, <3>1, <4>1 DEF Named, Names
      <4>3. Used(u)
        BY <3>1 DEF Used
      <4>4. Spent(u)
        BY <1>0, <2>1 DEF Deletable
      <4> QED BY <4>1, <4>2, <4>3, <4>4
    <3> HIDE DEF u
    <3>4. content'[u] = "removed" /\ \A v \in UploadIds : v # u => content'[v] = content[v]
      BY <2>4, <3>2 DEF TypeOK
    <3>5. \A v \in UploadIds : ContentMove(v)
      <4> TAKE v \in UploadIds
      <4>1. CASE v = u
        BY <2>1, <3>3, <3>4, <4>1 DEF ContentMove
      <4>2. CASE v # u
        BY <3>4, <4>2 DEF ContentMove
      <4> QED BY <4>1, <4>2
    <3>6. \A j \in Intents : RowMove(j) /\ TransferMove(j)
      BY <2>1 DEF RowMove, TransferMove
    <3>7. \A b \in Attempts, j \in Intents : StageMove(b, j)
      BY <2>1 DEF StageMove
    <3> QED BY <1>0, <2>2, <3>5, <3>6, <3>7 DEF BytesStep
  <2> QED BY <2>1, <2>3, <2>4
<1>2. CASE CleanupTus(p)
  <2>1. PICK i \in Intents :
          \/ Go(p, "terminated", i) /\ UNCHANGED <<rowVars, tusVars>>
          \/ Stop(p) /\ UNCHANGED <<rowVars, tusVars>>
          \/ \E removed \in BOOLEAN :
               /\ MayTerminate(i, TRUE) /\ TusDelete(i, removed)
               /\ Go(p, "terminated", i) \/ Stop(p)
    BY <1>2 DEF CleanupTus, TusOwners, Owners
  <2>2. NamesStep
    <3>1. Go(p, "terminated", i) \/ Stop(p)
      BY <2>1
    <3>2. \A q \in {"sweep", "browser"} : PlaceFrom(q)
      BY <3>1, GoFrom
    <3> QED BY <1>a, <3>2 DEF NamesStep
  <2>3. CASE UNCHANGED <<rowVars, tusVars>>
    BY <1>0, <2>2, <2>3, StillBytes
  <2>4. CASE \E removed \in BOOLEAN : MayTerminate(i, TRUE) /\ TusDelete(i, removed)
    BY <1>0, <2>2, <2>4, DeleteMove
  <2> QED BY <2>1, <2>3, <2>4
<1>3. CASE CleanupFails(p) \/ FinishCleanup(p)
  <2>1. /\ Stop(p) /\ UNCHANGED tusVars
        /\ row' = row \/ RecordTerminated(u)
    BY <1>3 DEF CleanupFails, FinishCleanup
  <2>2. \A q \in {"sweep", "browser"} : PlaceFrom(q)
    BY <2>1, GoFrom
  <2>3. \A j \in Intents : RowMove(j)
    <3>1. CASE row' = row
      BY <3>1 DEF RowMove
    <3> QED BY <2>1, <3>1, TerminatedMove
  <2> QED BY <1>0, <1>a, <2>1, <2>2, <2>3, RowsBytes DEF NamesStep
<1> QED BY <1>1, <1>2, <1>3 DEF Cleanup

\* The advancing part of the sweep.
LEMMA AdvanceKeeps ==
  ASSUME TypeOK, KeptInv, NEW i \in Intents,
         \/ StartImport(i) \/ ResubmitImport(i) \/ RegisterImport(i) \/ FailImport(i)
         \/ StartIndex(i) \/ ResubmitIndex(i) \/ RegisterIndex(i) \/ FailIndex(i)
         \/ Postpone(i)
  PROVE  BytesStep /\ NamesStep
<1> USE DEF rowVars, tusVars, jobVars, sweepVars, callVars, envVars, Forfeit
<1>0. row[i] \in Rows /\ Named /\ Seen
  BY RowType DEF KeptInv
<1>a. UNCHANGED <<content, approved, sent, staged, Forfeit, phase>>
  <2>1. CASE StartImport(i) \/ ResubmitImport(i) \/ RegisterImport(i) \/ FailImport(i)
    BY <2>1 DEF StartImport, ResubmitImport, RegisterImport, FailImport
  <2>2. CASE \/ StartIndex(i) \/ ResubmitIndex(i) \/ RegisterIndex(i) \/ FailIndex(i)
             \/ Postpone(i)
    BY <2>2 DEF StartIndex, ResubmitIndex, RegisterIndex, FailIndex, Postpone
  <2> QED BY <2>1, <2>2
<1>b. ASSUME NEW r, row'[i] = r, \A j \in Intents : j # i => row'[j] = row[j],
             \/ r.state = row[i].state /\ r.upload = row[i].upload
             \/ r.state \in {"ready", "indexed", "failed"} /\ r.upload = row[i].upload
      PROVE  \A j \in Intents : RowMove(j)
  <2>1. RowMove(i)
    BY <1>b DEF RowMove
  <2> QED BY <1>b, <2>1, MoveOne
<1>1. ASSUME \A j \in Intents : RowMove(j), Forget(i) \/ UNCHANGED seen,
             \/ UNCHANGED place \/ Stop("sweep")
             \/ Go("sweep", "submit_import", i) \/ Go("sweep", "submit_index", i)
      PROVE  BytesStep /\ NamesStep
  <2>1. BytesStep
    BY <1>a, <1>1, RowsBytes
  <2>2. \A j \in Intents : SeenFrom(j)
    <3>1. CASE UNCHANGED seen
      BY <1>a, <3>1 DEF SeenFrom
    <3> QED BY <1>a, <1>1, <3>1, ForgetFrom
  <2>3. \A q \in {"sweep", "browser"} : PlaceFrom(q)
    <3>1. CASE UNCHANGED place
      BY <3>1 DEF PlaceFrom
    <3> QED BY <1>1, <3>1, GoFrom
  <2> QED BY <2>1, <2>2, <2>3 DEF NamesStep
<1>2. CASE StartImport(i)
  <2> DEFINE u == IF seen[i].upload = None THEN i ELSE seen[i].upload
             r == [row[i] EXCEPT !.state = "processing", !.job = TRUE, !.upload = u]
  <2>1. CASE row' = row /\ place' = place
    <3>1. \A j \in Intents : RowMove(j)
      BY <2>1 DEF RowMove
    <3> QED BY <1>1, <1>2, <2>1, <3>1 DEF StartImport
  <2>2. CASE /\ row[i].state = seen[i].state /\ UpdateUpload(i, r)
             /\ Go("sweep", "submit_import", i)
    <3>1. phase = "advance" /\ seen[i].state \in {"pending", "accepted"}
      BY <1>2 DEF StartImport, Takes
    <3>2. /\ seen[i].state = "pending" => BackendOf[i] = "local_path"
          /\ seen[i].state = "accepted" =>
               /\ Multipart(i) /\ seen[i].upload # None
               /\ row[i].state = "accepted" => seen[i].upload = row[i].upload
          /\ seen[i].upload \in Names(i)
      BY <1>0, <3>1 DEF Seen, Named
    <3>3. r.state = "processing" /\ r.upload = u
      BY <1>0 DEF Rows
    <3>4. /\ seen[i].state = "pending" => u = i
          /\ seen[i].state = "accepted" => u = row[i].upload /\ u # None
      BY <2>2, <3>2 DEF Names, Multipart
    <3> HIDE DEF u
    <3> HIDE DEF r
    <3>5. row'[i] = r /\ \A j \in Intents : j # i => row'[j] = row[j]
      BY <2>2, OneRow
    <3>6. RowMove(i)
      BY <2>2, <3>1, <3>2, <3>3, <3>4, <3>5 DEF RowMove
    <3>7. \A j \in Intents : RowMove(j)
      BY <3>5, <3>6, MoveOne
    <3>8. Forget(i)
      BY <1>2 DEF StartImport
    <3> QED BY <1>1, <2>2, <3>7, <3>8
  <2> QED BY <1>2, <2>1, <2>2 DEF StartImport
<1>3. CASE ResubmitImport(i) \/ ResubmitIndex(i) \/ Postpone(i)
  <2>1. /\ row' = row /\ (Forget(i) \/ UNCHANGED seen)
        /\ UNCHANGED place \/ Stop("sweep")
    BY <1>3 DEF ResubmitImport, ResubmitIndex, Postpone
  <2>2. \A j \in Intents : RowMove(j)
    BY <2>1 DEF RowMove
  <2> QED BY <1>1, <2>1, <2>2
<1>4. CASE RegisterImport(i)
  <2> DEFINE r == [row[i] EXCEPT !.state = "ready", !.media = TRUE]
  <2>1. r.state = "ready" /\ r.upload = row[i].upload
    BY <1>0 DEF Rows
  <2>2. UpdateIf(Importing(i), i, r) /\ place' = place /\ phase = "advance"
    BY <1>4 DEF RegisterImport, Takes
  <2> HIDE DEF r
  <2>3. \A j \in Intents : RowMove(j)
    <3>1. /\ row'[i] = r \/ row'[i] = row[i]
          /\ \A j \in Intents : j # i => row'[j] = row[j]
      BY <2>2, OneRowIf
    <3> QED BY <1>b, <2>1, <3>1
  <2>4. seen'[i] = NoRow \/ (seen'[i] = row'[i] /\ row'[i].state = "ready")
    BY <1>4 DEF RegisterImport, TypeOK
  <2>5. \A j \in Intents : j # i => seen'[j] = seen[j]
    BY <1>4 DEF RegisterImport, TypeOK
  <2>6. \A j \in Intents : SeenFrom(j)
    BY <1>a, <2>2, <2>4, <2>5 DEF SeenFrom
  <2>7. BytesStep
    BY <1>a, <2>3, RowsBytes
  <2> QED BY <2>2, <2>6, <2>7 DEF NamesStep, PlaceFrom
<1>5. CASE FailImport(i)
  <2> DEFINE r == [row[i] EXCEPT !.state = "failed", !.failed = TRUE]
  <2>1. r.state = "failed" /\ r.upload = row[i].upload
    BY <1>0 DEF Rows
  <2>2. /\ UpdateIf(Importing(i), i, r) /\ (Forget(i) \/ UNCHANGED seen)
        /\ UNCHANGED place \/ Stop("sweep")
    BY <1>5 DEF FailImport, FailImportOf
  <2> HIDE DEF r
  <2>3. /\ row'[i] = r \/ row'[i] = row[i]
        /\ \A j \in Intents : j # i => row'[j] = row[j]
    BY <2>2, OneRowIf
  <2>4. \A j \in Intents : RowMove(j)
    BY <1>b, <2>1, <2>3
  <2> QED BY <1>1, <2>2, <2>4
<1>6. CASE StartIndex(i)
  <2> DEFINE r == [row[i] EXCEPT !.index = i]
  <2>1. r.state = row[i].state /\ r.upload = row[i].upload
    BY <1>0 DEF Rows
  <2>2. /\ \/ UpdateUpload(i, r) /\ Go("sweep", "submit_index", i)
           \/ row' = row /\ place' = place
        /\ Forget(i)
    BY <1>6 DEF StartIndex
  <2> HIDE DEF r
  <2>3. /\ row'[i] = r \/ row'[i] = row[i]
        /\ \A j \in Intents : j # i => row'[j] = row[j]
    BY <2>2, OneRow
  <2>4. \A j \in Intents : RowMove(j)
    BY <1>b, <2>1, <2>3
  <2> QED BY <1>1, <2>2, <2>4
<1>7. CASE RegisterIndex(i)
  <2> DEFINE r == [row[i] EXCEPT !.state = "indexed"]
  <2>1. r.state = "indexed" /\ r.upload = row[i].upload
    BY <1>0 DEF Rows
  <2>2. UpdateIf(Awaits(i, seen[i].index), i, r) /\ Forget(i) /\ UNCHANGED place
    BY <1>7 DEF RegisterIndex
  <2> HIDE DEF r
  <2>3. /\ row'[i] = r \/ row'[i] = row[i]
        /\ \A j \in Intents : j # i => row'[j] = row[j]
    BY <2>2, OneRowIf
  <2>4. \A j \in Intents : RowMove(j)
    BY <1>b, <2>1, <2>3
  <2> QED BY <1>1, <2>2, <2>4
<1>8. CASE FailIndex(i)
  <2> DEFINE r == [row[i] EXCEPT !.failed = TRUE]
  <2>1. r.state = row[i].state /\ r.upload = row[i].upload
    BY <1>0 DEF Rows
  <2>2. /\ UpdateIf(Awaits(i, seen[i].index), i, r) \/ UpdateIf(Awaits(i, i), i, r)
        /\ Forget(i) \/ UNCHANGED seen
        /\ UNCHANGED place \/ Stop("sweep")
    BY <1>8 DEF FailIndex
  <2> HIDE DEF r
  <2>3. /\ row'[i] = r \/ row'[i] = row[i]
        /\ \A j \in Intents : j # i => row'[j] = row[j]
    BY <2>2, OneRowIf
  <2>4. \A j \in Intents : RowMove(j)
    BY <1>b, <2>1, <2>3
  <2> QED BY <1>1, <2>2, <2>4
<1> QED BY <1>2, <1>3, <1>4, <1>5, <1>6, <1>7, <1>8

\* The recovering, expiring and cleaning parts.
LEMMA ReclaimKeeps ==
  ASSUME TypeOK, KeptInv, NEW i \in Intents,
         ProbeRecover(i) \/ ProbeFails(i) \/ ExpireTus(i) \/ Expire(i)
           \/ SpareActive(i) \/ CleanItem(i)
  PROVE  BytesStep /\ NamesStep
<1> USE DEF rowVars, tusVars, jobVars, sweepVars, callVars, envVars, Forfeit
<1>a. UNCHANGED <<content, approved, sent, staged, Forfeit, phase>> /\ Forget(i)
  <2>1. CASE ProbeRecover(i) \/ ProbeFails(i) \/ ExpireTus(i)
    BY <2>1 DEF ProbeRecover, ProbeFails, ExpireTus
  <2>2. CASE Expire(i) \/ SpareActive(i) \/ CleanItem(i)
    BY <2>2 DEF Expire, SpareActive, CleanItem
  <2> QED BY <2>1, <2>2
<1>b. \A j \in Intents : SeenFrom(j)
  BY <1>a, ForgetFrom
<1>c. row' = row => \A j \in Intents : RowMove(j)
  BY DEF RowMove
<1>1. ASSUME \A j \in Intents : RowMove(j), \A q \in {"sweep", "browser"} : PlaceFrom(q)
      PROVE  BytesStep /\ NamesStep
  BY <1>a, <1>b, <1>1, RowsBytes DEF NamesStep
<1>2. place' = place => \A q \in {"sweep", "browser"} : PlaceFrom(q)
  BY DEF PlaceFrom
<1>3. CASE ProbeRecover(i)
  <2>1. /\ place' = place
        /\ row' = row \/ (content[i] = "full" /\ CanComplete(i) /\ CompleteTransfer(i))
    BY <1>3 DEF ProbeRecover
  <2> QED BY <1>1, <1>2, <1>c, <2>1, CompleteMove
<1>4. CASE ProbeFails(i) \/ SpareActive(i)
  <2>1. row' = row /\ place' = place
    BY <1>4 DEF ProbeFails, SpareActive
  <2> QED BY <1>1, <1>2, <1>c, <2>1
<1>5. CASE ExpireTus(i)
  <2>1. /\ row' = row \/ \E c \in BOOLEAN : ExpireIntent(i, c)
        /\ place' = place \/ (Handed(i) # None /\ Go("sweep", "terminated", Handed(i)))
    BY <1>5 DEF ExpireTus
  <2>2. \A j \in Intents : RowMove(j)
    BY <1>c, <2>1, ExpireMove
  <2>3. Handed(i) # None => Handed(i) = row[i].upload
    BY DEF Handed
  <2>4. \A q \in {"sweep", "browser"} : PlaceFrom(q)
    BY <1>2, <2>1, <2>3, GoFrom
  <2> QED BY <1>1, <2>2, <2>4
<1>6. CASE Expire(i)
  <2>1. /\ ExpireIntent(i, FALSE)
        /\ place' = place \/ (Handed(i) # None /\ Go("sweep", "cleanup", Handed(i)))
    BY <1>6 DEF Expire
  <2>2. /\ \A j \in Intents : RowMove(j)
        /\ row[i].state \in {"pending", "accepted", "failed"} => row'[i].state = "expired"
    BY <2>1, ExpireMove
  <2>3. CASE Handed(i) # None /\ Go("sweep", "cleanup", Handed(i))
    <3>1. /\ Handed(i) = row[i].upload /\ row[i].upload # None
          /\ row'[i].state = "expired"
      BY <2>2, <2>3 DEF Handed
    <3>2. place'["sweep"].on = row[i].upload /\ place'["browser"] = place["browser"]
      BY <2>3, <3>1 DEF Go, TypeOK
    <3>3. PlaceFrom("sweep") /\ PlaceFrom("browser")
      BY <3>1, <3>2 DEF PlaceFrom
    <3> QED BY <1>1, <2>2, <3>3
  <2> QED BY <1>1, <1>2, <2>1, <2>2, <2>3
<1>7. CASE CleanItem(i)
  <2>1. /\ row' = row /\ phase = "cleanup" /\ seen[i].state # "absent"
        /\ Go("sweep", "cleanup", seen[i].upload)
    BY <1>7 DEF CleanItem, Takes
  <2>2. place'["sweep"].on = seen[i].upload /\ place'["browser"] = place["browser"]
    BY <2>1 DEF Go, TypeOK
  <2>3. PlaceFrom("sweep") /\ PlaceFrom("browser")
    BY <2>1, <2>2 DEF PlaceFrom
  <2> QED BY <1>1, <1>c, <2>1, <2>3
<1> QED BY <1>3, <1>4, <1>5, <1>6, <1>7

\* The lists the sweep reads, its submissions, the worker, time and crashes.
LEMMA OthersKeep ==
  ASSUME TypeOK, KeptInv,
         \/ BeginSweep \/ SubmitImport \/ SubmitIndex \/ Worker \/ Crash
         \/ \E i \in Intents : TimePasses(i)
         \/ UNCHANGED vars
  PROVE  BytesStep /\ NamesStep
<1> USE DEF rowVars, tusVars, jobVars, sweepVars, callVars, envVars, Forfeit
<1>1. BytesStep
  <2>1. /\ UNCHANGED <<row, content, sent, approved, Forfeit>>
        /\ staged' \subseteq staged
    BY DEF BeginSweep, BeginPart, SubmitImport, SubmitIndex, Worker, BeginImport,
           FinishImport, WorkerCrash, FinishIndex, Crash, TimePasses, vars
  <2> QED BY <2>1, StillBytes
<1>2. CASE BeginSweep
  <2>1. row' = row /\ place' = place
    BY <1>2 DEF BeginSweep, BeginPart
  <2>2. ASSUME NEW j \in Intents
        PROVE  SeenFrom(j)
    <3>1. CASE BeginPart("idle", "advance", Active)
      BY <2>1, <3>1 DEF BeginPart, SeenFrom
    <3>2. CASE BeginPart("expire", "cleanup", Cleanable)
      BY <2>1, <3>2 DEF BeginPart, SeenFrom
    <3>3. CASE BeginPart("advance", "recover", Recoverable)
      BY <2>1, <3>3 DEF BeginPart, SeenFrom
    <3>4. CASE BeginPart("recover", "expire", Expirable)
      BY <2>1, <3>4 DEF BeginPart, SeenFrom
    <3>5. CASE BeginPart("cleanup", "idle", Nothing)
      BY <2>1, <3>5 DEF BeginPart, SeenFrom
    <3> QED BY <1>2, <3>1, <3>2, <3>3, <3>4, <3>5 DEF BeginSweep
  <2> QED BY <1>1, <2>1, <2>2 DEF NamesStep, PlaceFrom
<1>3. CASE SubmitImport \/ SubmitIndex
  <2>1. UNCHANGED <<phase, seen>> /\ Stop("sweep")
    BY <1>3 DEF SubmitImport, SubmitIndex
  <2>2. \A q \in {"sweep", "browser"} : PlaceFrom(q)
    BY <2>1, GoFrom
  <2> QED BY <1>1, <2>1, <2>2 DEF NamesStep, SeenFrom
<1>4. CASE Worker \/ (\E i \in Intents : TimePasses(i)) \/ UNCHANGED vars
  <2>1. UNCHANGED <<phase, seen, place>>
    BY <1>4 DEF Worker, BeginImport, FinishImport, WorkerCrash, FinishIndex, TimePasses, vars
  <2> QED BY <1>1, <2>1, NamesSame
<1>5. CASE Crash
  <2>1. /\ \A j \in Intents : seen'[j] = NoRow
        /\ \A q \in {"sweep", "browser"} : place'[q] = Idle
    BY <1>5 DEF Crash
  <2>2. Idle.at # "cleanup" /\ Idle.on = None
    BY DEF Idle
  <2> QED BY <1>1, <2>1, <2>2 DEF NamesStep, SeenFrom, PlaceFrom
<1> QED BY <1>2, <1>3, <1>4, <1>5

\* No sweep, hook, losing body or crash takes the bytes of an upload whose
\* import is linked; only a browser that cancelled a native upload, or a claim
\* that did not learn that it had won, can have.
THEOREM ContentIsKept == Spec => []ContentKept
<1>1. Init => KeptInv
  <2> SUFFICES ASSUME Init
               PROVE  KeptInv
    OBVIOUS
  <2>1. /\ \A i \in Intents : row[i] = NoRow /\ seen[i] = NoRow
        /\ \A u \in UploadIds : content[u] = "none"
        /\ approved = {} /\ sent = {} /\ staged = {} /\ phase = "idle"
        /\ \A p \in {"sweep", "browser"} : place[p].on = None /\ place[p].at = "idle"
    BY DEF Init, Idle
  <2>2. Named
    BY <2>1, Apart DEF Named, Names
  <2>3. Claimed
    BY <2>1, Apart DEF Claimed, Used
  <2>4. Bodies /\ Transferred
    BY <2>1, Apart DEF Bodies, Transferred
  <2>5. Kept
    BY <2>1, Apart DEF Kept, Waits
  <2>6. Seen /\ Deletable
    BY <2>1 DEF Seen, Deletable
  <2> QED BY <2>2, <2>3, <2>4, <2>5, <2>6 DEF KeptInv
<1>2. TypeOK /\ KeptInv /\ [Next]_vars => KeptInv'
  <2> SUFFICES ASSUME TypeOK, KeptInv, [Next]_vars
               PROVE  KeptInv'
    OBVIOUS
  <2>1. BytesStep /\ NamesStep
    BY CallerKeeps, TusKeeps, NativeKeeps, CleanupKeeps, AdvanceKeeps, ReclaimKeeps,
       OthersKeep DEF Next, Sweep
  <2> QED
    BY <2>1, NamedKept, ClaimedKept, BodiesKept, TransferredKept, KeptKept, SeenStays,
       DeletableKept DEF KeptInv
<1>3. KeptInv => ContentKept
  BY DEF KeptInv, Kept, Waits, ContentKept, ContentPresent, Multipart, Forfeit
<1> QED BY <1>1, <1>2, <1>3, TypeCorrect, PTL DEF Spec

-----------------------------------------------------------------------------
(* Every step is a step of UploadLifecycle, or leaves its stages alone.    *)

\* What a step does to the stage of an upload and to its import.
LEMMA LifecycleMove ==
  ASSUME IInv, StepShape, NEW i \in Intents
  PROVE  \/ StageOf(i)' = StageOf(i) /\ WorkOf(i)' = WorkOf(i)
         \/ /\ StageOf(i) = "absent" /\ StageOf(i)' \in {"open", "failed"}
            /\ WorkOf(i)' = WorkOf(i)
         \/ /\ StageOf(i) = "open" /\ StageOf(i)' = "committed"
            /\ WorkOf(i) = "none" /\ WorkOf(i)' \in {"none", "running"}
         \/ /\ StageOf(i) \notin {"absent", "open"} /\ StageOf(i)' = StageOf(i)
            /\ \/ WorkOf(i) = "none" /\ WorkOf(i)' = "running"
               \/ WorkOf(i) = "running" /\ WorkOf(i)' \in {"succeeded", "failed"}
         \/ /\ StageOf(i) = "committed" /\ StageOf(i)' = "registered"
            /\ WorkOf(i) = "succeeded" /\ WorkOf(i)' = WorkOf(i)
         \/ /\ StageOf(i) = "committed" /\ StageOf(i)' = "failed"
            /\ WorkOf(i)' = WorkOf(i)
         \/ /\ StageOf(i) = "registered" /\ StageOf(i)' = "searchable"
            /\ WorkOf(i)' = WorkOf(i)
         \/ /\ StageOf(i) \in {"open", "failed"} /\ StageOf(i)' = "dropped"
            /\ WorkOf(i)' = WorkOf(i)
<1>1. /\ row[i] \in Rows /\ RowStep(i) /\ WorkStep(i)
      /\ \/ row'[i].state = row[i].state \/ import'[i] = import[i]
         \/ row'[i].state = "processing"
      /\ RowValid(i)
      /\ row[i].state = "absent" => row[i] = NoRow
      /\ import[i] # "absent" => row[i].job
  BY RowType DEF IInv, RowsInv, ImportLinked, StepShape
<1>2. /\ RowValid(i)'
      /\ row'[i].state = "absent" => row'[i] = NoRow
  BY RowsKept DEF RowsInv
<1>3. row[i].job => row[i].state \notin {"absent", "pending", "accepted"}
  BY <1>1 DEF RowValid, NoRow
<1>4. row'[i].job => row'[i].state \notin {"absent", "pending", "accepted"}
  BY <1>2 DEF RowValid, NoRow
<1>5. CASE row'[i].state = row[i].state
  <2>1. StageOf(i)' = StageOf(i)
    BY <1>5 DEF StageOf
  <2>2. CASE import'[i] = import[i]
    BY <2>1, <2>2 DEF WorkOf
  <2>3. CASE import'[i] # import[i]
    <3>1. row[i].state \notin {"absent", "pending", "accepted"}
      BY <1>1, <1>3, <1>4, <1>5, <2>3 DEF WorkStep
    <3>2. StageOf(i) \notin {"absent", "open"}
      BY <1>1, <3>1 DEF StageOf, Rows, UploadState
    <3> QED BY <1>1, <2>1, <2>3, <3>2 DEF WorkStep, WorkOf
  <2> QED BY <2>2, <2>3
<1>6. CASE row'[i].state # row[i].state /\ import'[i] # import[i]
  <2>1. row'[i].state = "processing" /\ row[i].state \in {"pending", "accepted"}
    BY <1>1, <1>6 DEF RowStep, Rows, NoRow
  <2>2. import[i] = "absent" /\ import'[i] = "queued"
    BY <1>1, <1>3, <1>6, <2>1 DEF WorkStep
  <2> QED BY <2>1, <2>2 DEF StageOf, WorkOf
<1>7. CASE row'[i].state # row[i].state /\ import'[i] = import[i]
  <2>1. WorkOf(i)' = WorkOf(i)
    BY <1>7 DEF WorkOf
  <2>2. \/ row[i].state = "absent" /\ row'[i].state \in {"pending", "failed"}
        \/ row[i].state = "pending" /\ row'[i].state = "accepted"
        \/ /\ row[i].state \in {"pending", "accepted"} /\ row'[i].state = "processing"
        \/ /\ row[i].state = "processing" /\ row'[i].state = "ready"
           /\ import[i] = "succeeded"
        \/ row[i].state = "processing" /\ row'[i].state = "failed"
        \/ /\ row[i].state \in {"pending", "accepted", "failed"}
           /\ row'[i].state = "expired"
        \/ row[i].state = "ready" /\ row'[i].state = "indexed"
    BY <1>1, <1>7 DEF RowStep, Rows, NoRow
  <2>3. row[i].state \in {"pending", "accepted"} => WorkOf(i) = "none"
    BY <1>1, <1>3 DEF WorkOf
  <2> QED BY <2>1, <2>2, <2>3 DEF StageOf, WorkOf
<1> QED BY <1>5, <1>6, <1>7

\* The detailed specification implements the abstract one.
THEOREM Refinement ==
  ASSUME TimelyCreation
  PROVE  Spec => KeepsLifecycle
<1> DEFINE S == [i \in Intents |-> StageOf(i)]
           W == [i \in Intents |-> WorkOf(i)]
<1>1. Init => Lifecycle!Init
  <2>1. Init => \A i \in Intents : StageOf(i) = "absent" /\ WorkOf(i) = "none"
    BY DEF Init, StageOf, WorkOf, NoRow
  <2> QED BY <2>1 DEF Lifecycle!Init
<1>2. IInv /\ [Next]_vars => [Lifecycle!Next]_<<S, W>>
  <2> SUFFICES ASSUME IInv, [Next]_vars
               PROVE  Lifecycle!Next \/ (S' = S /\ W' = W)
    OBVIOUS
  <2>1. StepShape
    BY NextShape
  <2>2. PICK i : \A j \in Intents : j # i => /\ row'[j].state = row[j].state
                                            /\ import'[j] = import[j]
    BY <2>1 DEF StepShape
  <2>3. \A j \in Intents : j # i => StageOf(j)' = StageOf(j) /\ WorkOf(j)' = WorkOf(j)
    BY <2>2 DEF StageOf, WorkOf
  <2>4. /\ S' = [j \in Intents |-> StageOf(j)'] /\ W' = [j \in Intents |-> WorkOf(j)']
    OBVIOUS
  <2>5. CASE i \notin Intents
    BY <2>3, <2>4, <2>5
  <2>6. CASE i \in Intents
    <3> HIDE DEF S, W
    <3>1. /\ S[i] = StageOf(i) /\ W[i] = WorkOf(i)
          /\ S' = [S EXCEPT ![i] = StageOf(i)'] /\ W' = [W EXCEPT ![i] = WorkOf(i)']
      BY <2>3, <2>4, <2>6 DEF S, W
    <3>2. W[i]' = W[i] => W' = W
      BY <2>3, <2>4, <2>6 DEF S, W
    <3>3. S[i]' = S[i] => S' = S
      BY <2>3, <2>4, <2>6 DEF S, W
    <3>4. S[i]' = StageOf(i)' /\ W[i]' = WorkOf(i)'
      BY <2>4, <2>6
    <3> DEFINE st == StageOf(i)
               wk == WorkOf(i)
    <3>5. CASE st' = st /\ wk' = wk
      BY <3>1, <3>2, <3>3, <3>4, <3>5
    <3>6. CASE st = "absent" /\ st' \in {"open", "failed"} /\ wk' = wk
      <4>1. Lifecycle!Admit(i)
        BY <3>1, <3>2, <3>4, <3>6 DEF Lifecycle!Admit, Lifecycle!Move, S, W
      <4> QED BY <2>6, <4>1 DEF Lifecycle!Next
    <3>7. CASE /\ st = "open" /\ st' = "committed"
               /\ wk = "none" /\ wk' \in {"none", "running"}
      <4>1. Lifecycle!Commit(i)
        BY <3>1, <3>2, <3>4, <3>7 DEF Lifecycle!Commit, Lifecycle!Move, S, W
      <4> QED BY <2>6, <4>1 DEF Lifecycle!Next
    <3>8. CASE /\ st \notin {"absent", "open"} /\ st' = st
               /\ \/ wk = "none" /\ wk' = "running"
                  \/ wk = "running" /\ wk' \in {"succeeded", "failed"}
      <4>1. Lifecycle!Import(i)
        BY <3>1, <3>3, <3>4, <3>8 DEF Lifecycle!Import, S, W
      <4> QED BY <2>6, <4>1 DEF Lifecycle!Next
    <3>9. CASE /\ st = "committed" /\ st' = "registered"
               /\ wk = "succeeded" /\ wk' = wk
      <4>1. Lifecycle!Register(i)
        BY <3>1, <3>2, <3>4, <3>9 DEF Lifecycle!Register, Lifecycle!Move, S, W
      <4> QED BY <2>6, <4>1 DEF Lifecycle!Next
    <3>10. CASE st = "committed" /\ st' = "failed" /\ wk' = wk
      <4>1. Lifecycle!Fail(i)
        BY <3>1, <3>2, <3>4, <3>10 DEF Lifecycle!Fail, Lifecycle!Move, S, W
      <4> QED BY <2>6, <4>1 DEF Lifecycle!Next
    <3>11. CASE st = "registered" /\ st' = "searchable" /\ wk' = wk
      <4>1. Lifecycle!MakeSearchable(i)
        BY <3>1, <3>2, <3>4, <3>11 DEF Lifecycle!MakeSearchable, Lifecycle!Move, S, W
      <4> QED BY <2>6, <4>1 DEF Lifecycle!Next
    <3>12. CASE st \in {"open", "failed"} /\ st' = "dropped" /\ wk' = wk
      <4>1. Lifecycle!Drop(i)
        BY <3>1, <3>2, <3>4, <3>12 DEF Lifecycle!Drop, Lifecycle!Move, S, W
      <4> QED BY <2>6, <4>1 DEF Lifecycle!Next
    <3> HIDE DEF st, wk
    <3> QED
      BY <2>1, <2>6, <3>5, <3>6, <3>7, <3>8, <3>9, <3>10, <3>11, <3>12, LifecycleMove
      DEF st, wk
  <2> QED BY <2>5, <2>6
<1> QED BY <1>1, <1>2, Inductive, PTL DEF Spec, KeepsLifecycle, Lifecycle!Spec
=============================================================================
