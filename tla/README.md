# Verification of VidXP's back end

VidXP is a local-first video search engine: media is uploaded or named by a
path, imported into a managed store, indexed by machine-learning capabilities,
and searched.  This directory holds TLA+ models of the parts of it whose
correctness is a matter of order: what happens when hooks, sweeps, browsers,
workers, crashes and time interleave.  All sources below are under
`src/src/vidxp/`.

## 1. Inventory

| Component | State it keeps | Operations | What makes it hard | Correct when |
|---|---|---|---|---|
| Upload ingestion (`upload_service.py`, `ingestion_coordinator.py`, `tusd_hooks.py`, upload tables of `infrastructure/sql_catalog.py`) | `upload_intents`, `upload_quota`, staged bytes, job links | create, tus hooks, multipart claim, local path, coordinator sweep, reconcile sweep, cancel, retry indexing, terminate | hooks lost, repeated, reordered; sweeps act on lists read earlier; a crash between link and submit | every row is readable; one import per upload; bytes live until imported and are released after; quota exact; owed work settles |
| Upload sessions and grants (`upload_service.py`, `upload_page.py`, `tusd_hooks.py`) | `upload_sessions`, `upload_session_files`, `upload_intents` | create, exchange capability, authorise file, accept creation, claim body, cancel, close | transactions that lock several rows in different orders; single-use grants against expiry, replay and a second browser | what a transaction read still holds when it decides; a grant is used once; a closed session selects nothing; every request returns |
| Index generations and snapshots (`infrastructure/local_index.py`, `local_snapshots.py`, `sql_snapshots.py`, `core/manifest.py`, `core/runner.py`) | generation directories and manifests, vector records, snapshot documents, the active pointer | create, recover, publish, clean, remove, clear, read | crash at each write; replay of an operation; lease lost under a build | an active snapshot always names complete generations; an operation is published once |
| Durable jobs (`infrastructure/dbos_jobs.py`, `dbos_workflows.py`, `job_service.py`) | DBOS workflow rows and step results | submit, cancel, retry, fork, dequeue, recover | submission by identifier against a running worker; a step replayed after a crash | a caller's job is the one it asked for; every job ends |
| Local worker supervisor (`infrastructure/local_worker.py`, `workflow_worker.py`) | lock, ready, stop and bootstrap files, processes | ensure_running, stop, health; the worker's life | several processes and stale files; probes that let go of a lock before they act; jobs that outlast the wait for them | at most one worker serves; its ready file is its own; a stop takes the worker it addressed off the queues; calls return whatever workers do |
| Media import and object store (`media_service.py`, `infrastructure/local_media.py`, `local_objects.py`) | `media`, `media_import_requests`, object files | reserve, store, complete, deduplicate, compensate | two imports of one content; failure after the store; commits whose outcome is unknown | one record per content, never without its object; a failed import leaves nothing |
| Artifacts (`artifact_service.py`, `infrastructure/local_artifacts.py`) | `artifacts`, their request index, files | look up, verify, render, publish, register, invalidate | two renders of one request; a missing file; a crash between publishing and registering | a result's row and bytes exist; one artifact for a request |
| Query, fusion, evidence (`search_fusion.py`, `evidence_delivery.py`) | none | join hits into moments, choose a clip | boundaries of intervals | a moment is an interval all its hits share; a clip is within its media and limit |
| Capabilities (`capabilities/*`, `core/video.py`) | what each has cut and counted so far | sample frames, share them out, cut clips, windows, phrases, count actors | sampling rates, ends that fall between, batches shared by several capabilities | records are not empty, cover the media, and do not depend on what else is indexed |
| Model runtime (`runtime.py`) | cache of loaded models, a lock per model | get_or_load, clear | loads, evictions and locks dropped under a waiting thread | a loaded model is shared until it is evicted |
| API, MCP, CLI, front end, desktop, Premiere, benchmarks | none of their own | adapters | I/O and presentation | - |

Interaction: clients call `RemoteUploadService`; tusd calls the hook service
and receives `HEAD` and `DELETE` requests from it; the coordinator thread of the
control plane runs `reconcile`, which advances uploads, submits jobs to the
durable backend and deletes bytes; the worker process runs the import and index
jobs against the same catalog, quarantine and index repository.  The catalog
(SQLite or PostgreSQL) is the only shared state with transactions.

## 2. Plan

Ordered by importance; where marked (P) a module has a proof module, and where
it moves it has an MC module and a configuration.

1. `UploadLifecycle` (abstract) and `UploadIngestion` (P): done.
2. `IndexLibrary` (abstract) and `IndexRepository` (P): done.
3. `SessionPromise` (abstract) and `UploadSessions` (P): done.
4. `WorkerSupervisor` (P): done.
5. `MediaImport` (P): done.
6. `DurableJobs` and `ArtifactJobs`, which composes it with the store of
   artifacts (P): done.  The import and index jobs stay as they are in
   `UploadIngestion` and `IndexRepository`, where what matters of a job is that
   it is replayed.
7. `SearchFusion` and `EvidenceRange` (P): done.
8. What the capabilities cut a media into: `FrameSampling`, `VisualStream`,
   `SoundWindows`, `SpeechPhrases`, `ActorClusters` (P): done.
9. Left: the cache of loaded models; waiting for a job with observation tokens; the pages of listings; the
   recovery of a browser's uploads after a reload (`web/upload-page`); the
   desktop's background processes.

## 3. The modules

### `UploadLifecycle.tla`
The promise of ingestion, whatever the transfer backend: an upload is opened,
committed once to one import, registered as media only by that import, made
searchable, or dropped; a committed upload is never dropped unless its import
failed.  It is the refinement target of `UploadIngestion`.

### `UploadIngestion.tla`
One step per catalog transaction (`BEGIN IMMEDIATE` in SQLite, `SELECT ... FOR
UPDATE` in PostgreSQL), per request to tusd, per submission of a job and per
change of a file.  A handler that spans several transactions is split at them,
and what it remembers in between is state: `phase`, `seen` and `probe` are the
sweep's, `place` is where the sweep or a cancelling browser stands inside a
hand-over, `retry` is an unfinished `start_indexing`.

| Variable | Code |
|---|---|
| `row`, `reserved` | `upload_intents`, `upload_quota.reserved_bytes` |
| `late` | `expires_at` in the past |
| `content` | the bytes under an upload identifier, in tusd's store or in quarantine; `removed` is a staged name already used and unlinked |
| `approved`, `sent` | what tusd holds: creations its pre-create hook allowed, hooks it emitted. A hook in `sent` may be handled never, once or often, in any order |
| `staged` | multipart requests between `copy_upload` and `complete_multipart_file` |
| `import`, `index` | the durable jobs, by identifier |
| `cancelled`, `unsure` | history variables: cancellations the service agreed to; intents a claim committed without learning it |

| Actions | Code |
|---|---|
| `CreateIntent`, `CreateLocalIngestion` | `create_intent`, `create_upload_session`, `create_local_ingestion` |
| `ExpireCreation`, `AcceptCreation`, `ReplayCreation` | `_accept_creation_in_transaction` through either pre-create path |
| `TusCreate`, `TusForget`, `TusFinish`, `ClientTerminate` | tusd itself, external, from how the hooks use it |
| `PostFinish`, `PostTerminate` | `complete_tus_transfer`, `record_terminated` |
| `Stage`, `Claim`, `RefuseClaim`, `LoseClaim` | `upload_multipart_file`, `complete_multipart_file`; `LoseClaim` is a commit that raises after it took effect |
| `BeginImport`, `FinishImport`, `FinishIndex`, `WorkerCrash` | the import and index steps of `dbos_workflows.py`, `import_completed` |
| `BeginSweep` | the four lists of `reconcile`: `active_ingestions`, `recoverable_uploads`, `expired_uploads`, `cleanup_uploads` |
| `StartImport`, `SubmitImport`, `ResubmitImport`, `RegisterImport`, `FailImport`, and the same for index, `Postpone` | `IngestionCoordinator.advance` |
| `ProbeRecover`, `ProbeFails`, `ExpireTus`, `Expire`, `SpareActive`, `CleanItem` | the recovery, expiry and cleanup loops of `reconcile` |
| `CleanupLocal`, `CleanupTus`, `CleanupFails`, `FinishCleanup` | `_cleanup_upload`, `_terminate_upload`, `authorize_termination`, `record_terminated` |
| `RequestCancel`, `CancelPending` | `cancel_browser_file` |
| `Relink`, `SubmitRetry`, `RefuseRetry` | `start_indexing`, `_record_index_retry_failure` |
| `Crash` | the control plane stops anywhere and starts again |

Abstractions: names, sizes beyond the quota arithmetic, digests and MIME types
are left out; the checks of a session, a grant or a principal appear only as
the refusal they may cause; a complete upload is `full`, an incomplete one
`partial`.  Time only makes an intent late.  Rows that `advance` returns
unchanged are left out of `Active`.  An identifier a client chooses for an
indexing retry is a member of `Retries`; the derived job of an intent is named
by the intent.

### `MCUploadIngestion.tla`
Backends, sizes and symmetry sets for the instances.

### `UploadIngestionProofs.tla`
The theorems of section 5 about ingestion.

### `IndexLibrary.tla`
What the index repository promises a search: a map from media to generations
that are ready, changed by whole generations or by withdrawing media; a
generation once served stays ready, because a search may have resolved an
earlier snapshot.

### `IndexRepository.tla`
An index operation is the step `run_index_step` of a durable job.  `at` says
where in `LocalIndexBackend.create` it stands; every write to a manifest, to the
vector store, to a snapshot or to the pointer is a step of its own, so a crash
may fall between any two.  A crash leaves `outcome` pending and the operation
starts again, on the same generation (its identifier is the job's).

| Variable | Code |
|---|---|
| `lease` | the file lock, or the PostgreSQL advisory lock |
| `doomed` | the local lists of `_cleanup_abandoned_generations` |
| `outcome` | the step's recorded result; `raised` also for a cancelled job |
| `manifest`, `counts` | a generation directory's manifest: its `state`, and its `record_counts` once `record_storage_counts` wrote them |
| `records` | the modalities of which the vector store holds all the generation's records |
| `snapshots`, `active` | the snapshot documents or rows, the pointer or `index_state` row |
| `served` | a history variable: generations the active snapshot has named |

| Actions | Code |
|---|---|
| `Acquire`, `Busy` | `lease` of either repository |
| `Reject`, `ReturnCommitted`, `Resume` | the checks and the replay paths at the head of `create` |
| `PlanCleaning`, `CleanRecords`, `CleanDirectories` | `_cleanup_abandoned_generations` |
| `Initialize`, `WriteRecords`, `CompleteRun` | `index_video`: `ManifestStore.initialize`, `start_video`, the modalities, `complete_video`, `complete_run` |
| `RecordCounts`, `Reference` | `_validate_generation_records`, `record_storage_counts`, `generation_reference` |
| `WriteSnapshot`, `SetPointer`; `PublishSQL` | `publish_generation` of the two repositories |
| `Fail`, `FailBuild`, `Cancel`, `FailPublish`, `UndoRecords`, `UndoDirectory` | errors, cancellation, `_remove_uncommitted_generation` |
| `Withdraw` | `remove` and `clear`; in a local repository `SetPointer(Admin)` ends it |
| `Crash` | a worker, or the process that removes, dies |

Abstractions: a profile (`config_fingerprint`) is the set of modalities it
enables; a modality's records are there or not (a batch is not modelled, and the
number of records counts only as "all of them"); checksums and input identity
are left out, the identifier of an operation being bound to one input; reading a
snapshot and comparing it with the store is `Readable`.

### `MCIndexRepository.tla`, `IndexRepositoryProofs.tla`
The instance (two operations on one media, the second of fewer modalities, a
third on another media), and the theorems.  The instance also evaluates the
promises of the capability modules below.

### `SessionPromise.tla`
What a browser upload session promises: it is entered by one browser at a time;
a file is chosen only while the session is open and within its limits, gets one
grant at a time, and a grant is used once, for a file whose transfer has not
ended; a transfer never starts again; a closed session selects nothing more.

### `UploadSessions.tla`
The transactions of `upload_service.py` on the rows of a session, as PostgreSQL
runs them: a request locks one row after the other with `SELECT ... FOR UPDATE`,
waits for rows that others hold, reads, decides, and lets go of all at the end.

| Variable | Code |
|---|---|
| `session`, `link`, `intent` | rows of `upload_sessions`, `upload_session_files` (with the grant's digest and consumption), `upload_intents` |
| `tus` | uploads tusd may create or has |
| `over` | sessions, files and grants whose `expires_at` has passed |
| `lock` | the row locks of PostgreSQL |
| `call`, `at`, `saw` | a request, where it is, and what its transaction has read |

| Actions | Code |
|---|---|
| `CreateSession` | `create_upload_session` |
| `CallExchange` ... `CallAccept` | the request handlers; `now` is read here, before the transaction waits |
| `LockSession`, `LockLink`, `LockIntent` | `get_upload_session`, `get_upload_session_file`, `get_upload` with `for_update` |
| `Exchange`, `Select`, `Authorize` | `exchange_upload_session`; `authorize_session_file`, for a new and for a known file |
| `Probe`, `Accept` | `_tusd_creation_exists`, with the rows locked; `accept_session_creation` |
| `Claim`, `Inspect`, `Expire`, `Close` | `complete_multipart_file.claim`, `cancel_browser_file`, `_expire_intent`, `close_browser_session` and `close_upload_session` |
| `Abort`, `Fail` | PostgreSQL ends a deadlock; tusd does not answer |
| `Proceed`, `TusMoves`, `TimePasses` | what `UploadIngestion` models in detail, tusd, time |

Abstractions: the limits of a session are the sets of files within them; the
quota row, the files of other sessions, digests and HTTP codes are refusals or
left out.

### `WorkerSupervisor.tla`
Front ends share a directory with the worker and nothing else.  Each file
operation, lock attempt and signal is a step.

| Variable | Code |
|---|---|
| `pc`, `call`, `pid`, `backoff` | a `LocalWorkerSupervisor` in `ensure_running`, `health` or `stop` |
| `startLock`, `workerLock` | `worker-<version>-start.lock`, `worker-<version>.lock` |
| `ready`, `stopFile`, `bootstraps` | the ready file, the stop file, the one-use bootstrap files |
| `worker`, `profile`, `signalled` | worker processes, the settings they were started with, SIGTERM; a `lingering` process has left the lock and only waits for its job |
| `jobs` | processes with a job thread that runs |

| Actions | Code |
|---|---|
| `CallEnsure`, `CallHealth`, `CallStop` | the three operations; ensure only when no start failed in the last 5 seconds |
| `TakeStartLock`, `Probe`, `Release` | the start lock; `_worker_is_active`, which takes the worker lock for a moment |
| `FindReady`, `GiveUpExisting`, `CleanReady`, `CleanStop`, `Spawn`, `SpawnFails` | `ensure_running` until the worker is started |
| `SeeReady`, `SeeExit`, `GiveUpStart`, `AbandonStart`, `Terminate`, `Kill` | waiting for it, and giving it up |
| `ReadReady`, `RequestStop`, `PresumeStopped`, `GiveUpStop`, `SweepReady`, `SweepStop` | `stop` |
| `CrashClient` | a front end dies or is interrupted |
| `ReadBootstrap`, `TakeLock`, `LaunchFails`, `MarkReady`, `StopServing`, `Drain`, `UnlinkReady`, `UnlinkStop`, `Leave`, `Exit`, `DieAlone` | `workflow_worker.py` from its bootstrap to its exit |
| `StartJob`, `EndJob` | the job threads of DBOS, external; a job may run for ever |

`Drain` is `DBOS.destroy(workflow_completion_timeout_sec=30)`: it returns when the
job has ended or when 30 seconds have passed, so it has no guard on the job.
`Leave` frees the lock, and the process lives on as `lingering` until its job has
ended (`Exit`).  Process numbers are not used again; a worker runs one job at a
time (`max_executor_threads` is 1).

### `MediaImport.tla`
`MediaService._import` over the catalog and the local object store; a transaction
or a file operation is a step, and a transaction may fail after it committed.

| Variable | Code |
|---|---|
| `pc`, `content`, `label`, `request` | an import and its staged file |
| `under`, `restores`, `created` | the storage key it publishes to; whether the row was ready when it looked; whether `publish` found no object |
| `lock` | the publication lock of a checksum |
| `row`, `reserved`, `completed` | `media`, `media_import_requests` |
| `object` | files of the object store: absent, good or damaged |
| `answers`, `lost`, `litter` | history: what importers were answered, what the disk or an uncertain commit took, what a crash or a failed removal left |

| Actions | Code |
|---|---|
| `Import`, `Stage`, `TakeLock` | the head of `_import` |
| `Reserve`, `Lookup`, `Pend` | `reserve_import`, `get_by_checksum`, the pending row |
| `Probe` | the media probe, outside |
| `PublishSame`, `PublishReplace`, `PublishFails`, `Sync`, `SyncFails` | `LocalObjectStore.publish` |
| `Resolve`, `MakeReady`, `CheckRetained` | the row after the object |
| `Delete`, `Mark`, `Complete` | compensation, the failed row, the completed key |
| `CatalogFails`, `Crash`, `Damage` | faults |

### `DurableJobs.tla`, `ArtifactJobs.tla`
`DurableJobs` is `JobService` over `DBOSJobBackend`: submissions, cancellations,
retries and forks by callers, each read or write of the DBOS database a step of
its own.  `ArtifactJobs` extends it with the worker and with
`ArtifactService._create`.

| Variable | Code |
|---|---|
| `status`, `input`, `attempts` | DBOS workflow rows |
| `step`, `output` | the recorded result of the job's step |
| `pending`, `accepted`, `retried` | calls between two of their steps; what callers were answered |
| `at`, `found`, `stored` | the execution of a job inside `_create` |
| `artifact`, `index`, `object` | artifact rows, the request index, files |
| `lost`, `doubted`, `litter` | history: bytes the disk took, artifacts a job could not verify, files a crash left |

| Actions | Code |
|---|---|
| `Submit`, `Enqueue` | `JobService.submit`, `_enqueue` |
| `CancelJob`, `Cancel`, `RetryJob`, `Fork` | `cancel`, `retry` |
| `Dequeue`, `GiveUp`, `Requeue`, `Record`, `Finish` | DBOS, external: queues, exhausted attempts, recovery, outcomes |
| `Start`, `Exhaust`, `Recover`, `Crash`, `Stop` | a step begins, its worker dies, it is replayed, it sees its cancellation |
| `Lookup`, `Verify`, `VerifyFails`, `Invalidate` | `get_artifact_by_request` and what follows it |
| `RecoverObject`, `Render`, `MakeFails` | `recover`, rendering and `publish` |
| `Put`, `PutLoses`, `PutConflicts`, `PutFails`, `Drop` | `put_artifact` and the removal of an object that was not registered |
| `Report`, `ReportFails`, `End` | the step's result |
| `Damage` | the disk |

Abstractions: an artifact's kind and layout; a fork is one step; executions of
one job do not overlap (see section 6, local worker).

### `SearchFusion.tla`, `EvidenceRange.tla`
Operators: `fuse_search_results`, one hit of the sorted list at a time, and
`resolve_evidence_range`, in whole ticks with halves rounded down.

### `Intervals.tla`, `FrameSampling.tla`, `VisualStream.tla`, `SoundWindows.tla`, `SpeechPhrases.tla`, `ActorClusters.tla`
Operators: what the capabilities cut a media into.

| Module | Code |
|---|---|
| `FrameSampling` | `FrameSampling.includes` and `next_sample_timestamp`; the ends of scenes and of clips. Times are numbers of ticks, so that rates are whole |
| `VisualStream` | `iter_frame_batches`, `_consume_visual_stream`, `process_videoprism_samples`: one pass over the video for several capabilities |
| `SoundWindows` | `iter_audio_windows`, `sound_records`, counted in samples |
| `SpeechPhrases` | `build_dialogue_phrases`; text is its number of tokens |
| `ActorClusters` | `process_actor_samples`, `finalize_actor_index`, `_cluster_summary`; the recognizer's match is given |

Each module states at its end what is promised of the result.

### Proof modules, MC modules
`UploadSessionsProofs`, `WorkerSupervisorProofs`, `MediaImportProofs`,
`ArtifactJobsProofs`, `EvidenceProofs` and `CapabilityProofs` hold the theorems
of section 5; `MCUploadSessions`, `MCWorkerSupervisor`, `MCMediaImport` and
`MCArtifactJobs` the instances of section 4.

## 4. What the runs check

All runs set `CHECK_DEADLOCK FALSE`: once every intent is settled and clean, or
every operation recorded, and the bounds are used, the system really has nothing
left to do.  That no one waits for ever is what the liveness properties say.

| Run | Instance | Shows |
|---|---|---|
| `UploadTus` | one tus intent, one crash, fairness | `TypeOK`, `RecordValid`, `ContentKept`, refinement of `UploadLifecycle`, `Settles`, `BytesReleased` |
| `UploadNative` | one multipart intent of size 2 with two bodies and one local path of size 1, `Quota` 2, `LocalQuota` 3 (a multipart after the local path is refused), one crash or lost commit, symmetry on bodies | `ContentKept`, `QuotaExact`, refinement |
| `UploadLiveness` | one multipart intent indexed after import, one retry, fairness | `ImportLinked`, `IndexedTruthful`, `Settles`, `BytesReleased` |
| `UploadLateCreation` | one tus intent, pre-create repeated at any time | violates `RecordValid` |
| `UploadCancelRace` | one multipart intent | violates `CancelSparesProcessing` |
| `IndexRepository` | three operations, two media, two profiles, both repositories, two crashes, one removal, `LateErrors` off | `TypeOK`, `SnapshotsWhole`, `CleanGround`, refinement of `IndexLibrary`; the promises of the capability modules, for videos of up to 7 frames, sounds of a few windows, 3 words, 5 tokens and 4 faces |
| `IndexLateError` | the same, local, one crash, `LateErrors` on | violates `SnapshotsWhole` |
| `IndexReplay` | the same, local, one crash, one removal | violates `PublishedOnce` |
| `UploadSessions` | two requests at a time, four in all, on a session of two files of which the first fills it and both are too large, tus and multipart, fairness | `TypeOK`, `ReadsHold`, refinement of `SessionPromise`, `RequestsReturn` |
| `WorkerSupervisor` | two front ends with different settings, three starts, three calls, one interruption, one death, fairness | `TypeOK`, `OneWorker`, `ReadyHonest`, `StopStops`, `FewWorkers`, `CallsReturn` |
| `MediaImport` | two importers, two contents, two labels, one request key, two faults, a crash, a damaged object, fairness | `TypeOK`, `ReadyStored`, `KeyBinds`, `CompletedReady`, `NoLitter`, `ReadyForever`, `ImportsReturn` |
| `ArtifactJobs` | four jobs (two submitted, a retry, a fork) of a snippet and of a query that delivers the same clip, on two queues; three calls, two attempts, two troubles, fairness | `TypeOK`, `AnswersAgree`, `ResultsStored`, `OneArtifact`, `NoOrphans`, `JobsEnd`; fusion of up to 3 hits and clips of short media |

Bounds.  Rows of different intents share only the quota, the sweep's list, the
staged names and the index job a retry gives to several uploads of one media,
so one tus intent covers the hook protocol, two native intents the quota and
the list, two bodies the claim; that a retry relinks several uploads of one media
at once is covered by the theorems, which hold for any number of each.  `MaxCrashes` is 1 where a crash matters: a crash forgets all
volatile state, so after it the system is as after a fresh start on the rows it
left, and a second one adds no new kind of state.  Symmetry is used only in runs
without liveness.  Index operations exclude each other by the lease, so what one
finds is what at most the last crash, undo and publication of another left: two
operations on one media and one on another give every combination of replay,
replacement and profile conflict, and two crashes let one operation crash, or two
of them once each, before a third runs.  `MaxRemovals` is 1; a removal only
writes a document with fewer media.  Requests of a session meet in its rows
only: exchange, authorisation, then a renewal that races a hook give the
deadlock, and two hooks with one grant its second use; four calls reach both.
Three starts give a worker that serves, one that waits on its lock and one that
dies, and three calls a start, a stop and a third that meets both.  Two imports
of one content under two labels give every outcome of `publish`, and a fault
after a fault an uncertain commit whose resolution fails too.  Two executions of
one key race, the fork and the retry repeat either, and with two troubles one may
crash and lose its bytes.  Samplings by time are compared up to 5 against 5
frames a second, which has every ratio below one, equal and above.

Fairness (`FairSpec`).  The coordinator thread loops for ever (`_run` catches
every exception) and `reconcile` finishes its lists: `WF_vars(Sweep)` and
`WF_vars(Cleanup("sweep"))`.  An error that postpones a row is retried by the
next sweep; that it does not come back for ever is the strong fairness of the
attempts (`ResubmitImport`, `RegisterImport`, `ProbeRecover`, `TusCleaned` and
so on).  The worker takes queued jobs and ends them.  Nothing is assumed of
clients, browsers, tusd's hooks, time, or `start_indexing` finishing.

The other modules assume that who is in an operation goes on: `WF` of
`Continue(r)` of a request (including that PostgreSQL ends a deadlock, which it
does after `deadlock_timeout`), of `Continue(c)` of a front end,
`Continue(i)` of an import, and `Execute(j)` of a job, which
includes that DBOS starts queued jobs and recovers those of a dead worker.
`SF_vars(Deadline(c))` is the code's own deadlines: a front end that waits, and
looks again and again, gives up when its time has passed.  Nothing is assumed of
worker processes: `CallsReturn` holds though none ever becomes ready, stops or
ends a job.

Findings.
- `UploadLateCreation`: `_accept_creation_in_transaction` (upload_service.py:1717)
  expires the row whatever its state.  A bearer pre-create hook repeated late
  leaves an expired row that references media; `UploadIntentRecord` refuses to
  load it, and lists that read it raise.  Session grants are not exposed
  (`_verify_creation_grant` refuses an expired grant); `LateCreationStates`
  chooses between the two, and every passing run uses the grant's states.
- `UploadCancelRace`: `cancel_browser_file` (upload_service.py:887) inspects, then
  deletes in later transactions; the coordinator may link the import between.
  `ContentKept` therefore excepts the cancelled native upload (and, beside it, only
  the claim that lost its answer, see section 6).
- `IndexLateError`: an error after `complete_run` (reading the records back, or
  the last progress event) is undone by deleting records, then the directory
  (local_index.py:560-571).  A crash in between leaves a complete manifest over
  no records; the replay counts what is left and publishes it.  A cancellation
  at the same place is harmless, since a cancelled job is not replayed.
- `IndexReplay`: a job that published and was not recorded is replayed; when its
  media was removed or indexed again meanwhile, `create` publishes the old
  generation over it, although platform.md:571 calls the step safe to retry.

## 5. What is proved

For every number of intents, bodies, retries and media, every quota and any
number of crashes and lost commits (TLAPS, `UploadIngestionProofs.tla`):

| Theorem | States |
|---|---|
| `TypeCorrect` | `Spec => []TypeOK` |
| `RecordsValid` | `Spec => []RecordValid` |
| `ImportsLinked` | `Spec => []ImportLinked` |
| `IndexedIsTruthful` | `Spec => []IndexedTruthful` |
| `ContentIsKept` | `Spec => []ContentKept` |
| `QuotaIsExact` | `Spec => []QuotaExact` |
| `Refinement` | `Spec => KeepsLifecycle` |

They rest on `UploadAssumption` (backends, sizes and disjoint identifiers).
`RecordsValid`, `ImportsLinked`, `IndexedIsTruthful` and `Refinement` rest also on
`TimelyCreation`: late pre-creates find only pending, accepted, failed or expired
rows, which a session's grant guarantees and the first finding shows to be
necessary.  `ContentIsKept` and `QuotaIsExact` need no such thing: a late
pre-create may write a row that cannot be read, but it takes no bytes from an
import and releases a reservation once.

The inductive invariant `IInv` is `TypeOK`, `RowsInv`, `SeenInv` and `PlaceInv`.
`RecordValid` is not inductive by itself, because the sweep and the browser act
on what they read earlier: `SeenInv` says what a row in the sweep's list implies
of the current row (a listed job link stays, a listed state only moves forward),
`PlaceInv` says the same of an unfinished submission or cleanup, and `RowsInv`
relates each row to its jobs.  The argument: each action changes one row by one
of the moves `RowStep` lists and one job by `WorkStep`, and lemma after lemma
shows a move keeps each part of `IInv`; `StepShape` gives the refinement, since
every `RowStep` maps to a step of `UploadLifecycle` or a stutter.  TLC checks
`IInv` on the same instances before it is proved.

The bytes have an inductive invariant of their own, `KeptInv`.  That a row in
`processing` has its bytes is not inductive: whoever deletes bytes was handed
their name in an earlier transaction, and nothing in `ContentKept` says that the
row of this name cannot be on its way to an import meanwhile.  `Named` says that an
identifier belongs to one row, now and in what the sweep remembers; `Claimed` and
`Bodies` that the name of a staged body is used by nobody until one intent claims
it, and then never staged again; `Transferred` that tusd knows nothing of an upload
that was not accepted, and that a finish hook of an accepted row speaks of a full
one; `Kept` that the bytes are there already from the claim on; `Seen` what a row
in the sweep's list implies of the row it will link; and `Deletable` that a name
handed to a cleanup has no row that waits for its bytes, but a forfeit one:
cancelled by its browser, which is the second finding, or claimed by a request
that took its commit for failed (`Forfeit`).  TLC checks `KeptInv` on both upload runs, with
late pre-creates in any state as well.

`QuotaExact` is about a sum, which would need induction over the set of intents.  It is
stated without one: each upload reserves a block of as many elements as it has
bytes (`BytesOf`), blocks of different uploads are disjoint, and `reserved` is the
cardinality of their union.  A step that starts or ends a reservation then adds
or removes one block (`QuotaUpdated`), by the facts on cardinality of the library.

For every set of operations, media and modalities, both repositories and any
number of crashes and removals (`IndexRepositoryProofs.tla`):

| Theorem | States |
|---|---|
| `TypeCorrect` | `Spec => []TypeOK`, which includes that whoever works holds the lease alone |
| `GroundIsClean` | `Spec => []CleanGround` |
| `WholeSnapshots` | `~LateErrors => (Spec => []SnapshotsWhole)` |
| `KeepsPromise` | `~LateErrors => (Spec => KeepsLibrary)` |
| `PublishesOnce` | `MaxCrashes = 0 => (Spec => PublishedOnce)` |

They rest on `RepositoryAssumption` (identifiers are distinct, each operation has
a media and a profile).  `WholeSnapshots` and `KeepsPromise` need that no error
follows `complete_run`, and the run `IndexLateError` shows that they are false
without it.  `PublishesOnce` is the other side of the run `IndexReplay`: where no
process crashes, errors, cancellations and removals in any order make no operation
publish twice, so it takes a crash, as in that run.
`SnapshotsWhole` is not inductive: nothing in it says that an operation replayed
after a crash finds either a complete generation with all its records or one it
rebuilds.  `IInv` adds, for every operation, what its generation has reached from
where it stands (`Progress`), that a complete generation of an operation that may
run again has its records (`Replayable`), that only incomplete generations are on
a cleaning list (`Doomed`); and, for the repository, that whatever a snapshot or
the history names is whole and its operation is nowhere it could break it
(`Published`), and that the document about to become active is the one its
process wrote (`Written`).  `Frame` and `Alone` carry the argument: under the
lease the others are idle, and the only thing done to another's generation is to
sweep it while it is incomplete.  `GroundIsClean` has an invariant of its own,
`Cleaned`, and so has `PublishesOnce`: an operation whose generation was ever served
is about to return or has its outcome recorded (`Once`), which a crash would break.

For every number of requests, sessions and files (`UploadSessionsProofs.tla`):

| Theorem | States |
|---|---|
| `TypeCorrect` | `Spec => []TypeOK` |
| `ReadsAreStable` | `Spec => []ReadsHold`: what a transaction has read is so when it decides |
| `PromiseKept` | `Spec => KeepsPromise`, the refinement of `SessionPromise` |

They rest on `SessionAssumption`.  `IInv` adds to `TypeOK` and `ReadsHold` that a
file's rows exist together (`Paired`), that what was read is locked (`Locked`),
and that where a request stands tells what it has read (`Placed`).  The argument
is `ApartKeeps` and `OthersReads`: a step writes only rows it has locked, rows
that did not exist, and the intents of uploads nobody holds.

For every number of front ends, starts, crashes and deaths
(`WorkerSupervisorProofs.tla`):

| Theorem | States |
|---|---|
| `TypeCorrect` | `Spec => []TypeOK` |
| `AtMostOneWorker` | `Spec => []OneWorker`: one serves the queues; a job runs elsewhere only in a process that has left them |
| `ReadinessHonest` | `Spec => []ReadyHonest`: a ready file names a process that serves, or that can no longer mislead |
| `StopMeansStopped` | `Spec => []StopStops`: the process a successful stop named has left the queues and the lock for good |
| `ProcessesFew` | `Spec => []FewWorkers`, not counting processes that only finish a job |

They rest on `SupervisorAssumption`.  The strengthening is `Fresh` (processes are
numbered in their order), `Children` (who waits for a process has started one)
and `Targets` (the process a stop read in the ready file had the worker lock then,
so it has it still or never will again).  `FewWorkers` counts processes against
interruptions, those that linger apart (`Fades`: such a process never comes back); it
needs in addition that the start lock admits one front end at a
time (`Serial`), and how many processes there may be where a start stands: no more
than the interruptions left, while no worker holds its lock and no start waits for
its process (`Few`).

For every number of importers, contents, labels and keys (`MediaImportProofs.tla`):

| Theorem | States |
|---|---|
| `TypeCorrect` | `Spec => []TypeOK` |
| `ReadyMediaStored` | `Spec => []ReadyStored` |
| `CompletedMediaReady` | `Spec => []CompletedReady` |
| `KeysBind` | `Spec => []KeyBinds` |
| `NothingLeft` | `Spec => []NoLitter` |
| `ReadyMediaFinal` | `Spec => ReadyForever` |

They rest on `ImportAssumption`.  The publication lock makes one import the owner
of its content (`Owner`); the invariant says what the owner knows of the row
(`OwnRow`), of the key (`Bound`) and of the object (`OwnObject`) at each of its
steps, and that an object no ready row names is the owner's or was left by a
crash (`Clean`).

For every number of jobs, requests, keys and queues (`ArtifactJobsProofs.tla`):

| Theorem | States |
|---|---|
| `TypeCorrect` | `Spec => []TypeOK` |
| `CallersAgree` | `Spec => []AnswersAgree` |
| `ResultsAreStored` | `Spec => []ResultsStored` |
| `OneForAll` | `Spec => []OneArtifact` |
| `NothingLeft` | `Spec => []NoOrphans` |

They rest on `JobAssumption` and `ArtifactAssumption`.  A job's request never
changes once stored, and only the job's own execution registers its artifact or
touches its object, so `IInv` says what that execution knows where it stands
(`Held`), that whatever is named is registered (`Named`), and that an artifact its
key has forgotten could not be verified (`Doubted`).

For every list of hits and every piece of evidence (`EvidenceProofs.tla`):

| Theorem | States |
|---|---|
| `FusionValid` | every moment is an interval of positive length that all its hits share |
| `FusionPartitions` | moments of one media do not overlap; each hit is in one |
| `ClipsAreRight` | a clip is not empty, within its media and limit, and shows the representative |
| `ClipsAreWhole` | evidence that fits with its padding is shown whole |

For every sampling, sound, segment and list of faces (`CapabilityProofs.tla`):

| Theorem | States |
|---|---|
| `ScenesCover` | each frame of a video is in exactly one scene |
| `ClipsAdjoin` | a clip ends less than a frame from where the next one starts |
| `RecordsLast` | no scene or clip is empty; one that were would make every search that meets it fail (`_to_hits` of `capabilities/search.py`) |
| `FramesShared` | whatever is indexed in one pass, its batches hold each wanted frame once and in order; none is empty or too large |
| `ClipsAsOne` | however the frames are shared out among the batches, the action clips are those of one share with all of them |
| `SoundWhole` | however the sound is decoded, its windows tile what the container lasts |
| `ActivationsWhole` | the activations of a window adjoin, and tile it when the model returns enough |
| `TokensShareSegment` | the phrases of a segment without words tile it |
| `WordsInPhrases` | words that follow each other are accepted, each within its group's phrase |
| `ActorsCounted` | for any threshold, what is stored of an actor is what its detections say |

What the code computes in a loop over hits, frames, shares, blocks of sound or
faces is a state
machine in these two modules, with a round of the loop as its step: what holds
after any number of rounds is then an invariant, where induction over the list
would be out of the prover's reach.  That there is a last sample before a frame
and a first one after it is the least-number principle, from the
well-foundedness of the strict subsets of a finite set (`WFMin`).

Only model-checked:
- what is liveness: `Settles`, `BytesReleased`, `RequestsReturn`, `CallsReturn`,
  `ImportsReturn`, `JobsEnd`.  It needs fairness, hence `ENABLED`, which the prover
  does not have;
- that picking the frames of one sampling out of the batches gives exactly that
  sampling, and how many frames are announced (`SharesRight`): filters, and the
  concatenation of a sequence of sequences, are recursive, and what they return
  for every input would need an induction over it.  `FramesShared` says that the
  batches hold what is picked from, and `ClipsAsOne` takes any shares.

Every invariant and action property of the passing runs is proved.

## 6. What the models show of the code

Beside the findings of section 4, which contradict what the repository says of
itself, these are consequences of the code that a change to it should know of.
None contradicts a statement of the repository.

Upload sessions
- `accept_session_creation` (upload_service.py:1016) locks link, intent and
  session in this order, a page's request session, link and intent: a hook and a
  browser that retries the same file can wait for each other.  PostgreSQL aborts
  one, which answers 500 or refuses the creation; `RequestsReturn` holds because
  of it.
- `now` is read before the transaction waits for its rows, so a file may be
  selected just after its session expired.  `claim` reads the clock inside.
- Rows stay locked during the `HEAD` request to tusd, up to its 5 seconds.
- A second grant, issued and used before tusd created the first one's upload,
  lets tusd be told to create the same upload twice.
- A closed session still renews grants and accepts creations of files chosen
  before, as docs/platform.md says.  A grant is accepted only while intent, session
  and grant are all in time, which is what `UploadIngestion` assumes of grants.

Uploads
- A transfer that completes after the sweep's `HEAD` request and before its expiry
  is expired all the same; its bytes stay in tusd, as the comment in `reconcile`
  says of any upload found there.
- A claim whose commit raises after it took effect (a lost connection, say) unlinks
  the body the row now names: the import then fails on a missing file.
  `complete_multipart_file` does not read the row back, as `publish` of the media
  store does.

Local worker
- `DBOS.destroy` waits 30 seconds for the job (workflow_worker.py:134), and no job is
  pre-empted (platform.md:542).  A longer one runs on after the worker has removed its
  files and freed its lock, so `stop` succeeds within its 35 seconds while
  the process still works, and the next `ensure_running` starts a second one beside
  it.  `OneWorker`, `StopStops` and `FewWorkers` are stated with this exception,
  and none holds without it: TLC finds a job in a process other than the lock's
  holder, or a live process after a successful stop, as soon as `lingering` is taken
  out of them.  "Local video processing is stopped." (cli_commands/jobs.py:109)
  is then printed while a job runs.
- The next worker has the same executor identifier and recovers the pending job
  (platform.md:574), which can then run twice at a time.  This is
  between processes: `UploadIngestion`, `IndexRepository` and `ArtifactJobs` take
  executions of one job as one after the other.  For index jobs the repository's
  lease keeps the two apart; what an import or an artifact job does beside
  itself is not modelled, and `ResultsStored` and `NoOrphans` in particular rest
  on it.
- The sweeps of `stop` and `ensure_running` let go of the worker lock before they
  unlink: a worker that became ready in between loses its ready file, and then can
  neither be stopped nor accepted.  `ReadyHonest` and `StopStops` allow for it.
- An interrupted start leaves a process that waits for the worker lock, and takes
  it when the worker ends; `FewWorkers` counts these.
- `ensure_running` may accept another process's ready file while its own child
  waits on the lock.

Media import
- A failed `fsync` after the rename counts as not published, so the object stays; so
  does one whose removal fails in the cleanup that `publish` does itself (`litter`
  counts it).
- An import of content that is ready repairs a damaged object; a completed
  request key answers without looking.
- When a commit is uncertain and the row cannot be read, the object of a row that
  is ready may be deleted; the next import of the content restores it.
- A crash leaves the object of a name with another suffix.

Jobs and artifacts
- An execution that recovers an object which an earlier execution registered, and
  whose key was forgotten after a failed verification, takes it for unregistered:
  if it then fails or is cancelled, it removes the bytes of a row.
- A crash between publishing and registering, followed by another job's artifact,
  leaves the object for ever.
- A recovered object is probed and never compared with a checksum.
- An uncertain commit of `put_artifact` deletes the object of a row.
- A read job is bound to the active snapshot when it is planned; the same
  submission under the same idempotency key after the index changed is refused as
  `idempotency_key_reused`.

Evidence and capabilities
- Rounding is not modelled.  In floating point a clip cut to the limit can exceed
  it by one rounding (a start of 227.35002369207436 and 30 seconds), and
  `create_snippet` (artifact_service.py:257) then refuses it.
- Evidence that fits the limit, but not with its padding, is cut around its
  representative and may lose a part, although `source_interval_truncated` stays
  false; in the last millisecond of a media the clip may start after the
  representative.
- A segment none of whose words has times is dropped, though its text and its own
  times are there; one group of words that lasts no time refuses the whole
  transcript.
- The last sound window may be longer than the others by what the resampler
  returns when it is flushed, since nothing is cut there.

## 7. Not modelled

- Adapters: HTTP API, MCP server, command line, Streamlit, desktop, Premiere panel
  and web pages call the services above; their own state is presentation.
- Settings, composition, model downloads, migrations and benchmarks: sequential
  and without a partner.  Authentication validates tokens against an external
  issuer.
- The cache of loaded models, `ModelRuntime.get_or_load` (runtime.py:500), which
  the threads of a process share: next in the plan.  A successful load drops the
  lock of its key, so a thread that waited for it and one that comes after the
  model was evicted may load it at the same time; the one that ends last takes the
  other's model out of the cache, answers it and does not put it back.
- Inference, embeddings, scores, the answers of a language model, boards and
  their layout.
- Ingestion: MIME and size checks, principals and capabilities, HTTP status codes,
  and the bytes a crash leaves in quarantine before they are claimed (the model
  keeps them, and no code promises to delete them).  `BytesReleased` does not
  cover a browser that cancels before tusd creates the upload: the `DELETE`
  answers 404 and tusd may create it afterwards.
- Index repository: a PostgreSQL session lock lost under a living process
  (sql_snapshots.py:62; the code has no fencing to hold it against), damage to
  files by others, checkpoints and timings inside a generation, and the searches
  themselves, which only read.
- Jobs: listing, waiting, progress events; whether DBOS records an outcome over a
  cancellation is its own affair and left open; `expires_at` of an artifact is
  never set by the code modelled.
- Capabilities: the rounding of times, batches for a model or the store, word
  groups across segments (there are none).
