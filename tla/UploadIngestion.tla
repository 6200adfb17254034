-------------------------- MODULE UploadIngestion --------------------------
(***************************************************************************)
(* The life of an upload intent, from its creation to imported and indexed *)
(* media, in upload_service.py, ingestion_coordinator.py, tusd_hooks.py    *)
(* and the upload tables of infrastructure/sql_catalog.py.                 *)
(*                                                                         *)
(* Every catalog transaction (BEGIN IMMEDIATE, or SELECT ... FOR UPDATE)   *)
(* is one step.  The actors are the reconciliation sweep of the control    *)
(* plane, the tusd hooks, a browser that cancels a file, a client that     *)
(* retries indexing, the job worker, tusd with its clients, and time.      *)
(* Work that spans several transactions keeps its place in place (sweep    *)
(* and browser) and retry (client); a crash forgets it.                    *)
(***************************************************************************)
EXTENDS Integers, FiniteSets

CONSTANTS
  Intents,            \* upload intent identifiers
  Attempts,           \* names of staged multipart bodies
  Retries,            \* job identifiers clients choose when they retry indexing
  Media,              \* media identifiers (one per distinct content)
  BackendOf,          \* transfer backend of each intent
  MediaOf,            \* media identifier its content imports to
  SizeOf,             \* declared byte size of each intent
  IndexAfter,         \* intents created with index_after_import
  Quota,              \* upload_quota_bytes
  LocalQuota,         \* limit of local ingestion: max(quota, session maximum)
  LateCreationStates, \* states in which a pre-create may arrive after expiry
  MaxCrashes,         \* bound: crashes of the control plane or the worker, and
                      \* commits whose outcome is lost
  None                \* no identifier

ASSUME UploadAssumption ==
  /\ IsFiniteSet(Intents)
  /\ Intents \cap Attempts = {}
  /\ Intents \cap Retries = {}
  /\ None \notin Intents \cup Attempts \cup Retries
  /\ BackendOf \in [Intents -> {"tus", "multipart", "local_path"}]
  /\ MediaOf \in [Intents -> Media]
  /\ SizeOf \in [Intents -> Nat]
  /\ IndexAfter \subseteq Intents
  /\ Quota \in Nat /\ LocalQuota \in Nat /\ MaxCrashes \in Nat

\* Upload identifiers: tus and local uploads have one of their own (a fresh
\* identifier, the intent's identifier); a multipart upload takes the name of
\* the staged body that won.  Index jobs: derived from the intent, or a retry.
UploadIds == Intents \cup Attempts
IndexJobs == Intents \cup Retries

UploadState ==
  {"pending", "accepted", "processing", "ready", "indexed", "failed", "expired"}

ReservedStates == {"pending", "accepted", "processing", "failed"}

Rows ==
  [state : UploadState \cup {"absent"}, upload : UploadIds \cup {None},
   job : BOOLEAN, media : BOOLEAN, index : IndexJobs \cup {None},
   failed : BOOLEAN, size : Nat]

NoRow ==
  [state |-> "absent", upload |-> None, job |-> FALSE, media |-> FALSE,
   index |-> None, failed |-> FALSE, size |-> 0]

VARIABLES
  row,        \* the upload_intents table
  reserved,   \* upload_quota.reserved_bytes
  late,       \* intents whose expires_at has passed
  content,    \* the bytes kept under each upload identifier (tusd, quarantine)
  approved,   \* pre-create answers tusd holds and has not acted on
  sent,       \* hooks tusd has emitted: lost, repeated and reordered at will
  staged,     \* multipart bodies whose request handler is still running
  import,     \* status of each intent's import job
  index,      \* status of each index job
  phase,      \* which part of the sweep runs
  seen,       \* the sweep's snapshot of the rows it has yet to handle
  probe,      \* what the sweep's HEAD requests answered
  place,      \* where the sweep and a cancelling browser are in their work
  cancelled,  \* intents whose cancellation the service agreed to
  retry,      \* the client's unfinished start_indexing call
  unsure,     \* intents a claim committed without learning it
  crashes     \* crashes so far

rowVars == <<row, reserved>>
tusVars == <<content, approved, sent, staged>>
jobVars == <<import, index>>
sweepVars == <<phase, seen, probe>>
callVars == <<place, cancelled, retry>>
envVars == <<late, unsure, crashes>>

vars == <<rowVars, tusVars, jobVars, sweepVars, callVars, envVars>>

Idle == [at |-> "idle", on |-> None]

Init ==
  /\ row = [i \in Intents |-> NoRow]
  /\ reserved = 0
  /\ late = {}
  /\ content = [u \in UploadIds |-> "none"]
  /\ approved = {}
  /\ sent = {}
  /\ staged = {}
  /\ import = [i \in Intents |-> "absent"]
  /\ index = [j \in IndexJobs |-> "absent"]
  /\ phase = "idle"
  /\ seen = [i \in Intents |-> NoRow]
  /\ probe = [i \in Intents |-> "none"]
  /\ place = [p \in {"sweep", "browser"} |-> Idle]
  /\ cancelled = {}
  /\ retry = [job |-> None, linked |-> {}]
  /\ unsure = {}
  /\ crashes = 0

-----------------------------------------------------------------------------
(* The catalog: update_upload, its compare-and-set, its quota release.     *)

\* Mutant: the reservation is released again by every later update.
ReleasesAgain(i, r) == r.state \notin ReservedStates

Releases(i, r) == row[i].state \in ReservedStates /\ r.state \notin ReservedStates

UpdateUpload(i, r) ==
  /\ row' = [row EXCEPT ![i] = r]
  /\ reserved' = IF ~Releases(i, r) THEN reserved
                 ELSE IF reserved >= row[i].size THEN reserved - row[i].size
                 ELSE 0

UpdateIf(expected, i, r) ==
  IF expected THEN UpdateUpload(i, r) ELSE UNCHANGED rowVars

\* Rows found by upload identifier.
Owners(u) == {i \in Intents : row[i].upload = u}

CreateIntent(i) ==
  /\ BackendOf[i] # "local_path"
  /\ row[i].state = "absent"
  /\ reserved + SizeOf[i] <= Quota
  /\ row' = [row EXCEPT ![i] = [NoRow EXCEPT !.state = "pending", !.size = SizeOf[i]]]
  /\ reserved' = reserved + SizeOf[i]
  /\ UNCHANGED <<tusVars, jobVars, sweepVars, callVars, envVars>>

\* A local path is admitted, or recorded as failed when it cannot be used.
CreateLocalIngestion(i) ==
  /\ BackendOf[i] = "local_path"
  /\ row[i].state = "absent"
  /\ \/ /\ reserved + SizeOf[i] <= LocalQuota
        /\ row' = [row EXCEPT ![i] = [NoRow EXCEPT !.state = "pending", !.size = SizeOf[i]]]
        /\ reserved' = reserved + SizeOf[i]
     \/ /\ row' = [row EXCEPT ![i] = [NoRow EXCEPT !.state = "failed", !.failed = TRUE]]
        /\ UNCHANGED reserved
  /\ UNCHANGED <<tusVars, jobVars, sweepVars, callVars, envVars>>

-----------------------------------------------------------------------------
(* tusd and its blocking pre-create hook.                                  *)

\* accept_creation finds the intent past its lifetime.
ExpireCreation(i) ==
  /\ BackendOf[i] = "tus"
  /\ i \in late
  /\ row[i].state \in LateCreationStates
  /\ UpdateUpload(i, [row[i] EXCEPT !.state = "expired"])
  /\ UNCHANGED <<tusVars, jobVars, sweepVars, callVars, envVars>>

AcceptCreation(i) ==
  /\ BackendOf[i] = "tus"
  /\ i \notin late
  /\ row[i].state = "pending"
  /\ UpdateUpload(i, [row[i] EXCEPT !.state = "accepted", !.upload = i])
  /\ approved' = approved \cup {i}
  /\ UNCHANGED <<content, sent, staged, jobVars, sweepVars, callVars, envVars>>

\* The same creation again, while tusd has not materialised the upload.
ReplayCreation(i) ==
  /\ BackendOf[i] = "tus"
  /\ i \notin late
  /\ row[i].state = "accepted"
  /\ content[i] = "none"
  /\ approved' = approved \cup {i}
  /\ UNCHANGED <<rowVars, content, sent, staged, jobVars, sweepVars, callVars, envVars>>

TusCreate(i) ==
  /\ i \in approved
  /\ content[i] = "none"
  /\ content' = [content EXCEPT ![i] = "partial"]
  /\ approved' = approved \ {i}
  /\ UNCHANGED <<rowVars, sent, staged, jobVars, sweepVars, callVars, envVars>>

TusForget(i) ==
  /\ i \in approved
  /\ approved' = approved \ {i}
  /\ UNCHANGED <<rowVars, content, sent, staged, jobVars, sweepVars, callVars, envVars>>

TusFinish(i) ==
  /\ BackendOf[i] = "tus"
  /\ content[i] = "partial"
  /\ content' = [content EXCEPT ![i] = "full"]
  /\ sent' = sent \cup {<<"finish", i>>}
  /\ UNCHANGED <<rowVars, approved, staged, jobVars, sweepVars, callVars, envVars>>

\* complete_tus_transfer: the import job is enqueued in the transaction that
\* links it.
CanComplete(i) == row[i].upload = i /\ ~row[i].job /\ row[i].state = "accepted"

CompleteTransfer(i) ==
  /\ UpdateUpload(i, [row[i] EXCEPT !.state = "processing", !.job = TRUE])
  /\ import' = [import EXCEPT ![i] = "queued"]

PostFinish(i) ==
  /\ <<"finish", i>> \in sent
  /\ CanComplete(i)
  /\ CompleteTransfer(i)
  /\ UNCHANGED <<tusVars, index, sweepVars, callVars, envVars>>

-----------------------------------------------------------------------------
(* Termination: the pre-terminate hook, tusd's deletion, record_terminated.*)

\* Mutant: the cleanup credential deletes an upload that is being imported.
MayTerminateAny(i, internal) ==
  \/ row[i].state = "accepted"
  \/ internal /\ row[i].state # "pending"

MayTerminate(i, internal) ==
  \/ row[i].state = "accepted"
  \/ internal /\ row[i].state \in {"ready", "indexed", "failed", "expired"}

\* authorize_termination
Terminating(i) ==
  IF row[i].state \in {"accepted", "failed"}
  THEN [row[i] EXCEPT !.state = "expired"]
  ELSE row[i]

\* tusd asks the hook, then deletes; it may fail in between.
TusDelete(i, removed) ==
  /\ UpdateUpload(i, Terminating(i))
  /\ content' = IF removed THEN [content EXCEPT ![i] = "none"] ELSE content
  /\ sent' = IF removed THEN sent \cup {<<"terminate", i>>} ELSE sent
  /\ UNCHANGED <<approved, staged>>

\* A client deletes its own tus upload.
ClientTerminate(i) ==
  /\ BackendOf[i] = "tus"
  /\ content[i] # "none"
  /\ row[i].upload = i
  /\ MayTerminate(i, FALSE)
  /\ \E removed \in BOOLEAN : TusDelete(i, removed)
  /\ UNCHANGED <<jobVars, sweepVars, callVars, envVars>>

\* Mutants: media is dropped with its upload; the identifier is kept.
TerminatedMedia(i) == [row[i] EXCEPT !.state = "expired", !.upload = None]
TerminatedKept(i) ==
  [row[i] EXCEPT !.state = IF @ \in {"ready", "indexed"} THEN @ ELSE "expired"]

\* What record_terminated leaves of the row it finds.
Terminated(i) ==
  [row[i] EXCEPT !.state = IF @ \in {"ready", "indexed"} THEN @ ELSE "expired",
                 !.upload = None]

RecordTerminated(u) ==
  \/ \E i \in Owners(u) :
       /\ row[i].state # "processing"
       /\ UpdateUpload(i, Terminated(i))
  \/ /\ \A i \in Owners(u) : row[i].state = "processing"
     /\ UNCHANGED rowVars

PostTerminate(i) ==
  /\ <<"terminate", i>> \in sent
  /\ RecordTerminated(i)
  /\ UNCHANGED <<tusVars, jobVars, sweepVars, callVars, envVars>>

-----------------------------------------------------------------------------
(* Native multipart bodies: staged in quarantine under a fresh name, which  *)
(* is never used again, and claimed in a transaction.                      *)

Stage(a, i) ==
  /\ BackendOf[i] = "multipart"
  /\ row[i].state # "absent"
  /\ content[a] = "none"
  /\ content' = [content EXCEPT ![a] = "full"]
  /\ staged' = staged \cup {<<a, i>>}
  /\ UNCHANGED <<rowVars, approved, sent, jobVars, sweepVars, callVars, envVars>>

\* Mutant: the losing request unlinks the body the row names, not its own.
ClaimUnlinksWinner(a, i) ==
  /\ <<a, i>> \in staged
  /\ staged' = staged \ {<<a, i>>}
  /\ IF row[i].state = "pending"
     THEN /\ UpdateUpload(i, [row[i] EXCEPT !.state = "accepted", !.upload = a])
          /\ UNCHANGED content
     ELSE /\ content' = [u \in UploadIds |-> IF u = row[i].upload THEN "removed"
                                            ELSE content[u]]
          /\ UNCHANGED rowVars
  /\ UNCHANGED <<approved, sent, jobVars, sweepVars, callVars, envVars>>

\* The claim wins a pending intent; any other body is unlinked.
Claim(a, i) ==
  /\ <<a, i>> \in staged
  /\ staged' = staged \ {<<a, i>>}
  /\ IF row[i].state = "pending"
     THEN /\ UpdateUpload(i, [row[i] EXCEPT !.state = "accepted", !.upload = a])
          /\ UNCHANGED content
     ELSE /\ content' = [content EXCEPT ![a] = "removed"]
          /\ UNCHANGED rowVars
  /\ UNCHANGED <<approved, sent, jobVars, sweepVars, callVars, envVars>>

\* The browser session expired or was re-opened elsewhere, or the transaction
\* fails: the claim raises.
RefuseClaim(a, i) ==
  /\ <<a, i>> \in staged
  /\ staged' = staged \ {<<a, i>>}
  /\ content' = [content EXCEPT ![a] = "removed"]
  /\ UNCHANGED <<rowVars, approved, sent, jobVars, sweepVars, callVars, envVars>>

\* The claim wins, but the commit raises: the handler takes it for lost and
\* unlinks the body that the row now names.
LoseClaim(a, i) ==
  /\ <<a, i>> \in staged
  /\ row[i].state = "pending"
  /\ crashes < MaxCrashes
  /\ crashes' = crashes + 1
  /\ staged' = staged \ {<<a, i>>}
  /\ UpdateUpload(i, [row[i] EXCEPT !.state = "accepted", !.upload = a])
  /\ content' = [content EXCEPT ![a] = "removed"]
  /\ unsure' = unsure \cup {i}
  /\ UNCHANGED <<approved, sent, jobVars, sweepVars, callVars, late>>

-----------------------------------------------------------------------------
(* The job worker.                                                         *)

\* The bytes an import reads are there; a local path is read in place.
ContentPresent(i) ==
  BackendOf[i] # "local_path" => /\ row[i].upload # None
                                 /\ content[row[i].upload] = "full"

\* import_completed looks the upload up and checks it; a local import does not.
\* (What it answers for an upload already ready is never needed: ImportLinked.)
Importable(i) ==
  \/ BackendOf[i] = "local_path"
  \/ /\ row[i].upload # None
     /\ row[i].state = "processing"
     /\ ContentPresent(i)

BeginImport(i) ==
  /\ import[i] = "queued"
  /\ import' = [import EXCEPT ![i] = IF Importable(i) THEN "running" ELSE "failed"]
  /\ UNCHANGED <<rowVars, tusVars, index, sweepVars, callVars, envVars>>

\* The media is staged from the bytes and registered, or the job fails.
FinishImport(i) ==
  /\ import[i] = "running"
  /\ \/ /\ ContentPresent(i)
        /\ import' = [import EXCEPT ![i] = "succeeded"]
     \/ import' = [import EXCEPT ![i] = "failed"]
  /\ UNCHANGED <<rowVars, tusVars, index, sweepVars, callVars, envVars>>

FinishIndex(j) ==
  /\ index[j] = "queued"
  /\ \E status \in {"succeeded", "failed"} : index' = [index EXCEPT ![j] = status]
  /\ UNCHANGED <<rowVars, tusVars, import, sweepVars, callVars, envVars>>

\* Durable execution runs an interrupted import again, or gives it up.
WorkerCrash(i) ==
  /\ crashes < MaxCrashes
  /\ import[i] = "running"
  /\ \E status \in {"queued", "failed"} : import' = [import EXCEPT ![i] = status]
  /\ crashes' = crashes + 1
  /\ UNCHANGED <<rowVars, tusVars, index, sweepVars, callVars, late, unsure>>

-----------------------------------------------------------------------------
(* The sweep: RemoteUploadService.reconcile.  Each part reads its list     *)
(* once and then handles the rows of that list, however they have changed. *)

Todo == {i \in Intents : seen[i].state # "absent"}

Forget(i) == seen' = [seen EXCEPT ![i] = NoRow]

Go(p, at, on) == place' = [place EXCEPT ![p] = [at |-> at, on |-> on]]

Stop(p) == place' = [place EXCEPT ![p] = Idle]

\* Mutant: indexing is started and never looked at again.
ActiveUntilIndexed(r, i) ==
  \/ r.state = "pending" /\ BackendOf[i] = "local_path"
  \/ r.state = "accepted" /\ BackendOf[i] = "multipart"
  \/ r.state = "processing"
  \/ r.state = "ready" /\ i \in IndexAfter /\ r.index = None

\* active_ingestions, without the rows that advance returns unchanged.
Active(r, i) ==
  \/ r.state = "pending" /\ BackendOf[i] = "local_path"
  \/ r.state = "accepted" /\ BackendOf[i] = "multipart"
  \/ r.state = "processing"
  \/ r.state = "ready" /\ i \in IndexAfter /\ ~r.failed

\* Mutant: only uploads past their lifetime are recovered.
RecoverableLate(r, i) == r.state = "accepted" /\ BackendOf[i] = "tus" /\ i \in late

\* recoverable_uploads; only tus uploads are probed.
Recoverable(r, i) == r.state = "accepted" /\ BackendOf[i] = "tus"

\* expired_uploads
Expirable(r, i) == r.state \in {"pending", "accepted", "failed"} /\ i \in late

\* Mutants: rows without an identifier are listed; imported uploads are not.
CleanableAny(r, i) == r.state \in {"ready", "indexed", "expired"}
CleanableExpired(r, i) == r.upload # None /\ r.state = "expired"

\* cleanup_uploads
Cleanable(r, i) == r.upload # None /\ r.state \in {"ready", "indexed", "expired"}

BeginPart(from, to, Selected(_, _)) ==
  /\ phase = from
  /\ place["sweep"] = Idle
  /\ Todo = {}
  /\ phase' = to
  /\ seen' = [i \in Intents |-> IF Selected(row[i], i) THEN row[i] ELSE NoRow]
  /\ probe' = IF to \in {"recover", "expire"} THEN probe
              ELSE [i \in Intents |-> "none"]
  /\ UNCHANGED <<rowVars, tusVars, jobVars, callVars, envVars>>

Nothing(r, i) == FALSE

BeginSweep ==
  \/ BeginPart("idle", "advance", Active)
  \/ BeginPart("advance", "recover", Recoverable)
  \/ BeginPart("recover", "expire", Expirable)
  \/ BeginPart("expire", "cleanup", Cleanable)
  \/ BeginPart("cleanup", "idle", Nothing)

\* The sweep takes the next row of its list, seen in one of the given states.
Takes(i, part, states) ==
  /\ phase = part
  /\ place["sweep"] = Idle
  /\ seen[i].state \in states

Importing(i) == row[i].state = "processing" /\ row[i].job

Enqueue(i) ==
  import' = [import EXCEPT ![i] = IF @ = "absent" THEN "queued" ELSE @]

\* _fail_import
FailImportOf(i) ==
  UpdateIf(Importing(i), i, [row[i] EXCEPT !.state = "failed", !.failed = TRUE])

\* _start_import: link the derived job, then submit it.
StartImport(i) ==
  /\ Takes(i, "advance", {"pending", "accepted"})
  /\ IF row[i].state = seen[i].state /\ ~row[i].job
     THEN /\ UpdateUpload(i, [row[i] EXCEPT
               !.state = "processing", !.job = TRUE,
               !.upload = IF seen[i].upload = None THEN i ELSE seen[i].upload])
          /\ Go("sweep", "submit_import", i)
     ELSE UNCHANGED <<rowVars, place>>
  /\ Forget(i)
  /\ UNCHANGED <<tusVars, jobVars, phase, probe, cancelled, retry, envVars>>

SubmitImport ==
  /\ place["sweep"].at = "submit_import"
  /\ Enqueue(place["sweep"].on)
  /\ Stop("sweep")
  /\ UNCHANGED <<rowVars, tusVars, index, sweepVars, cancelled, retry, envVars>>

\* A linked import job the backend does not know is submitted again.
ResubmitImport(i) ==
  /\ Takes(i, "advance", {"processing"})
  /\ import[i] = "absent"
  /\ Enqueue(i)
  /\ Forget(i)
  /\ UNCHANGED <<rowVars, tusVars, index, phase, probe, callVars, envVars>>

\* Mutant: an import that still runs is registered.
RegisterRunning(i) ==
  /\ Takes(i, "advance", {"processing"})
  /\ import[i] \in {"running", "succeeded"}
  /\ UpdateIf(Importing(i), i, [row[i] EXCEPT !.state = "ready", !.media = TRUE])
  /\ seen' = [seen EXCEPT ![i] =
                IF row'[i].state = "ready" /\ i \in IndexAfter THEN row'[i] ELSE NoRow]
  /\ UNCHANGED <<tusVars, jobVars, phase, probe, callVars, envVars>>

\* The import succeeded: the upload is ready, and indexing starts at once.
RegisterImport(i) ==
  /\ Takes(i, "advance", {"processing"})
  /\ import[i] = "succeeded"
  /\ UpdateIf(Importing(i), i, [row[i] EXCEPT !.state = "ready", !.media = TRUE])
  /\ seen' = [seen EXCEPT ![i] =
                IF row'[i].state = "ready" /\ i \in IndexAfter THEN row'[i] ELSE NoRow]
  /\ UNCHANGED <<tusVars, jobVars, phase, probe, callVars, envVars>>

\* The import job failed, or the job service refused it for good.
FailImport(i) ==
  /\ \/ /\ Takes(i, "advance", {"processing"})
        /\ Forget(i)
        /\ UNCHANGED place
     \/ /\ place["sweep"] = [at |-> "submit_import", on |-> i]
        /\ Stop("sweep")
        /\ UNCHANGED seen
  /\ FailImportOf(i)
  /\ UNCHANGED <<tusVars, jobVars, phase, probe, cancelled, retry, envVars>>

\* _start_index
StartIndex(i) ==
  /\ Takes(i, "advance", {"ready"})
  /\ seen[i].index = None
  /\ IF row[i].state = "ready" /\ row[i].index = None
     THEN /\ UpdateUpload(i, [row[i] EXCEPT !.index = i])
          /\ Go("sweep", "submit_index", i)
     ELSE UNCHANGED <<rowVars, place>>
  /\ Forget(i)
  /\ UNCHANGED <<tusVars, jobVars, phase, probe, cancelled, retry, envVars>>

EnqueueIndex(j) ==
  index' = [index EXCEPT ![j] = IF @ = "absent" THEN "queued" ELSE @]

SubmitIndex ==
  /\ place["sweep"].at = "submit_index"
  /\ EnqueueIndex(place["sweep"].on)
  /\ Stop("sweep")
  /\ UNCHANGED <<rowVars, tusVars, import, sweepVars, cancelled, retry, envVars>>

ResubmitIndex(i) ==
  /\ Takes(i, "advance", {"ready"})
  /\ seen[i].index # None
  /\ index[seen[i].index] = "absent"
  /\ EnqueueIndex(seen[i].index)
  /\ Forget(i)
  /\ UNCHANGED <<rowVars, tusVars, import, phase, probe, callVars, envVars>>

\* The row still waits for the index job the sweep looked at.
Awaits(i, j) == row[i].state = "ready" /\ row[i].index = j

\* Mutant: a job that ended is taken for one that succeeded.
RegisterIndexEnded(i) ==
  /\ Takes(i, "advance", {"ready"})
  /\ seen[i].index # None
  /\ index[seen[i].index] \in {"succeeded", "failed"}
  /\ UpdateIf(Awaits(i, seen[i].index), i, [row[i] EXCEPT !.state = "indexed"])
  /\ Forget(i)
  /\ UNCHANGED <<tusVars, jobVars, phase, probe, callVars, envVars>>

RegisterIndex(i) ==
  /\ Takes(i, "advance", {"ready"})
  /\ seen[i].index # None
  /\ index[seen[i].index] = "succeeded"
  /\ UpdateIf(Awaits(i, seen[i].index), i, [row[i] EXCEPT !.state = "indexed"])
  /\ Forget(i)
  /\ UNCHANGED <<tusVars, jobVars, phase, probe, callVars, envVars>>

\* The index job ended without success, or the job service refused it.
FailIndex(i) ==
  /\ \/ /\ Takes(i, "advance", {"ready"})
        /\ seen[i].index # None
        /\ UpdateIf(Awaits(i, seen[i].index), i, [row[i] EXCEPT !.failed = TRUE])
        /\ Forget(i)
        /\ UNCHANGED place
     \/ /\ place["sweep"] = [at |-> "submit_index", on |-> i]
        /\ UpdateIf(Awaits(i, i), i, [row[i] EXCEPT !.failed = TRUE])
        /\ Stop("sweep")
        /\ UNCHANGED seen
  /\ UNCHANGED <<tusVars, jobVars, phase, probe, cancelled, retry, envVars>>

\* The job is unfinished, or a retryable error postpones the row.
Postpone(i) ==
  /\ \/ /\ Takes(i, "advance", {"processing", "ready"})
        /\ seen[i].state = "ready" => seen[i].index # None
        /\ Forget(i)
        /\ UNCHANGED place
     \/ /\ place["sweep"] \in {[at |-> "submit_import", on |-> i],
                               [at |-> "submit_index", on |-> i]}
        /\ Stop("sweep")
        /\ UNCHANGED seen
  /\ UNCHANGED <<rowVars, tusVars, jobVars, phase, probe, cancelled, retry, envVars>>

\* One HEAD request per accepted tus upload; a complete one is completed as
\* its finish hook would have.
ProbeRecover(i) ==
  /\ Takes(i, "recover", {"accepted"})
  /\ LET complete == content[i] = "full" IN
     /\ probe' = [probe EXCEPT ![i] =
                   IF content[i] = "none" THEN "missing"
                   ELSE IF complete /\ ~CanComplete(i) /\ ~(row[i].upload = i /\ row[i].job)
                        THEN "failed"
                   ELSE "present"]
     /\ IF complete /\ CanComplete(i)
        THEN CompleteTransfer(i)
        ELSE UNCHANGED <<rowVars, import>>
  /\ Forget(i)
  /\ UNCHANGED <<tusVars, index, phase, callVars, envVars>>

\* tusd is unavailable, which is never taken for absence.
ProbeFails(i) ==
  /\ \/ Takes(i, "recover", {"accepted"})
     \/ /\ Takes(i, "expire", {"accepted"})
        /\ BackendOf[i] = "tus"
        /\ probe[i] = "none"
  /\ probe' = [probe EXCEPT ![i] = "failed"]
  /\ Forget(i)
  /\ UNCHANGED <<rowVars, tusVars, jobVars, phase, callVars, envVars>>

\* Mutant: the state is not read again under the lock.
ExpireStale(i, clear) ==
  UpdateUpload(i, [row[i] EXCEPT !.state = "expired", !.upload = IF clear THEN None ELSE @])

\* _expire_intent
ExpireIntent(i, clear) ==
  UpdateIf(row[i].state \in {"pending", "accepted", "failed"}, i,
           [row[i] EXCEPT !.state = "expired", !.upload = IF clear THEN None ELSE @])

\* The upload identifier _expire_intent hands back for cleaning.
Handed(i) ==
  IF row[i].state \in {"pending", "accepted", "failed"} THEN row[i].upload ELSE None

\* What the sweep knows of a tus upload: its earlier probe, or a new one.
Observed(i) ==
  IF probe[i] # "none" THEN probe[i]
  ELSE IF content[i] = "none" THEN "missing" ELSE "present"

\* An accepted tus upload: one still present is left to the operator.
ExpireTus(i) ==
  /\ Takes(i, "expire", {"accepted"})
  /\ BackendOf[i] = "tus"
  /\ CASE Observed(i) = "present" -> ExpireIntent(i, TRUE) /\ UNCHANGED place
       [] Observed(i) = "missing" ->
            /\ ExpireIntent(i, FALSE)
            /\ IF Handed(i) # None THEN Go("sweep", "terminated", Handed(i))
               ELSE UNCHANGED place
       [] OTHER -> UNCHANGED <<rowVars, place>>
  /\ Forget(i)
  /\ UNCHANGED <<tusVars, jobVars, phase, probe, cancelled, retry, envVars>>

\* Any other row past its lifetime: expire it, then clean its upload.
Expire(i) ==
  /\ Takes(i, "expire", {"pending", "accepted", "failed"})
  /\ ~(seen[i].state = "accepted" /\ BackendOf[i] = "tus")
  /\ ExpireIntent(i, FALSE)
  /\ IF Handed(i) # None THEN Go("sweep", "cleanup", Handed(i)) ELSE UNCHANGED place
  /\ Forget(i)
  /\ UNCHANGED <<tusVars, jobVars, phase, probe, cancelled, retry, envVars>>

\* A staged body young enough to count as active is left alone.
SpareActive(i) ==
  /\ Takes(i, "expire", {"accepted"})
  /\ BackendOf[i] = "multipart"
  /\ content[seen[i].upload] = "full"
  /\ Forget(i)
  /\ UNCHANGED <<rowVars, tusVars, jobVars, phase, probe, callVars, envVars>>

CleanItem(i) ==
  /\ Takes(i, "cleanup", {"ready", "indexed", "expired"})
  /\ Go("sweep", "cleanup", seen[i].upload)
  /\ Forget(i)
  /\ UNCHANGED <<rowVars, tusVars, jobVars, phase, probe, cancelled, retry, envVars>>

-----------------------------------------------------------------------------
(* _cleanup_upload, by the sweep or by a browser: delete the bytes, then   *)
(* record the termination.                                                 *)

TusOwners(u) == {i \in Owners(u) : BackendOf[i] = "tus"}

CleanupLocal(p) ==
  LET u == place[p].on IN
  /\ place[p].at = "cleanup"
  /\ TusOwners(u) = {}
  /\ content' = IF \E i \in Owners(u) : BackendOf[i] = "multipart"
                THEN [content EXCEPT ![u] = "removed"] ELSE content
  /\ Go(p, "terminated", u)
  /\ UNCHANGED <<rowVars, approved, sent, staged, jobVars, sweepVars, cancelled,
                 retry, envVars>>

\* DELETE to tusd with the cleanup token; 404 counts as deleted.
CleanupTus(p) ==
  /\ place[p].at = "cleanup"
  /\ \E i \in TusOwners(place[p].on) :
       \/ /\ content[i] = "none"
          /\ Go(p, "terminated", i)
          /\ UNCHANGED <<rowVars, tusVars>>
       \/ /\ content[i] # "none"
          /\ MayTerminate(i, TRUE)
          /\ \E removed \in BOOLEAN :
               /\ TusDelete(i, removed)
               /\ IF removed THEN Go(p, "terminated", i) ELSE Stop(p)
       \/ /\ content[i] # "none"
          /\ ~MayTerminate(i, TRUE)
          /\ Stop(p)
          /\ UNCHANGED <<rowVars, tusVars>>
  /\ UNCHANGED <<jobVars, sweepVars, cancelled, retry, envVars>>

\* tusd is unavailable: the cleanup raises.
CleanupFails(p) ==
  /\ place[p].at = "cleanup"
  /\ TusOwners(place[p].on) # {}
  /\ Stop(p)
  /\ UNCHANGED <<rowVars, tusVars, jobVars, sweepVars, cancelled, retry, envVars>>

FinishCleanup(p) ==
  /\ place[p].at = "terminated"
  /\ RecordTerminated(place[p].on)
  /\ Stop(p)
  /\ UNCHANGED <<tusVars, jobVars, sweepVars, cancelled, retry, envVars>>

-----------------------------------------------------------------------------
(* A browser cancels a file: inspection in one transaction, the change in  *)
(* later ones.                                                             *)

RequestCancel(i) ==
  /\ place["browser"] = Idle
  /\ BackendOf[i] # "local_path"
  /\ row[i].state \in {"pending", "accepted", "failed", "expired"}
  /\ cancelled' = cancelled \cup {i}
  /\ IF row[i].upload = None THEN Go("browser", "expire", i)
     ELSE Go("browser", "cleanup", row[i].upload)
  /\ UNCHANGED <<rowVars, tusVars, jobVars, sweepVars, retry, envVars>>

CancelPending ==
  /\ place["browser"].at = "expire"
  /\ ExpireIntent(place["browser"].on, FALSE)
  /\ Stop("browser")
  /\ UNCHANGED <<tusVars, jobVars, sweepVars, cancelled, retry, envVars>>

-----------------------------------------------------------------------------
(* start_indexing: relink the failed uploads of a media, then submit.      *)

\* failed_index_uploads_for_media
FailedIndexes(m) ==
  {i \in IndexAfter : /\ MediaOf[i] = m
                      /\ row[i].media /\ row[i].state = "ready"
                      /\ row[i].index # None /\ row[i].failed}

Relink(m, r) ==
  /\ retry.job = None
  /\ \E i \in Intents : row[i].media /\ MediaOf[i] = m
  /\ row' = [i \in Intents |-> IF i \in FailedIndexes(m)
                              THEN [row[i] EXCEPT !.index = r, !.failed = FALSE]
                              ELSE row[i]]
  /\ retry' = [job |-> r, linked |-> FailedIndexes(m)]
  /\ UNCHANGED <<reserved, tusVars, jobVars, sweepVars, place, cancelled, envVars>>

SubmitRetry ==
  /\ retry.job # None
  /\ EnqueueIndex(retry.job)
  /\ retry' = [job |-> None, linked |-> {}]
  /\ UNCHANGED <<rowVars, tusVars, import, sweepVars, place, cancelled, envVars>>

\* The submission raises: for good (the linked uploads record it), or not.
RefuseRetry ==
  /\ retry.job # None
  /\ \E blamed \in {{}, retry.linked} :
       row' = [i \in Intents |-> IF i \in blamed /\ Awaits(i, retry.job)
                               THEN [row[i] EXCEPT !.failed = TRUE] ELSE row[i]]
  /\ retry' = [job |-> None, linked |-> {}]
  /\ UNCHANGED <<reserved, tusVars, jobVars, sweepVars, place, cancelled, envVars>>

-----------------------------------------------------------------------------

TimePasses(i) ==
  /\ row[i].state # "absent"
  /\ late' = late \cup {i}
  /\ UNCHANGED <<rowVars, tusVars, jobVars, sweepVars, callVars, unsure, crashes>>

\* The control plane dies between two transactions and starts again.
Crash ==
  /\ crashes < MaxCrashes
  /\ crashes' = crashes + 1
  /\ phase' = "idle"
  /\ seen' = [i \in Intents |-> NoRow]
  /\ probe' = [i \in Intents |-> "none"]
  /\ place' = [p \in {"sweep", "browser"} |-> Idle]
  /\ retry' = [job |-> None, linked |-> {}]
  /\ staged' = {}
  /\ UNCHANGED <<rowVars, content, approved, sent, jobVars, cancelled, late, unsure>>

Sweep ==
  \/ BeginSweep
  \/ SubmitImport \/ SubmitIndex
  \/ \E i \in Intents :
       \/ StartImport(i) \/ ResubmitImport(i) \/ RegisterImport(i) \/ FailImport(i)
       \/ StartIndex(i) \/ ResubmitIndex(i) \/ RegisterIndex(i) \/ FailIndex(i)
       \/ Postpone(i)
       \/ ProbeRecover(i) \/ ProbeFails(i)
       \/ ExpireTus(i) \/ Expire(i) \/ SpareActive(i) \/ CleanItem(i)

Cleanup(p) ==
  CleanupLocal(p) \/ CleanupTus(p) \/ CleanupFails(p) \/ FinishCleanup(p)

Tus(i) ==
  \/ ExpireCreation(i) \/ AcceptCreation(i) \/ ReplayCreation(i)
  \/ TusCreate(i) \/ TusForget(i) \/ TusFinish(i)
  \/ PostFinish(i) \/ ClientTerminate(i) \/ PostTerminate(i)

Native(i) ==
  \E a \in Attempts :
    Stage(a, i) \/ Claim(a, i) \/ RefuseClaim(a, i) \/ LoseClaim(a, i)

Worker ==
  \/ \E i \in Intents : BeginImport(i) \/ FinishImport(i) \/ WorkerCrash(i)
  \/ \E j \in IndexJobs : FinishIndex(j)

Caller ==
  \/ \E i \in Intents : CreateIntent(i) \/ CreateLocalIngestion(i) \/ RequestCancel(i)
  \/ CancelPending
  \/ \E m \in Media, r \in Retries : Relink(m, r)
  \/ SubmitRetry \/ RefuseRetry

Next ==
  \/ Caller
  \/ Sweep
  \/ \E p \in {"sweep", "browser"} : Cleanup(p)
  \/ Worker
  \/ \E i \in Intents : Tus(i) \/ Native(i) \/ TimePasses(i)
  \/ Crash

Spec == Init /\ [][Next]_vars

\* The coordinator thread sweeps for ever and the worker takes queued jobs.
\* Errors that postpone an item do not come back for ever: whatever an attempt
\* is tried for again and again succeeds at last.
TusCleaned(p) == CleanupTus(p) /\ place'[p].at = "terminated"

JobEnded(i) ==
  \/ FailImport(i) /\ import[i] = "failed"
  \/ FailIndex(i) /\ seen[i].index # None /\ index[seen[i].index] = "failed"

Fairness ==
  /\ WF_vars(Sweep) /\ WF_vars(Cleanup("sweep"))
  /\ SF_vars(TusCleaned("sweep"))
  /\ \A i \in Intents :
       /\ SF_vars(ResubmitImport(i)) /\ SF_vars(RegisterImport(i))
       /\ SF_vars(ResubmitIndex(i)) /\ SF_vars(RegisterIndex(i))
       /\ SF_vars(ProbeRecover(i))
       /\ SF_vars(JobEnded(i))
       /\ WF_vars(BeginImport(i)) /\ WF_vars(FinishImport(i))
  /\ \A j \in IndexJobs : WF_vars(FinishIndex(j))

FairSpec == Spec /\ Fairness

-----------------------------------------------------------------------------

Places ==
  [at : {"idle"}, on : {None}]
    \cup [at : {"submit_import", "submit_index", "expire"}, on : Intents]
    \cup [at : {"cleanup", "terminated"}, on : UploadIds]

\* Types; unfinished work names an intent or an upload, and reconcile's
\* "assert record.upload_id is not None" holds of every row it cleans.
TypeOK ==
  /\ row \in [Intents -> Rows]
  /\ reserved \in Nat
  /\ late \subseteq Intents
  /\ content \in [UploadIds -> {"none", "partial", "full", "removed"}]
  /\ approved \subseteq Intents
  /\ sent \subseteq {"finish", "terminate"} \X Intents
  /\ staged \subseteq Attempts \X Intents
  /\ import \in [Intents -> {"absent", "queued", "running", "succeeded", "failed"}]
  /\ index \in [IndexJobs -> {"absent", "queued", "succeeded", "failed"}]
  /\ phase \in {"idle", "advance", "recover", "expire", "cleanup"}
  /\ seen \in [Intents -> Rows]
  /\ phase = "cleanup" =>
       \A i \in Intents : seen[i].state # "absent" => seen[i].upload # None
  /\ probe \in [Intents -> {"none", "failed", "missing", "present"}]
  /\ place \in [{"sweep", "browser"} -> Places]
  /\ cancelled \subseteq Intents
  /\ retry \in [job : Retries \cup {None}, linked : SUBSET Intents]
  /\ unsure \subseteq Intents
  /\ crashes \in 0 .. MaxCrashes

-----------------------------------------------------------------------------
(* Properties.                                                             *)

\* UploadIntentRecord._validate_state runs on every row read, so a row it
\* refuses makes every later list, sweep or status request fail: no
\* interleaving of hooks, sweep, browser and jobs may write one.
RowValid(i) ==
  LET r == row[i] IN
  /\ r.state = "pending" => r.upload = None
  /\ r.state \in {"accepted", "processing"} => r.upload # None
  /\ r.state \in {"processing", "ready", "indexed"} => r.job
  /\ r.state \in {"pending", "accepted"} => ~r.job
  /\ r.state \in {"ready", "indexed"} => r.media
  /\ r.media => r.state \in {"ready", "indexed", "failed"}
  /\ r.index # None => r.media /\ i \in IndexAfter

RecordValid == \A i \in Intents : row[i].state # "absent" => RowValid(i)

\* An import job exists only for a row that links it, and media is registered
\* only from a job that succeeded: a crash between linking and submitting
\* loses neither, and nothing is imported for an upload never completed.
ImportLinked ==
  \A i \in Intents :
    /\ import[i] # "absent" => row[i].job
    /\ row[i].media => import[i] = "succeeded"

\* The bytes of an upload are in place from the transaction that links its
\* import until one that registers or fails it; only a browser that cancelled
\* a native upload, or a claim that did not learn that it had won, can have
\* taken them (sweeps, hooks, losing multipart bodies and time cannot).
ContentKept ==
  \A i \in Intents :
    row[i].state = "processing" /\ ~ContentPresent(i) =>
      BackendOf[i] = "multipart" /\ i \in cancelled \cup unsure

\* The claim of cancel_browser_file: "Processing or ready files cannot be
\* cancelled", so a cancellation never takes the bytes of an upload that waits
\* for its import.  The code inspects the state in one transaction and unlinks
\* the body later, after the coordinator may have linked the import.
CancelSparesProcessing ==
  \A i \in cancelled :
    row[i].state = "processing" /\ import[i] \notin {"succeeded", "failed"}
    => ContentPresent(i)

\* upload_quota.reserved_bytes counts the bytes reserved by the rows that still
\* hold a reservation, whatever order they are completed, failed, retried,
\* expired and terminated in: quota neither leaks nor is released twice.
BytesOf(i) == {i} \X (1 .. row[i].size)

ReservedBytes ==
  UNION {BytesOf(i) : i \in {j \in Intents : row[j].state \in ReservedStates}}

QuotaExact == reserved = Cardinality(ReservedBytes)

\* An upload is shown as indexed only when the job it links succeeded, however
\* retries and sweeps with stale rows interleave.
IndexedTruthful ==
  \A i \in Intents :
    row[i].state = "indexed" => row[i].index # None /\ index[row[i].index] = "succeeded"

\* Every upload keeps the promise of UploadLifecycle: no hook, sweep, browser,
\* retry or crash imports twice, drops a committed upload, or revives one.
StageOf(i) ==
  CASE row[i].state \in {"pending", "accepted"} -> "open"
    [] row[i].state = "processing" -> "committed"
    [] row[i].state = "ready" -> "registered"
    [] row[i].state = "indexed" -> "searchable"
    [] row[i].state = "expired" -> "dropped"
    [] OTHER -> row[i].state

WorkOf(i) ==
  CASE import[i] = "absent" -> "none"
    [] import[i] = "queued" -> "running"
    [] OTHER -> import[i]

Lifecycle == INSTANCE UploadLifecycle WITH
  stage <- [i \in Intents |-> StageOf(i)], work <- [i \in Intents |-> WorkOf(i)]

KeepsLifecycle == Lifecycle!Spec

\* Whatever is lost, crashes or is postponed, an upload the service owes work
\* (a local path, a claimed body, a finished tus transfer whose hook is lost, a
\* linked import, an index to build) is settled at last.
Owed(i) ==
  LET r == row[i] IN
  \/ r.state = "pending" /\ BackendOf[i] = "local_path"
  \/ r.state = "accepted" /\ content[r.upload] = "full"
  \/ r.state = "processing"
  \/ r.state = "ready" /\ i \in IndexAfter

Settled(i) ==
  LET r == row[i] IN
  \/ r.state \in {"indexed", "failed", "expired"}
  \/ r.state = "ready" /\ (i \in IndexAfter => r.failed)

Settles == \A i \in Intents : Owed(i) ~> Settled(i)

\* The catalog lets go of an upload that is imported or expired, and the bytes
\* of one that was imported are deleted.  (Not when a browser cancels before
\* tusd creates the upload: its DELETE answers 404, and the import may finish
\* before it records the termination.)
BytesReleased ==
  \A i \in Intents, u \in UploadIds :
    (row[i].upload = u /\ row[i].state \in {"ready", "indexed", "expired"}) ~>
       (/\ row[i].upload # u
        /\ row[i].state \in {"ready", "indexed"} /\ i \notin cancelled =>
             content[u] \in {"none", "removed"})

=============================================================================
