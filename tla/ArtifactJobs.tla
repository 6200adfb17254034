----------------------------- MODULE ArtifactJobs -----------------------------
(***************************************************************************)
(* Jobs that make artifacts: the worker's steps of dbos_workflows.py and   *)
(* ArtifactService._create of artifact_service.py over the catalog's       *)
(* artifact tables and the local artifact store, composed with             *)
(* DurableJobs.                                                            *)
(*                                                                         *)
(* A job makes one artifact under an id of its own, so an artifact is      *)
(* named by its job.  Jobs with the same artifact request share its key.   *)
(* They overlap: a cancelled job runs on until it looks, its retry starts  *)
(* at once, and the queues have workers of their own.  Catalog calls may   *)
(* fail or commit without the caller learning it; a worker may die and     *)
(* DBOS start its jobs again; the disk may lose or damage an object.       *)
(***************************************************************************)
EXTENDS DurableJobs

CONSTANTS
  Keys,        \* artifact request keys
  KeyOf,       \* the key of each job request
  Deliveries,  \* requests that deliver evidence: they succeed without it
  MaxTroubles  \* bound: failed calls, crashes and objects the disk loses or damages

ASSUME ArtifactAssumption ==
  /\ KeyOf \in [Requests -> Keys] /\ Deliveries \subseteq Requests
  /\ MaxTroubles \in Nat

VARIABLES
  at,        \* where the execution of each job is
  found,     \* the artifact it would return, or None
  stored,    \* the content it has published or recovered, or "none"
  artifact,  \* the content each artifact's row records, or "none"
  index,     \* the artifact of each request key, or None
  object,    \* the object of each artifact
  lost,      \* artifacts whose bytes the disk took or may be taken unawares
  doubted,   \* artifacts that a job could not verify
  litter,    \* artifacts whose object a crash or a failing disk left behind
  troubles

runVars == <<at, found, stored>>
storeVars == <<artifact, index, object>>
historyVars == <<lost, doubted, litter>>
vars == <<jobVars, callVars, runVars, storeVars, historyVars, troubles>>

Init ==
  /\ JobInit
  /\ at = [j \in Ids |-> "idle"]
  /\ found = [j \in Ids |-> None]
  /\ stored = [j \in Ids |-> "none"]
  /\ artifact = [j \in Ids |-> "none"]
  /\ index = [k \in Keys |-> None]
  /\ object = [j \in Ids |-> "absent"]
  /\ lost = {} /\ doubted = {} /\ litter = {}
  /\ troubles = 0

Key(j) == KeyOf[input[j]]

Fault == troubles < MaxTroubles /\ troubles' = troubles + 1
Fine == UNCHANGED troubles

At(j, state) == at' = [at EXCEPT ![j] = state]

\* An execution goes on; its job and the calls stay as they are.
Goon(j, state) == At(j, state) /\ UNCHANGED <<jobVars, callVars>>

-----------------------------------------------------------------------------
(* A worker starts a job.                                                  *)

\* An execution whose step was recorded before only returns.
Start(j) ==
  /\ at[j] = "idle" /\ Dequeue(j)
  /\ At(j, IF step[j] = "none" THEN "lookup" ELSE "return")
  /\ found' = [found EXCEPT ![j] = None]
  /\ stored' = [stored EXCEPT ![j] = "none"]
  /\ UNCHANGED <<storeVars, historyVars, troubles>>

Exhaust(j) ==
  /\ at[j] = "idle" /\ GiveUp(j)
  /\ UNCHANGED <<runVars, storeVars, historyVars, troubles>>

Recover(j) ==
  /\ at[j] = "idle" /\ Requeue(j)
  /\ UNCHANGED <<runVars, storeVars, historyVars, troubles>>

\* A worker dies with the executions of its queue.
Crash(q) ==
  LET dead == {j \in Ids : at[j] # "idle" /\ QueueOf[input[j]] = q} IN
  /\ dead # {} /\ Fault
  /\ at' = [j \in Ids |-> IF j \in dead THEN "idle" ELSE at[j]]
  /\ litter' = litter \cup dead
  /\ UNCHANGED <<jobVars, callVars, found, stored, storeVars, lost, doubted>>

-----------------------------------------------------------------------------
(* ArtifactService._create.                                                *)

\* The step of a delivery reports what it could not make and goes on.
Fail(j) ==
  /\ Record(j, IF input[j] \in Deliveries THEN "done" ELSE "failed", None)
  /\ At(j, "return")
  /\ UNCHANGED <<status, input, attempts, callVars>>

\* An execution looks for its cancellation between its operations, and undoes
\* what it has published.
Checkpoints == {"lookup", "verify", "make", "put", "report"}

Stop(j) ==
  /\ at[j] \in Checkpoints /\ status[j] = "CANCELLED"
  /\ found' = [found EXCEPT ![j] = None]
  /\ IF stored[j] # "none"
     THEN At(j, "drop") /\ UNCHANGED jobVars
     ELSE /\ Record(j, "failed", None) /\ At(j, "return")
          /\ UNCHANGED <<status, input, attempts>>
  /\ UNCHANGED <<callVars, stored, storeVars, historyVars, troubles>>

\* Mutant: a key that has no artifact is not told from one that has.
LookupAny(j) ==
  /\ at[j] = "lookup"
  /\ found' = [found EXCEPT ![j] = index[Key(j)]]
  /\ Goon(j, "verify")
  /\ UNCHANGED <<stored, storeVars, historyVars, troubles>>

\* get_artifact_by_request.
Lookup(j) ==
  /\ at[j] = "lookup"
  /\ found' = [found EXCEPT ![j] = index[Key(j)]]
  /\ Goon(j, IF index[Key(j)] = None THEN "make" ELSE "verify")
  /\ UNCHANGED <<stored, storeVars, historyVars, troubles>>

\* The cached artifact has the size and checksum its row records.
Verify(j) ==
  /\ at[j] = "verify" /\ object[found[j]] = artifact[found[j]]
  /\ Goon(j, "report")
  /\ UNCHANGED <<found, stored, storeVars, historyVars, troubles>>

VerifyFails(j) ==
  /\ at[j] = "verify"
  /\ IF object[found[j]] = artifact[found[j]] THEN Fault ELSE Fine
  /\ doubted' = doubted \cup {found[j]}
  /\ Goon(j, "invalidate")
  /\ UNCHANGED <<found, stored, storeVars, lost, litter>>

\* Mutant: the mapping stays and the execution looks again.
KeepMapping(j) ==
  /\ at[j] = "invalidate"
  /\ Goon(j, "lookup")
  /\ UNCHANGED <<found, stored, storeVars, historyVars, troubles>>

\* The key forgets the artifact, unless another job has replaced it.
Forget(j) ==
  index' = IF index[Key(j)] = found[j] THEN [index EXCEPT ![Key(j)] = None] ELSE index

Invalidate(j) ==
  /\ at[j] = "invalidate"
  /\ Forget(j)
  /\ found' = [found EXCEPT ![j] = None]
  /\ Goon(j, "make")
  /\ UNCHANGED <<stored, artifact, object, historyVars, troubles>>

\* A transaction outside the compensated part fails, committed or not.
CatalogFails(j) ==
  /\ at[j] \in {"lookup", "invalidate"} /\ Fault
  /\ IF at[j] = "invalidate" THEN Forget(j) \/ UNCHANGED index ELSE UNCHANGED index
  /\ Fail(j)
  /\ UNCHANGED <<found, stored, artifact, object, historyVars>>

\* stage and recover: an object that an earlier execution has published is only
\* probed, so damage may go unnoticed; if it is registered too, this execution
\* does not know.  Nobody else touches a job's files.
RecoverObject(j) ==
  /\ at[j] = "make" /\ object[j] # "absent"
  /\ stored' = [stored EXCEPT ![j] = object[j]]
  /\ lost' = IF artifact[j] = "none" THEN lost ELSE lost \cup {j}
  /\ \/ Fine /\ Goon(j, "put")
     \/ (IF object[j] = "good" THEN Fault ELSE Fine) /\ Goon(j, "drop")
  /\ UNCHANGED <<found, storeVars, doubted, litter>>

\* Rendered, validated and renamed to its place.
Render(j) ==
  /\ at[j] = "make" /\ object[j] = "absent"
  /\ object' = [object EXCEPT ![j] = "good"]
  /\ stored' = [stored EXCEPT ![j] = "good"]
  /\ Goon(j, "put")
  /\ UNCHANGED <<found, artifact, index, historyVars, troubles>>

\* The store, the renderer or the validation fails; a rename whose directory
\* was not synchronized counts as not published.
MakeFails(j) ==
  /\ at[j] = "make" /\ Fault
  /\ \/ UNCHANGED object
     \/ object[j] = "absent" /\ object' = [object EXCEPT ![j] = "good"]
  /\ litter' = IF object'[j] = "absent" THEN litter ELSE litter \cup {j}
  /\ Fail(j)
  /\ UNCHANGED <<found, stored, artifact, index, lost, doubted>>

\* Mutant: a row is inserted whether or not the key has a ready artifact.
InsertAny(j) ==
  /\ at[j] = "put"
  /\ artifact' = [artifact EXCEPT ![j] = stored[j]]
  /\ index' = [index EXCEPT ![Key(j)] = j]
  /\ found' = [found EXCEPT ![j] = j]
  /\ stored' = [stored EXCEPT ![j] = "none"]
  /\ Goon(j, "report")
  /\ UNCHANGED <<object, historyVars, troubles>>

Insert(j) ==
  /\ artifact' = [artifact EXCEPT ![j] = stored[j]]
  /\ index' = [index EXCEPT ![Key(j)] = j]

\* put_artifact: the first ready artifact of a key stays its artifact.
Put(j) ==
  /\ at[j] = "put" /\ index[Key(j)] = None /\ artifact[j] = "none"
  /\ Insert(j)
  /\ found' = [found EXCEPT ![j] = j]
  /\ stored' = [stored EXCEPT ![j] = "none"]
  /\ Goon(j, "report")
  /\ UNCHANGED <<object, historyVars, troubles>>

\* Mutant: the object of the artifact that lost the race stays.
KeepLoser(j) ==
  /\ at[j] = "put" /\ index[Key(j)] # None
  /\ found' = [found EXCEPT ![j] = index[Key(j)]]
  /\ stored' = [stored EXCEPT ![j] = "none"]
  /\ Goon(j, "report")
  /\ UNCHANGED <<storeVars, historyVars, troubles>>

\* Another job was first: its artifact is the answer.
PutLoses(j) ==
  /\ at[j] = "put" /\ index[Key(j)] # None
  /\ found' = [found EXCEPT ![j] = index[Key(j)]]
  /\ IF index[Key(j)] = j
     THEN stored' = [stored EXCEPT ![j] = "none"] /\ Goon(j, "report")
     ELSE UNCHANGED stored /\ Goon(j, "drop")
  /\ UNCHANGED <<storeVars, historyVars, troubles>>

\* An earlier execution has registered the artifact and its key was forgotten
\* since: the new record differs, and the object is removed with the error.
PutConflicts(j) ==
  /\ at[j] = "put" /\ index[Key(j)] = None /\ artifact[j] # "none"
  /\ Goon(j, "drop")
  /\ UNCHANGED <<found, stored, storeVars, historyVars, troubles>>

\* The transaction fails; if it was committed the row outlives its object.
PutFails(j) ==
  /\ at[j] = "put" /\ Fault
  /\ \/ UNCHANGED <<artifact, index, lost>>
     \/ /\ index[Key(j)] = None /\ artifact[j] = "none"
        /\ Insert(j)
        /\ lost' = lost \cup {j}
  /\ Goon(j, "drop")
  /\ UNCHANGED <<found, stored, object, doubted, litter>>

\* The execution's own object is removed; what it found instead is returned.
Drop(j) ==
  /\ at[j] = "drop"
  /\ \/ Fine /\ object' = [object EXCEPT ![j] = "absent"] /\ litter' = litter \ {j}
     \/ Fault /\ litter' = litter \cup {j} /\ UNCHANGED object
  /\ stored' = [stored EXCEPT ![j] = "none"]
  /\ IF found[j] # None THEN Goon(j, "report") ELSE Fail(j)
  /\ UNCHANGED <<found, artifact, index, lost, doubted>>

\* The last report, and the step's outcome.
Report(j) ==
  /\ at[j] = "report"
  /\ Record(j, "done", found[j])
  /\ At(j, "return")
  /\ UNCHANGED <<status, input, attempts, callVars, found, stored, storeVars,
                 historyVars, troubles>>

\* Mutant: the failure undoes what was registered before it.
Withdraw(j) ==
  /\ at[j] = "report" /\ Fault
  /\ object' = [object EXCEPT ![found[j]] = "absent"]
  /\ Fail(j)
  /\ UNCHANGED <<found, stored, artifact, index, historyVars>>

\* The report cannot be written: the artifact stays.
ReportFails(j) ==
  /\ at[j] = "report" /\ Fault
  /\ Fail(j)
  /\ UNCHANGED <<found, stored, storeVars, historyVars>>

End(j) ==
  /\ at[j] = "return" /\ Finish(j)
  /\ At(j, "idle")
  /\ UNCHANGED <<found, stored, storeVars, historyVars, troubles>>

Damage(a) ==
  /\ object[a] # "absent" /\ Fault
  /\ object' \in {[object EXCEPT ![a] = s] : s \in {"absent", "bad"} \ {object[a]}}
  /\ lost' = lost \cup {a}
  /\ UNCHANGED <<jobVars, callVars, runVars, artifact, index, doubted, litter>>

Work(j) ==
  \/ Stop(j) \/ Lookup(j) \/ Verify(j) \/ VerifyFails(j) \/ Invalidate(j) \/ CatalogFails(j)
  \/ RecoverObject(j) \/ Render(j) \/ MakeFails(j)
  \/ Put(j) \/ PutLoses(j) \/ PutConflicts(j) \/ PutFails(j) \/ Drop(j)
  \/ Report(j) \/ ReportFails(j) \/ End(j)

Execute(j) == Start(j) \/ Exhaust(j) \/ Recover(j) \/ Work(j)

Next ==
  \/ Caller /\ UNCHANGED <<runVars, storeVars, historyVars, troubles>>
  \/ \E j \in Ids : Execute(j) \/ Damage(j)
  \/ \E q \in Queues : Crash(q)

Spec == Init /\ [][Next]_vars

\* Workers take jobs, go on with them, and are started again after a crash.
FairSpec == Spec /\ \A j \in Ids : WF_vars(Execute(j))

-----------------------------------------------------------------------------
(* Properties.                                                             *)

RunState ==
  {"idle", "lookup", "verify", "invalidate", "make", "put", "drop", "report", "return"}

\* Jobs, executions, rows and objects keep their types.
TypeOK ==
  /\ JobType
  /\ at \in [Ids -> RunState]
  /\ found \in [Ids -> Ids \cup {None}]
  /\ \A j \in Ids : at[j] \in {"verify", "invalidate", "report"} => found[j] # None
  /\ stored \in [Ids -> {"none", "good", "bad"}]
  /\ artifact \in [Ids -> {"none", "good", "bad"}]
  /\ index \in [Keys -> Ids \cup {None}]
  /\ object \in [Ids -> {"absent", "good", "bad"}]
  /\ lost \subseteq Ids /\ doubted \subseteq Ids /\ litter \subseteq Ids
  /\ troubles \in 0..MaxTroubles

\* A job id stands for one request: however submissions and retries under one
\* id race, a caller that is answered with a job gets the one it asked for.
AnswersAgree ==
  /\ \A a \in accepted : input[a[1]] = a[2]
  /\ \A a \in retried : input[a[2]] = input[a[1]]

\* What a job returns is the registered artifact of its own request, and the
\* bytes of a registered artifact are kept: no loser, cancelled job or retry
\* removes them, except an execution whose own registration went wrong.
ResultsStored ==
  /\ \A j \in Ids :
       status[j] = "SUCCESS" /\ output[j] # None =>
         artifact[output[j]] # "none" /\ Key(output[j]) = Key(j)
  /\ \A a \in Ids : artifact[a] # "none" => object[a] = artifact[a] \/ a \in lost

\* A request has one artifact: a second one is registered only after some job
\* could not verify the first.
OneArtifact ==
  \A a, b \in Ids :
    a # b /\ artifact[a] # "none" /\ artifact[b] # "none" /\ Key(a) = Key(b) =>
      a \in doubted \/ b \in doubted

\* A job that failed, lost or was cancelled leaves no object: one that no row
\* names belongs to a running execution, or a crash or the disk has left it.
NoOrphans ==
  \A j \in Ids :
    object[j] # "absent" /\ artifact[j] = "none" => stored[j] # "none" \/ j \in litter

\* When calls and troubles stop, as they do here, every job ends for good,
\* whatever it went through: cancellation, failed reads, crash and recovery.
JobsEnd == <>[](\A j \in Ids : status[j] # "none" => status[j] \in Terminal)
=============================================================================
