----------------------------- MODULE DurableJobs -----------------------------
(***************************************************************************)
(* Durable jobs: JobService of job_service.py over DBOSJobBackend of       *)
(* dbos_jobs.py.                                                           *)
(*                                                                         *)
(* Callers submit, cancel and retry jobs under ids derived from their      *)
(* idempotency keys; each read or write of the DBOS database is a step, so *)
(* calls interleave with each other and with the workers.  DBOS itself     *)
(* (queues, recovery, outcomes) is modelled from how this code uses it;    *)
(* whether an outcome is recorded over a cancellation is left open.        *)
(***************************************************************************)
EXTENDS Integers, FiniteSets

CONSTANTS
  Ids,          \* job ids
  Submissions,  \* submissions: the id of an idempotency key, with a request
  RetryIds,     \* ids derived, for each job, from the keys of its retries
  ForkIds,      \* ids DBOS gives to forks of each job
  Requests,     \* job requests: a kind with its planned command
  Imports,      \* the requests that import media
  Queues,
  QueueOf,      \* the queue of each request
  MaxCalls,     \* bound: calls made
  MaxAttempts,  \* executions of one job before DBOS gives it up
  None

ASSUME JobAssumption ==
  /\ Submissions \subseteq Ids \X Requests /\ Imports \subseteq Requests
  /\ RetryIds \in [Ids -> SUBSET Ids] /\ ForkIds \in [Ids -> SUBSET Ids]
  /\ QueueOf \in [Requests -> Queues]
  /\ MaxCalls \in Nat /\ MaxAttempts \in Nat \ {0}
  /\ None \notin Ids /\ None \notin Requests

VARIABLES
  status,    \* DBOS's workflow status of each job
  input,     \* the request stored with it, or None
  attempts,  \* how often its execution was started
  step,      \* the recorded outcome of its only step
  output,    \* the artifact the step returned, or None
  pending,   \* calls under way, each between two of its steps
  accepted,  \* <<job, request>> of submissions that were answered with a job
  retried,   \* <<job, new job>> of retries that were answered with a job
  calls

jobVars == <<status, input, attempts, step, output>>
callVars == <<pending, accepted, retried, calls>>

Status == {"none", "ENQUEUED", "PENDING", "SUCCESS", "ERROR", "CANCELLED",
           "MAX_RECOVERY_ATTEMPTS_EXCEEDED"}
Terminal == {"SUCCESS", "ERROR", "CANCELLED", "MAX_RECOVERY_ATTEMPTS_EXCEEDED"}
Retryable == Terminal \ {"SUCCESS"}

JobInit ==
  /\ status = [j \in Ids |-> "none"]
  /\ input = [j \in Ids |-> None]
  /\ attempts = [j \in Ids |-> 0]
  /\ step = [j \in Ids |-> "none"]
  /\ output = [j \in Ids |-> None]
  /\ pending = {} /\ accepted = {} /\ retried = {} /\ calls = 0

-----------------------------------------------------------------------------
(* Calls.                                                                  *)

Call(at, j, r, origin) == [at |-> at, job |-> j, request |-> r, origin |-> origin]

Begin == calls < MaxCalls /\ calls' = calls + 1

\* Mutant: a job found under the id is taken for the one that was asked for.
AnswerAny(asked) ==
  IF asked.origin = None
  THEN accepted' = accepted \cup {<<asked.job, asked.request>>} /\ UNCHANGED retried
  ELSE retried' = retried \cup {<<asked.origin, asked.job>>} /\ UNCHANGED accepted

\* _idempotent_job: a job stored with another request is a conflict.
Answer(asked) ==
  CASE input'[asked.job] # asked.request -> UNCHANGED <<accepted, retried>>
    [] input'[asked.job] = asked.request /\ asked.origin = None ->
         accepted' = accepted \cup {<<asked.job, asked.request>>} /\ UNCHANGED retried
    [] OTHER ->
         retried' = retried \cup {<<asked.origin, asked.job>>} /\ UNCHANGED accepted

\* A submission looks its id up first.
Submit(j, r, origin) ==
  LET asked == Call("enqueue", j, r, origin) IN
  /\ Begin /\ UNCHANGED jobVars
  /\ IF input[j] = None
     THEN pending' = pending \cup {asked} /\ UNCHANGED <<accepted, retried>>
     ELSE Answer(asked) /\ UNCHANGED pending

\* enqueue leaves a workflow that exists as it is.
Store(j, r) ==
  IF input[j] = None
  THEN input' = [input EXCEPT ![j] = r] /\ status' = [status EXCEPT ![j] = "ENQUEUED"]
  ELSE UNCHANGED <<input, status>>

\* What the id stands for is read back: it never changes once it is stored.
Enqueue(asked) ==
  /\ asked.at = "enqueue"
  /\ Store(asked.job, asked.request)
  /\ Answer(asked)
  /\ pending' = pending \ {asked}
  /\ UNCHANGED <<attempts, step, output, calls>>

\* Imports belong to the upload lifecycle; a job that has ended is returned.
CancelJob(j) ==
  /\ input[j] \notin Imports \cup {None} /\ status[j] \notin Terminal
  /\ Begin
  /\ pending' = pending \cup {Call("cancel", j, None, None)}
  /\ UNCHANGED <<jobVars, accepted, retried>>

\* cancel_workflow: a workflow that has succeeded or failed stays so.
Cancel(asked) ==
  /\ asked.at = "cancel"
  /\ status' = IF status[asked.job] \in {"SUCCESS", "ERROR"} THEN status
               ELSE [status EXCEPT ![asked.job] = "CANCELLED"]
  /\ pending' = pending \ {asked}
  /\ UNCHANGED <<input, attempts, step, output, accepted, retried, calls>>

\* A retry is a submission of the stored request under its own id, or a fork.
RetryJob(j) ==
  /\ input[j] \notin Imports \cup {None} /\ status[j] \in Retryable
  /\ \E n \in RetryIds[j] : Submit(n, input[j], j)

Fork(j) ==
  /\ input[j] \notin Imports \cup {None} /\ status[j] \in Retryable
  /\ Begin
  /\ \E n \in ForkIds[j] :
       /\ input[n] = None
       /\ input' = [input EXCEPT ![n] = input[j]]
       /\ status' = [status EXCEPT ![n] = "ENQUEUED"]
       /\ retried' = retried \cup {<<j, n>>}
  /\ UNCHANGED <<attempts, step, output, pending, accepted>>

\* The database or the client goes away before the answer.
CallFails(asked) ==
  /\ \/ UNCHANGED <<input, status>>
     \/ asked.at = "enqueue" /\ Store(asked.job, asked.request)
  /\ pending' = pending \ {asked}
  /\ UNCHANGED <<attempts, step, output, accepted, retried, calls>>

Caller ==
  \/ \E s \in Submissions : Submit(s[1], s[2], None)
  \/ \E j \in Ids : CancelJob(j) \/ RetryJob(j) \/ Fork(j)
  \/ \E asked \in pending : Enqueue(asked) \/ Cancel(asked) \/ CallFails(asked)

-----------------------------------------------------------------------------
(* DBOS and its workers.                                                   *)

\* A worker takes one job of a queue at a time.
Free(q) == \A j \in Ids : status[j] = "PENDING" => QueueOf[input[j]] # q

Dequeue(j) ==
  /\ status[j] = "ENQUEUED" /\ Free(QueueOf[input[j]])
  /\ attempts[j] < MaxAttempts
  /\ attempts' = [attempts EXCEPT ![j] = @ + 1]
  /\ status' = [status EXCEPT ![j] = "PENDING"]
  /\ UNCHANGED <<input, step, output, callVars>>

GiveUp(j) ==
  /\ status[j] = "ENQUEUED" /\ attempts[j] = MaxAttempts
  /\ status' = [status EXCEPT ![j] = "MAX_RECOVERY_ATTEMPTS_EXCEEDED"]
  /\ UNCHANGED <<input, attempts, step, output, callVars>>

\* The worker's executor was restarted: its pending jobs are queued again.
Requeue(j) ==
  /\ status[j] = "PENDING"
  /\ status' = [status EXCEPT ![j] = "ENQUEUED"]
  /\ UNCHANGED <<input, attempts, step, output, callVars>>

\* The outcome of the step is recorded; a later execution returns it again.
Record(j, outcome, a) ==
  /\ step' = [step EXCEPT ![j] = outcome]
  /\ output' = [output EXCEPT ![j] = a]

\* The workflow returns or raises what its step did.
Finish(j) ==
  /\ step[j] # "none"
  /\ LET final == IF step[j] = "done" THEN "SUCCESS" ELSE "ERROR" IN
       status' \in {[status EXCEPT ![j] = s] :
                      s \in IF status[j] = "CANCELLED" THEN {"CANCELLED", final} ELSE {final}}
  /\ UNCHANGED <<input, attempts, step, output, callVars>>

JobType ==
  /\ status \in [Ids -> Status]
  /\ input \in [Ids -> Requests \cup {None}]
  /\ attempts \in [Ids -> 0..MaxAttempts]
  /\ step \in [Ids -> {"none", "done", "failed"}]
  /\ output \in [Ids -> Ids \cup {None}]
  /\ pending \subseteq [at : {"enqueue", "cancel"}, job : Ids,
                      request : Requests \cup {None}, origin : Ids \cup {None}]
  /\ accepted \subseteq Ids \X Requests /\ retried \subseteq Ids \X Ids
  /\ calls \in 0..MaxCalls
=============================================================================
