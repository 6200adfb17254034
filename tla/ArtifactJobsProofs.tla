-------------------------- MODULE ArtifactJobsProofs --------------------------
(***************************************************************************)
(* Proofs about ArtifactJobs, for any jobs, requests, keys and queues and  *)
(* any number of calls, executions and troubles.                           *)
(*                                                                         *)
(* A job's request never changes once it is stored, and only the job's own *)
(* execution registers its artifact or touches its object; so each part of *)
(* the invariant says what that execution knows where it stands.           *)
(***************************************************************************)
EXTENDS ArtifactJobs, TLAPS

\* A call under way asks for a request, and a retry for its job's own.
Asked ==
  /\ \A j \in Ids : status[j] = "none" <=> input[j] = None
  /\ \A c \in pending :
       /\ c.at = "enqueue" => c.request \in Requests
       /\ c.at = "enqueue" /\ c.origin # None => input[c.origin] = c.request
       /\ c.at = "cancel" => input[c.job] # None

Answered ==
  /\ \A s \in accepted : input[s[1]] = s[2]
  /\ \A s \in retried : input[s[1]] # None /\ input[s[2]] = input[s[1]]

\* a is registered, for the request of j.
Serves(a, j) ==
  artifact[a] # "none" /\ input[j] # None /\ input[a] # None /\ Key(a) = Key(j)

\* Every artifact an index entry, an execution or an output names is registered.
Named ==
  /\ \A j \in Ids : at[j] # "idle" => input[j] # None
  /\ \A a \in Ids : artifact[a] # "none" => input[a] # None
  /\ \A k \in Keys : index[k] # None => artifact[index[k]] # "none" /\ Key(index[k]) = k
  /\ \A j \in Ids : found[j] # None => Serves(found[j], j)
  /\ \A j \in Ids : output[j] # None => Serves(output[j], j)

\* What an execution knows about the object it has published or recovered.
Held ==
  \A j \in Ids :
    /\ at[j] \in {"put", "drop"} => stored[j] # "none"
    /\ at[j] \notin {"idle", "put", "drop"} => stored[j] = "none"
    /\ at[j] = "put" => object[j] = stored[j] \/ j \in lost
    /\ at[j] \in {"put", "drop"} /\ artifact[j] # "none" => j \in lost

Kept == \A a \in Ids : artifact[a] # "none" => object[a] = artifact[a] \/ a \in lost

\* A registered artifact that its key has forgotten could not be verified.
Doubted ==
  /\ \A j \in Ids : at[j] = "invalidate" => found[j] \in doubted
  /\ \A a \in Ids : artifact[a] # "none" /\ index[Key(a)] # a => a \in doubted

Owned ==
  \A j \in Ids :
    object[j] # "absent" /\ artifact[j] = "none" => at[j] \in {"put", "drop"} \/ j \in litter

Base == TypeOK /\ Asked /\ Named /\ Held

IInv == Base /\ Answered /\ Kept /\ Doubted /\ Owned

-----------------------------------------------------------------------------
\* A step of a caller leaves the executions and the store alone.
LEMMA CallerTypes ==
  ASSUME Base, Caller
  PROVE  JobType'
PROOF
<1> USE JobAssumption DEF Base, TypeOK, JobType, Asked, Call, Begin, Answer, Store,
      Status, Terminal, jobVars, callVars
<1>1. ASSUME NEW j \in Ids, NEW r \in Requests, NEW o \in Ids \cup {None}, Submit(j, r, o),
             o # None => input[o] = r
      PROVE  JobType'
  BY <1>1 DEF Submit
<1>2. ASSUME NEW j \in Ids, CancelJob(j)
      PROVE  JobType'
  BY <1>2 DEF CancelJob
<1>3. ASSUME NEW j \in Ids, RetryJob(j)
      PROVE  JobType'
  <2>1. PICK n \in RetryIds[j] : Submit(n, input[j], j)
    BY <1>3 DEF RetryJob
  <2>2. n \in Ids /\ input[j] \in Requests
    BY <1>3 DEF RetryJob
  <2>3. QED BY <1>1, <2>1, <2>2
<1>4. ASSUME NEW j \in Ids, Fork(j)
      PROVE  JobType'
  <2>1. \A n \in ForkIds[j] : n \in Ids
    OBVIOUS
  <2>2. input[j] \in Requests
    BY <1>4 DEF Fork
  <2>3. QED BY <1>4, <2>1, <2>2 DEF Fork
<1>5. ASSUME NEW asked \in pending, Enqueue(asked)
      PROVE  JobType'
  <2>1. asked.job \in Ids /\ asked.request \in Requests /\ asked.origin \in Ids \cup {None}
    BY <1>5 DEF Enqueue
  <2>2. accepted' \subseteq Ids \X Requests /\ retried' \subseteq Ids \X Ids
    BY <1>5, <2>1 DEF Enqueue
  <2>3. input' \in [Ids -> Requests \cup {None}] /\ status' \in [Ids -> Status]
    BY <1>5, <2>1 DEF Enqueue
  <2>4. QED BY <1>5, <2>2, <2>3 DEF Enqueue
<1>6. ASSUME NEW asked \in pending, Cancel(asked)
      PROVE  JobType'
  BY <1>6 DEF Cancel
<1>7. ASSUME NEW asked \in pending, CallFails(asked)
      PROVE  JobType'
  BY <1>7 DEF CallFails
<1>8. ASSUME NEW s \in Submissions, Submit(s[1], s[2], None)
      PROVE  JobType'
  <2>1. s[1] \in Ids /\ s[2] \in Requests
    OBVIOUS
  <2>2. QED BY <1>1, <1>8, <2>1
<1>9. QED BY <1>2, <1>3, <1>4, <1>5, <1>6, <1>7, <1>8 DEF Caller

\* Jobs keep their types.
LEMMA JobTypeStep ==
  ASSUME Base, [Next]_vars
  PROVE  JobType'
PROOF
<1> USE JobAssumption, ArtifactAssumption DEF Base, TypeOK, JobType, Asked, Named, Terminal,
      jobVars, callVars, runVars, storeVars, historyVars, RunState, Status
<1>1. CASE Caller /\ UNCHANGED <<runVars, storeVars, historyVars, troubles>>
  BY <1>1, CallerTypes
<1>2. ASSUME NEW j \in Ids, Execute(j) \/ Damage(j)
      PROVE  JobType'
  <2>1. CASE Start(j)
    BY <2>1 DEF Start, Dequeue, At
  <2>2. CASE Exhaust(j)
    BY <2>2 DEF Exhaust, GiveUp
  <2>3. CASE Recover(j)
    BY <2>3 DEF Recover, Requeue
  <2>4. CASE Stop(j)
    BY <2>4 DEF Stop, At, Goon, Record
  <2>5. CASE Lookup(j)
    BY <2>5 DEF Lookup, Goon, At
  <2>6. CASE Verify(j)
    BY <2>6 DEF Verify, Goon, At
  <2>7. CASE VerifyFails(j)
    BY <2>7 DEF VerifyFails, Goon, At, Fault, Fine
  <2>8. CASE Invalidate(j)
    BY <2>8 DEF Invalidate, Forget, Goon, At
  <2>9. CASE CatalogFails(j)
    BY <2>9 DEF CatalogFails, Forget, Fail, Record, At, Fault
  <2>10. CASE RecoverObject(j)
    BY <2>10 DEF RecoverObject, Goon, At, Fault, Fine
  <2>11. CASE Render(j)
    BY <2>11 DEF Render, Goon, At
  <2>12. CASE MakeFails(j)
    BY <2>12 DEF MakeFails, Fail, Record, At, Fault
  <2>13. CASE Put(j)
    BY <2>13 DEF Put, Insert, Goon, At
  <2>14. CASE PutLoses(j)
    BY <2>14 DEF PutLoses, Goon, At
  <2>15. CASE PutConflicts(j)
    BY <2>15 DEF PutConflicts, Goon, At
  <2>16. CASE PutFails(j)
    BY <2>16 DEF PutFails, Insert, Goon, At, Fault
  <2>17. CASE Drop(j)
    <3>1. CASE found[j] # None
      BY <2>17, <3>1 DEF Drop, Goon
    <3>2. CASE found[j] = None
      BY <2>17, <3>2, SMTT(30) DEF Drop, Fail, Record, At
    <3>3. QED BY <3>1, <3>2
  <2>18. CASE Report(j)
    BY <2>18 DEF Report, Record, At
  <2>19. CASE ReportFails(j)
    BY <2>19 DEF ReportFails, Fail, Record, At, Fault
  <2>20. CASE End(j)
    BY <2>20 DEF End, Finish, At
  <2>21. CASE Damage(j)
    BY <2>21 DEF Damage, Fault
  <2>22. QED BY <1>2, <2>1, <2>2, <2>3, <2>4, <2>5, <2>6, <2>7, <2>8, <2>9, <2>10, <2>11, <2>12, <2>13, <2>14, <2>15, <2>16, <2>17, <2>18, <2>19, <2>20, <2>21 DEF Execute, Work
<1>3. ASSUME NEW q \in Queues, Crash(q)
      PROVE  JobType'
  BY <1>3 DEF Crash, Fault
<1>4. CASE UNCHANGED vars
  BY <1>4 DEF vars
<1>5. QED BY <1>1, <1>2, <1>3, <1>4 DEF Next

\* The request of a job that runs has a key.
LEMMA KeyType ==
  ASSUME Base, NEW j \in Ids, at[j] # "idle"
  PROVE  Key(j) \in Keys /\ input[j] \in Requests
PROOF BY ArtifactAssumption DEF Base, TypeOK, JobType, Named, Key

RunTypes ==
  /\ at \in [Ids -> RunState]
  /\ found \in [Ids -> Ids \cup {None}]
  /\ \A j \in Ids : at[j] \in {"verify", "invalidate", "report"} => found[j] # None
StoreTypes ==
  /\ stored \in [Ids -> {"none", "good", "bad"}]
  /\ artifact \in [Ids -> {"none", "good", "bad"}]
  /\ index \in [Keys -> Ids \cup {None}]
  /\ object \in [Ids -> {"absent", "good", "bad"}]
HistoryTypes == lost \subseteq Ids /\ doubted \subseteq Ids /\ litter \subseteq Ids /\ troubles \in 0..MaxTroubles

\* Executions keep their types.
LEMMA RunTypesStep ==
  ASSUME Base, [Next]_vars
  PROVE  RunTypes'
PROOF
<1> USE JobAssumption, ArtifactAssumption DEF runVars, storeVars, historyVars, RunTypes, StoreTypes, HistoryTypes, RunState, Checkpoints
<1>types. RunTypes /\ StoreTypes /\ HistoryTypes
  BY DEF Base, TypeOK, RunTypes, StoreTypes, HistoryTypes
<1>1. CASE Caller /\ UNCHANGED <<runVars, storeVars, historyVars, troubles>>
  BY <1>1, <1>types DEF Caller
<1>2. ASSUME NEW j \in Ids, Execute(j) \/ Damage(j)
      PROVE  RunTypes'
  <2>1. CASE Start(j)
    BY <2>1, <1>types, KeyType DEF Start, Dequeue, At
  <2>2. CASE Exhaust(j)
    BY <2>2, <1>types, KeyType DEF Exhaust, GiveUp
  <2>3. CASE Recover(j)
    BY <2>3, <1>types, KeyType DEF Recover, Requeue
  <2>4. CASE Stop(j)
    BY <2>4, <1>types, KeyType DEF Stop, At, Goon, Record
  <2>5. CASE Lookup(j)
    BY <2>5, <1>types, KeyType DEF Lookup, Goon, At
  <2>6. CASE Verify(j)
    BY <2>6, <1>types, KeyType DEF Verify, Goon, At
  <2>7. CASE VerifyFails(j)
    BY <2>7, <1>types, KeyType DEF VerifyFails, Goon, At, Fault, Fine
  <2>8. CASE Invalidate(j)
    BY <2>8, <1>types, KeyType DEF Invalidate, Forget, Goon, At
  <2>9. CASE CatalogFails(j)
    BY <2>9, <1>types, KeyType DEF CatalogFails, Forget, Fail, Record, At, Fault
  <2>10. CASE RecoverObject(j)
    BY <2>10, <1>types, KeyType DEF RecoverObject, Goon, At, Fault, Fine
  <2>11. CASE Render(j)
    BY <2>11, <1>types, KeyType DEF Render, Goon, At
  <2>12. CASE MakeFails(j)
    BY <2>12, <1>types, KeyType DEF MakeFails, Fail, Record, At, Fault
  <2>13. CASE Put(j)
    BY <2>13, <1>types, KeyType DEF Put, Insert, Goon, At
  <2>14. CASE PutLoses(j)
    BY <2>14, <1>types, KeyType DEF PutLoses, Goon, At
  <2>15. CASE PutConflicts(j)
    BY <2>15, <1>types, KeyType DEF PutConflicts, Goon, At
  <2>16. CASE PutFails(j)
    BY <2>16, <1>types, KeyType DEF PutFails, Insert, Goon, At, Fault
  <2>17. CASE Drop(j)
    BY <2>17, <1>types, KeyType DEF Drop, Goon, Fail, Record, At, Fault, Fine
  <2>18. CASE Report(j)
    BY <2>18, <1>types, KeyType DEF Report, Record, At
  <2>19. CASE ReportFails(j)
    BY <2>19, <1>types, KeyType DEF ReportFails, Fail, Record, At, Fault
  <2>20. CASE End(j)
    BY <2>20, <1>types, KeyType DEF End, Finish, At
  <2>21. CASE Damage(j)
    BY <2>21, <1>types, KeyType DEF Damage, Fault
  <2>22. QED BY <1>2, <2>1, <2>2, <2>3, <2>4, <2>5, <2>6, <2>7, <2>8, <2>9, <2>10, <2>11, <2>12, <2>13, <2>14, <2>15, <2>16, <2>17, <2>18, <2>19, <2>20, <2>21 DEF Execute, Work
<1>3. ASSUME NEW q \in Queues, Crash(q)
      PROVE  RunTypes'
  BY <1>3, <1>types DEF Crash, Fault
<1>4. CASE UNCHANGED vars
  BY <1>4, <1>types DEF vars
<1>5. QED BY <1>1, <1>2, <1>3, <1>4 DEF Next

\* Rows and objects keep their types.
LEMMA StoreTypesStep ==
  ASSUME Base, [Next]_vars
  PROVE  StoreTypes'
PROOF
<1> USE JobAssumption, ArtifactAssumption DEF runVars, storeVars, historyVars, RunTypes, StoreTypes, HistoryTypes, RunState, Checkpoints
<1>types. RunTypes /\ StoreTypes /\ HistoryTypes
  BY DEF Base, TypeOK, RunTypes, StoreTypes, HistoryTypes
<1>1. CASE Caller /\ UNCHANGED <<runVars, storeVars, historyVars, troubles>>
  BY <1>1, <1>types DEF Caller
<1>2. ASSUME NEW j \in Ids, Execute(j) \/ Damage(j)
      PROVE  StoreTypes'
  <2>1. CASE Start(j)
    BY <2>1, <1>types, KeyType DEF Start, Dequeue, At
  <2>2. CASE Exhaust(j)
    BY <2>2, <1>types, KeyType DEF Exhaust, GiveUp
  <2>3. CASE Recover(j)
    BY <2>3, <1>types, KeyType DEF Recover, Requeue
  <2>4. CASE Stop(j)
    BY <2>4, <1>types, KeyType DEF Stop, At, Goon, Record
  <2>5. CASE Lookup(j)
    BY <2>5, <1>types, KeyType DEF Lookup, Goon, At
  <2>6. CASE Verify(j)
    BY <2>6, <1>types, KeyType DEF Verify, Goon, At
  <2>7. CASE VerifyFails(j)
    BY <2>7, <1>types, KeyType DEF VerifyFails, Goon, At, Fault, Fine
  <2>8. CASE Invalidate(j)
    BY <2>8, <1>types, KeyType DEF Invalidate, Forget, Goon, At
  <2>9. CASE CatalogFails(j)
    BY <2>9, <1>types, KeyType DEF CatalogFails, Forget, Fail, Record, At, Fault
  <2>10. CASE RecoverObject(j)
    BY <2>10, <1>types, KeyType DEF RecoverObject, Goon, At, Fault, Fine
  <2>11. CASE Render(j)
    BY <2>11, <1>types, KeyType DEF Render, Goon, At
  <2>12. CASE MakeFails(j)
    BY <2>12, <1>types, KeyType DEF MakeFails, Fail, Record, At, Fault
  <2>13. CASE Put(j)
    BY <2>13, <1>types, KeyType DEF Put, Insert, Goon, At
  <2>14. CASE PutLoses(j)
    BY <2>14, <1>types, KeyType DEF PutLoses, Goon, At
  <2>15. CASE PutConflicts(j)
    BY <2>15, <1>types, KeyType DEF PutConflicts, Goon, At
  <2>16. CASE PutFails(j)
    BY <2>16, <1>types, KeyType DEF PutFails, Insert, Goon, At, Fault
  <2>17. CASE Drop(j)
    BY <2>17, <1>types, KeyType DEF Drop, Goon, Fail, Record, At, Fault, Fine
  <2>18. CASE Report(j)
    BY <2>18, <1>types, KeyType DEF Report, Record, At
  <2>19. CASE ReportFails(j)
    BY <2>19, <1>types, KeyType DEF ReportFails, Fail, Record, At, Fault
  <2>20. CASE End(j)
    BY <2>20, <1>types, KeyType DEF End, Finish, At
  <2>21. CASE Damage(j)
    BY <2>21, <1>types, KeyType DEF Damage, Fault
  <2>22. QED BY <1>2, <2>1, <2>2, <2>3, <2>4, <2>5, <2>6, <2>7, <2>8, <2>9, <2>10, <2>11, <2>12, <2>13, <2>14, <2>15, <2>16, <2>17, <2>18, <2>19, <2>20, <2>21 DEF Execute, Work
<1>3. ASSUME NEW q \in Queues, Crash(q)
      PROVE  StoreTypes'
  BY <1>3, <1>types DEF Crash, Fault
<1>4. CASE UNCHANGED vars
  BY <1>4, <1>types DEF vars
<1>5. QED BY <1>1, <1>2, <1>3, <1>4 DEF Next

\* So does what is remembered of losses and doubts.
LEMMA HistoryTypesStep ==
  ASSUME Base, [Next]_vars
  PROVE  HistoryTypes'
PROOF
<1> USE JobAssumption, ArtifactAssumption DEF runVars, storeVars, historyVars, RunTypes, StoreTypes, HistoryTypes, RunState, Checkpoints
<1>types. RunTypes /\ StoreTypes /\ HistoryTypes
  BY DEF Base, TypeOK, RunTypes, StoreTypes, HistoryTypes
<1>1. CASE Caller /\ UNCHANGED <<runVars, storeVars, historyVars, troubles>>
  BY <1>1, <1>types DEF Caller
<1>2. ASSUME NEW j \in Ids, Execute(j) \/ Damage(j)
      PROVE  HistoryTypes'
  <2>1. CASE Start(j)
    BY <2>1, <1>types, KeyType DEF Start, Dequeue, At
  <2>2. CASE Exhaust(j)
    BY <2>2, <1>types, KeyType DEF Exhaust, GiveUp
  <2>3. CASE Recover(j)
    BY <2>3, <1>types, KeyType DEF Recover, Requeue
  <2>4. CASE Stop(j)
    BY <2>4, <1>types, KeyType DEF Stop, At, Goon, Record
  <2>5. CASE Lookup(j)
    BY <2>5, <1>types, KeyType DEF Lookup, Goon, At
  <2>6. CASE Verify(j)
    BY <2>6, <1>types, KeyType DEF Verify, Goon, At
  <2>7. CASE VerifyFails(j)
    BY <2>7, <1>types, KeyType DEF VerifyFails, Goon, At, Fault, Fine
  <2>8. CASE Invalidate(j)
    BY <2>8, <1>types, KeyType DEF Invalidate, Forget, Goon, At
  <2>9. CASE CatalogFails(j)
    BY <2>9, <1>types, KeyType DEF CatalogFails, Forget, Fail, Record, At, Fault
  <2>10. CASE RecoverObject(j)
    BY <2>10, <1>types, KeyType DEF RecoverObject, Goon, At, Fault, Fine
  <2>11. CASE Render(j)
    BY <2>11, <1>types, KeyType DEF Render, Goon, At
  <2>12. CASE MakeFails(j)
    BY <2>12, <1>types, KeyType DEF MakeFails, Fail, Record, At, Fault
  <2>13. CASE Put(j)
    BY <2>13, <1>types, KeyType DEF Put, Insert, Goon, At
  <2>14. CASE PutLoses(j)
    BY <2>14, <1>types, KeyType DEF PutLoses, Goon, At
  <2>15. CASE PutConflicts(j)
    BY <2>15, <1>types, KeyType DEF PutConflicts, Goon, At
  <2>16. CASE PutFails(j)
    BY <2>16, <1>types, KeyType DEF PutFails, Insert, Goon, At, Fault
  <2>17. CASE Drop(j)
    BY <2>17, <1>types, KeyType DEF Drop, Goon, Fail, Record, At, Fault, Fine
  <2>18. CASE Report(j)
    BY <2>18, <1>types, KeyType DEF Report, Record, At
  <2>19. CASE ReportFails(j)
    BY <2>19, <1>types, KeyType DEF ReportFails, Fail, Record, At, Fault
  <2>20. CASE End(j)
    BY <2>20, <1>types, KeyType DEF End, Finish, At
  <2>21. CASE Damage(j)
    BY <2>21, <1>types, KeyType DEF Damage, Fault
  <2>22. QED BY <1>2, <2>1, <2>2, <2>3, <2>4, <2>5, <2>6, <2>7, <2>8, <2>9, <2>10, <2>11, <2>12, <2>13, <2>14, <2>15, <2>16, <2>17, <2>18, <2>19, <2>20, <2>21 DEF Execute, Work
<1>3. ASSUME NEW q \in Queues, Crash(q)
      PROVE  HistoryTypes'
  BY <1>3, <1>types DEF Crash, Fault
<1>4. CASE UNCHANGED vars
  BY <1>4, <1>types DEF vars
<1>5. QED BY <1>1, <1>2, <1>3, <1>4 DEF Next

\* Every step keeps the types.
LEMMA TypeStep ==
  ASSUME Base, [Next]_vars
  PROVE  TypeOK'
PROOF BY JobTypeStep, RunTypesStep, StoreTypesStep, HistoryTypesStep
      DEF TypeOK, RunTypes, StoreTypes, HistoryTypes

\* A caller never changes what an id stands for.
LEMMA CallerKeepsInput ==
  ASSUME Base, Caller
  PROVE  \A a \in Ids : input[a] # None => input'[a] = input[a]
PROOF
<1> USE JobAssumption DEF Base, TypeOK, JobType, Asked, jobVars, callVars
<1>1. ASSUME NEW j \in Ids, NEW r \in Requests, NEW o \in Ids \cup {None}, Submit(j, r, o),
             o # None => input[o] = r
      PROVE  \A a \in Ids : input[a] # None => input'[a] = input[a]
  BY <1>1 DEF Submit, Answer, Call, Begin
<1>2. ASSUME NEW j \in Ids, CancelJob(j)
      PROVE  \A a \in Ids : input[a] # None => input'[a] = input[a]
  BY <1>2 DEF CancelJob, Call, Begin
<1>3. ASSUME NEW j \in Ids, RetryJob(j)
      PROVE  \A a \in Ids : input[a] # None => input'[a] = input[a]
  <2>1. PICK n \in RetryIds[j] : Submit(n, input[j], j)
    BY <1>3 DEF RetryJob
  <2>2. n \in Ids /\ input[j] \in Requests
    BY <1>3, JobAssumption DEF RetryJob, Base, TypeOK, JobType
  <2>3. QED BY <1>1, <2>1, <2>2
<1>4. ASSUME NEW j \in Ids, NEW n \in Ids, Fork(j),
             input[n] = None, input' = [input EXCEPT ![n] = input[j]],
             status' = [status EXCEPT ![n] = "ENQUEUED"], retried' = retried \cup {<<j, n>>}
      PROVE  \A a \in Ids : input[a] # None => input'[a] = input[a]
  BY <1>4 DEF Fork, Begin
<1>5. ASSUME NEW asked \in pending, Enqueue(asked)
      PROVE  \A a \in Ids : input[a] # None => input'[a] = input[a]
  BY <1>5 DEF Enqueue, Answer, Store
<1>6. ASSUME NEW asked \in pending, Cancel(asked)
      PROVE  \A a \in Ids : input[a] # None => input'[a] = input[a]
  BY <1>6 DEF Cancel
<1>7. ASSUME NEW asked \in pending, CallFails(asked)
      PROVE  \A a \in Ids : input[a] # None => input'[a] = input[a]
  BY <1>7 DEF CallFails, Store
<1>8. ASSUME NEW s \in Submissions, Submit(s[1], s[2], None)
      PROVE  \A a \in Ids : input[a] # None => input'[a] = input[a]
  <2>1. s[1] \in Ids /\ s[2] \in Requests
    BY JobAssumption
  <2>2. QED BY <1>1, <1>8, <2>1
<1>9. ASSUME NEW j \in Ids, Fork(j)
      PROVE  \A a \in Ids : input[a] # None => input'[a] = input[a]
  <2>1. \A n \in ForkIds[j] : n \in Ids
    BY JobAssumption
  <2>2. QED BY <1>4, <1>9, <2>1 DEF Fork
<1>10. QED BY <1>2, <1>3, <1>5, <1>6, <1>7, <1>8, <1>9 DEF Caller

\* No step changes what an id stands for.
LEMMA InputKept ==
  ASSUME Base, [Next]_vars
  PROVE  \A a \in Ids : input[a] # None => input'[a] = input[a]
PROOF
<1> USE Base DEF jobVars, callVars
<1>1. CASE Caller /\ UNCHANGED <<runVars, storeVars, historyVars, troubles>>
  BY <1>1, CallerKeepsInput
<1>2. ASSUME NEW j \in Ids, Execute(j) \/ Damage(j)
      PROVE  \A a \in Ids : input[a] # None => input'[a] = input[a]
  <2>1. CASE Start(j)
    BY <2>1 DEF Start, Dequeue, At
  <2>2. CASE Exhaust(j)
    BY <2>2 DEF Exhaust, GiveUp
  <2>3. CASE Recover(j)
    BY <2>3 DEF Recover, Requeue
  <2>4. CASE Stop(j)
    BY <2>4 DEF Stop, At, Goon, Record
  <2>5. CASE Lookup(j)
    BY <2>5 DEF Lookup, Goon, At
  <2>6. CASE Verify(j)
    BY <2>6 DEF Verify, Goon, At
  <2>7. CASE VerifyFails(j)
    BY <2>7 DEF VerifyFails, Goon, At, Fault, Fine
  <2>8. CASE Invalidate(j)
    BY <2>8 DEF Invalidate, Forget, Goon, At
  <2>9. CASE CatalogFails(j)
    BY <2>9 DEF CatalogFails, Forget, Fail, Record, At, Fault
  <2>10. CASE RecoverObject(j)
    BY <2>10 DEF RecoverObject, Goon, At, Fault, Fine
  <2>11. CASE Render(j)
    BY <2>11 DEF Render, Goon, At
  <2>12. CASE MakeFails(j)
    BY <2>12 DEF MakeFails, Fail, Record, At, Fault
  <2>13. CASE Put(j)
    BY <2>13 DEF Put, Insert, Goon, At
  <2>14. CASE PutLoses(j)
    BY <2>14 DEF PutLoses, Goon, At
  <2>15. CASE PutConflicts(j)
    BY <2>15 DEF PutConflicts, Goon, At
  <2>16. CASE PutFails(j)
    BY <2>16 DEF PutFails, Insert, Goon, At, Fault
  <2>17. CASE Drop(j)
    BY <2>17 DEF Drop, Goon, Fail, Record, At, Fault, Fine
  <2>18. CASE Report(j)
    BY <2>18 DEF Report, Record, At
  <2>19. CASE ReportFails(j)
    BY <2>19 DEF ReportFails, Fail, Record, At, Fault
  <2>20. CASE End(j)
    BY <2>20 DEF End, Finish, At
  <2>21. CASE Damage(j)
    BY <2>21 DEF Damage, Fault
  <2>22. QED BY <1>2, <2>1, <2>2, <2>3, <2>4, <2>5, <2>6, <2>7, <2>8, <2>9, <2>10, <2>11, <2>12, <2>13, <2>14, <2>15, <2>16, <2>17, <2>18, <2>19, <2>20, <2>21 DEF Execute, Work
<1>3. ASSUME NEW q \in Queues, Crash(q)
      PROVE  \A a \in Ids : input[a] # None => input'[a] = input[a]
  BY <1>3 DEF Crash, Fault
<1>4. CASE UNCHANGED vars
  BY <1>4 DEF vars
<1>5. QED BY <1>1, <1>2, <1>3, <1>4 DEF Next

\* A call asks for a request, and a retry for its job's own.
LEMMA CallerAsks ==
  ASSUME Base, Caller
  PROVE  Asked'
PROOF
<1> USE JobAssumption DEF Base, TypeOK, JobType, Asked, jobVars, callVars, Status, Terminal
<1>1. ASSUME NEW j \in Ids, NEW r \in Requests, NEW o \in Ids \cup {None}, Submit(j, r, o),
             o # None => input[o] = r
      PROVE  Asked'
  BY <1>1 DEF Submit, Answer, Call, Begin
<1>2. ASSUME NEW j \in Ids, CancelJob(j)
      PROVE  Asked'
  BY <1>2 DEF CancelJob, Call, Begin
<1>3. ASSUME NEW j \in Ids, RetryJob(j)
      PROVE  Asked'
  <2>1. PICK n \in RetryIds[j] : Submit(n, input[j], j)
    BY <1>3 DEF RetryJob
  <2>2. n \in Ids /\ input[j] \in Requests
    BY <1>3, JobAssumption DEF RetryJob, Base, TypeOK, JobType
  <2>3. QED BY <1>1, <2>1, <2>2
<1>4. ASSUME NEW j \in Ids, NEW n \in Ids, Fork(j),
             input[n] = None, input' = [input EXCEPT ![n] = input[j]],
             status' = [status EXCEPT ![n] = "ENQUEUED"], retried' = retried \cup {<<j, n>>}
      PROVE  Asked'
  BY <1>4 DEF Fork, Begin
<1>5. ASSUME NEW asked \in pending, Enqueue(asked)
      PROVE  Asked'
  BY <1>5 DEF Enqueue, Answer, Store
<1>6. ASSUME NEW asked \in pending, Cancel(asked)
      PROVE  Asked'
  BY <1>6 DEF Cancel
<1>7. ASSUME NEW asked \in pending, CallFails(asked)
      PROVE  Asked'
  BY <1>7 DEF CallFails, Store
<1>8. ASSUME NEW s \in Submissions, Submit(s[1], s[2], None)
      PROVE  Asked'
  <2>1. s[1] \in Ids /\ s[2] \in Requests
    BY JobAssumption
  <2>2. QED BY <1>1, <1>8, <2>1
<1>9. ASSUME NEW j \in Ids, Fork(j)
      PROVE  Asked'
  <2>1. \A n \in ForkIds[j] : n \in Ids
    BY JobAssumption
  <2>2. QED BY <1>4, <1>9, <2>1 DEF Fork
<1>10. QED BY <1>2, <1>3, <1>5, <1>6, <1>7, <1>8, <1>9 DEF Caller

\* What calls ask for stays true of their jobs.
LEMMA AskedStep ==
  ASSUME Base, [Next]_vars
  PROVE  Asked'
PROOF
<1> USE JobAssumption DEF Base, TypeOK, JobType, Asked, jobVars, callVars, Status, Terminal
<1>1. CASE Caller /\ UNCHANGED <<runVars, storeVars, historyVars, troubles>>
  BY <1>1, CallerAsks
<1>2. ASSUME NEW j \in Ids, Execute(j) \/ Damage(j)
      PROVE  Asked'
  <2>1. CASE Start(j)
    BY <2>1 DEF Start, Dequeue, At
  <2>2. CASE Exhaust(j)
    BY <2>2 DEF Exhaust, GiveUp
  <2>3. CASE Recover(j)
    BY <2>3 DEF Recover, Requeue
  <2>4. CASE Stop(j)
    BY <2>4 DEF Stop, At, Goon, Record
  <2>5. CASE Lookup(j)
    BY <2>5 DEF Lookup, Goon, At
  <2>6. CASE Verify(j)
    BY <2>6 DEF Verify, Goon, At
  <2>7. CASE VerifyFails(j)
    BY <2>7 DEF VerifyFails, Goon, At, Fault, Fine
  <2>8. CASE Invalidate(j)
    BY <2>8 DEF Invalidate, Forget, Goon, At
  <2>9. CASE CatalogFails(j)
    BY <2>9 DEF CatalogFails, Forget, Fail, Record, At, Fault
  <2>10. CASE RecoverObject(j)
    BY <2>10 DEF RecoverObject, Goon, At, Fault, Fine
  <2>11. CASE Render(j)
    BY <2>11 DEF Render, Goon, At
  <2>12. CASE MakeFails(j)
    BY <2>12 DEF MakeFails, Fail, Record, At, Fault
  <2>13. CASE Put(j)
    BY <2>13 DEF Put, Insert, Goon, At
  <2>14. CASE PutLoses(j)
    BY <2>14 DEF PutLoses, Goon, At
  <2>15. CASE PutConflicts(j)
    BY <2>15 DEF PutConflicts, Goon, At
  <2>16. CASE PutFails(j)
    BY <2>16 DEF PutFails, Insert, Goon, At, Fault
  <2>17. CASE Drop(j)
    BY <2>17 DEF Drop, Goon, Fail, Record, At, Fault, Fine
  <2>18. CASE Report(j)
    BY <2>18 DEF Report, Record, At
  <2>19. CASE ReportFails(j)
    BY <2>19 DEF ReportFails, Fail, Record, At, Fault
  <2>20. CASE End(j)
    <3>1. input[j] # None
      BY <2>20 DEF End, Named
    <3>2. status' \in {[status EXCEPT ![j] = s] : s \in {"SUCCESS", "ERROR", "CANCELLED"}}
      BY <2>20 DEF End, Finish
    <3>3. QED BY <2>20, <3>1, <3>2 DEF End, Finish
  <2>21. CASE Damage(j)
    BY <2>21 DEF Damage, Fault
  <2>22. QED BY <1>2, <2>1, <2>2, <2>3, <2>4, <2>5, <2>6, <2>7, <2>8, <2>9, <2>10, <2>11, <2>12, <2>13, <2>14, <2>15, <2>16, <2>17, <2>18, <2>19, <2>20, <2>21 DEF Execute, Work
<1>3. ASSUME NEW q \in Queues, Crash(q)
      PROVE  Asked'
  BY <1>3 DEF Crash, Fault
<1>4. CASE UNCHANGED vars
  BY <1>4 DEF vars
<1>5. QED BY <1>1, <1>2, <1>3, <1>4 DEF Next

\* A caller is answered with the job it asked for.
LEMMA CallerAnswers ==
  ASSUME Base, Answered, Caller
  PROVE  Answered'
PROOF
<1> USE JobAssumption DEF Base, TypeOK, JobType, Asked, jobVars, callVars, Answered
<1>1. ASSUME NEW j \in Ids, NEW r \in Requests, NEW o \in Ids \cup {None}, Submit(j, r, o),
             o # None => input[o] = r
      PROVE  Answered'
  BY <1>1 DEF Submit, Answer, Call, Begin
<1>2. ASSUME NEW j \in Ids, CancelJob(j)
      PROVE  Answered'
  BY <1>2 DEF CancelJob, Call, Begin
<1>3. ASSUME NEW j \in Ids, RetryJob(j)
      PROVE  Answered'
  <2>1. PICK n \in RetryIds[j] : Submit(n, input[j], j)
    BY <1>3 DEF RetryJob
  <2>2. n \in Ids /\ input[j] \in Requests
    BY <1>3, JobAssumption DEF RetryJob, Base, TypeOK, JobType
  <2>3. QED BY <1>1, <2>1, <2>2
<1>4. ASSUME NEW j \in Ids, NEW n \in Ids, Fork(j),
             input[n] = None, input' = [input EXCEPT ![n] = input[j]],
             status' = [status EXCEPT ![n] = "ENQUEUED"], retried' = retried \cup {<<j, n>>}
      PROVE  Answered'
  BY <1>4 DEF Fork, Begin
<1>5. ASSUME NEW asked \in pending, Enqueue(asked)
      PROVE  Answered'
  BY <1>5 DEF Enqueue, Answer, Store
<1>6. ASSUME NEW asked \in pending, Cancel(asked)
      PROVE  Answered'
  BY <1>6 DEF Cancel
<1>7. ASSUME NEW asked \in pending, CallFails(asked)
      PROVE  Answered'
  BY <1>7 DEF CallFails, Store
<1>8. ASSUME NEW s \in Submissions, Submit(s[1], s[2], None)
      PROVE  Answered'
  <2>1. s[1] \in Ids /\ s[2] \in Requests
    BY JobAssumption
  <2>2. QED BY <1>1, <1>8, <2>1
<1>9. ASSUME NEW j \in Ids, Fork(j)
      PROVE  Answered'
  <2>1. \A n \in ForkIds[j] : n \in Ids
    BY JobAssumption
  <2>2. QED BY <1>4, <1>9, <2>1 DEF Fork
<1>10. QED BY <1>2, <1>3, <1>5, <1>6, <1>7, <1>8, <1>9 DEF Caller

\* Callers keep the job they asked for.
LEMMA AnsweredStep ==
  ASSUME Base, Answered, [Next]_vars
  PROVE  Answered'
PROOF
<1> USE JobAssumption DEF Answered, jobVars, callVars
<1>1. CASE Caller /\ UNCHANGED <<runVars, storeVars, historyVars, troubles>>
  BY <1>1, CallerAnswers
<1>2. ASSUME NEW j \in Ids, Execute(j) \/ Damage(j)
      PROVE  Answered'
  <2>1. CASE Start(j)
    BY <2>1 DEF Start, Dequeue, At
  <2>2. CASE Exhaust(j)
    BY <2>2 DEF Exhaust, GiveUp
  <2>3. CASE Recover(j)
    BY <2>3 DEF Recover, Requeue
  <2>4. CASE Stop(j)
    BY <2>4 DEF Stop, At, Goon, Record
  <2>5. CASE Lookup(j)
    BY <2>5 DEF Lookup, Goon, At
  <2>6. CASE Verify(j)
    BY <2>6 DEF Verify, Goon, At
  <2>7. CASE VerifyFails(j)
    BY <2>7 DEF VerifyFails, Goon, At, Fault, Fine
  <2>8. CASE Invalidate(j)
    BY <2>8 DEF Invalidate, Forget, Goon, At
  <2>9. CASE CatalogFails(j)
    BY <2>9 DEF CatalogFails, Forget, Fail, Record, At, Fault
  <2>10. CASE RecoverObject(j)
    BY <2>10 DEF RecoverObject, Goon, At, Fault, Fine
  <2>11. CASE Render(j)
    BY <2>11 DEF Render, Goon, At
  <2>12. CASE MakeFails(j)
    BY <2>12 DEF MakeFails, Fail, Record, At, Fault
  <2>13. CASE Put(j)
    BY <2>13 DEF Put, Insert, Goon, At
  <2>14. CASE PutLoses(j)
    BY <2>14 DEF PutLoses, Goon, At
  <2>15. CASE PutConflicts(j)
    BY <2>15 DEF PutConflicts, Goon, At
  <2>16. CASE PutFails(j)
    BY <2>16 DEF PutFails, Insert, Goon, At, Fault
  <2>17. CASE Drop(j)
    BY <2>17 DEF Drop, Goon, Fail, Record, At, Fault, Fine
  <2>18. CASE Report(j)
    BY <2>18 DEF Report, Record, At
  <2>19. CASE ReportFails(j)
    BY <2>19 DEF ReportFails, Fail, Record, At, Fault
  <2>20. CASE End(j)
    BY <2>20 DEF End, Finish, At
  <2>21. CASE Damage(j)
    BY <2>21 DEF Damage, Fault
  <2>22. QED BY <1>2, <2>1, <2>2, <2>3, <2>4, <2>5, <2>6, <2>7, <2>8, <2>9, <2>10, <2>11, <2>12, <2>13, <2>14, <2>15, <2>16, <2>17, <2>18, <2>19, <2>20, <2>21 DEF Execute, Work
<1>3. ASSUME NEW q \in Queues, Crash(q)
      PROVE  Answered'
  BY <1>3 DEF Crash, Fault
<1>4. CASE UNCHANGED vars
  BY <1>4 DEF vars
<1>5. QED BY <1>1, <1>2, <1>3, <1>4 DEF Next

\* A registered artifact keeps its row, and a request its key.
LEMMA KeyKept ==
  ASSUME Base, [Next]_vars, NEW j \in Ids, input[j] # None
  PROVE  input'[j] = input[j] /\ Key(j)' = Key(j) /\ Key(j) \in Keys
PROOF BY InputKept, ArtifactAssumption DEF Base, TypeOK, JobType, Key

\* The parts of Named.
Running == \A j \in Ids : at[j] # "idle" => input[j] # None
Registered == \A a \in Ids : artifact[a] # "none" => input[a] # None
Indexed == \A k \in Keys : index[k] # None => artifact[index[k]] # "none" /\ Key(index[k]) = k
Found == \A j \in Ids : found[j] # None => Serves(found[j], j)
Returned == \A j \in Ids : output[j] # None => Serves(output[j], j)

\* A row is never changed.
LEMMA RowKept ==
  ASSUME Base, [Next]_vars
  PROVE  \A a \in Ids : artifact[a] # "none" => artifact'[a] = artifact[a]
PROOF
<1>types. StoreTypes
  BY DEF Base, TypeOK, StoreTypes
<1> USE DEF storeVars, StoreTypes
<1>1. CASE Caller /\ UNCHANGED <<runVars, storeVars, historyVars, troubles>>
  BY <1>1
<1>2. ASSUME NEW j \in Ids, Execute(j) \/ Damage(j)
      PROVE  \A a \in Ids : artifact[a] # "none" => artifact'[a] = artifact[a]
  <2>1. CASE Start(j)
    BY <2>1 DEF Start, Dequeue, At
  <2>2. CASE Exhaust(j)
    BY <2>2 DEF Exhaust, GiveUp
  <2>3. CASE Recover(j)
    BY <2>3 DEF Recover, Requeue
  <2>4. CASE Stop(j)
    BY <2>4 DEF Stop, At, Goon, Record
  <2>5. CASE Lookup(j)
    BY <2>5 DEF Lookup, Goon, At
  <2>6. CASE Verify(j)
    BY <2>6 DEF Verify, Goon, At
  <2>7. CASE VerifyFails(j)
    BY <2>7 DEF VerifyFails, Goon, At, Fault, Fine
  <2>8. CASE Invalidate(j)
    BY <2>8 DEF Invalidate, Forget, Goon, At
  <2>9. CASE CatalogFails(j)
    BY <2>9 DEF CatalogFails, Forget, Fail, Record, At, Fault
  <2>10. CASE RecoverObject(j)
    BY <2>10 DEF RecoverObject, Goon, At, Fault, Fine
  <2>11. CASE Render(j)
    BY <2>11 DEF Render, Goon, At
  <2>12. CASE MakeFails(j)
    BY <2>12 DEF MakeFails, Fail, Record, At, Fault
  <2>13. CASE Put(j)
    BY <2>13 DEF Put, Insert, Goon, At
  <2>14. CASE PutLoses(j)
    BY <2>14 DEF PutLoses, Goon, At
  <2>15. CASE PutConflicts(j)
    BY <2>15 DEF PutConflicts, Goon, At
  <2>16. CASE PutFails(j)
    BY <2>16, <1>types DEF PutFails, Insert, Goon, At, Fault
  <2>17. CASE Drop(j)
    BY <2>17 DEF Drop, Goon, Fail, Record, At, Fault, Fine
  <2>18. CASE Report(j)
    BY <2>18 DEF Report, Record, At
  <2>19. CASE ReportFails(j)
    BY <2>19 DEF ReportFails, Fail, Record, At, Fault
  <2>20. CASE End(j)
    BY <2>20 DEF End, Finish, At
  <2>21. CASE Damage(j)
    BY <2>21 DEF Damage, Fault
  <2>22. QED BY <1>2, <2>1, <2>2, <2>3, <2>4, <2>5, <2>6, <2>7, <2>8, <2>9, <2>10, <2>11, <2>12, <2>13, <2>14, <2>15, <2>16, <2>17, <2>18, <2>19, <2>20, <2>21 DEF Execute, Work
<1>3. ASSUME NEW q \in Queues, Crash(q)
      PROVE  \A a \in Ids : artifact[a] # "none" => artifact'[a] = artifact[a]
  BY <1>3 DEF Crash, Fault
<1>4. CASE UNCHANGED vars
  BY <1>4 DEF vars
<1>5. QED BY <1>1, <1>2, <1>3, <1>4 DEF Next

\* An execution has a job.
LEMMA RunningStep ==
  ASSUME Base, [Next]_vars
  PROVE  Running'
PROOF
<1>running. Running
  BY DEF Base, Named, Running
<1>runs. RunTypes
  BY DEF Base, TypeOK, RunTypes
<1>keep. \A a \in Ids : input[a] # None => input'[a] = input[a]
  BY InputKept
<1>begun. \A j \in Ids : status[j] # "none" => input[j] # None
  BY DEF Base, Asked
<1> USE DEF Running, RunTypes, jobVars, runVars, Checkpoints
<1>1. CASE Caller /\ UNCHANGED <<runVars, storeVars, historyVars, troubles>>
  BY <1>1, <1>running, <1>keep
<1>2. ASSUME NEW j \in Ids, Execute(j) \/ Damage(j)
      PROVE  Running'
  <2>1. CASE Start(j)
    BY <2>1, <1>running, <1>begun DEF Start, Dequeue, At
  <2>2. CASE Exhaust(j)
    BY <2>2, <1>running DEF Exhaust, GiveUp
  <2>3. CASE Recover(j)
    BY <2>3, <1>running DEF Recover, Requeue
  <2>4. CASE Stop(j)
    BY <2>4, <1>running, <1>runs DEF Stop, At, Goon, Record
  <2>5. CASE Lookup(j)
    BY <2>5, <1>running DEF Lookup, Goon, At
  <2>6. CASE Verify(j)
    BY <2>6, <1>running DEF Verify, Goon, At
  <2>7. CASE VerifyFails(j)
    BY <2>7, <1>running DEF VerifyFails, Goon, At, Fault, Fine
  <2>8. CASE Invalidate(j)
    BY <2>8, <1>running DEF Invalidate, Forget, Goon, At
  <2>9. CASE CatalogFails(j)
    BY <2>9, <1>running DEF CatalogFails, Forget, Fail, Record, At, Fault
  <2>10. CASE RecoverObject(j)
    BY <2>10, <1>running, <1>runs DEF RecoverObject, Goon, At, Fault, Fine
  <2>11. CASE Render(j)
    BY <2>11, <1>running DEF Render, Goon, At
  <2>12. CASE MakeFails(j)
    BY <2>12, <1>running DEF MakeFails, Fail, Record, At, Fault
  <2>13. CASE Put(j)
    BY <2>13, <1>running DEF Put, Insert, Goon, At
  <2>14. CASE PutLoses(j)
    BY <2>14, <1>running, <1>runs DEF PutLoses, Goon, At
  <2>15. CASE PutConflicts(j)
    BY <2>15, <1>running DEF PutConflicts, Goon, At
  <2>16. CASE PutFails(j)
    BY <2>16, <1>running DEF PutFails, Insert, Goon, At, Fault
  <2>17. CASE Drop(j)
    BY <2>17, <1>running, <1>runs DEF Drop, Goon, Fail, Record, At, Fault, Fine
  <2>18. CASE Report(j)
    BY <2>18, <1>running DEF Report, Record, At
  <2>19. CASE ReportFails(j)
    BY <2>19, <1>running DEF ReportFails, Fail, Record, At, Fault
  <2>20. CASE End(j)
    BY <2>20, <1>running DEF End, Finish, At
  <2>21. CASE Damage(j)
    BY <2>21, <1>running DEF Damage, Fault
  <2>22. QED BY <1>2, <2>1, <2>2, <2>3, <2>4, <2>5, <2>6, <2>7, <2>8, <2>9, <2>10, <2>11, <2>12, <2>13, <2>14, <2>15, <2>16, <2>17, <2>18, <2>19, <2>20, <2>21 DEF Execute, Work
<1>3. ASSUME NEW q \in Queues, Crash(q)
      PROVE  Running'
  BY <1>3, <1>running DEF Crash, Fault
<1>4. CASE UNCHANGED vars
  BY <1>4, <1>running DEF vars
<1>5. QED BY <1>1, <1>2, <1>3, <1>4 DEF Next

\* A row has a job.
LEMMA RegisteredStep ==
  ASSUME Base, [Next]_vars
  PROVE  Registered'
PROOF
<1>running. Running
  BY DEF Base, Named, Running
<1>rows. Registered
  BY DEF Base, Named, Registered
<1>types. StoreTypes
  BY DEF Base, TypeOK, StoreTypes
<1>keep. \A a \in Ids : input[a] # None => input'[a] = input[a]
  BY InputKept
<1> USE DEF Registered, Running, StoreTypes, jobVars, storeVars
<1>1. CASE Caller /\ UNCHANGED <<runVars, storeVars, historyVars, troubles>>
  BY <1>1, <1>rows, <1>keep
<1>2. ASSUME NEW j \in Ids, Execute(j) \/ Damage(j)
      PROVE  Registered'
  <2>1. CASE Start(j)
    BY <2>1, <1>rows DEF Start, Dequeue, At
  <2>2. CASE Exhaust(j)
    BY <2>2, <1>rows DEF Exhaust, GiveUp
  <2>3. CASE Recover(j)
    BY <2>3, <1>rows DEF Recover, Requeue
  <2>4. CASE Stop(j)
    BY <2>4, <1>rows DEF Stop, At, Goon, Record
  <2>5. CASE Lookup(j)
    BY <2>5, <1>rows DEF Lookup, Goon, At
  <2>6. CASE Verify(j)
    BY <2>6, <1>rows DEF Verify, Goon, At
  <2>7. CASE VerifyFails(j)
    BY <2>7, <1>rows DEF VerifyFails, Goon, At, Fault, Fine
  <2>8. CASE Invalidate(j)
    BY <2>8, <1>rows DEF Invalidate, Forget, Goon, At
  <2>9. CASE CatalogFails(j)
    BY <2>9, <1>rows DEF CatalogFails, Forget, Fail, Record, At, Fault
  <2>10. CASE RecoverObject(j)
    BY <2>10, <1>rows DEF RecoverObject, Goon, At, Fault, Fine
  <2>11. CASE Render(j)
    BY <2>11, <1>rows DEF Render, Goon, At
  <2>12. CASE MakeFails(j)
    BY <2>12, <1>rows DEF MakeFails, Fail, Record, At, Fault
  <2>13. CASE Put(j)
    BY <2>13, <1>running, <1>rows DEF Put, Insert, Goon, At
  <2>14. CASE PutLoses(j)
    BY <2>14, <1>rows DEF PutLoses, Goon, At
  <2>15. CASE PutConflicts(j)
    BY <2>15, <1>rows DEF PutConflicts, Goon, At
  <2>16. CASE PutFails(j)
    BY <2>16, <1>running, <1>rows, <1>types DEF PutFails, Insert, Goon, At, Fault
  <2>17. CASE Drop(j)
    BY <2>17, <1>rows DEF Drop, Goon, Fail, Record, At, Fault, Fine
  <2>18. CASE Report(j)
    BY <2>18, <1>rows DEF Report, Record, At
  <2>19. CASE ReportFails(j)
    BY <2>19, <1>rows DEF ReportFails, Fail, Record, At, Fault
  <2>20. CASE End(j)
    BY <2>20, <1>rows DEF End, Finish, At
  <2>21. CASE Damage(j)
    BY <2>21, <1>rows DEF Damage, Fault
  <2>22. QED BY <1>2, <2>1, <2>2, <2>3, <2>4, <2>5, <2>6, <2>7, <2>8, <2>9, <2>10, <2>11, <2>12, <2>13, <2>14, <2>15, <2>16, <2>17, <2>18, <2>19, <2>20, <2>21 DEF Execute, Work
<1>3. ASSUME NEW q \in Queues, Crash(q)
      PROVE  Registered'
  BY <1>3, <1>rows DEF Crash, Fault
<1>4. CASE UNCHANGED vars
  BY <1>4, <1>rows DEF vars
<1>5. QED BY <1>1, <1>2, <1>3, <1>4 DEF Next

\* An index entry names a row.
LEMMA IndexedStep ==
  ASSUME Base, [Next]_vars
  PROVE  Indexed'
PROOF
<1>running. Running
  BY DEF Base, Named, Running
<1>rows. Registered
  BY DEF Base, Named, Registered
<1>index. Indexed
  BY DEF Base, Named, Indexed
<1>types. StoreTypes
  BY DEF Base, TypeOK, StoreTypes
<1>row. \A a \in Ids : artifact[a] # "none" => artifact'[a] = artifact[a]
  BY RowKept
<1>key. \A a \in Ids : input[a] # None => Key(a)' = Key(a) /\ Key(a) \in Keys
  BY KeyKept
<1>held. Held
  BY DEF Base
<1>none. None \notin Ids
  BY JobAssumption
<1> USE DEF Indexed, Registered, Running, StoreTypes, Held, jobVars, storeVars
<1>1. CASE Caller /\ UNCHANGED <<runVars, storeVars, historyVars, troubles>>
  BY <1>1, <1>rows, <1>index, <1>types, <1>key
<1>2. ASSUME NEW j \in Ids, Execute(j) \/ Damage(j)
      PROVE  Indexed'
  <2>1. CASE Start(j)
    BY <2>1, <1>rows, <1>index, <1>types, <1>key DEF Start, Dequeue, At
  <2>2. CASE Exhaust(j)
    BY <2>2, <1>rows, <1>index, <1>types, <1>key DEF Exhaust, GiveUp
  <2>3. CASE Recover(j)
    BY <2>3, <1>rows, <1>index, <1>types, <1>key DEF Recover, Requeue
  <2>4. CASE Stop(j)
    BY <2>4, <1>rows, <1>index, <1>types, <1>key DEF Stop, At, Goon, Record
  <2>5. CASE Lookup(j)
    BY <2>5, <1>rows, <1>index, <1>types, <1>key DEF Lookup, Goon, At
  <2>6. CASE Verify(j)
    BY <2>6, <1>rows, <1>index, <1>types, <1>key DEF Verify, Goon, At
  <2>7. CASE VerifyFails(j)
    BY <2>7, <1>rows, <1>index, <1>types, <1>key DEF VerifyFails, Goon, At, Fault, Fine
  <2>8. CASE Invalidate(j)
    BY <2>8, <1>rows, <1>index, <1>types, <1>key DEF Invalidate, Forget, Goon, At
  <2>9. CASE CatalogFails(j)
    BY <2>9, <1>rows, <1>index, <1>types, <1>key DEF CatalogFails, Forget, Fail, Record, At, Fault
  <2>10. CASE RecoverObject(j)
    BY <2>10, <1>rows, <1>index, <1>types, <1>key DEF RecoverObject, Goon, At, Fault, Fine
  <2>11. CASE Render(j)
    BY <2>11, <1>rows, <1>index, <1>types, <1>key DEF Render, Goon, At
  <2>12. CASE MakeFails(j)
    BY <2>12, <1>rows, <1>index, <1>types, <1>key DEF MakeFails, Fail, Record, At, Fault
  <2>13. CASE Put(j)
    BY <2>13, <1>running, <1>rows, <1>index, <1>types, <1>key, <1>held DEF Put, Insert, Goon, At
  <2>14. CASE PutLoses(j)
    BY <2>14, <1>rows, <1>index, <1>types, <1>key DEF PutLoses, Goon, At
  <2>15. CASE PutConflicts(j)
    BY <2>15, <1>rows, <1>index, <1>types, <1>key DEF PutConflicts, Goon, At
  <2>16. CASE PutFails(j)
    BY <2>16, <1>running, <1>rows, <1>index, <1>types, <1>key, <1>held DEF PutFails, Insert, Goon, At, Fault
  <2>17. CASE Drop(j)
    BY <2>17, <1>rows, <1>index, <1>types, <1>key DEF Drop, Goon, Fail, Record, At, Fault, Fine
  <2>18. CASE Report(j)
    BY <2>18, <1>rows, <1>index, <1>types, <1>key DEF Report, Record, At
  <2>19. CASE ReportFails(j)
    BY <2>19, <1>rows, <1>index, <1>types, <1>key DEF ReportFails, Fail, Record, At, Fault
  <2>20. CASE End(j)
    BY <2>20, <1>rows, <1>index, <1>types, <1>key DEF End, Finish, At
  <2>21. CASE Damage(j)
    BY <2>21, <1>rows, <1>index, <1>types, <1>key DEF Damage, Fault
  <2>22. QED BY <1>2, <2>1, <2>2, <2>3, <2>4, <2>5, <2>6, <2>7, <2>8, <2>9, <2>10, <2>11, <2>12, <2>13, <2>14, <2>15, <2>16, <2>17, <2>18, <2>19, <2>20, <2>21 DEF Execute, Work
<1>3. ASSUME NEW q \in Queues, Crash(q)
      PROVE  Indexed'
  BY <1>3, <1>rows, <1>index, <1>types, <1>key DEF Crash, Fault
<1>4. CASE UNCHANGED vars
  BY <1>4, <1>rows, <1>index, <1>types, <1>key DEF vars
<1>5. QED BY <1>1, <1>2, <1>3, <1>4 DEF Next

\* An execution has found a row.
LEMMA FoundStep ==
  ASSUME Base, [Next]_vars
  PROVE  Found'
PROOF
<1>found. Found
  BY DEF Base, Named, Found
<1>serve. \A a, j \in Ids : Serves(a, j) => Serves(a, j)'
  BY RowKept, InputKept, KeyKept DEF Serves
<1>own. \A j \in Ids : at[j] # "idle" /\ artifact'[j] # "none" => Serves(j, j)'
  BY InputKept DEF Serves, Base, Named
<1>look. \A j \in Ids : at[j] # "idle" /\ index[Key(j)] # None => Serves(index[Key(j)], j)
  BY KeyType DEF Base, TypeOK, Named, Serves
<1>runs. RunTypes
  BY DEF Base, TypeOK, RunTypes
<1>types. StoreTypes
  BY DEF Base, TypeOK, StoreTypes
<1>held. Held
  BY DEF Base
<1>none. None \notin Ids
  BY JobAssumption
<1>idx. \A j \in Ids : at[j] # "idle" => index[Key(j)] \in Ids \cup {None}
  BY KeyType DEF Base, TypeOK
<1> USE DEF Found, RunTypes, StoreTypes, Held, jobVars, storeVars, runVars
<1>1. CASE Caller /\ UNCHANGED <<runVars, storeVars, historyVars, troubles>>
  BY <1>1, <1>found, <1>serve, <1>runs
<1>2. ASSUME NEW j \in Ids, Execute(j) \/ Damage(j)
      PROVE  Found'
  <2>1. CASE Start(j)
    BY <2>1, <1>found, <1>serve, <1>runs DEF Start, Dequeue, At
  <2>2. CASE Exhaust(j)
    BY <2>2, <1>found, <1>serve, <1>runs DEF Exhaust, GiveUp
  <2>3. CASE Recover(j)
    BY <2>3, <1>found, <1>serve, <1>runs DEF Recover, Requeue
  <2>4. CASE Stop(j)
    BY <2>4, <1>found, <1>serve, <1>runs DEF Stop, At, Goon, Record
  <2>5. CASE Lookup(j)
    BY <2>5, <1>found, <1>serve, <1>look, <1>runs, <1>idx DEF Lookup, Goon, At
  <2>6. CASE Verify(j)
    BY <2>6, <1>found, <1>serve, <1>runs DEF Verify, Goon, At
  <2>7. CASE VerifyFails(j)
    BY <2>7, <1>found, <1>serve, <1>runs DEF VerifyFails, Goon, At, Fault, Fine
  <2>8. CASE Invalidate(j)
    BY <2>8, <1>found, <1>serve, <1>runs DEF Invalidate, Forget, Goon, At
  <2>9. CASE CatalogFails(j)
    BY <2>9, <1>found, <1>serve, <1>runs DEF CatalogFails, Forget, Fail, Record, At, Fault
  <2>10. CASE RecoverObject(j)
    BY <2>10, <1>found, <1>serve, <1>runs DEF RecoverObject, Goon, At, Fault, Fine
  <2>11. CASE Render(j)
    BY <2>11, <1>found, <1>serve, <1>runs DEF Render, Goon, At
  <2>12. CASE MakeFails(j)
    BY <2>12, <1>found, <1>serve, <1>runs DEF MakeFails, Fail, Record, At, Fault
  <2>13. CASE Put(j)
    BY <2>13, <1>found, <1>serve, <1>own, <1>runs, <1>types, <1>held DEF Put, Insert, Goon, At
  <2>14. CASE PutLoses(j)
    BY <2>14, <1>found, <1>serve, <1>look, <1>runs, <1>idx DEF PutLoses, Goon, At
  <2>15. CASE PutConflicts(j)
    BY <2>15, <1>found, <1>serve, <1>runs DEF PutConflicts, Goon, At
  <2>16. CASE PutFails(j)
    BY <2>16, <1>found, <1>serve, <1>runs DEF PutFails, Insert, Goon, At, Fault
  <2>17. CASE Drop(j)
    BY <2>17, <1>found, <1>serve, <1>runs DEF Drop, Goon, Fail, Record, At, Fault, Fine
  <2>18. CASE Report(j)
    BY <2>18, <1>found, <1>serve, <1>runs DEF Report, Record, At
  <2>19. CASE ReportFails(j)
    BY <2>19, <1>found, <1>serve, <1>runs DEF ReportFails, Fail, Record, At, Fault
  <2>20. CASE End(j)
    BY <2>20, <1>found, <1>serve, <1>runs DEF End, Finish, At
  <2>21. CASE Damage(j)
    BY <2>21, <1>found, <1>serve, <1>runs DEF Damage, Fault
  <2>22. QED BY <1>2, <2>1, <2>2, <2>3, <2>4, <2>5, <2>6, <2>7, <2>8, <2>9, <2>10, <2>11, <2>12, <2>13, <2>14, <2>15, <2>16, <2>17, <2>18, <2>19, <2>20, <2>21 DEF Execute, Work
<1>3. ASSUME NEW q \in Queues, Crash(q)
      PROVE  Found'
  BY <1>3, <1>found, <1>serve, <1>runs DEF Crash, Fault
<1>4. CASE UNCHANGED vars
  BY <1>4, <1>found, <1>serve, <1>runs DEF vars
<1>5. QED BY <1>1, <1>2, <1>3, <1>4 DEF Next

\* An output names a row.
LEMMA ReturnedStep ==
  ASSUME Base, [Next]_vars
  PROVE  Returned'
PROOF
<1>returned. Returned
  BY DEF Base, Named, Returned
<1>found. Found
  BY DEF Base, Named, Found
<1>serve. \A a, j \in Ids : Serves(a, j) => Serves(a, j)'
  BY RowKept, InputKept, KeyKept DEF Serves
<1>runs. RunTypes
  BY DEF Base, TypeOK, RunTypes
<1>jobs. output \in [Ids -> Ids \cup {None}] /\ step \in [Ids -> {"none", "done", "failed"}]
  BY DEF Base, TypeOK, JobType
<1> USE DEF Returned, Found, RunTypes, jobVars, runVars, storeVars
<1>1. CASE Caller /\ UNCHANGED <<runVars, storeVars, historyVars, troubles>>
  BY <1>1, <1>returned, <1>serve, <1>jobs DEF Caller, Submit, CancelJob, RetryJob, Fork, Enqueue, Cancel, CallFails
<1>2. ASSUME NEW j \in Ids, Execute(j) \/ Damage(j)
      PROVE  Returned'
  <2>1. CASE Start(j)
    BY <2>1, <1>returned, <1>serve, <1>jobs DEF Start, Dequeue, At
  <2>2. CASE Exhaust(j)
    BY <2>2, <1>returned, <1>serve, <1>jobs DEF Exhaust, GiveUp
  <2>3. CASE Recover(j)
    BY <2>3, <1>returned, <1>serve, <1>jobs DEF Recover, Requeue
  <2>4. CASE Stop(j)
    BY <2>4, <1>returned, <1>serve, <1>jobs DEF Stop, At, Goon, Record
  <2>5. CASE Lookup(j)
    BY <2>5, <1>returned, <1>serve, <1>jobs DEF Lookup, Goon, At
  <2>6. CASE Verify(j)
    BY <2>6, <1>returned, <1>serve, <1>jobs DEF Verify, Goon, At
  <2>7. CASE VerifyFails(j)
    BY <2>7, <1>returned, <1>serve, <1>jobs DEF VerifyFails, Goon, At, Fault, Fine
  <2>8. CASE Invalidate(j)
    BY <2>8, <1>returned, <1>serve, <1>jobs DEF Invalidate, Forget, Goon, At
  <2>9. CASE CatalogFails(j)
    BY <2>9, <1>returned, <1>serve, <1>jobs DEF CatalogFails, Forget, Fail, Record, At, Fault
  <2>10. CASE RecoverObject(j)
    BY <2>10, <1>returned, <1>serve, <1>jobs DEF RecoverObject, Goon, At, Fault, Fine
  <2>11. CASE Render(j)
    BY <2>11, <1>returned, <1>serve, <1>jobs DEF Render, Goon, At
  <2>12. CASE MakeFails(j)
    BY <2>12, <1>returned, <1>serve, <1>jobs DEF MakeFails, Fail, Record, At, Fault
  <2>13. CASE Put(j)
    BY <2>13, <1>returned, <1>serve, <1>jobs DEF Put, Insert, Goon, At
  <2>14. CASE PutLoses(j)
    BY <2>14, <1>returned, <1>serve, <1>jobs DEF PutLoses, Goon, At
  <2>15. CASE PutConflicts(j)
    BY <2>15, <1>returned, <1>serve, <1>jobs DEF PutConflicts, Goon, At
  <2>16. CASE PutFails(j)
    BY <2>16, <1>returned, <1>serve, <1>jobs DEF PutFails, Insert, Goon, At, Fault
  <2>17. CASE Drop(j)
    BY <2>17, <1>returned, <1>serve, <1>jobs DEF Drop, Goon, Fail, Record, At, Fault, Fine
  <2>18. CASE Report(j)
    BY <2>18, <1>returned, <1>found, <1>serve, <1>runs, <1>jobs DEF Report, Record, At
  <2>19. CASE ReportFails(j)
    BY <2>19, <1>returned, <1>serve, <1>jobs DEF ReportFails, Fail, Record, At, Fault
  <2>20. CASE End(j)
    BY <2>20, <1>returned, <1>serve, <1>jobs DEF End, Finish, At
  <2>21. CASE Damage(j)
    BY <2>21, <1>returned, <1>serve, <1>jobs DEF Damage, Fault
  <2>22. QED BY <1>2, <2>1, <2>2, <2>3, <2>4, <2>5, <2>6, <2>7, <2>8, <2>9, <2>10, <2>11, <2>12, <2>13, <2>14, <2>15, <2>16, <2>17, <2>18, <2>19, <2>20, <2>21 DEF Execute, Work
<1>3. ASSUME NEW q \in Queues, Crash(q)
      PROVE  Returned'
  BY <1>3, <1>returned, <1>serve, <1>jobs DEF Crash, Fault
<1>4. CASE UNCHANGED vars
  BY <1>4, <1>returned, <1>serve, <1>jobs DEF vars
<1>5. QED BY <1>1, <1>2, <1>3, <1>4 DEF Next

\* An execution knows the object it has published or recovered.
LEMMA HeldStep ==
  ASSUME Base, Kept, [Next]_vars
  PROVE  Held'
PROOF
<1>held. Held
  BY DEF Base
<1>kept. Kept
  OBVIOUS
<1>runs. RunTypes
  BY DEF Base, TypeOK, RunTypes
<1>types. StoreTypes
  BY DEF Base, TypeOK, StoreTypes
<1>none. None \notin Ids
  BY JobAssumption
<1> USE DEF Held, Kept, RunTypes, StoreTypes, runVars, storeVars, historyVars, Checkpoints
<1>1. CASE Caller /\ UNCHANGED <<runVars, storeVars, historyVars, troubles>>
  BY <1>1, <1>held
<1>2. ASSUME NEW j \in Ids, Execute(j) \/ Damage(j)
      PROVE  Held'
  <2>1. CASE Start(j)
    BY <2>1, <1>held, <1>types DEF Start, Dequeue, At
  <2>2. CASE Exhaust(j)
    BY <2>2, <1>held DEF Exhaust, GiveUp
  <2>3. CASE Recover(j)
    BY <2>3, <1>held DEF Recover, Requeue
  <2>4. CASE Stop(j)
    BY <2>4, <1>held, <1>runs DEF Stop, At, Goon, Record
  <2>5. CASE Lookup(j)
    BY <2>5, <1>held DEF Lookup, Goon, At
  <2>6. CASE Verify(j)
    BY <2>6, <1>held DEF Verify, Goon, At
  <2>7. CASE VerifyFails(j)
    BY <2>7, <1>held DEF VerifyFails, Goon, At, Fault, Fine
  <2>8. CASE Invalidate(j)
    BY <2>8, <1>held DEF Invalidate, Forget, Goon, At
  <2>9. CASE CatalogFails(j)
    BY <2>9, <1>held DEF CatalogFails, Forget, Fail, Record, At, Fault
  <2>10. CASE RecoverObject(j)
    BY <2>10, <1>held, <1>runs, <1>types DEF RecoverObject, Goon, At, Fault, Fine
  <2>11. CASE Render(j)
    BY <2>11, <1>held, <1>runs, <1>types DEF Render, Goon, At
  <2>12. CASE MakeFails(j)
    BY <2>12, <1>held, <1>types DEF MakeFails, Fail, Record, At, Fault
  <2>13. CASE Put(j)
    BY <2>13, <1>held, <1>runs, <1>types DEF Put, Insert, Goon, At
  <2>14. CASE PutLoses(j)
    BY <2>14, <1>held, <1>runs, <1>types DEF PutLoses, Goon, At
  <2>15. CASE PutConflicts(j)
    BY <2>15, <1>held DEF PutConflicts, Goon, At
  <2>16. CASE PutFails(j)
    BY <2>16, <1>held, <1>types DEF PutFails, Insert, Goon, At, Fault
  <2>17. CASE Drop(j)
    BY <2>17, <1>held, <1>runs, <1>types DEF Drop, Goon, Fail, Record, At, Fault, Fine
  <2>18. CASE Report(j)
    BY <2>18, <1>held DEF Report, Record, At
  <2>19. CASE ReportFails(j)
    BY <2>19, <1>held DEF ReportFails, Fail, Record, At, Fault
  <2>20. CASE End(j)
    BY <2>20, <1>held DEF End, Finish, At
  <2>21. CASE Damage(j)
    BY <2>21, <1>held, <1>types DEF Damage, Fault
  <2>22. QED BY <1>2, <2>1, <2>2, <2>3, <2>4, <2>5, <2>6, <2>7, <2>8, <2>9, <2>10, <2>11, <2>12, <2>13, <2>14, <2>15, <2>16, <2>17, <2>18, <2>19, <2>20, <2>21 DEF Execute, Work
<1>3. ASSUME NEW q \in Queues, Crash(q)
      PROVE  Held'
  BY <1>3, <1>held DEF Crash, Fault
<1>4. CASE UNCHANGED vars
  BY <1>4, <1>held DEF vars
<1>5. QED BY <1>1, <1>2, <1>3, <1>4 DEF Next

\* The bytes of a registered artifact stay, unless the disk took them.
LEMMA KeptStep ==
  ASSUME Base, Kept, [Next]_vars
  PROVE  Kept'
PROOF
<1>held. Held
  BY DEF Base
<1>kept. Kept
  OBVIOUS
<1>runs. RunTypes
  BY DEF Base, TypeOK, RunTypes
<1>types. StoreTypes
  BY DEF Base, TypeOK, StoreTypes
<1> USE DEF Held, Kept, RunTypes, StoreTypes, runVars, storeVars, historyVars
<1>1. CASE Caller /\ UNCHANGED <<runVars, storeVars, historyVars, troubles>>
  BY <1>1
<1>2. ASSUME NEW j \in Ids, Execute(j) \/ Damage(j)
      PROVE  Kept'
  <2>1. CASE Start(j)
    BY <2>1 DEF Start, Dequeue, At
  <2>2. CASE Exhaust(j)
    BY <2>2 DEF Exhaust, GiveUp
  <2>3. CASE Recover(j)
    BY <2>3 DEF Recover, Requeue
  <2>4. CASE Stop(j)
    BY <2>4 DEF Stop, At, Goon, Record
  <2>5. CASE Lookup(j)
    BY <2>5 DEF Lookup, Goon, At
  <2>6. CASE Verify(j)
    BY <2>6 DEF Verify, Goon, At
  <2>7. CASE VerifyFails(j)
    BY <2>7 DEF VerifyFails, Goon, At, Fault, Fine
  <2>8. CASE Invalidate(j)
    BY <2>8 DEF Invalidate, Forget, Goon, At
  <2>9. CASE CatalogFails(j)
    BY <2>9 DEF CatalogFails, Forget, Fail, Record, At, Fault
  <2>10. CASE RecoverObject(j)
    BY <2>10 DEF RecoverObject, Goon, At, Fault, Fine
  <2>11. CASE Render(j)
    BY <2>11, <1>types DEF Render, Goon, At
  <2>12. CASE MakeFails(j)
    BY <2>12, <1>types DEF MakeFails, Fail, Record, At, Fault
  <2>13. CASE Put(j)
    BY <2>13, <1>held DEF Put, Insert, Goon, At
  <2>14. CASE PutLoses(j)
    BY <2>14 DEF PutLoses, Goon, At
  <2>15. CASE PutConflicts(j)
    BY <2>15 DEF PutConflicts, Goon, At
  <2>16. CASE PutFails(j)
    BY <2>16, <1>types DEF PutFails, Insert, Goon, At, Fault
  <2>17. CASE Drop(j)
    BY <2>17, <1>held, <1>types DEF Drop, Goon, Fail, Record, At, Fault, Fine
  <2>18. CASE Report(j)
    BY <2>18 DEF Report, Record, At
  <2>19. CASE ReportFails(j)
    BY <2>19 DEF ReportFails, Fail, Record, At, Fault
  <2>20. CASE End(j)
    BY <2>20 DEF End, Finish, At
  <2>21. CASE Damage(j)
    BY <2>21, <1>types DEF Damage, Fault
  <2>22. QED BY <1>2, <2>1, <2>2, <2>3, <2>4, <2>5, <2>6, <2>7, <2>8, <2>9, <2>10, <2>11, <2>12, <2>13, <2>14, <2>15, <2>16, <2>17, <2>18, <2>19, <2>20, <2>21 DEF Execute, Work
<1>3. ASSUME NEW q \in Queues, Crash(q)
      PROVE  Kept'
  BY <1>3 DEF Crash, Fault
<1>4. CASE UNCHANGED vars
  BY <1>4 DEF vars
<1>5. QED BY <1>1, <1>2, <1>3, <1>4 DEF Next

\* A key forgets only what could not be verified.
LEMMA DoubtedStep ==
  ASSUME Base, Doubted, [Next]_vars
  PROVE  Doubted'
PROOF
<1>none. None \notin Ids
  BY JobAssumption
<1>doubted. Doubted
  OBVIOUS
<1>running. Running
  BY DEF Base, Named, Running
<1>rows. Registered
  BY DEF Base, Named, Registered
<1>key. \A a \in Ids : input[a] # None => Key(a)' = Key(a) /\ Key(a) \in Keys
  BY KeyKept
<1>row. \A a \in Ids : artifact[a] # "none" => artifact'[a] = artifact[a]
  BY RowKept
<1>held. Held
  BY DEF Base
<1>runs. RunTypes
  BY DEF Base, TypeOK, RunTypes
<1>types. StoreTypes
  BY DEF Base, TypeOK, StoreTypes
<1>idx. \A j \in Ids : at[j] # "idle" => Key(j) \in Keys
  BY KeyType
<1> USE DEF Doubted, Held, Running, Registered, RunTypes, StoreTypes, jobVars, runVars, storeVars, historyVars, Checkpoints
<1>1. CASE Caller /\ UNCHANGED <<runVars, storeVars, historyVars, troubles>>
  BY <1>1, <1>none, <1>rows, <1>key
<1>2. ASSUME NEW j \in Ids, Execute(j) \/ Damage(j)
      PROVE  Doubted'
  <2>1. CASE Start(j)
    BY <2>1, <1>none, <1>rows, <1>key DEF Start, Dequeue, At
  <2>2. CASE Exhaust(j)
    BY <2>2, <1>none, <1>rows, <1>key DEF Exhaust, GiveUp
  <2>3. CASE Recover(j)
    BY <2>3, <1>none, <1>rows, <1>key DEF Recover, Requeue
  <2>4. CASE Stop(j)
    BY <2>4, <1>none, <1>rows, <1>key, <1>runs DEF Stop, At, Goon, Record
  <2>5. CASE Lookup(j)
    BY <2>5, <1>none, <1>rows, <1>key DEF Lookup, Goon, At
  <2>6. CASE Verify(j)
    BY <2>6, <1>none, <1>rows, <1>key DEF Verify, Goon, At
  <2>7. CASE VerifyFails(j)
    BY <2>7, <1>none, <1>rows, <1>key DEF VerifyFails, Goon, At, Fault, Fine
  <2>8. CASE Invalidate(j)
    BY <2>8, <1>none, <1>rows, <1>key, <1>runs DEF Invalidate, Forget, Goon, At
  <2>9. CASE CatalogFails(j)
    BY <2>9, <1>none, <1>rows, <1>key, <1>types DEF CatalogFails, Forget, Fail, Record, At, Fault
  <2>10. CASE RecoverObject(j)
    BY <2>10, <1>none, <1>rows, <1>key, <1>runs DEF RecoverObject, Goon, At, Fault, Fine
  <2>11. CASE Render(j)
    BY <2>11, <1>none, <1>rows, <1>key DEF Render, Goon, At
  <2>12. CASE MakeFails(j)
    BY <2>12, <1>none, <1>rows, <1>key DEF MakeFails, Fail, Record, At, Fault
  <2>13. CASE Put(j)
    BY <2>13, <1>none, <1>running, <1>rows, <1>key, <1>types DEF Put, Insert, Goon, At
  <2>14. CASE PutLoses(j)
    BY <2>14, <1>none, <1>rows, <1>key, <1>runs DEF PutLoses, Goon, At
  <2>15. CASE PutConflicts(j)
    BY <2>15, <1>none, <1>rows, <1>key DEF PutConflicts, Goon, At
  <2>16. CASE PutFails(j)
    BY <2>16, <1>none, <1>running, <1>rows, <1>key, <1>types DEF PutFails, Insert, Goon, At, Fault
  <2>17. CASE Drop(j)
    BY <2>17, <1>none, <1>rows, <1>key, <1>runs DEF Drop, Goon, Fail, Record, At, Fault, Fine
  <2>18. CASE Report(j)
    BY <2>18, <1>none, <1>rows, <1>key DEF Report, Record, At
  <2>19. CASE ReportFails(j)
    BY <2>19, <1>none, <1>rows, <1>key DEF ReportFails, Fail, Record, At, Fault
  <2>20. CASE End(j)
    BY <2>20, <1>none, <1>rows, <1>key DEF End, Finish, At
  <2>21. CASE Damage(j)
    BY <2>21, <1>none, <1>rows, <1>key DEF Damage, Fault
  <2>22. QED BY <1>2, <2>1, <2>2, <2>3, <2>4, <2>5, <2>6, <2>7, <2>8, <2>9, <2>10, <2>11, <2>12, <2>13, <2>14, <2>15, <2>16, <2>17, <2>18, <2>19, <2>20, <2>21 DEF Execute, Work
<1>3. ASSUME NEW q \in Queues, Crash(q)
      PROVE  Doubted'
  BY <1>3, <1>none, <1>rows, <1>key DEF Crash, Fault
<1>4. CASE UNCHANGED vars
  BY <1>4, <1>none, <1>rows, <1>key DEF vars
<1>5. QED BY <1>1, <1>2, <1>3, <1>4 DEF Next

\* An object without a row belongs to a running execution or was left behind.
LEMMA OwnedStep ==
  ASSUME Base, Owned, [Next]_vars
  PROVE  Owned'
PROOF
<1>owned. Owned
  OBVIOUS
<1>held. Held
  BY DEF Base
<1>index. Indexed
  BY DEF Base, Named, Indexed
<1>runs. RunTypes
  BY DEF Base, TypeOK, RunTypes
<1>types. StoreTypes
  BY DEF Base, TypeOK, StoreTypes
<1>idx. \A j \in Ids : at[j] # "idle" => Key(j) \in Keys
  BY KeyType
<1> USE DEF Owned, Held, Indexed, RunTypes, StoreTypes, runVars, storeVars, historyVars, Checkpoints
<1>1. CASE Caller /\ UNCHANGED <<runVars, storeVars, historyVars, troubles>>
  BY <1>1
<1>2. ASSUME NEW j \in Ids, Execute(j) \/ Damage(j)
      PROVE  Owned'
  <2>1. CASE Start(j)
    BY <2>1 DEF Start, Dequeue, At
  <2>2. CASE Exhaust(j)
    BY <2>2 DEF Exhaust, GiveUp
  <2>3. CASE Recover(j)
    BY <2>3 DEF Recover, Requeue
  <2>4. CASE Stop(j)
    BY <2>4, <1>held, <1>runs DEF Stop, At, Goon, Record
  <2>5. CASE Lookup(j)
    BY <2>5 DEF Lookup, Goon, At
  <2>6. CASE Verify(j)
    BY <2>6 DEF Verify, Goon, At
  <2>7. CASE VerifyFails(j)
    BY <2>7 DEF VerifyFails, Goon, At, Fault, Fine
  <2>8. CASE Invalidate(j)
    BY <2>8 DEF Invalidate, Forget, Goon, At
  <2>9. CASE CatalogFails(j)
    BY <2>9 DEF CatalogFails, Forget, Fail, Record, At, Fault
  <2>10. CASE RecoverObject(j)
    BY <2>10, <1>runs DEF RecoverObject, Goon, At, Fault, Fine
  <2>11. CASE Render(j)
    BY <2>11, <1>runs DEF Render, Goon, At
  <2>12. CASE MakeFails(j)
    BY <2>12, <1>types DEF MakeFails, Fail, Record, At, Fault
  <2>13. CASE Put(j)
    BY <2>13, <1>held, <1>types DEF Put, Insert, Goon, At
  <2>14. CASE PutLoses(j)
    BY <2>14, <1>index, <1>runs, <1>idx DEF PutLoses, Goon, At
  <2>15. CASE PutConflicts(j)
    BY <2>15 DEF PutConflicts, Goon, At
  <2>16. CASE PutFails(j)
    BY <2>16, <1>types DEF PutFails, Insert, Goon, At, Fault
  <2>17. CASE Drop(j)
    BY <2>17, <1>runs, <1>types DEF Drop, Goon, Fail, Record, At, Fault, Fine
  <2>18. CASE Report(j)
    BY <2>18 DEF Report, Record, At
  <2>19. CASE ReportFails(j)
    BY <2>19 DEF ReportFails, Fail, Record, At, Fault
  <2>20. CASE End(j)
    BY <2>20 DEF End, Finish, At
  <2>21. CASE Damage(j)
    BY <2>21, <1>types DEF Damage, Fault
  <2>22. QED BY <1>2, <2>1, <2>2, <2>3, <2>4, <2>5, <2>6, <2>7, <2>8, <2>9, <2>10, <2>11, <2>12, <2>13, <2>14, <2>15, <2>16, <2>17, <2>18, <2>19, <2>20, <2>21 DEF Execute, Work
<1>3. ASSUME NEW q \in Queues, Crash(q)
      PROVE  Owned'
  BY <1>3 DEF Crash, Fault
<1>4. CASE UNCHANGED vars
  BY <1>4 DEF vars
<1>5. QED BY <1>1, <1>2, <1>3, <1>4 DEF Next

-----------------------------------------------------------------------------
\* The invariant holds: what callers, executions, rows and objects know of
\* each other.
THEOREM Invariant == Spec => []IInv
PROOF
<1>1. Init => IInv
  BY JobAssumption, ArtifactAssumption
  DEF Init, JobInit, IInv, Base, TypeOK, JobType, RunState, Status, Asked, Named, Held,
      Answered, Kept, Doubted, Owned
<1>2. IInv /\ [Next]_vars => IInv'
  <2>1. SUFFICES ASSUME IInv, [Next]_vars
                 PROVE  IInv'
    OBVIOUS
  <2>2. Named'
    BY <2>1, RunningStep, RegisteredStep, IndexedStep, FoundStep, ReturnedStep
    DEF IInv, Named, Running, Registered, Indexed, Found, Returned
  <2>3. QED BY <2>1, <2>2, TypeStep, AskedStep, HeldStep, AnsweredStep, KeptStep, DoubtedStep, OwnedStep
            DEF IInv, Base
<1>3. QED BY <1>1, <1>2, PTL DEF Spec

\* Jobs, executions, rows and objects keep their types.
THEOREM TypeCorrect == Spec => []TypeOK
PROOF BY Invariant, PTL DEF IInv, Base

\* However submissions and retries under one id race, a caller that is answered
\* with a job gets the one it asked for.
THEOREM CallersAgree == Spec => []AnswersAgree
PROOF
<1>1. IInv => AnswersAgree
  BY DEF IInv, Answered, AnswersAgree
<1>2. QED BY <1>1, Invariant, PTL

\* What a job returns is registered for its request, and the bytes of a
\* registered artifact are kept.
THEOREM ResultsAreStored == Spec => []ResultsStored
PROOF
<1>1. IInv => ResultsStored
  BY DEF IInv, Base, Named, Serves, Kept, TypeOK, JobType, ResultsStored
<1>2. QED BY <1>1, Invariant, PTL

\* A second artifact of a request is registered only after some job could not
\* verify the first.
THEOREM OneForAll == Spec => []OneArtifact
PROOF
<1>1. IInv => OneArtifact
  BY DEF IInv, Doubted, OneArtifact
<1>2. QED BY <1>1, Invariant, PTL

\* An object that no row names belongs to a running execution, or a crash or
\* the disk has left it.
THEOREM NothingLeft == Spec => []NoOrphans
PROOF
<1>1. IInv => NoOrphans
  BY DEF IInv, Base, Held, Owned, NoOrphans
<1>2. QED BY <1>1, Invariant, PTL
===============================================================================
