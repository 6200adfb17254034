------------------------ MODULE WorkerSupervisorProofs ------------------------
(***************************************************************************)
(* Proofs about WorkerSupervisor, for any number of front ends, starts,    *)
(* crashes and deaths.                                                     *)
(*                                                                         *)
(* OneWorker and ReadyHonest are inductive with a fact about fresh         *)
(* processes.  StopStops needs what stop knows before it sees the lock     *)
(* free: the process it read in the ready file had the lock then, so it    *)
(* has it still or never will again (Targets).  FewWorkers needs to know   *)
(* where the next process may come from: nobody starts one unless the      *)
(* others were left by crashes (Few, with Serial).                         *)
(***************************************************************************)
EXTENDS WorkerSupervisor, FiniteSetTheorems, TLAPS

\* Processes are numbered in the order in which they are started.
Fresh == \A p \in Pids : p > started => worker[p] = "none"

\* Whoever waits for or ends a process has started one.
Children ==
  \A c \in Clients : pc[c] \in {"await", "terminate", "reap"} => pid[c] \in Pids

\* A process that has published readiness once.
Served ==
  {"serving", "draining", "unready", "unstop", "leaving", "lingering", "left", "dead"}

Targets ==
  \A c \in Clients :
    /\ pc[c] = "stop" => pid[c] = 0
    /\ pc[c] \in {"request", "poll"} /\ pid[c] # 0 => worker[pid[c]] \in Served

Workers == OneWorker /\ Fresh
Stopping == Targets /\ StopStops

-----------------------------------------------------------------------------
\* Every step keeps the types.
LEMMA TypeStep ==
  ASSUME TypeOK, Children, [Next]_vars
  PROVE  TypeOK'
PROOF
<1> USE SupervisorAssumption DEF TypeOK, Children, ClientState, WorkerState, Inside, Gone, Live, Retired, Probing, Pids, clientVars, lockVars, fileVars, workerVars, boundVars
<1>1. ASSUME NEW c \in Clients,
         CallEnsure(c) \/ CallHealth(c) \/ CallStop(c)
      PROVE  TypeOK'
  <2>1. CASE CallEnsure(c) BY <2>1 DEF CallEnsure, Enter, Goto
  <2>2. CASE CallHealth(c) BY <2>2 DEF CallHealth, Enter, Goto
  <2>3. CASE CallStop(c) BY <2>3 DEF CallStop, Enter, Goto
  <2>9. QED BY <1>1, <2>1, <2>2, <2>3
<1>2. ASSUME NEW c \in Clients, Probe(c) PROVE TypeOK'
  BY <1>2 DEF Probe
<1>3. ASSUME NEW c \in Clients, Release(c) PROVE TypeOK'
  BY <1>3 DEF Release, Return, Quit, Goto
<1>4. ASSUME NEW c \in Clients,
         TakeStartLock(c) \/ CleanReady(c) \/ CleanStop(c)
      PROVE  TypeOK'
  <2>1. CASE TakeStartLock(c) BY <2>1 DEF TakeStartLock, Goto
  <2>2. CASE CleanReady(c) BY <2>2 DEF CleanReady, Goto
  <2>3. CASE CleanStop(c) BY <2>3 DEF CleanStop, Goto
  <2>9. QED BY <1>4, <2>1, <2>2, <2>3
<1>5. ASSUME NEW c \in Clients,
         FindReady(c) \/ GiveUpExisting(c) \/ SpawnFails(c) \/ SeeReady(c) \/ SeeExit(c)
      PROVE  TypeOK'
  <2>1. CASE FindReady(c) BY <2>1 DEF FindReady, Return, Quit, Goto
  <2>2. CASE GiveUpExisting(c) BY <2>2 DEF GiveUpExisting, Return, Quit, Goto
  <2>3. CASE SpawnFails(c) BY <2>3 DEF SpawnFails, Return, Quit, Goto
  <2>4. CASE SeeReady(c) BY <2>4 DEF SeeReady, Return, Quit, Goto
  <2>5. CASE SeeExit(c) BY <2>5 DEF SeeExit, Return, Quit, Goto
  <2>9. QED BY <1>5, <2>1, <2>2, <2>3, <2>4, <2>5
<1>6. ASSUME NEW c \in Clients, Spawn(c) PROVE TypeOK'
  BY <1>6 DEF Spawn, Goto
<1>7. ASSUME NEW c \in Clients, GiveUpStart(c) \/ Terminate(c) PROVE TypeOK'
  <2>1. CASE GiveUpStart(c) BY <2>1 DEF GiveUpStart, Goto
  <2>2. CASE Terminate(c)
    <3>1. CASE signalled' = signalled \cup {pid[c]} /\ UNCHANGED <<worker, workerLock, jobs>>
      <4>1. pid[c] \in Pids
        BY <2>2 DEF Terminate, Children
      <4>2. QED BY <2>2, <3>1, <4>1 DEF Terminate, Goto
    <3>2. CASE worker[pid[c]] = "lingering" /\ Die(pid[c])
      BY <2>2, <3>2 DEF Terminate, Die, Goto
    <3>3. QED BY <2>2, <3>1, <3>2 DEF Terminate
  <2>9. QED BY <1>7, <2>1, <2>2
<1>8. ASSUME NEW c \in Clients, Kill(c) PROVE TypeOK'
  BY <1>8 DEF Kill, Die
<1>9. ASSUME NEW c \in Clients,
         ReadReady(c) \/ RequestStop(c) \/ GiveUpStop(c)
      PROVE  TypeOK'
  <2>1. CASE ReadReady(c)
    <3>1. CASE ready = 0
      BY <2>1, <3>1 DEF ReadReady, Quit, Goto
    <3>2. CASE ready # 0
      BY <2>1, <3>2 DEF ReadReady, Goto
    <3>3. QED BY <3>1, <3>2
  <2>2. CASE RequestStop(c) BY <2>2 DEF RequestStop, Goto
  <2>3. CASE GiveUpStop(c) BY <2>3 DEF GiveUpStop, Quit, Goto
  <2>9. QED BY <1>9, <2>1, <2>2, <2>3
<1>10. ASSUME NEW c \in Clients, SweepReady(c) \/ SweepStop(c) PROVE TypeOK'
  <2>1. CASE SweepReady(c) BY <2>1 DEF SweepReady, Goto
  <2>2. CASE SweepStop(c) BY <2>2 DEF SweepStop, Quit, Goto
  <2>9. QED BY <1>10, <2>1, <2>2
<1>11. ASSUME NEW c \in Clients, BackoffEnds(c) \/ CrashClient(c) PROVE TypeOK'
  <2>1. CASE BackoffEnds(c) BY <2>1 DEF BackoffEnds, Goto
  <2>2. CASE CrashClient(c) BY <2>2 DEF CrashClient, Quit, Goto
  <2>9. QED BY <1>11, <2>1, <2>2
<1>12. ASSUME NEW p \in Pids,
         ReadBootstrap(p) \/ TakeLock(p) \/ LaunchFails(p)
      PROVE  TypeOK'
  <2>1. CASE ReadBootstrap(p) BY <2>1 DEF ReadBootstrap, Move
  <2>2. CASE TakeLock(p) BY <2>2 DEF TakeLock, Move
  <2>3. CASE LaunchFails(p) BY <2>3 DEF LaunchFails, Move
  <2>9. QED BY <1>12, <2>1, <2>2, <2>3
<1>13. ASSUME NEW p \in Pids,
         MarkReady(p) \/ StopServing(p) \/ Drain(p)
      PROVE  TypeOK'
  <2>1. CASE MarkReady(p) BY <2>1 DEF MarkReady, Move
  <2>2. CASE StopServing(p) BY <2>2 DEF StopServing, Move
  <2>3. CASE Drain(p) BY <2>3 DEF Drain, Move
  <2>9. QED BY <1>13, <2>1, <2>2, <2>3
<1>14. ASSUME NEW p \in Pids,
         UnlinkReady(p) \/ UnlinkStop(p) \/ Leave(p)
      PROVE  TypeOK'
  <2>1. CASE UnlinkReady(p) BY <2>1 DEF UnlinkReady, Move
  <2>2. CASE UnlinkStop(p) BY <2>2 DEF UnlinkStop, Move
  <2>3. CASE Leave(p) BY <2>3 DEF Leave, Move
  <2>9. QED BY <1>14, <2>1, <2>2, <2>3
<1>15. ASSUME NEW p \in Pids, DieAlone(p) PROVE TypeOK'
  BY <1>15 DEF DieAlone, Die
<1>16. ASSUME NEW p \in Pids,
         StartJob(p) \/ EndJob(p) \/ Exit(p)
      PROVE  TypeOK'
  <2>1. CASE StartJob(p) BY <2>1 DEF StartJob
  <2>2. CASE EndJob(p) BY <2>2 DEF EndJob
  <2>3. CASE Exit(p) BY <2>3 DEF Exit, Move
  <2>9. QED BY <1>16, <2>1, <2>2, <2>3
<1>17. CASE UNCHANGED vars BY <1>17 DEF vars
<1>18. QED
  BY <1>1, <1>2, <1>3, <1>4, <1>5, <1>6, <1>7, <1>8, <1>9, <1>10, <1>11, <1>12, <1>13, <1>14, <1>15, <1>16, <1>17
     DEF Next, Continue, Ensure, Stop, Work, Job

\* A front end keeps the number of the process it started.
LEMMA ChildStep ==
  ASSUME TypeOK, Children, [Next]_vars
  PROVE  Children'
PROOF
<1> USE SupervisorAssumption DEF TypeOK, Children, ClientState, WorkerState, Inside, Gone, Live, Retired, Probing, Pids, clientVars, lockVars, fileVars, workerVars, boundVars
<1>1. ASSUME NEW c \in Clients,
         CallEnsure(c) \/ CallHealth(c) \/ CallStop(c)
      PROVE  Children'
  <2>1. CASE CallEnsure(c) BY <2>1 DEF CallEnsure, Enter, Goto
  <2>2. CASE CallHealth(c) BY <2>2 DEF CallHealth, Enter, Goto
  <2>3. CASE CallStop(c) BY <2>3 DEF CallStop, Enter, Goto
  <2>9. QED BY <1>1, <2>1, <2>2, <2>3
<1>2. ASSUME NEW c \in Clients, Probe(c) PROVE Children'
  BY <1>2 DEF Probe
<1>3. ASSUME NEW c \in Clients, Release(c) PROVE Children'
  BY <1>3 DEF Release, Return, Quit, Goto
<1>4. ASSUME NEW c \in Clients,
         TakeStartLock(c) \/ CleanReady(c) \/ CleanStop(c)
      PROVE  Children'
  <2>1. CASE TakeStartLock(c) BY <2>1 DEF TakeStartLock, Goto
  <2>2. CASE CleanReady(c) BY <2>2 DEF CleanReady, Goto
  <2>3. CASE CleanStop(c) BY <2>3 DEF CleanStop, Goto
  <2>9. QED BY <1>4, <2>1, <2>2, <2>3
<1>5. ASSUME NEW c \in Clients,
         FindReady(c) \/ GiveUpExisting(c) \/ SpawnFails(c) \/ SeeReady(c) \/ SeeExit(c)
      PROVE  Children'
  <2>1. CASE FindReady(c) BY <2>1 DEF FindReady, Return, Quit, Goto
  <2>2. CASE GiveUpExisting(c) BY <2>2 DEF GiveUpExisting, Return, Quit, Goto
  <2>3. CASE SpawnFails(c) BY <2>3 DEF SpawnFails, Return, Quit, Goto
  <2>4. CASE SeeReady(c) BY <2>4 DEF SeeReady, Return, Quit, Goto
  <2>5. CASE SeeExit(c) BY <2>5 DEF SeeExit, Return, Quit, Goto
  <2>9. QED BY <1>5, <2>1, <2>2, <2>3, <2>4, <2>5
<1>6. ASSUME NEW c \in Clients, Spawn(c) PROVE Children'
  BY <1>6 DEF Spawn, Goto
<1>7. ASSUME NEW c \in Clients, GiveUpStart(c) \/ Terminate(c) PROVE Children'
  <2>1. CASE GiveUpStart(c) BY <2>1 DEF GiveUpStart, Goto
  <2>2. CASE Terminate(c) BY <2>2 DEF Terminate, Die, Goto
  <2>9. QED BY <1>7, <2>1, <2>2
<1>8. ASSUME NEW c \in Clients, Kill(c) PROVE Children'
  BY <1>8 DEF Kill, Die
<1>9. ASSUME NEW c \in Clients,
         ReadReady(c) \/ RequestStop(c) \/ GiveUpStop(c)
      PROVE  Children'
  <2>1. CASE ReadReady(c) BY <2>1 DEF ReadReady, Quit, Goto
  <2>2. CASE RequestStop(c) BY <2>2 DEF RequestStop, Goto
  <2>3. CASE GiveUpStop(c) BY <2>3 DEF GiveUpStop, Quit, Goto
  <2>9. QED BY <1>9, <2>1, <2>2, <2>3
<1>10. ASSUME NEW c \in Clients, SweepReady(c) \/ SweepStop(c) PROVE Children'
  <2>1. CASE SweepReady(c) BY <2>1 DEF SweepReady, Goto
  <2>2. CASE SweepStop(c) BY <2>2 DEF SweepStop, Quit, Goto
  <2>9. QED BY <1>10, <2>1, <2>2
<1>11. ASSUME NEW c \in Clients,
         BackoffEnds(c) \/ CrashClient(c)
      PROVE  Children'
  <2>1. CASE BackoffEnds(c) BY <2>1 DEF BackoffEnds, Goto
  <2>2. CASE CrashClient(c) BY <2>2 DEF CrashClient, Quit, Goto
  <2>9. QED BY <1>11, <2>1, <2>2
<1>12. ASSUME NEW p \in Pids,
         ReadBootstrap(p) \/ TakeLock(p) \/ LaunchFails(p)
      PROVE  Children'
  <2>1. CASE ReadBootstrap(p) BY <2>1 DEF ReadBootstrap, Move
  <2>2. CASE TakeLock(p) BY <2>2 DEF TakeLock, Move
  <2>3. CASE LaunchFails(p) BY <2>3 DEF LaunchFails, Move
  <2>9. QED BY <1>12, <2>1, <2>2, <2>3
<1>13. ASSUME NEW p \in Pids,
         MarkReady(p) \/ StopServing(p) \/ Drain(p)
      PROVE  Children'
  <2>1. CASE MarkReady(p) BY <2>1 DEF MarkReady, Move
  <2>2. CASE StopServing(p) BY <2>2 DEF StopServing, Move
  <2>3. CASE Drain(p) BY <2>3 DEF Drain, Move
  <2>9. QED BY <1>13, <2>1, <2>2, <2>3
<1>14. ASSUME NEW p \in Pids,
         UnlinkReady(p) \/ UnlinkStop(p) \/ Leave(p)
      PROVE  Children'
  <2>1. CASE UnlinkReady(p) BY <2>1 DEF UnlinkReady, Move
  <2>2. CASE UnlinkStop(p) BY <2>2 DEF UnlinkStop, Move
  <2>3. CASE Leave(p) BY <2>3 DEF Leave, Move
  <2>9. QED BY <1>14, <2>1, <2>2, <2>3
<1>15. ASSUME NEW p \in Pids, DieAlone(p) PROVE Children'
  BY <1>15 DEF DieAlone, Die
<1>16. ASSUME NEW p \in Pids,
         StartJob(p) \/ EndJob(p) \/ Exit(p)
      PROVE  Children'
  <2>1. CASE StartJob(p) BY <2>1 DEF StartJob
  <2>2. CASE EndJob(p) BY <2>2 DEF EndJob
  <2>3. CASE Exit(p) BY <2>3 DEF Exit, Move
  <2>9. QED BY <1>16, <2>1, <2>2, <2>3
<1>17. CASE UNCHANGED vars BY <1>17 DEF vars
<1>18. QED
  BY <1>1, <1>2, <1>3, <1>4, <1>5, <1>6, <1>7, <1>8, <1>9, <1>10, <1>11, <1>12, <1>13, <1>14, <1>15, <1>16, <1>17
     DEF Next, Continue, Ensure, Stop, Work, Job

\* The lock admits one worker, and only its holder gives it up.
LEMMA WorkerStep ==
  ASSUME TypeOK, Children, Workers, [Next]_vars
  PROVE  Workers'
PROOF
<1> USE SupervisorAssumption DEF TypeOK, Children, Workers, OneWorker, Fresh, ClientState, WorkerState, Inside, Gone, Live, Retired, Probing, Pids, clientVars, lockVars, fileVars, workerVars, boundVars
<1>1. ASSUME NEW c \in Clients,
         CallEnsure(c) \/ CallHealth(c) \/ CallStop(c)
      PROVE  Workers'
  <2>1. CASE CallEnsure(c) BY <2>1 DEF CallEnsure, Enter, Goto
  <2>2. CASE CallHealth(c) BY <2>2 DEF CallHealth, Enter, Goto
  <2>3. CASE CallStop(c) BY <2>3 DEF CallStop, Enter, Goto
  <2>9. QED BY <1>1, <2>1, <2>2, <2>3
<1>2. ASSUME NEW c \in Clients, Probe(c) PROVE Workers'
  BY <1>2 DEF Probe
<1>3. ASSUME NEW c \in Clients, Release(c) PROVE Workers'
  BY <1>3 DEF Release, Return, Quit, Goto
<1>4. ASSUME NEW c \in Clients,
         TakeStartLock(c) \/ CleanReady(c) \/ CleanStop(c)
      PROVE  Workers'
  <2>1. CASE TakeStartLock(c) BY <2>1 DEF TakeStartLock, Goto
  <2>2. CASE CleanReady(c) BY <2>2 DEF CleanReady, Goto
  <2>3. CASE CleanStop(c) BY <2>3 DEF CleanStop, Goto
  <2>9. QED BY <1>4, <2>1, <2>2, <2>3
<1>5. ASSUME NEW c \in Clients,
         FindReady(c) \/ GiveUpExisting(c) \/ SpawnFails(c) \/ SeeReady(c) \/ SeeExit(c)
      PROVE  Workers'
  <2>1. CASE FindReady(c) BY <2>1 DEF FindReady, Return, Quit, Goto
  <2>2. CASE GiveUpExisting(c) BY <2>2 DEF GiveUpExisting, Return, Quit, Goto
  <2>3. CASE SpawnFails(c) BY <2>3 DEF SpawnFails, Return, Quit, Goto
  <2>4. CASE SeeReady(c) BY <2>4 DEF SeeReady, Return, Quit, Goto
  <2>5. CASE SeeExit(c) BY <2>5 DEF SeeExit, Return, Quit, Goto
  <2>9. QED BY <1>5, <2>1, <2>2, <2>3, <2>4, <2>5
<1>6. ASSUME NEW c \in Clients, Spawn(c) PROVE Workers'
  BY <1>6 DEF Spawn, Goto
<1>7. ASSUME NEW c \in Clients, GiveUpStart(c) \/ Terminate(c) PROVE Workers'
  <2>1. CASE GiveUpStart(c) BY <2>1 DEF GiveUpStart, Goto
  <2>2. CASE Terminate(c)
    <3>1. CASE UNCHANGED <<worker, workerLock, jobs>>
      BY <2>2, <3>1 DEF Terminate, Goto
    <3>2. CASE worker[pid[c]] = "lingering" /\ Die(pid[c])
      BY <2>2, <3>2 DEF Terminate, Die, Goto
    <3>3. QED BY <2>2, <3>1, <3>2 DEF Terminate
  <2>9. QED BY <1>7, <2>1, <2>2
<1>8. ASSUME NEW c \in Clients, Kill(c) PROVE Workers'
  BY <1>8 DEF Kill, Die
<1>9. ASSUME NEW c \in Clients,
         ReadReady(c) \/ RequestStop(c) \/ GiveUpStop(c)
      PROVE  Workers'
  <2>1. CASE ReadReady(c) BY <2>1 DEF ReadReady, Quit, Goto
  <2>2. CASE RequestStop(c) BY <2>2 DEF RequestStop, Goto
  <2>3. CASE GiveUpStop(c) BY <2>3 DEF GiveUpStop, Quit, Goto
  <2>9. QED BY <1>9, <2>1, <2>2, <2>3
<1>10. ASSUME NEW c \in Clients, SweepReady(c) \/ SweepStop(c) PROVE Workers'
  <2>1. CASE SweepReady(c) BY <2>1 DEF SweepReady, Goto
  <2>2. CASE SweepStop(c) BY <2>2 DEF SweepStop, Quit, Goto
  <2>9. QED BY <1>10, <2>1, <2>2
<1>11. ASSUME NEW c \in Clients,
         BackoffEnds(c) \/ CrashClient(c)
      PROVE  Workers'
  <2>1. CASE BackoffEnds(c) BY <2>1 DEF BackoffEnds, Goto
  <2>2. CASE CrashClient(c) BY <2>2 DEF CrashClient, Quit, Goto
  <2>9. QED BY <1>11, <2>1, <2>2
<1>12. ASSUME NEW p \in Pids,
         ReadBootstrap(p) \/ TakeLock(p) \/ LaunchFails(p)
      PROVE  Workers'
  <2>1. CASE ReadBootstrap(p) BY <2>1 DEF ReadBootstrap, Move
  <2>2. CASE TakeLock(p) BY <2>2 DEF TakeLock, Move
  <2>3. CASE LaunchFails(p) BY <2>3 DEF LaunchFails, Move
  <2>9. QED BY <1>12, <2>1, <2>2, <2>3
<1>13. ASSUME NEW p \in Pids,
         MarkReady(p) \/ StopServing(p) \/ Drain(p)
      PROVE  Workers'
  <2>1. CASE MarkReady(p) BY <2>1 DEF MarkReady, Move
  <2>2. CASE StopServing(p) BY <2>2 DEF StopServing, Move
  <2>3. CASE Drain(p) BY <2>3 DEF Drain, Move
  <2>9. QED BY <1>13, <2>1, <2>2, <2>3
<1>14. ASSUME NEW p \in Pids,
         UnlinkReady(p) \/ UnlinkStop(p) \/ Leave(p)
      PROVE  Workers'
  <2>1. CASE UnlinkReady(p) BY <2>1 DEF UnlinkReady, Move
  <2>2. CASE UnlinkStop(p) BY <2>2 DEF UnlinkStop, Move
  <2>3. CASE Leave(p) BY <2>3 DEF Leave, Move
  <2>9. QED BY <1>14, <2>1, <2>2, <2>3
<1>15. ASSUME NEW p \in Pids, DieAlone(p) PROVE Workers'
  BY <1>15 DEF DieAlone, Die
<1>16. ASSUME NEW p \in Pids,
         StartJob(p) \/ EndJob(p) \/ Exit(p)
      PROVE  Workers'
  <2>1. CASE StartJob(p) BY <2>1 DEF StartJob
  <2>2. CASE EndJob(p) BY <2>2 DEF EndJob
  <2>3. CASE Exit(p) BY <2>3 DEF Exit, Move
  <2>9. QED BY <1>16, <2>1, <2>2, <2>3
<1>17. CASE UNCHANGED vars BY <1>17 DEF vars
<1>18. QED
  BY <1>1, <1>2, <1>3, <1>4, <1>5, <1>6, <1>7, <1>8, <1>9, <1>10, <1>11, <1>12, <1>13, <1>14, <1>15, <1>16, <1>17
     DEF Next, Continue, Ensure, Stop, Work, Job

\* Nobody but the holder of the lock publishes readiness.
LEMMA ReadyStep ==
  ASSUME TypeOK, Children, Workers, ReadyHonest, [Next]_vars
  PROVE  ReadyHonest'
PROOF
<1> USE SupervisorAssumption DEF TypeOK, Children, Workers, OneWorker, Fresh, ReadyHonest, ClientState, WorkerState, Inside, Gone, Live, Retired, Probing, Pids, clientVars, lockVars, fileVars, workerVars, boundVars
<1>1. ASSUME NEW c \in Clients,
         CallEnsure(c) \/ CallHealth(c) \/ CallStop(c)
      PROVE  ReadyHonest'
  <2>1. CASE CallEnsure(c) BY <2>1 DEF CallEnsure, Enter, Goto
  <2>2. CASE CallHealth(c) BY <2>2 DEF CallHealth, Enter, Goto
  <2>3. CASE CallStop(c) BY <2>3 DEF CallStop, Enter, Goto
  <2>9. QED BY <1>1, <2>1, <2>2, <2>3
<1>2. ASSUME NEW c \in Clients, Probe(c) PROVE ReadyHonest'
  BY <1>2 DEF Probe
<1>3. ASSUME NEW c \in Clients, Release(c) PROVE ReadyHonest'
  BY <1>3 DEF Release, Return, Quit, Goto
<1>4. ASSUME NEW c \in Clients,
         TakeStartLock(c) \/ CleanReady(c) \/ CleanStop(c)
      PROVE  ReadyHonest'
  <2>1. CASE TakeStartLock(c) BY <2>1 DEF TakeStartLock, Goto
  <2>2. CASE CleanReady(c) BY <2>2 DEF CleanReady, Goto
  <2>3. CASE CleanStop(c) BY <2>3 DEF CleanStop, Goto
  <2>9. QED BY <1>4, <2>1, <2>2, <2>3
<1>5. ASSUME NEW c \in Clients,
         FindReady(c) \/ GiveUpExisting(c) \/ SpawnFails(c) \/ SeeReady(c) \/ SeeExit(c)
      PROVE  ReadyHonest'
  <2>1. CASE FindReady(c) BY <2>1 DEF FindReady, Return, Quit, Goto
  <2>2. CASE GiveUpExisting(c) BY <2>2 DEF GiveUpExisting, Return, Quit, Goto
  <2>3. CASE SpawnFails(c) BY <2>3 DEF SpawnFails, Return, Quit, Goto
  <2>4. CASE SeeReady(c) BY <2>4 DEF SeeReady, Return, Quit, Goto
  <2>5. CASE SeeExit(c) BY <2>5 DEF SeeExit, Return, Quit, Goto
  <2>9. QED BY <1>5, <2>1, <2>2, <2>3, <2>4, <2>5
<1>6. ASSUME NEW c \in Clients, Spawn(c) PROVE ReadyHonest'
  BY <1>6 DEF Spawn, Goto
<1>7. ASSUME NEW c \in Clients,
         GiveUpStart(c) \/ Terminate(c)
      PROVE  ReadyHonest'
  <2>1. CASE GiveUpStart(c) BY <2>1 DEF GiveUpStart, Goto
  <2>2. CASE Terminate(c) BY <2>2 DEF Terminate, Die, Goto
  <2>9. QED BY <1>7, <2>1, <2>2
<1>8. ASSUME NEW c \in Clients, Kill(c) PROVE ReadyHonest'
  BY <1>8 DEF Kill, Die
<1>9. ASSUME NEW c \in Clients,
         ReadReady(c) \/ RequestStop(c) \/ GiveUpStop(c)
      PROVE  ReadyHonest'
  <2>1. CASE ReadReady(c) BY <2>1 DEF ReadReady, Quit, Goto
  <2>2. CASE RequestStop(c) BY <2>2 DEF RequestStop, Goto
  <2>3. CASE GiveUpStop(c) BY <2>3 DEF GiveUpStop, Quit, Goto
  <2>9. QED BY <1>9, <2>1, <2>2, <2>3
<1>10. ASSUME NEW c \in Clients,
         SweepReady(c) \/ SweepStop(c)
      PROVE  ReadyHonest'
  <2>1. CASE SweepReady(c) BY <2>1 DEF SweepReady, Goto
  <2>2. CASE SweepStop(c) BY <2>2 DEF SweepStop, Quit, Goto
  <2>9. QED BY <1>10, <2>1, <2>2
<1>11. ASSUME NEW c \in Clients,
         BackoffEnds(c) \/ CrashClient(c)
      PROVE  ReadyHonest'
  <2>1. CASE BackoffEnds(c) BY <2>1 DEF BackoffEnds, Goto
  <2>2. CASE CrashClient(c) BY <2>2 DEF CrashClient, Quit, Goto
  <2>9. QED BY <1>11, <2>1, <2>2
<1>12. ASSUME NEW p \in Pids,
         ReadBootstrap(p) \/ TakeLock(p) \/ LaunchFails(p)
      PROVE  ReadyHonest'
  <2>1. CASE ReadBootstrap(p) BY <2>1 DEF ReadBootstrap, Move
  <2>2. CASE TakeLock(p) BY <2>2 DEF TakeLock, Move
  <2>3. CASE LaunchFails(p) BY <2>3 DEF LaunchFails, Move
  <2>9. QED BY <1>12, <2>1, <2>2, <2>3
<1>13. ASSUME NEW p \in Pids,
         MarkReady(p) \/ StopServing(p) \/ Drain(p)
      PROVE  ReadyHonest'
  <2>1. CASE MarkReady(p) BY <2>1 DEF MarkReady, Move
  <2>2. CASE StopServing(p) BY <2>2 DEF StopServing, Move
  <2>3. CASE Drain(p) BY <2>3 DEF Drain, Move
  <2>9. QED BY <1>13, <2>1, <2>2, <2>3
<1>14. ASSUME NEW p \in Pids,
         UnlinkReady(p) \/ UnlinkStop(p) \/ Leave(p)
      PROVE  ReadyHonest'
  <2>1. CASE UnlinkReady(p) BY <2>1 DEF UnlinkReady, Move
  <2>2. CASE UnlinkStop(p) BY <2>2 DEF UnlinkStop, Move
  <2>3. CASE Leave(p) BY <2>3 DEF Leave, Move
  <2>9. QED BY <1>14, <2>1, <2>2, <2>3
<1>15. ASSUME NEW p \in Pids, DieAlone(p) PROVE ReadyHonest'
  BY <1>15 DEF DieAlone, Die
<1>16. ASSUME NEW p \in Pids,
         StartJob(p) \/ EndJob(p) \/ Exit(p)
      PROVE  ReadyHonest'
  <2>1. CASE StartJob(p) BY <2>1 DEF StartJob
  <2>2. CASE EndJob(p) BY <2>2 DEF EndJob
  <2>3. CASE Exit(p) BY <2>3 DEF Exit, Move
  <2>9. QED BY <1>16, <2>1, <2>2, <2>3
<1>17. CASE UNCHANGED vars BY <1>17 DEF vars
<1>18. QED
  BY <1>1, <1>2, <1>3, <1>4, <1>5, <1>6, <1>7, <1>8, <1>9, <1>10, <1>11, <1>12, <1>13, <1>14, <1>15, <1>16, <1>17
     DEF Next, Continue, Ensure, Stop, Work, Job

\* A process named by a request has the lock or never takes it again.
LEMMA StopStep ==
  ASSUME TypeOK, Children, Workers, ReadyHonest, Stopping, [Next]_vars
  PROVE  Stopping'
PROOF
<1> USE SupervisorAssumption DEF TypeOK, Children, Workers, OneWorker, Fresh, ReadyHonest, Stopping, Targets, StopStops, Served, ClientState, WorkerState, Inside, Gone, Live, Retired, Probing, Pids, clientVars, lockVars, fileVars, workerVars, boundVars
<1>1. ASSUME NEW c \in Clients,
         CallEnsure(c) \/ CallHealth(c) \/ CallStop(c)
      PROVE  Stopping'
  <2>1. CASE CallEnsure(c) BY <2>1 DEF CallEnsure, Enter, Goto
  <2>2. CASE CallHealth(c) BY <2>2 DEF CallHealth, Enter, Goto
  <2>3. CASE CallStop(c) BY <2>3 DEF CallStop, Enter, Goto
  <2>9. QED BY <1>1, <2>1, <2>2, <2>3
<1>2. ASSUME NEW c \in Clients, Probe(c) PROVE Stopping'
  BY <1>2 DEF Probe
<1>3. ASSUME NEW c \in Clients, Release(c) PROVE Stopping'
  <2>1. CASE pc[c] = "existing"
    BY <1>3, <2>1 DEF Release, Return, Quit, Goto
  <2>2. CASE pc[c] = "await"
    BY <1>3, <2>2 DEF Release
  <2>3. CASE pc[c] \in {"stop", "poll"}
    <3>1. /\ pc' = [pc EXCEPT ![c] = "sweep_ready"] /\ UNCHANGED <<pid, worker>>
          /\ workerLock = c
      BY <1>3, <2>3 DEF Release, Goto
    <3>2. pid[c] # 0 => worker[pid[c]] \in Retired
      BY <2>3, <3>1
    <3>3. QED BY <3>1, <3>2
  <2>4. QED BY <1>3, <2>1, <2>2, <2>3 DEF Release
<1>4. ASSUME NEW c \in Clients,
         TakeStartLock(c) \/ CleanReady(c) \/ CleanStop(c)
      PROVE  Stopping'
  <2>1. CASE TakeStartLock(c) BY <2>1 DEF TakeStartLock, Goto
  <2>2. CASE CleanReady(c) BY <2>2 DEF CleanReady, Goto
  <2>3. CASE CleanStop(c) BY <2>3 DEF CleanStop, Goto
  <2>9. QED BY <1>4, <2>1, <2>2, <2>3
<1>5. ASSUME NEW c \in Clients,
         FindReady(c) \/ GiveUpExisting(c) \/ SpawnFails(c) \/ SeeReady(c) \/ SeeExit(c)
      PROVE  Stopping'
  <2>1. CASE FindReady(c) BY <2>1 DEF FindReady, Return, Quit, Goto
  <2>2. CASE GiveUpExisting(c) BY <2>2 DEF GiveUpExisting, Return, Quit, Goto
  <2>3. CASE SpawnFails(c) BY <2>3 DEF SpawnFails, Return, Quit, Goto
  <2>4. CASE SeeReady(c) BY <2>4 DEF SeeReady, Return, Quit, Goto
  <2>5. CASE SeeExit(c) BY <2>5 DEF SeeExit, Return, Quit, Goto
  <2>9. QED BY <1>5, <2>1, <2>2, <2>3, <2>4, <2>5
<1>6. ASSUME NEW c \in Clients, Spawn(c) PROVE Stopping'
  BY <1>6 DEF Spawn, Goto
<1>7. ASSUME NEW c \in Clients, GiveUpStart(c) \/ Terminate(c) PROVE Stopping'
  <2>1. CASE GiveUpStart(c) BY <2>1 DEF GiveUpStart, Goto
  <2>2. CASE Terminate(c)
    <3>1. CASE UNCHANGED <<worker, workerLock, jobs>>
      BY <2>2, <3>1 DEF Terminate, Goto
    <3>2. CASE worker[pid[c]] = "lingering" /\ Die(pid[c])
      BY <2>2, <3>2 DEF Terminate, Die, Goto
    <3>3. QED BY <2>2, <3>1, <3>2 DEF Terminate
  <2>9. QED BY <1>7, <2>1, <2>2
<1>8. ASSUME NEW c \in Clients, Kill(c) PROVE Stopping'
  BY <1>8 DEF Kill, Die
<1>9. ASSUME NEW c \in Clients,
         ReadReady(c) \/ RequestStop(c) \/ GiveUpStop(c)
      PROVE  Stopping'
  <2>1. CASE ReadReady(c) BY <2>1 DEF ReadReady, Quit, Goto
  <2>2. CASE RequestStop(c) BY <2>2 DEF RequestStop, Goto
  <2>3. CASE GiveUpStop(c) BY <2>3 DEF GiveUpStop, Quit, Goto
  <2>9. QED BY <1>9, <2>1, <2>2, <2>3
<1>10. ASSUME NEW c \in Clients, SweepReady(c) \/ SweepStop(c) PROVE Stopping'
  <2>1. CASE SweepReady(c) BY <2>1 DEF SweepReady, Goto
  <2>2. CASE SweepStop(c) BY <2>2 DEF SweepStop, Quit, Goto
  <2>9. QED BY <1>10, <2>1, <2>2
<1>11. ASSUME NEW c \in Clients,
         BackoffEnds(c) \/ CrashClient(c)
      PROVE  Stopping'
  <2>1. CASE BackoffEnds(c) BY <2>1 DEF BackoffEnds, Goto
  <2>2. CASE CrashClient(c) BY <2>2 DEF CrashClient, Quit, Goto
  <2>9. QED BY <1>11, <2>1, <2>2
<1>12. ASSUME NEW p \in Pids,
         ReadBootstrap(p) \/ TakeLock(p) \/ LaunchFails(p)
      PROVE  Stopping'
  <2>1. CASE ReadBootstrap(p)
    <3>1. /\ worker[p] = "boot" /\ UNCHANGED <<pc, pid>>
          /\ \/ worker' = [worker EXCEPT ![p] = "waiting"]
             \/ worker' = [worker EXCEPT ![p] = "left"]
      BY <2>1 DEF ReadBootstrap, Move
    <3>2. \A q \in Pids : worker[q] \in Served => worker'[q] = worker[q]
      BY <3>1
    <3>3. \A d \in Clients : pid[d] \in Pids \cup {0}
      OBVIOUS
    <3>4. QED BY <3>1, <3>2, <3>3
  <2>2. CASE TakeLock(p) BY <2>2 DEF TakeLock, Move
  <2>3. CASE LaunchFails(p) BY <2>3 DEF LaunchFails, Move
  <2>9. QED BY <1>12, <2>1, <2>2, <2>3
<1>13. ASSUME NEW p \in Pids,
         MarkReady(p) \/ StopServing(p) \/ Drain(p)
      PROVE  Stopping'
  <2>1. CASE MarkReady(p) BY <2>1 DEF MarkReady, Move
  <2>2. CASE StopServing(p) BY <2>2 DEF StopServing, Move
  <2>3. CASE Drain(p) BY <2>3 DEF Drain, Move
  <2>9. QED BY <1>13, <2>1, <2>2, <2>3
<1>14. ASSUME NEW p \in Pids,
         UnlinkReady(p) \/ UnlinkStop(p) \/ Leave(p)
      PROVE  Stopping'
  <2>1. CASE UnlinkReady(p) BY <2>1 DEF UnlinkReady, Move
  <2>2. CASE UnlinkStop(p) BY <2>2 DEF UnlinkStop, Move
  <2>3. CASE Leave(p) BY <2>3 DEF Leave, Move
  <2>9. QED BY <1>14, <2>1, <2>2, <2>3
<1>15. ASSUME NEW p \in Pids, DieAlone(p) PROVE Stopping'
  BY <1>15 DEF DieAlone, Die
<1>16. ASSUME NEW p \in Pids,
         StartJob(p) \/ EndJob(p) \/ Exit(p)
      PROVE  Stopping'
  <2>1. CASE StartJob(p) BY <2>1 DEF StartJob
  <2>2. CASE EndJob(p) BY <2>2 DEF EndJob
  <2>3. CASE Exit(p) BY <2>3 DEF Exit, Move
  <2>9. QED BY <1>16, <2>1, <2>2, <2>3
<1>17. CASE UNCHANGED vars BY <1>17 DEF vars
<1>18. QED
  BY <1>1, <1>2, <1>3, <1>4, <1>5, <1>6, <1>7, <1>8, <1>9, <1>10, <1>11, <1>12, <1>13, <1>14, <1>15, <1>16, <1>17
     DEF Next, Continue, Ensure, Stop, Work, Job

-----------------------------------------------------------------------------
(* How many processes there are.                                           *)

\* A process that only finishes a job is not counted.
Active == Live \ {"lingering"}
Running == {p \in Pids : worker[p] \in Active}
Count == Cardinality(Running)

\* The start lock is held from the probe that found nobody to the return.
Cleaning == {"clean_ready", "clean_stop", "spawn"}
Starting == {"await", "terminate", "reap"}
Serial ==
  \A c \in Clients :
    \/ pc[c] \in Cleaning \cup Starting
    \/ pc[c] = "existing" /\ call[c] = "ensure"
    => startLock = c

\* A worker holds the lock, so no other front end gets to start one.
Guarded == \E p \in Pids : worker[p] \in Inside

\* A start waits for its process, and no ready file has shown up since it
\* removed the last one.
Awaited(c) == pc[c] \in Starting /\ worker[pid[c]] \notin Retired /\ ready = 0

\* Where the next process may be started, every other one was left by a crash.
\* A ready file that appears after a start removed the last one costs the
\* process that wrote it.
Few ==
  /\ Count <= 1 + crashes
  /\ ~Guarded /\ (\A c \in Clients : ~Awaited(c)) => Count <= crashes
  /\ \A c \in Clients : pc[c] \in Cleaning => Count <= crashes
  /\ \A c \in Clients :
       pc[c] \in Cleaning \ {"clean_ready"} /\ ready # 0 /\ ~Guarded => Count < crashes

\* The processes that run are finitely many.
LEMMA RunningFinite == ASSUME TypeOK PROVE IsFiniteSet(Running) /\ Count \in Nat
PROOF
<1>1. IsFiniteSet(Pids)
  BY SupervisorAssumption, FS_Interval DEF Pids
<1>2. Running \subseteq Pids
  BY DEF Running
<1>3. QED BY <1>1, <1>2, FS_Subset, FS_CardinalityType DEF Count

\* A process that ends is one less.
LEMMA Ends ==
  ASSUME TypeOK, NEW p \in Running, Running' = Running \ {p}
  PROVE  Count' = Count - 1 /\ Count \in Nat /\ Count' \in Nat
PROOF
<1>1. Count \in Nat /\ Cardinality(Running \ {p}) = Count - 1
  BY RunningFinite, FS_RemoveElement DEF Count
<1>2. Cardinality(Running \ {p}) \in Nat
  BY RunningFinite, FS_RemoveElement, FS_CardinalityType
<1>3. QED BY <1>1, <1>2 DEF Count

\* A process that starts is one more.
LEMMA Starts ==
  ASSUME TypeOK, NEW p, p \notin Running, Running' = Running \cup {p}
  PROVE  Count' = Count + 1 /\ Count \in Nat
PROOF BY RunningFinite, FS_AddElement DEF Count

\* A process that goes on is counted as before.
LEMMA Goes ==
  ASSUME Running' = Running
  PROVE  Count' = Count
PROOF BY DEF Count

\* Starts are serialised.
LEMMA SerialStep ==
  ASSUME TypeOK, Serial, [Next]_vars
  PROVE  Serial'
PROOF
<1> USE SupervisorAssumption DEF TypeOK, Serial, Cleaning, Starting, clientVars, lockVars, fileVars, workerVars, boundVars
<1>1. ASSUME NEW c \in Clients,
         CallEnsure(c) \/ CallHealth(c) \/ CallStop(c)
      PROVE  Serial'
  <2>1. CASE CallEnsure(c) BY <2>1 DEF CallEnsure, Enter, Goto
  <2>2. CASE CallHealth(c) BY <2>2 DEF CallHealth, Enter, Goto
  <2>3. CASE CallStop(c) BY <2>3 DEF CallStop, Enter, Goto
  <2>9. QED BY <1>1, <2>1, <2>2, <2>3
<1>2. ASSUME NEW c \in Clients, Probe(c) PROVE Serial'
  BY <1>2 DEF Probe
<1>3. ASSUME NEW c \in Clients, Release(c) PROVE Serial'
  BY <1>3 DEF Release, Return, Quit, Goto
<1>4. ASSUME NEW c \in Clients,
         TakeStartLock(c) \/ CleanReady(c) \/ CleanStop(c)
      PROVE  Serial'
  <2>1. CASE TakeStartLock(c) BY <2>1 DEF TakeStartLock, Goto
  <2>2. CASE CleanReady(c) BY <2>2 DEF CleanReady, Goto
  <2>3. CASE CleanStop(c) BY <2>3 DEF CleanStop, Goto
  <2>9. QED BY <1>4, <2>1, <2>2, <2>3
<1>5. ASSUME NEW c \in Clients,
         FindReady(c) \/ GiveUpExisting(c) \/ SpawnFails(c) \/ SeeReady(c) \/ SeeExit(c)
      PROVE  Serial'
  <2>1. CASE FindReady(c) BY <2>1 DEF FindReady, Return, Quit, Goto
  <2>2. CASE GiveUpExisting(c) BY <2>2 DEF GiveUpExisting, Return, Quit, Goto
  <2>3. CASE SpawnFails(c) BY <2>3 DEF SpawnFails, Return, Quit, Goto
  <2>4. CASE SeeReady(c) BY <2>4 DEF SeeReady, Return, Quit, Goto
  <2>5. CASE SeeExit(c) BY <2>5 DEF SeeExit, Return, Quit, Goto
  <2>9. QED BY <1>5, <2>1, <2>2, <2>3, <2>4, <2>5
<1>6. ASSUME NEW c \in Clients, Spawn(c) PROVE Serial'
  BY <1>6 DEF Spawn, Goto
<1>7. ASSUME NEW c \in Clients,
         GiveUpStart(c) \/ Terminate(c)
      PROVE  Serial'
  <2>1. CASE GiveUpStart(c) BY <2>1 DEF GiveUpStart, Goto
  <2>2. CASE Terminate(c) BY <2>2 DEF Terminate, Die, Goto
  <2>9. QED BY <1>7, <2>1, <2>2
<1>8. ASSUME NEW c \in Clients, Kill(c) PROVE Serial'
  BY <1>8 DEF Kill, Die
<1>9. ASSUME NEW c \in Clients,
         ReadReady(c) \/ RequestStop(c) \/ GiveUpStop(c)
      PROVE  Serial'
  <2>1. CASE ReadReady(c) BY <2>1 DEF ReadReady, Quit, Goto
  <2>2. CASE RequestStop(c) BY <2>2 DEF RequestStop, Goto
  <2>3. CASE GiveUpStop(c) BY <2>3 DEF GiveUpStop, Quit, Goto
  <2>9. QED BY <1>9, <2>1, <2>2, <2>3
<1>10. ASSUME NEW c \in Clients,
         SweepReady(c) \/ SweepStop(c)
      PROVE  Serial'
  <2>1. CASE SweepReady(c) BY <2>1 DEF SweepReady, Goto
  <2>2. CASE SweepStop(c) BY <2>2 DEF SweepStop, Quit, Goto
  <2>9. QED BY <1>10, <2>1, <2>2
<1>11. ASSUME NEW c \in Clients,
         BackoffEnds(c) \/ CrashClient(c)
      PROVE  Serial'
  <2>1. CASE BackoffEnds(c) BY <2>1 DEF BackoffEnds, Goto
  <2>2. CASE CrashClient(c) BY <2>2 DEF CrashClient, Quit, Goto
  <2>9. QED BY <1>11, <2>1, <2>2
<1>12. ASSUME NEW p \in Pids,
         ReadBootstrap(p) \/ TakeLock(p) \/ LaunchFails(p)
      PROVE  Serial'
  <2>1. CASE ReadBootstrap(p) BY <2>1 DEF ReadBootstrap, Move
  <2>2. CASE TakeLock(p) BY <2>2 DEF TakeLock, Move
  <2>3. CASE LaunchFails(p) BY <2>3 DEF LaunchFails, Move
  <2>9. QED BY <1>12, <2>1, <2>2, <2>3
<1>13. ASSUME NEW p \in Pids,
         MarkReady(p) \/ StopServing(p) \/ Drain(p)
      PROVE  Serial'
  <2>1. CASE MarkReady(p) BY <2>1 DEF MarkReady, Move
  <2>2. CASE StopServing(p) BY <2>2 DEF StopServing, Move
  <2>3. CASE Drain(p) BY <2>3 DEF Drain, Move
  <2>9. QED BY <1>13, <2>1, <2>2, <2>3
<1>14. ASSUME NEW p \in Pids,
         UnlinkReady(p) \/ UnlinkStop(p) \/ Leave(p)
      PROVE  Serial'
  <2>1. CASE UnlinkReady(p) BY <2>1 DEF UnlinkReady, Move
  <2>2. CASE UnlinkStop(p) BY <2>2 DEF UnlinkStop, Move
  <2>3. CASE Leave(p) BY <2>3 DEF Leave, Move
  <2>9. QED BY <1>14, <2>1, <2>2, <2>3
<1>15. ASSUME NEW p \in Pids, DieAlone(p) PROVE Serial'
  BY <1>15 DEF DieAlone, Die
<1>16. ASSUME NEW p \in Pids,
         StartJob(p) \/ EndJob(p) \/ Exit(p)
      PROVE  Serial'
  <2>1. CASE StartJob(p) BY <2>1 DEF StartJob
  <2>2. CASE EndJob(p) BY <2>2 DEF EndJob
  <2>3. CASE Exit(p) BY <2>3 DEF Exit, Move
  <2>9. QED BY <1>16, <2>1, <2>2, <2>3
<1>17. CASE UNCHANGED vars BY <1>17 DEF vars
<1>18. QED
  BY <1>1, <1>2, <1>3, <1>4, <1>5, <1>6, <1>7, <1>8, <1>9, <1>10, <1>11, <1>12, <1>13, <1>14, <1>15, <1>16, <1>17
     DEF Next, Continue, Ensure, Stop, Work, Job

\* A step of a front end that starts and ends no process.
LEMMA Calls ==
  ASSUME TypeOK, worker' = worker
  PROVE  /\ Count' = Count /\ Count \in Nat /\ Guarded' = Guarded
         /\ \A c \in Clients : Awaited(c)' = (pc'[c] \in Starting /\ worker[pid'[c]] \notin Retired /\ ready' = 0)
PROOF
<1>1. Running' = Running
  BY DEF Running
<1>2. Count' = Count /\ Count \in Nat
  BY <1>1, Goes, RunningFinite
<1>3. QED BY <1>2 DEF Guarded, Awaited

\* A step of a process that goes on: it keeps the lock it has.
LEMMA Works ==
  ASSUME TypeOK, NEW p \in Pids, NEW to \in Active, worker[p] \in Active,
         worker' = [worker EXCEPT ![p] = to], worker[p] \in Inside => to \in Inside,
         UNCHANGED <<pc, pid, crashes>>, Few,
         \/ ready' = ready
         \/ ready' = 0
         \/ to \in Inside
  PROVE  Few'
PROOF
<1>1. \A q \in Pids : worker'[q] = IF q = p THEN to ELSE worker[q]
  BY DEF TypeOK
<1>2. Running' = Running
  BY <1>1 DEF Running
<1>3. Count' = Count /\ Count \in Nat
  BY <1>2, Goes, RunningFinite
<1>4. Guarded => Guarded'
  BY <1>1 DEF Guarded
<1>5. to \in Inside => Guarded'
  BY <1>1 DEF Guarded
<1>6. ASSUME ~Guarded', NEW c \in Clients, Awaited(c) PROVE Awaited(c)'
  <2>1. ready' = 0
    BY <1>5, <1>6 DEF Awaited
  <2>2. worker'[pid[c]] \notin Retired
    BY <1>1, <1>6 DEF Awaited, TypeOK, Active, Live, Gone, Retired
  <2>3. QED BY <1>6, <2>1, <2>2 DEF Awaited
<1>7. ~Guarded' /\ ready' # 0 => ~Guarded /\ ready # 0
  BY <1>4, <1>5
<1>8. QED BY <1>3, <1>4, <1>6, <1>7 DEF Few

\* A process that ends, or has only a job left, makes room for another.
LEMMA Falls ==
  ASSUME TypeOK, NEW p \in Pids, NEW to \in Retired, worker[p] \in Active,
         worker' = [worker EXCEPT ![p] = to], UNCHANGED <<pc, crashes>>, Few
  PROVE  Few'
PROOF
<1>1. \A q \in Pids : worker'[q] = IF q = p THEN to ELSE worker[q]
  BY DEF TypeOK
<1>2. p \in Running /\ Running' = Running \ {p}
  BY <1>1 DEF Running, Active, Live, Retired
<1>3. Count' = Count - 1 /\ Count \in Nat /\ Count' \in Nat
  BY <1>2, Ends
<1>4. crashes \in Nat
  BY SupervisorAssumption DEF TypeOK
<1>5. QED BY <1>3, <1>4 DEF Few

\* The end of a process that had only a job left changes nothing.
LEMMA Fades ==
  ASSUME TypeOK, NEW p \in Pids, NEW to \in Gone, worker[p] = "lingering",
         worker' = [worker EXCEPT ![p] = to],
         \A c \in Clients : pc'[c] = pc[c] \/ {pc[c], pc'[c]} \subseteq Starting,
         UNCHANGED <<pid, ready, crashes>>, Few
  PROVE  Few'
PROOF
<1>1. \A q \in Pids : worker'[q] = IF q = p THEN to ELSE worker[q]
  BY DEF TypeOK
<1>2. Running' = Running
  BY <1>1 DEF Running, Active, Live, Gone
<1>3. Count' = Count /\ Count \in Nat
  BY <1>2, Goes, RunningFinite
<1>4. Guarded' = Guarded
  BY <1>1 DEF Guarded, Inside, Gone
<1>5. \A c \in Clients : worker'[pid[c]] \in Retired <=> worker[pid[c]] \in Retired
  BY <1>1 DEF TypeOK, Retired, Gone
<1>6. \A c \in Clients : Awaited(c) => Awaited(c)'
  BY <1>5 DEF Awaited
<1>7. \A c \in Clients : pc'[c] \in Cleaning => pc[c] = pc'[c]
  BY DEF Cleaning, Starting
<1>8. QED BY <1>3, <1>4, <1>6, <1>7 DEF Few

\* One step starts at most the process that nobody else can start.
LEMMA FewStep ==
  ASSUME TypeOK, Children, Workers, Serial, Few, [Next]_vars
  PROVE  Few'
PROOF
<1> USE SupervisorAssumption DEF TypeOK, Cleaning, Starting, ClientState, clientVars, lockVars, fileVars, workerVars, boundVars
<1>0. crashes \in Nat
  OBVIOUS
<1>1. ASSUME NEW c \in Clients,
         CallEnsure(c) \/ CallHealth(c) \/ CallStop(c)
      PROVE  Few'
  <2>1. CASE CallEnsure(c)
    <3>1. worker' = worker
      BY <2>1 DEF CallEnsure, Enter, Goto
    <3>2. QED BY <1>0, <2>1, <3>1, Calls DEF Few, Awaited, CallEnsure, Enter, Goto
  <2>2. CASE CallHealth(c)
    <3>1. worker' = worker
      BY <2>2 DEF CallHealth, Enter, Goto
    <3>2. QED BY <1>0, <2>2, <3>1, Calls DEF Few, Awaited, CallHealth, Enter, Goto
  <2>3. CASE CallStop(c)
    <3>1. worker' = worker
      BY <2>3 DEF CallStop, Enter, Goto
    <3>2. QED BY <1>0, <2>3, <3>1, Calls DEF Few, Awaited, CallStop, Enter, Goto
  <2>9. QED BY <1>1, <2>1, <2>2, <2>3
<1>2. ASSUME NEW c \in Clients,
         Probe(c) \/ TakeStartLock(c) \/ CleanReady(c) \/ CleanStop(c)
      PROVE  Few'
  <2>1. CASE Probe(c)
    <3>1. worker' = worker
      BY <2>1 DEF Probe
    <3>2. QED BY <1>0, <2>1, <3>1, Calls DEF Few, Awaited, Probe
  <2>2. CASE TakeStartLock(c)
    <3>1. worker' = worker
      BY <2>2 DEF TakeStartLock, Goto
    <3>2. QED BY <1>0, <2>2, <3>1, Calls DEF Few, Awaited, TakeStartLock, Goto
  <2>3. CASE CleanReady(c)
    <3>1. worker' = worker
      BY <2>3 DEF CleanReady, Goto
    <3>2. QED BY <1>0, <2>3, <3>1, Calls DEF Few, Awaited, CleanReady, Goto
  <2>4. CASE CleanStop(c)
    <3>1. worker' = worker
      BY <2>4 DEF CleanStop, Goto
    <3>2. QED BY <1>0, <2>4, <3>1, Calls DEF Few, Awaited, CleanStop, Goto
  <2>9. QED BY <1>2, <2>1, <2>2, <2>3, <2>4
<1>3. ASSUME NEW c \in Clients,
         FindReady(c) \/ GiveUpExisting(c) \/ SpawnFails(c)
      PROVE  Few'
  <2>1. CASE FindReady(c)
    <3>1. worker' = worker
      BY <2>1 DEF FindReady, Return, Quit, Goto
    <3>2. QED BY <1>0, <2>1, <3>1, Calls DEF Few, Awaited, FindReady, Return, Quit, Goto
  <2>2. CASE GiveUpExisting(c)
    <3>1. worker' = worker
      BY <2>2 DEF GiveUpExisting, Return, Quit, Goto
    <3>2. QED BY <1>0, <2>2, <3>1, Calls DEF Few, Awaited, GiveUpExisting, Return, Quit, Goto
  <2>3. CASE SpawnFails(c)
    <3>1. worker' = worker
      BY <2>3 DEF SpawnFails, Return, Quit, Goto
    <3>2. QED BY <1>0, <2>3, <3>1, Calls DEF Few, Awaited, SpawnFails, Return, Quit, Goto
  <2>9. QED BY <1>3, <2>1, <2>2, <2>3
<1>4. ASSUME NEW c \in Clients,
         SeeReady(c) \/ SeeExit(c) \/ GiveUpStart(c) \/ Terminate(c)
      PROVE  Few'
  <2>1. CASE SeeReady(c)
    <3>1. worker' = worker
      BY <2>1 DEF SeeReady, Fits, Return, Quit, Goto
    <3>2. QED BY <1>0, <2>1, <3>1, Calls DEF Few, Awaited, SeeReady, Fits, Return, Quit, Goto
  <2>2. CASE SeeExit(c)
    <3>1. worker' = worker
      BY <2>2 DEF SeeExit, Return, Quit, Goto
    <3>2. QED BY <1>0, <2>2, <3>1, Calls DEF Few, Awaited, Retired, SeeExit, Return, Quit, Goto
  <2>3. CASE GiveUpStart(c)
    <3>1. worker' = worker
      BY <2>3 DEF GiveUpStart, Goto
    <3>2. QED BY <1>0, <2>3, <3>1, Calls DEF Few, Awaited, GiveUpStart, Goto
  <2>4. CASE Terminate(c)
    <3>1. CASE worker' = worker
      BY <1>0, <2>4, <3>1, Calls DEF Few, Awaited, Terminate, Goto
    <3>2. CASE worker[pid[c]] = "lingering" /\ worker' = [worker EXCEPT ![pid[c]] = "dead"]
      <4>1. pid[c] \in Pids
        BY <2>4 DEF Terminate, Children
      <4>2. \A d \in Clients : pc'[d] = pc[d] \/ {pc[d], pc'[d]} \subseteq Starting
        BY <2>4 DEF Terminate, Goto
      <4>3. UNCHANGED <<pid, ready, crashes>>
        BY <2>4 DEF Terminate
      <4>4. QED BY <3>2, <4>1, <4>2, <4>3, Fades DEF Gone
    <3>3. QED BY <2>4, <3>1, <3>2 DEF Terminate, Die
  <2>9. QED BY <1>4, <2>1, <2>2, <2>3, <2>4
<1>5. ASSUME NEW c \in Clients,
         ReadReady(c) \/ RequestStop(c) \/ GiveUpStop(c) \/ SweepReady(c) \/ SweepStop(c)
      PROVE  Few'
  <2>1. CASE ReadReady(c)
    <3>1. worker' = worker
      BY <2>1 DEF ReadReady, Quit, Goto
    <3>2. QED BY <1>0, <2>1, <3>1, Calls DEF Few, Awaited, ReadReady, Quit, Goto
  <2>2. CASE RequestStop(c)
    <3>1. worker' = worker
      BY <2>2 DEF RequestStop, Goto
    <3>2. QED BY <1>0, <2>2, <3>1, Calls DEF Few, Awaited, RequestStop, Goto
  <2>3. CASE GiveUpStop(c)
    <3>1. worker' = worker
      BY <2>3 DEF GiveUpStop, Quit, Goto
    <3>2. QED BY <1>0, <2>3, <3>1, Calls DEF Few, Awaited, GiveUpStop, Quit, Goto
  <2>4. CASE SweepReady(c)
    <3>1. worker' = worker
      BY <2>4 DEF SweepReady, Goto
    <3>2. QED BY <1>0, <2>4, <3>1, Calls DEF Few, Awaited, SweepReady, Goto
  <2>5. CASE SweepStop(c)
    <3>1. worker' = worker
      BY <2>5 DEF SweepStop, Quit, Goto
    <3>2. QED BY <1>0, <2>5, <3>1, Calls DEF Few, Awaited, SweepStop, Quit, Goto
  <2>9. QED BY <1>5, <2>1, <2>2, <2>3, <2>4, <2>5
<1>6. ASSUME NEW c \in Clients,
         BackoffEnds(c) \/ CrashClient(c)
      PROVE  Few'
  <2>1. CASE BackoffEnds(c)
    <3>1. worker' = worker
      BY <2>1 DEF BackoffEnds, Goto
    <3>2. QED BY <1>0, <2>1, <3>1, Calls DEF Few, Awaited, BackoffEnds, Goto
  <2>2. CASE CrashClient(c)
    <3>1. worker' = worker
      BY <2>2 DEF CrashClient, Quit, Goto
    <3>2. QED BY <1>0, <2>2, <3>1, Calls DEF Few, Awaited, CrashClient, Quit, Goto
  <2>9. QED BY <1>6, <2>1, <2>2
<1>7. ASSUME NEW c \in Clients, Release(c) PROVE Few'
  <2>1. worker' = worker
    BY <1>7 DEF Release
  <2>2. CASE pc[c] = "existing" /\ call[c] = "ensure"
    <3>1. ~Guarded
      BY <1>7 DEF Release, Guarded, Workers, OneWorker, Pids
    <3>2. \A d \in Clients : pc[d] \notin Cleaning \cup Starting
      BY <2>2 DEF Serial
    <3>3. Count <= crashes
      BY <3>1, <3>2 DEF Few, Awaited
    <3>4. QED BY <1>0, <1>7, <2>1, <2>2, <3>1, <3>2, <3>3, Calls DEF Few, Awaited, Release, Goto
  <2>3. CASE ~(pc[c] = "existing" /\ call[c] = "ensure")
    BY <1>0, <1>7, <2>1, <2>3, Calls DEF Few, Awaited, Release, Return, Quit, Goto
  <2>4. QED BY <2>2, <2>3
<1>8. ASSUME NEW c \in Clients, Spawn(c) PROVE Few'
  <2> DEFINE p == started + 1
  <2>1. /\ p \in Pids /\ worker' = [worker EXCEPT ![p] = "boot"] /\ worker[p] = "none"
        /\ pc[c] = "spawn" /\ pc' = [pc EXCEPT ![c] = "await"] /\ pid' = [pid EXCEPT ![c] = p]
        /\ UNCHANGED <<ready, crashes>>
    BY <1>8 DEF Spawn, Goto, Workers, Fresh, Pids
  <2>2. \A q \in Pids : worker'[q] = IF q = p THEN "boot" ELSE worker[q]
    BY <2>1
  <2>3. p \notin Running /\ Running' = Running \cup {p}
    BY <2>1, <2>2 DEF Running, Active, Live, WorkerState, Gone
  <2>4. Count' = Count + 1 /\ Count \in Nat
    BY <2>3, Starts
  <2>5. Guarded' = Guarded
    BY <2>1, <2>2 DEF Guarded, Inside
  <2>6. ready = 0 => Awaited(c)'
    BY <2>1, <2>2 DEF Awaited, Gone, Retired
  <2>7. \A d \in Clients : d # c => pc[d] \notin Cleaning
    BY <2>1 DEF Serial
  <2> HIDE DEF p
  <2>8. QED BY <1>0, <2>1, <2>4, <2>5, <2>6, <2>7 DEF Few
<1>9. ASSUME NEW c \in Clients, Kill(c) PROVE Few'
  <2>1. pid[c] \in Pids
    BY <1>9 DEF Kill, Children
  <2>2. /\ worker[pid[c]] \in Live /\ worker' = [worker EXCEPT ![pid[c]] = "dead"]
        /\ UNCHANGED <<pc, pid, ready, crashes>>
    BY <1>9 DEF Kill, Die
  <2>3. CASE worker[pid[c]] = "lingering"
    BY <2>1, <2>2, <2>3, Fades DEF Gone
  <2>4. CASE worker[pid[c]] # "lingering"
    BY <2>1, <2>2, <2>4, Falls DEF Gone, Retired, Active
  <2>5. QED BY <2>3, <2>4
<1>10. ASSUME NEW p \in Pids, ReadBootstrap(p) PROVE Few'
  <2>1. worker[p] = "boot" /\ UNCHANGED <<pc, pid, crashes, ready>>
    BY <1>10 DEF ReadBootstrap, Move
  <2>2. CASE worker' = [worker EXCEPT ![p] = "waiting"]
    BY <2>1, <2>2, Works DEF Active, Live, WorkerState, Gone, Inside
  <2>3. CASE worker' = [worker EXCEPT ![p] = "left"]
    BY <2>1, <2>3, Falls DEF Active, Live, WorkerState, Gone, Retired
  <2>4. QED BY <1>10, <2>2, <2>3 DEF ReadBootstrap, Move
<1>11. ASSUME NEW p \in Pids,
         TakeLock(p) \/ LaunchFails(p) \/ MarkReady(p) \/ StopServing(p)
      PROVE  Few'
  <2>1. CASE TakeLock(p)
    BY <2>1, Works DEF TakeLock, Move, Active, Live, WorkerState, Gone, Inside
  <2>2. CASE LaunchFails(p)
    BY <2>2, Works DEF LaunchFails, Move, Active, Live, WorkerState, Gone, Inside
  <2>3. CASE MarkReady(p)
    BY <2>3, Works DEF MarkReady, Move, Active, Live, WorkerState, Gone, Inside
  <2>4. CASE StopServing(p)
    BY <2>4, Works DEF StopServing, Move, Active, Live, WorkerState, Gone, Inside
  <2>9. QED BY <1>11, <2>1, <2>2, <2>3, <2>4
<1>12. ASSUME NEW p \in Pids,
         Drain(p) \/ UnlinkReady(p) \/ UnlinkStop(p)
      PROVE  Few'
  <2>1. CASE Drain(p)
    BY <2>1, Works DEF Drain, Move, Active, Live, WorkerState, Gone, Inside
  <2>2. CASE UnlinkReady(p)
    BY <2>2, Works DEF UnlinkReady, Move, Active, Live, WorkerState, Gone, Inside
  <2>3. CASE UnlinkStop(p)
    BY <2>3, Works DEF UnlinkStop, Move, Active, Live, WorkerState, Gone, Inside
  <2>9. QED BY <1>12, <2>1, <2>2, <2>3
<1>13. ASSUME NEW p \in Pids, Leave(p) PROVE Few'
  BY <1>13, Falls DEF Leave, Move, Active, Live, WorkerState, Gone, Retired
<1>14. ASSUME NEW p \in Pids, DieAlone(p) PROVE Few'
  <2>1. /\ worker[p] \in Live /\ worker' = [worker EXCEPT ![p] = "dead"]
        /\ UNCHANGED <<pc, pid, ready, crashes>>
    BY <1>14 DEF DieAlone, Die
  <2>2. CASE worker[p] = "lingering"
    BY <2>1, <2>2, Fades DEF Gone
  <2>3. CASE worker[p] # "lingering"
    BY <2>1, <2>3, Falls DEF Gone, Retired, Active
  <2>4. QED BY <2>2, <2>3
<1>15. ASSUME NEW p \in Pids, StartJob(p) \/ EndJob(p) PROVE Few'
  <2>1. worker' = worker /\ UNCHANGED <<pc, pid, ready, crashes>>
    BY <1>15 DEF StartJob, EndJob
  <2>2. QED BY <2>1, Calls DEF Few, Awaited
<1>16. ASSUME NEW p \in Pids, Exit(p) PROVE Few'
  BY <1>16, Fades DEF Exit, Move, Gone
<1>17. CASE UNCHANGED vars
  <2>1. worker' = worker
    BY <1>17 DEF vars
  <2>2. QED BY <1>17, <2>1, Calls DEF vars, Few, Awaited
<1>18. QED
  BY <1>1, <1>2, <1>3, <1>4, <1>5, <1>6, <1>7, <1>8, <1>9, <1>10, <1>11, <1>12, <1>13, <1>14, <1>15, <1>16, <1>17
     DEF Next, Continue, Ensure, Stop, Work, Job

-----------------------------------------------------------------------------
IInv == TypeOK /\ Children /\ Workers /\ ReadyHonest /\ Stopping /\ Serial /\ Few

\* The invariant holds in every reachable state.
THEOREM Invariant == Spec => []IInv
PROOF
<1>1. Init => IInv
  <2>1. Init => TypeOK /\ Children /\ Workers /\ ReadyHonest /\ Stopping
    BY SupervisorAssumption
    DEF Init, TypeOK, Children, Workers, OneWorker, Fresh, ReadyHonest, Stopping,
        Targets, StopStops, Inside, Pids, ClientState, WorkerState
  <2>2. Init => Serial
    BY DEF Init, Serial, Cleaning, Starting
  <2>3. Init => Running = {}
    BY DEF Init, Running, Active, Live
  <2>4. Init => Count = 0 /\ crashes = 0
    BY <2>3, FS_EmptySet DEF Count, Init
  <2>5. Init => Few
    BY <2>4 DEF Init, Few, Cleaning
  <2>6. QED BY <2>1, <2>2, <2>5 DEF IInv
<1>2. IInv /\ [Next]_vars => IInv'
  BY TypeStep, ChildStep, WorkerStep, ReadyStep, StopStep, SerialStep, FewStep DEF IInv
<1>3. QED BY <1>1, <1>2, PTL DEF Spec

\* The state keeps its types.
THEOREM TypeCorrect == Spec => []TypeOK
PROOF BY Invariant, PTL DEF IInv

\* However many front ends start, stop and die, one worker at most serves the
\* queues; a job runs elsewhere only in a process that has given its drain up.
THEOREM AtMostOneWorker == Spec => []OneWorker
PROOF BY Invariant, PTL DEF IInv, Workers

\* A ready file names a process that serves, or that can no longer mislead.
THEOREM ReadinessHonest == Spec => []ReadyHonest
PROOF BY Invariant, PTL DEF IInv

\* A stop that is about to return has seen its worker leave the queues and the
\* lock: the process has ended, or only finishes the job it could not interrupt.
THEOREM StopMeansStopped == Spec => []StopStops
PROOF BY Invariant, PTL DEF IInv, Stopping

\* However starts, failures and crashes interleave, no more processes boot, wait
\* or serve than one and those that interrupted front ends have left behind.
THEOREM ProcessesFew == Spec => []FewWorkers
PROOF
<1>1. IInv => FewWorkers
  <2>1. Running = {p \in Pids : worker[p] \in Live /\ worker[p] # "lingering"}
    BY DEF Running, Active
  <2>2. QED BY <2>1 DEF IInv, Few, Count, FewWorkers
<1>2. QED BY <1>1, Invariant, PTL
=============================================================================
