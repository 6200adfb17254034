--------------------------- MODULE WorkerSupervisor ---------------------------
(***************************************************************************)
(* The local worker and the front ends that start, probe and stop it:      *)
(* LocalWorkerSupervisor of infrastructure/local_worker.py and the worker  *)
(* process of workflow_worker.py.                                          *)
(*                                                                         *)
(* They share a directory and nothing else: a start lock and a worker      *)
(* lock, which the operating system frees with the process that holds      *)
(* them, and a ready file, a stop file and one-use bootstrap files, which  *)
(* outlive it.  Every probe takes the worker lock for a moment.  Each file *)
(* operation is a step; a deadline may pass before any of them.            *)
(*                                                                         *)
(* A worker runs its jobs in threads that nobody can interrupt.  It waits  *)
(* 30 seconds for them when it stops, then cleans up and frees the lock    *)
(* with a job still running; the process goes on until the job ends.       *)
(***************************************************************************)
EXTENDS Integers, FiniteSets

CONSTANTS
  Clients,      \* front ends, one supervisor object each
  Profiles,     \* execution settings, as their fingerprints
  ProfileOf,    \* the settings of a front end
  MaxStarts,    \* bound: worker processes started; they are numbered
  MaxCalls,     \* bound: calls of the supervisors' operations
  MaxCrashes,   \* bound: front ends that die or are interrupted in a call
  MaxDeaths,    \* bound: worker processes that die
  None          \* nobody

ASSUME SupervisorAssumption ==
  /\ MaxStarts \in Nat /\ MaxCalls \in Nat /\ MaxCrashes \in Nat /\ MaxDeaths \in Nat
  /\ ProfileOf \in [Clients -> Profiles]
  /\ Clients \cap Nat = {} /\ None \notin Clients /\ None \notin Nat

Pids == 1..MaxStarts

VARIABLES
  pc,          \* where each front end is in its call
  call,        \* the operation it performs
  pid,         \* the process it started, or read in the ready file; 0 for none
  backoff,     \* supervisors whose last start failed less than 5 seconds ago
  startLock,   \* holder of worker-<version>-start.lock
  workerLock,  \* holder of worker-<version>.lock
  ready,       \* the process the ready file names, 0 if there is no file
  stopFile,    \* the process the stop file names, 0 if there is no file
  bootstraps,  \* processes whose bootstrap file exists
  worker,      \* where each worker process is
  profile,     \* the settings it was started with
  signalled,   \* processes that were sent SIGTERM and have not ended
  jobs,        \* processes with a job thread that runs
  started, calls, crashes, deaths

clientVars == <<pc, call, pid, backoff>>
lockVars == <<startLock, workerLock>>
fileVars == <<ready, stopFile, bootstraps>>
workerVars == <<worker, profile, signalled, jobs>>
boundVars == <<started, calls, crashes, deaths>>
vars == <<clientVars, lockVars, fileVars, workerVars, boundVars>>

ClientState ==
  {"idle",
   "startlock",                 \* ensure_running waits for the start lock
   "existing",                  \* _wait_for_existing_worker
   "clean_ready", "clean_stop", \* the files of a former worker are removed
   "spawn", "await",            \* Popen, _wait_for_worker
   "terminate", "reap",         \* _terminate
   "stop", "request", "poll",   \* stop: probe, stop file, wait for the lock
   "sweep_ready", "sweep_stop"} \* stop removes the files

WorkerState ==
  {"none",
   "boot",                \* reads its bootstrap file
   "waiting",             \* blocked on the worker lock
   "launching",           \* run_worker, up to mark_ready
   "serving",             \* the loop that looks at the stop file
   "draining",            \* DBOS.destroy
   "unready", "unstop",   \* removes the ready file, the stop file
   "leaving",             \* releases the worker lock
   "lingering",           \* main has returned; a job thread may go on
   "left", "dead"}        \* has ended by itself, was killed

Inside == {"launching", "serving", "draining", "unready", "unstop", "leaving"}
Gone == {"left", "dead"}
Live == WorkerState \ ({"none"} \cup Gone)
Retired == Gone \cup {"lingering"}
Probing == {"existing", "await", "stop", "poll"}

Init ==
  /\ pc = [c \in Clients |-> "idle"]
  /\ call = [c \in Clients |-> "none"]
  /\ pid = [c \in Clients |-> 0]
  /\ backoff = {}
  /\ startLock = None /\ workerLock = None
  /\ ready = 0 /\ stopFile = 0 /\ bootstraps = {}
  /\ worker = [p \in Pids |-> "none"]
  /\ profile = [p \in Pids |-> None]
  /\ signalled = {} /\ jobs = {}
  /\ started = 0 /\ calls = 0 /\ crashes = 0 /\ deaths = 0

-----------------------------------------------------------------------------
(* Calls and how they return.                                              *)

Goto(c, state) == pc' = [pc EXCEPT ![c] = state]

\* The locals of a call end with it.
Quit(c) ==
  /\ Goto(c, "idle")
  /\ call' = [call EXCEPT ![c] = "none"]
  /\ pid' = [pid EXCEPT ![c] = 0]

Enter(c, operation, state) ==
  /\ pc[c] = "idle" /\ calls < MaxCalls
  /\ Goto(c, state)
  /\ call' = [call EXCEPT ![c] = operation]
  /\ pid' = [pid EXCEPT ![c] = 0]
  /\ calls' = calls + 1
  /\ UNCHANGED <<backoff, lockVars, fileVars, workerVars, started, crashes, deaths>>

\* ensure_running raises at once while the supervisor backs off.
CallEnsure(c) == c \notin backoff /\ Enter(c, "ensure", "startlock")
CallHealth(c) == Enter(c, "health", "existing")
CallStop(c) == Enter(c, "stop", "stop")

BackoffEnds(c) ==
  /\ c \in backoff
  /\ backoff' = backoff \ {c}
  /\ UNCHANGED <<pc, call, pid, lockVars, fileVars, workerVars, boundVars>>

\* The call ends; ensure_running leaves the start lock and removes the
\* bootstrap file it wrote, and backs off if it failed.
Return(c, failed) ==
  /\ Quit(c)
  /\ startLock' = IF startLock = c THEN None ELSE startLock
  /\ backoff' = IF failed /\ call[c] = "ensure" THEN backoff \cup {c} ELSE backoff
  /\ bootstraps' = IF call[c] = "ensure" THEN bootstraps \ {pid[c]} ELSE bootstraps

\* The ready file is read; the settings in it may not be the caller's.
Fits(c) == ready # 0 /\ profile[ready] = ProfileOf[c]

LockedByOther(c) == workerLock \notin {None, c}

-----------------------------------------------------------------------------
(* ensure_running and health.                                              *)

TakeStartLock(c) ==
  /\ pc[c] = "startlock" /\ startLock = None
  /\ startLock' = c
  /\ bootstraps' = {}
  /\ Goto(c, "existing")
  /\ UNCHANGED <<call, pid, backoff, workerLock, ready, stopFile, workerVars, boundVars>>

\* worker_lock.acquire(timeout=0) succeeds.
Probe(c) ==
  /\ pc[c] \in Probing /\ workerLock = None
  /\ workerLock' = c
  /\ UNCHANGED <<clientVars, startLock, fileVars, workerVars, boundVars>>

\* Nobody held the lock: what the caller does after releasing it.
Release(c) ==
  /\ workerLock = c
  /\ workerLock' = None
  /\ \/ /\ pc[c] = "existing" /\ call[c] = "ensure"
        /\ Goto(c, "clean_ready")
        /\ UNCHANGED <<call, pid, startLock, backoff, bootstraps>>
     \/ /\ pc[c] = "existing" /\ call[c] = "health"
        /\ Return(c, TRUE)
     \/ /\ pc[c] = "await"
        /\ UNCHANGED <<pc, call, pid, startLock, backoff, bootstraps>>
     \/ /\ pc[c] \in {"stop", "poll"}
        /\ Goto(c, "sweep_ready")
        /\ UNCHANGED <<call, pid, startLock, backoff, bootstraps>>
  /\ UNCHANGED <<ready, stopFile, workerVars, boundVars>>

\* The lock is held and a ready file is there.
FindReady(c) ==
  /\ pc[c] = "existing" /\ LockedByOther(c) /\ ready # 0
  /\ Return(c, ~Fits(c))
  /\ UNCHANGED <<workerLock, ready, stopFile, workerVars, boundVars>>

GiveUpExisting(c) ==
  /\ pc[c] = "existing" /\ workerLock # c
  /\ Return(c, TRUE)
  /\ UNCHANGED <<workerLock, ready, stopFile, workerVars, boundVars>>

CleanReady(c) ==
  /\ pc[c] = "clean_ready"
  /\ ready' = 0
  /\ Goto(c, "clean_stop")
  /\ UNCHANGED <<call, pid, backoff, lockVars, stopFile, bootstraps, workerVars, boundVars>>

CleanStop(c) ==
  /\ pc[c] = "clean_stop"
  /\ stopFile' = 0
  /\ Goto(c, "spawn")
  /\ UNCHANGED <<call, pid, backoff, lockVars, ready, bootstraps, workerVars, boundVars>>

\* The bootstrap file is written and the process started.
Spawn(c) ==
  /\ pc[c] = "spawn" /\ started < MaxStarts
  /\ LET p == started + 1 IN
       /\ started' = p
       /\ pid' = [pid EXCEPT ![c] = p]
       /\ bootstraps' = bootstraps \cup {p}
       /\ worker' = [worker EXCEPT ![p] = "boot"]
       /\ profile' = [profile EXCEPT ![p] = ProfileOf[c]]
  /\ Goto(c, "await")
  /\ UNCHANGED <<call, backoff, lockVars, ready, stopFile, signalled, jobs, calls, crashes, deaths>>

SpawnFails(c) ==
  /\ pc[c] = "spawn"
  /\ Return(c, TRUE)
  /\ UNCHANGED <<workerLock, ready, stopFile, workerVars, boundVars>>

\* The worker lock is held and the ready file fits: whoever wrote it.
SeeReady(c) ==
  /\ pc[c] = "await" /\ LockedByOther(c) /\ Fits(c)
  /\ Return(c, FALSE)
  /\ UNCHANGED <<workerLock, ready, stopFile, workerVars, boundVars>>

\* The deadline passes, or the ready file shows other settings.
GiveUpStart(c) ==
  /\ pc[c] = "await" /\ workerLock # c
  /\ Goto(c, "terminate")
  /\ UNCHANGED <<call, pid, backoff, lockVars, fileVars, workerVars, boundVars>>

SeeExit(c) ==
  /\ pc[c] \in {"await", "terminate", "reap"} /\ workerLock # c
  /\ worker[pid[c]] \in Gone
  /\ Return(c, TRUE)
  /\ UNCHANGED <<workerLock, ready, stopFile, workerVars, boundVars>>

\* Mutant: a start that failed leaves its process alone.
AbandonStart(c) ==
  /\ pc[c] = "terminate"
  /\ Return(c, TRUE)
  /\ UNCHANGED <<workerLock, ready, stopFile, workerVars, boundVars>>

\* A process ends without running its finally blocks.
Die(p) ==
  /\ worker' = [worker EXCEPT ![p] = "dead"]
  /\ workerLock' = IF workerLock = p THEN None ELSE workerLock
  /\ jobs' = jobs \ {p}
  /\ signalled' = signalled \ {p}

\* SIGTERM ends a process that has restored the default handler.
Terminate(c) ==
  /\ pc[c] = "terminate" /\ worker[pid[c]] \in Live
  /\ \/ signalled' = signalled \cup {pid[c]} /\ UNCHANGED <<worker, workerLock, jobs>>
     \/ worker[pid[c]] = "lingering" /\ Die(pid[c])
  /\ Goto(c, "reap")
  /\ UNCHANGED <<call, pid, backoff, startLock, fileVars, profile, boundVars>>

Kill(c) ==
  /\ pc[c] = "reap" /\ worker[pid[c]] \in Live
  /\ Die(pid[c])
  /\ UNCHANGED <<clientVars, startLock, fileVars, profile, boundVars>>

-----------------------------------------------------------------------------
(* stop.                                                                   *)

\* Mutant: a missing ready file names no process.
ReadNothing(c) ==
  /\ pc[c] = "stop" /\ LockedByOther(c)
  /\ Goto(c, "request")
  /\ pid' = [pid EXCEPT ![c] = IF ready = 0 THEN None ELSE ready]
  /\ UNCHANGED <<call, backoff, lockVars, fileVars, workerVars, boundVars>>

\* Without a readable ready file the call fails.
ReadReady(c) ==
  /\ pc[c] = "stop" /\ LockedByOther(c)
  /\ \/ ready = 0 /\ Quit(c)
     \/ /\ ready # 0
        /\ Goto(c, "request")
        /\ pid' = [pid EXCEPT ![c] = ready]
        /\ call' = call
  /\ UNCHANGED <<backoff, lockVars, fileVars, workerVars, boundVars>>

RequestStop(c) ==
  /\ pc[c] = "request"
  /\ stopFile' = pid[c]
  /\ Goto(c, "poll")
  /\ UNCHANGED <<call, pid, backoff, lockVars, ready, bootstraps, workerVars, boundVars>>

\* Mutant: the deadline is taken for success.
PresumeStopped(c) ==
  /\ pc[c] = "poll" /\ workerLock # c
  /\ Goto(c, "sweep_ready")
  /\ UNCHANGED <<call, pid, backoff, lockVars, fileVars, workerVars, boundVars>>

\* Mutant: stop waits for as long as it takes.
WaitForever(c) == pc[c] = "poll" /\ UNCHANGED vars

\* 35 seconds have passed.
GiveUpStop(c) ==
  /\ pc[c] = "poll" /\ workerLock # c
  /\ Quit(c)
  /\ UNCHANGED <<backoff, lockVars, fileVars, workerVars, boundVars>>

SweepReady(c) ==
  /\ pc[c] = "sweep_ready"
  /\ ready' = 0
  /\ Goto(c, "sweep_stop")
  /\ UNCHANGED <<call, pid, backoff, lockVars, stopFile, bootstraps, workerVars, boundVars>>

SweepStop(c) ==
  /\ pc[c] = "sweep_stop"
  /\ stopFile' = 0
  /\ Quit(c)
  /\ UNCHANGED <<backoff, lockVars, ready, bootstraps, workerVars, boundVars>>

\* The front end dies, or is interrupted: the locks are freed, nobody is
\* terminated, and an interrupted start still removes its bootstrap file.
CrashClient(c) ==
  /\ pc[c] # "idle" /\ crashes < MaxCrashes
  /\ crashes' = crashes + 1
  /\ Quit(c)
  /\ backoff' = backoff \ {c}
  /\ startLock' = IF startLock = c THEN None ELSE startLock
  /\ workerLock' = IF workerLock = c THEN None ELSE workerLock
  /\ bootstraps' \in {bootstraps, bootstraps \ {pid[c]}}
  /\ UNCHANGED <<ready, stopFile, workerVars, started, calls, deaths>>

-----------------------------------------------------------------------------
(* The worker process.                                                     *)

Move(p, from, to) == worker[p] = from /\ worker' = [worker EXCEPT ![p] = to]

\* The file is removed whether or not it can be used.  Shutdown handlers are
\* not installed yet: SIGTERM ends the process.
ReadBootstrap(p) ==
  /\ \/ p \in bootstraps \ signalled /\ Move(p, "boot", "waiting") /\ UNCHANGED signalled
     \/ Move(p, "boot", "left") /\ signalled' = signalled \ {p}
  /\ bootstraps' = bootstraps \ {p}
  /\ UNCHANGED <<clientVars, lockVars, ready, stopFile, profile, jobs, boundVars>>

\* Mutant: the worker does not wait for the lock.
TakeLockShared(p) ==
  /\ Move(p, "waiting", "launching")
  /\ workerLock' = p
  /\ UNCHANGED <<clientVars, startLock, fileVars, profile, signalled, jobs, boundVars>>

TakeLock(p) ==
  /\ workerLock = None
  /\ Move(p, "waiting", "launching")
  /\ workerLock' = p
  /\ UNCHANGED <<clientVars, startLock, fileVars, profile, signalled, jobs, boundVars>>

\* run_worker closes DBOS whichever way it ends.
LaunchFails(p) ==
  /\ Move(p, "launching", "draining")
  /\ UNCHANGED <<clientVars, lockVars, fileVars, profile, signalled, jobs, boundVars>>

MarkReady(p) ==
  /\ Move(p, "launching", "serving")
  /\ ready' = p
  /\ UNCHANGED <<clientVars, lockVars, stopFile, bootstraps, profile, signalled, jobs, boundVars>>

\* The stop file names this process, or SIGTERM has set the event.
StopServing(p) ==
  /\ stopFile = p \/ p \in signalled
  /\ Move(p, "serving", "draining")
  /\ UNCHANGED <<clientVars, lockVars, fileVars, profile, signalled, jobs, boundVars>>

\* DBOS recovers a job at its launch or takes one from the queues, one at a time.
\* A job that starts while DBOS closes is one that started just before.
StartJob(p) ==
  /\ worker[p] \in {"launching", "serving"} /\ p \notin jobs
  /\ jobs' = jobs \cup {p}
  /\ UNCHANGED <<clientVars, lockVars, fileVars, worker, profile, signalled, boundVars>>

\* However long it took.
EndJob(p) ==
  /\ p \in jobs
  /\ jobs' = jobs \ {p}
  /\ UNCHANGED <<clientVars, lockVars, fileVars, worker, profile, signalled, boundVars>>

\* The job has ended, or 30 seconds have passed and it has not.
Drain(p) ==
  /\ Move(p, "draining", "unready")
  /\ UNCHANGED <<clientVars, lockVars, fileVars, profile, signalled, jobs, boundVars>>

\* Mutant: the worker leaves its ready file behind.
KeepReady(p) ==
  /\ Move(p, "unready", "unstop")
  /\ UNCHANGED <<clientVars, lockVars, fileVars, profile, signalled, jobs, boundVars>>

UnlinkReady(p) ==
  /\ Move(p, "unready", "unstop")
  /\ ready' = 0
  /\ UNCHANGED <<clientVars, lockVars, stopFile, bootstraps, profile, signalled, jobs, boundVars>>

UnlinkStop(p) ==
  /\ Move(p, "unstop", "leaving")
  /\ stopFile' = 0
  /\ UNCHANGED <<clientVars, lockVars, ready, bootstraps, profile, signalled, jobs, boundVars>>

\* The lock is freed; what the process still runs goes on.
Leave(p) ==
  /\ Move(p, "leaving", "lingering")
  /\ workerLock' = None
  /\ UNCHANGED <<clientVars, startLock, fileVars, profile, signalled, jobs, boundVars>>

\* The interpreter waits for the job threads.
Exit(p) ==
  /\ p \notin jobs
  /\ Move(p, "lingering", "left")
  /\ signalled' = signalled \ {p}
  /\ UNCHANGED <<clientVars, lockVars, fileVars, profile, jobs, boundVars>>

DieAlone(p) ==
  /\ worker[p] \in Live /\ deaths < MaxDeaths
  /\ deaths' = deaths + 1
  /\ Die(p)
  /\ UNCHANGED <<clientVars, startLock, fileVars, profile, started, calls, crashes>>

-----------------------------------------------------------------------------
Ensure(c) ==
  \/ TakeStartLock(c) \/ FindReady(c) \/ GiveUpExisting(c)
  \/ CleanReady(c) \/ CleanStop(c) \/ Spawn(c) \/ SpawnFails(c)
  \/ SeeReady(c) \/ GiveUpStart(c) \/ SeeExit(c) \/ Terminate(c) \/ Kill(c)

Stop(c) ==
  \/ ReadReady(c) \/ RequestStop(c) \/ GiveUpStop(c) \/ SweepReady(c) \/ SweepStop(c)

Continue(c) == Probe(c) \/ Release(c) \/ Ensure(c) \/ Stop(c)

Work(p) ==
  \/ ReadBootstrap(p) \/ TakeLock(p) \/ LaunchFails(p) \/ MarkReady(p)
  \/ StopServing(p) \/ Drain(p) \/ UnlinkReady(p) \/ UnlinkStop(p) \/ Leave(p)
  \/ Exit(p)

Job(p) == StartJob(p) \/ EndJob(p)

Next ==
  \/ \E c \in Clients :
       \/ CallEnsure(c) \/ CallHealth(c) \/ CallStop(c)
       \/ Continue(c) \/ BackoffEnds(c) \/ CrashClient(c)
  \/ \E p \in Pids : Work(p) \/ Job(p) \/ DieAlone(p)

Spec == Init /\ [][Next]_vars

\* A waiting loop looks at the clock before every probe, so its deadline ends
\* it however often a probe finds the lock free.
Deadline(c) == GiveUpExisting(c) \/ GiveUpStart(c) \/ GiveUpStop(c)

\* A front end that runs takes its next step; nobody has to call, nothing has to
\* crash, and no worker has to do anything: no job has to end.
FairSpec == Spec /\ \A c \in Clients : WF_vars(Continue(c)) /\ SF_vars(Deadline(c))

-----------------------------------------------------------------------------
(* Properties.                                                             *)

TypeOK ==
  /\ pc \in [Clients -> ClientState]
  /\ call \in [Clients -> {"none", "ensure", "health", "stop"}]
  /\ pid \in [Clients -> Pids \cup {0}]
  /\ backoff \subseteq Clients
  /\ startLock \in Clients \cup {None}
  /\ workerLock \in Clients \cup Pids \cup {None}
  /\ ready \in Pids \cup {0} /\ stopFile \in Pids \cup {0}
  /\ bootstraps \subseteq Pids
  /\ worker \in [Pids -> WorkerState]
  /\ profile \in [Pids -> Profiles \cup {None}]
  /\ signalled \subseteq Pids /\ jobs \subseteq Pids
  /\ started \in 0..MaxStarts /\ calls \in 0..MaxCalls
  /\ crashes \in 0..MaxCrashes /\ deaths \in 0..MaxDeaths

\* However starts, stops, crashes and processes left over by them interleave,
\* one worker at most serves the queues, and it holds the worker lock until it
\* has cleaned up; a job runs elsewhere only in a process whose drain was given
\* up after 30 seconds, and which takes no other.
OneWorker ==
  /\ \A p \in Pids : worker[p] \in Inside <=> workerLock = p
  /\ \A p \in jobs : workerLock = p \/ worker[p] = "lingering"

\* A ready file names a process that serves or is about to remove it, or one
\* that was killed; so whenever a worker serves, a ready file can only be its
\* own, and a stop request written from it is addressed to that worker.
ReadyHonest ==
  /\ ready # 0 => worker[ready] \in {"serving", "draining", "unready", "dead"}
  /\ \A p \in Pids : worker[p] = "serving" => ready \in {0, p}

\* When stop is about to report that it stopped a worker, the process that its
\* request named has left the queues and the lock for good: it has ended, or
\* does nothing but finish the job it could not interrupt.
StopStops ==
  \A c \in Clients :
    pc[c] \in {"sweep_ready", "sweep_stop"} /\ pid[c] # 0 => worker[pid[c]] \in Retired

\* Starting is serialised and a failed start takes its process back.  Apart from
\* processes that only finish a job, a second one is left behind by nothing but
\* a front end that dies or is interrupted in the middle of a call, and one by
\* each at most.
FewWorkers ==
  Cardinality({p \in Pids : worker[p] \in Live /\ worker[p] # "lingering"}) <= 1 + crashes

\* Every call returns: a start waits for its lock and for a worker that may
\* never be ready, a stop for a worker that may not obey.
CallsReturn == \A c \in Clients : pc[c] # "idle" ~> pc[c] = "idle"
=============================================================================
