-------------------------- MODULE UploadLifecycle --------------------------
(***************************************************************************)
(* What the ingestion of an upload promises, whatever its transfer backend *)
(* (UploadState and UploadIntentRecord of core/uploads.py): an upload is   *)
(* committed once, to one import; it becomes media only by that import;    *)
(* from then on it is never dropped; only uploads that are not committed,  *)
(* or whose import failed, are.                                            *)
(***************************************************************************)
CONSTANT Intents

VARIABLES
  stage, \* absent, open, committed, failed, registered, searchable, dropped
  work   \* the import behind it: none, running, succeeded, failed

Init ==
  /\ stage = [i \in Intents |-> "absent"]
  /\ work = [i \in Intents |-> "none"]

Move(i, from, to) ==
  /\ stage[i] \in from
  /\ stage' = [stage EXCEPT ![i] = to]

\* A local path that cannot be used is recorded as failed at once.
Admit(i) ==
  /\ \E to \in {"open", "failed"} : Move(i, {"absent"}, to)
  /\ UNCHANGED work

\* The transaction that commits an upload may enqueue its import as well.
Commit(i) ==
  /\ work[i] = "none"
  /\ Move(i, {"open"}, "committed")
  /\ \/ work' = [work EXCEPT ![i] = "running"]
     \/ UNCHANGED work

Import(i) ==
  /\ stage[i] \notin {"absent", "open"}
  /\ \/ work[i] = "none" /\ work' = [work EXCEPT ![i] = "running"]
     \/ /\ work[i] = "running"
        /\ \E to \in {"succeeded", "failed"} : work' = [work EXCEPT ![i] = to]
  /\ UNCHANGED stage

Register(i) ==
  /\ work[i] = "succeeded"
  /\ Move(i, {"committed"}, "registered")
  /\ UNCHANGED work

Fail(i) == Move(i, {"committed"}, "failed") /\ UNCHANGED work

MakeSearchable(i) == Move(i, {"registered"}, "searchable") /\ UNCHANGED work

Drop(i) == Move(i, {"open", "failed"}, "dropped") /\ UNCHANGED work

Next ==
  \E i \in Intents :
    \/ Admit(i) \/ Commit(i) \/ Import(i) \/ Register(i) \/ Fail(i)
    \/ MakeSearchable(i) \/ Drop(i)

Spec == Init /\ [][Next]_<<stage, work>>
=============================================================================
