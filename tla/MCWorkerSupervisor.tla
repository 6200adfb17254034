------------------------- MODULE MCWorkerSupervisor -------------------------
(***************************************************************************)
(* Small instances of WorkerSupervisor for TLC.                            *)
(***************************************************************************)
EXTENDS WorkerSupervisor, TLC

CONSTANTS f1, f2, cpu, cuda

OneProfile == [c \in Clients |-> cpu]
TwoProfiles == [c \in Clients |-> IF c = f1 THEN cpu ELSE cuda]
=============================================================================
