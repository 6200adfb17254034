------------------------- MODULE MCUploadIngestion -------------------------
(***************************************************************************)
(* Small instances of UploadIngestion for TLC.                             *)
(***************************************************************************)
EXTENDS UploadIngestion, TLC

CONSTANTS t1, m1, l1, l2, a1, a2, r1, r2, v1

TusBackend == [i \in Intents |-> "tus"]
NativeBackend == [i \in Intents |-> IF i = m1 THEN "multipart" ELSE "local_path"]
SameMedia == [i \in Intents |-> v1]
UnitSize == [i \in Intents |-> 1]
NativeSize == [i \in Intents |-> IF i = m1 THEN 2 ELSE 1]

NormalLate == {"pending", "accepted", "failed", "expired"}
AnyLate == UploadState

Bodies == Permutations({a1, a2})
=============================================================================
