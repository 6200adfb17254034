-------------------------- MODULE MCUploadSessions --------------------------
(* A session of two files, either of which reaches its limit of bytes. *)
EXTENDS UploadSessions

CONSTANTS s1, f1, f2

MCSessions == {s1}
MCFiles == {f1, f2}
MCSessionOf == [f \in MCFiles |-> s1]

\* The two files together are too large for the session; the first alone fills it.
MCAllowed == {{}, {f1}, {f2}}
MCFull == {{f1}}
=============================================================================
