---------------------------- MODULE SessionPromise ----------------------------
(***************************************************************************)
(* What a browser upload session promises, whatever requests and hooks     *)
(* overlap: each change happens at once, and rests on what is so when it   *)
(* happens.  Files are chosen while the session is open and within its     *)
(* limits; closing it stops new files and not the transfers of chosen      *)
(* ones; a file has one grant at a time, good for one use; a transfer that *)
(* is settled does not start again.                                        *)
(***************************************************************************)
EXTENDS Integers

CONSTANTS
  Sessions, Files, SessionOf,
  Allowed,     \* sets of files within the limits of a session
  Full         \* those that reach a limit

VARIABLES
  state,     \* of each session: absent, open or closed
  resumable, \* sessions of the tus backend, whose files need grants
  browser,   \* the browser token it answers to, 0 before the first
  chosen,    \* the files chosen
  progress,  \* of each file: absent, pending, accepted or settled
  grant,     \* the grant of each file, 0 for none
  used,      \* files whose grant was used
  issued     \* grants issued so far

promise == <<state, resumable, browser, chosen, progress, grant, used, issued>>

Init ==
  /\ state = [s \in Sessions |-> "absent"]
  /\ resumable = {}
  /\ browser = [s \in Sessions |-> 0]
  /\ chosen = {}
  /\ progress = [f \in Files |-> "absent"]
  /\ grant = [f \in Files |-> 0]
  /\ used = {} /\ issued = 0

Chosen(s) == {f \in chosen : SessionOf[f] = s}

Open(s) ==
  /\ state[s] = "absent"
  /\ state' = [state EXCEPT ![s] = "open"]
  /\ resumable' \in {resumable, resumable \cup {s}}
  /\ UNCHANGED <<browser, chosen, progress, grant, used, issued>>

\* The last browser to open the link takes the session over.
Enter(s) ==
  /\ state[s] # "absent" /\ browser'[s] > browser[s]
  /\ browser' = [browser EXCEPT ![s] = browser'[s]]
  /\ UNCHANGED <<state, resumable, chosen, progress, grant, used, issued>>

Issue(f) ==
  /\ issued' = issued + 1
  /\ grant' = [grant EXCEPT ![f] = issued + 1]
  /\ used' = used \ {f}

Choose(f) ==
  LET s == SessionOf[f] IN
  /\ state[s] = "open" /\ f \notin chosen
  /\ Chosen(s) \cup {f} \in Allowed
  /\ chosen' = chosen \cup {f}
  /\ progress' = [progress EXCEPT ![f] = "pending"]
  /\ state' = IF Chosen(s) \cup {f} \in Full THEN [state EXCEPT ![s] = "closed"] ELSE state
  /\ IF s \in resumable THEN Issue(f) ELSE UNCHANGED <<grant, used, issued>>
  /\ UNCHANGED <<resumable, browser>>

Renew(f) ==
  /\ SessionOf[f] \in resumable /\ progress[f] \in {"pending", "accepted"}
  /\ Issue(f)
  /\ UNCHANGED <<state, resumable, browser, chosen, progress>>

Use(f) ==
  /\ grant[f] # 0 /\ f \notin used /\ progress[f] \in {"pending", "accepted"}
  /\ used' = used \cup {f}
  /\ progress' = [progress EXCEPT ![f] = "accepted"]
  /\ UNCHANGED <<state, resumable, browser, chosen, grant, issued>>

Claim(f) ==
  /\ SessionOf[f] \notin resumable /\ progress[f] = "pending"
  /\ progress' = [progress EXCEPT ![f] = "accepted"]
  /\ UNCHANGED <<state, resumable, browser, chosen, grant, used, issued>>

Settle(f) ==
  /\ progress[f] \in {"pending", "accepted"}
  /\ progress' = [progress EXCEPT ![f] = "settled"]
  /\ UNCHANGED <<state, resumable, browser, chosen, grant, used, issued>>

Close(s) ==
  /\ state[s] = "open"
  /\ state' = [state EXCEPT ![s] = "closed"]
  /\ UNCHANGED <<resumable, browser, chosen, progress, grant, used, issued>>

Next ==
  \/ \E s \in Sessions : Open(s) \/ Enter(s) \/ Close(s)
  \/ \E f \in Files : Choose(f) \/ Renew(f) \/ Use(f) \/ Claim(f) \/ Settle(f)

Spec == Init /\ [][Next]_promise
===============================================================================
