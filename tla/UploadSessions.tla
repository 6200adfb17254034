---------------------------- MODULE UploadSessions ----------------------------
(***************************************************************************)
(* Browser upload sessions and creation grants: the transactions of        *)
(* upload_service.py on the rows of upload_sessions, upload_session_files  *)
(* and upload_intents, as PostgreSQL runs them.                            *)
(*                                                                         *)
(* A transaction locks rows one by one (SELECT ... FOR UPDATE), waits for  *)
(* those that others hold, and decides on what it has read.  SQLite runs   *)
(* one transaction at a time (BEGIN IMMEDIATE), which is one of the orders *)
(* allowed here.  What becomes of an accepted upload is left to            *)
(* UploadIngestion: here it is taken, whatever follows.                    *)
(***************************************************************************)
EXTENDS Integers, FiniteSets

CONSTANTS
  Requests,    \* requests of browsers and owners, and pre-create hooks
  Sessions,
  Files,       \* client file keys, each of a session, with their intents
  SessionOf,
  Allowed,     \* sets of files within the limits of a session
  Full,        \* those that reach its number of files or of bytes
  MaxCalls,    \* bound: requests made
  None

ASSUME SessionAssumption ==
  /\ SessionOf \in [Files -> Sessions]
  /\ MaxCalls \in Nat /\ None \notin Requests

VARIABLES
  session,  \* rows of upload_sessions: state, backend (tus, or multipart
            \* bodies), token of the browser
  link,     \* rows of upload_session_files: bound or not, grant, used or not
  intent,   \* state of each file's upload_intents row
  tus,      \* files whose upload tusd may create, or has
  over,     \* sessions, files and grants whose time is over
  lock,     \* the request whose transaction holds each row, or None
  call,     \* the request each of Requests performs
  at,       \* where it is
  saw,      \* what its transaction has read
  tokens, grants, calls  \* browser tokens and grants issued, requests made

rowVars == <<session, link, intent>>
requestVars == <<lock, call, at, saw>>
vars == <<rowVars, requestVars, tus, over, tokens, grants, calls>>

Rows == ({"session"} \X Sessions) \cup ({"link", "intent"} \X Files)

SessionRow ==
  [state : {"absent", "open", "closed", "expired"}, tus : BOOLEAN, browser : Nat]
LinkRow == [bound : BOOLEAN, grant : Nat, used : BOOLEAN]
IntentState == {"absent", "pending", "accepted", "taken", "failed", "expired"}

Places ==
  {"idle", "session", "link", "intent", "probe", "select", "decide", "expire"}
Ops == {"exchange", "authorize", "claim", "cancel", "close", "end", "accept"}
Calls ==
  [op : Ops, session : Sessions, file : Files \cup {None}, key : Nat,
   fresh : BOOLEAN]
NoCall ==
  [op |-> "none", session |-> None, file |-> None, key |-> 0, fresh |-> FALSE]
Reads ==
  [session : SessionRow, chosen : SUBSET Files, link : LinkRow,
   intent : IntentState, made : BOOLEAN]

NoSession == [state |-> "absent", tus |-> FALSE, browser |-> 0]
NoLink == [bound |-> FALSE, grant |-> 0, used |-> FALSE]
NoRead ==
  [session |-> NoSession, chosen |-> {}, link |-> NoLink, intent |-> "absent",
   made |-> FALSE]

Init ==
  /\ session = [s \in Sessions |-> NoSession]
  /\ link = [f \in Files |-> NoLink]
  /\ intent = [f \in Files |-> "absent"]
  /\ tus = [f \in Files |-> "none"]
  /\ over = {}
  /\ lock = [x \in Rows |-> None]
  /\ call = [r \in Requests |-> NoCall]
  /\ at = [r \in Requests |-> "idle"]
  /\ saw = [r \in Requests |-> NoRead]
  /\ tokens = 0 /\ grants = 0 /\ calls = 0

Chosen(s) == {f \in Files : link[f].bound /\ SessionOf[f] = s}

-----------------------------------------------------------------------------
(* Requests.  Each notes the time before its transaction starts.           *)

\* A request goes on, in its transaction.
Goto(r, place) == at' = [at EXCEPT ![r] = place]

\* The transaction ends and its rows are unlocked.
Unlocked(r) == [x \in Rows |-> IF lock[x] = r THEN None ELSE lock[x]]

Finish(r) ==
  /\ Goto(r, "idle") /\ lock' = Unlocked(r)
  /\ call' = [call EXCEPT ![r] = NoCall]
  /\ saw' = [saw EXCEPT ![r] = NoRead]

\* Mutant: a refused request leaves its transaction open.
RefuseOpen(r) ==
  /\ Goto(r, "idle")
  /\ call' = [call EXCEPT ![r] = NoCall] /\ saw' = [saw EXCEPT ![r] = NoRead]
  /\ UNCHANGED <<rowVars, lock>>

Refuse(r) == Finish(r) /\ UNCHANGED rowVars

Begin(r, op, s, f, key, fresh, place) ==
  /\ at[r] = "idle" /\ calls < MaxCalls
  /\ calls' = calls + 1
  /\ call' = [call EXCEPT ![r] =
       [op |-> op, session |-> s, file |-> f, key |-> key, fresh |-> fresh]]
  /\ Goto(r, place)
  /\ UNCHANGED <<rowVars, lock, saw, tus, over, tokens, grants>>

\* A browser follows the capability link, perhaps with a cookie it has.
CallExchange(r, s, token) ==
  Begin(r, "exchange", s, None, token, s \notin over, "session")

\* A browser asks for a grant, sends a multipart body, or cancels a file.
CallFile(r, op, f, token) ==
  Begin(r, op, SessionOf[f], f, token, SessionOf[f] \notin over, "session")

CallClose(r, s, token) ==
  Begin(r, "close", s, None, token, s \notin over, "session")

\* The owner closes the session, without a browser.
CallEnd(r, s) == Begin(r, "end", s, None, 0, s \notin over, "session")

\* tusd's pre-create hook, with a grant of this file or of another.
CallAccept(r, f, g) ==
  Begin(r, "accept", SessionOf[f], f, g, {SessionOf[f], f, g} \cap over = {}, "link")

-----------------------------------------------------------------------------
(* Rows are locked, and read as they are then.                             *)

Op(r) == call[r].op
File(r) == call[r].file
Browsing == {"authorize", "claim", "cancel", "close"}

Row(r) == <<at[r], IF at[r] = "session" THEN call[r].session ELSE File(r)>>

Lock(r) ==
  /\ lock[Row(r)] = None
  /\ lock' = [lock EXCEPT ![Row(r)] = r]

\* _validate_browser_session and _validate_upload_session; a claim looks at the
\* clock now.
Admits(r, row) ==
  CASE Op(r) \in {"accept", "end"} -> row.state # "absent"
    [] OTHER ->
         /\ row.state \notin {"absent", "expired"}
         /\ IF Op(r) = "claim" THEN call[r].session \notin over ELSE call[r].fresh
         /\ Op(r) \in Browsing => row.browser # 0 /\ row.browser = call[r].key

AfterSession(r) ==
  CASE Op(r) \in {"authorize", "claim", "cancel"} -> "link"
    [] Op(r) = "accept" -> "probe"
    [] OTHER -> "decide"

\* Mutant: LockSession reads the row without a lock.
ReadSession(r) ==
  /\ at[r] = "session" /\ Admits(r, session[call[r].session])
  /\ saw' = [saw EXCEPT ![r].session = session[call[r].session]]
  /\ Goto(r, AfterSession(r))
  /\ UNCHANGED <<rowVars, lock, call>>

LockSession(r) ==
  /\ at[r] = "session" /\ lock[Row(r)] = None
  /\ IF Admits(r, session[call[r].session])
     THEN /\ Lock(r)
          /\ saw' = [saw EXCEPT ![r].session = session[call[r].session]]
          /\ Goto(r, AfterSession(r))
          /\ UNCHANGED <<rowVars, call>>
     ELSE Refuse(r)

\* Mutant: a row that was not found is used.
LockAnyLink(r) ==
  /\ at[r] = "link" /\ Lock(r)
  /\ saw' = [saw EXCEPT ![r].link = IF link[File(r)].bound THEN link[File(r)] ELSE None]
  /\ Goto(r, "intent") /\ UNCHANGED <<rowVars, call>>

\* The file's row, found by its key, its intent or its grant.  A key that is new
\* makes the session's files be listed.
LockLink(r) ==
  /\ at[r] = "link"
  /\ LET row == link[File(r)] IN
       CASE Op(r) = "authorize" /\ ~row.bound ->
              /\ saw' = [saw EXCEPT ![r].chosen = Chosen(call[r].session)]
              /\ Goto(r, "select")
              /\ UNCHANGED <<rowVars, lock, call>>
         [] row.bound /\ (Op(r) = "accept" => row.grant = call[r].key) ->
              /\ Lock(r)
              /\ saw' = [saw EXCEPT ![r].link = row]
              /\ Goto(r, "intent")
              /\ UNCHANGED <<rowVars, call>>
         [] OTHER -> Refuse(r)

AfterIntent(r) ==
  CASE Op(r) = "accept" -> "session"
    [] Op(r) = "authorize" -> "probe"
    [] OTHER -> "decide"

LockIntent(r) ==
  /\ at[r] = "intent" /\ Lock(r)
  /\ saw' = [saw EXCEPT ![r].intent = intent[File(r)]]
  /\ Goto(r, AfterIntent(r))
  /\ UNCHANGED <<rowVars, call>>

\* _tusd_creation_exists: a HEAD request, with the rows locked.
Probe(r) ==
  /\ at[r] = "probe"
  /\ saw' = [saw EXCEPT ![r].made = saw[r].intent # "pending" /\ tus[File(r)] = "made"]
  /\ Goto(r, "decide")
  /\ UNCHANGED <<rowVars, lock, call>>

-----------------------------------------------------------------------------
(* The transaction decides and commits.                                    *)

Ungranted == [bound |-> TRUE, grant |-> 0, used |-> FALSE]
NewGrant == [bound |-> TRUE, grant |-> grants + 1, used |-> FALSE]

\* exchange_upload_session: a browser that is not the current one replaces it.
Exchange(r) ==
  /\ at[r] = "decide" /\ Op(r) = "exchange"
  /\ IF saw[r].session.browser # 0 /\ saw[r].session.browser = call[r].key
     THEN UNCHANGED <<session, tokens>>
     ELSE /\ tokens' = tokens + 1
          /\ session' = [session EXCEPT ![call[r].session].browser = tokens + 1]
  /\ Finish(r)
  /\ UNCHANGED <<link, intent, tus, grants>>

\* authorize_session_file, of a new file: its rows are inserted, and a session
\* that has reached a limit is closed.
Select(r) ==
  LET s == call[r].session
      f == File(r)
      files == saw[r].chosen \cup {f}
  IN
  /\ at[r] = "select"
  /\ IF saw[r].session.state = "open" /\ files \in Allowed /\ ~link[f].bound
     THEN /\ intent' = [intent EXCEPT ![f] = "pending"]
          /\ link' = [link EXCEPT ![f] =
                        IF saw[r].session.tus THEN NewGrant ELSE Ungranted]
          /\ grants' = IF saw[r].session.tus THEN grants + 1 ELSE grants
          /\ session' = IF files \in Full THEN [session EXCEPT ![s].state = "closed"]
                        ELSE session
     ELSE UNCHANGED <<rowVars, grants>>
  /\ Finish(r)
  /\ UNCHANGED <<tus, tokens>>

\* _authorize_existing_file: a file whose upload tusd does not have gets a new
\* grant in place of the old one.
Authorize(r) ==
  /\ at[r] = "decide" /\ Op(r) = "authorize"
  /\ IF /\ saw[r].session.tus
        /\ saw[r].intent = "pending" \/ (saw[r].intent = "accepted" /\ ~saw[r].made)
     THEN link' = [link EXCEPT ![File(r)] = NewGrant] /\ grants' = grants + 1
     ELSE UNCHANGED <<link, grants>>
  /\ Finish(r)
  /\ UNCHANGED <<session, intent, tus, tokens>>

\* Mutant: the grant stays good.
AcceptAgain(r) ==
  LET f == File(r) IN
  /\ at[r] = "decide" /\ Op(r) = "accept" /\ call[r].fresh
  /\ intent' = [intent EXCEPT ![f] =
                  IF saw[r].intent \in {"pending", "accepted"} THEN "accepted" ELSE @]
  /\ Finish(r)
  /\ UNCHANGED <<session, link, tus, tokens, grants>>

\* accept_session_creation: the grant is checked and consumed, the upload may
\* be created.  Only time ends it, not the session's state.
Accept(r) ==
  LET f == File(r) IN
  /\ at[r] = "decide" /\ Op(r) = "accept"
  /\ IF /\ call[r].fresh /\ ~saw[r].link.used
        /\ saw[r].intent \in {"pending", "accepted"} /\ ~saw[r].made
     THEN /\ link' = [link EXCEPT ![f].used = TRUE]
          /\ intent' = [intent EXCEPT ![f] = "accepted"]
          /\ tus' = [tus EXCEPT ![f] = IF @ = "none" THEN "allowed" ELSE @]
     ELSE UNCHANGED <<link, intent, tus>>
  /\ Finish(r)
  /\ UNCHANGED <<session, tokens, grants>>

\* complete_multipart_file: one body is claimed, another finds it claimed.
Claim(r) ==
  LET f == File(r) IN
  /\ at[r] = "decide" /\ Op(r) = "claim"
  /\ intent' = IF ~saw[r].session.tus /\ saw[r].intent = "pending"
               THEN [intent EXCEPT ![f] = "accepted"] ELSE intent
  /\ Finish(r)
  /\ UNCHANGED <<session, link, tus, tokens, grants>>

\* cancel_browser_file inspects the file in one transaction and ends it in
\* another.
Inspect(r) ==
  /\ at[r] = "decide" /\ Op(r) = "cancel"
  /\ IF saw[r].intent = "taken" THEN Finish(r)
     ELSE /\ Goto(r, "expire") /\ lock' = Unlocked(r)
          /\ saw' = [saw EXCEPT ![r] = NoRead] /\ UNCHANGED call
  /\ UNCHANGED <<rowVars, tus, tokens, grants>>

Expire(r) ==
  LET f == File(r) IN
  /\ at[r] = "expire" /\ lock[<<"intent", f>>] = None
  /\ intent' = IF intent[f] \in {"pending", "accepted", "failed"}
               THEN [intent EXCEPT ![f] = "expired"] ELSE intent
  /\ Finish(r)
  /\ UNCHANGED <<session, link, tus, tokens, grants>>

\* close_browser_session and close_upload_session.
Close(r) ==
  /\ at[r] = "decide" /\ Op(r) \in {"close", "end"}
  /\ session' = [session EXCEPT ![call[r].session].state =
                   IF call[r].fresh THEN "closed" ELSE "expired"]
  /\ Finish(r)
  /\ UNCHANGED <<link, intent, tus, tokens, grants>>

-----------------------------------------------------------------------------
(* Errors and deadlocks.                                                   *)

Waits(r) ==
  /\ at[r] \in {"session", "link", "intent"}
  /\ lock[Row(r)] \notin {None, r}

\* Each of some requests waits for a row that another of them holds.
Deadlocked(r) ==
  \E circle \in SUBSET Requests :
    /\ r \in circle
    /\ \A q \in circle : Waits(q) /\ lock[Row(q)] \in circle

\* The database ends a deadlock by aborting a transaction.
Abort(r) ==
  /\ at[r] # "idle" /\ Deadlocked(r)
  /\ Refuse(r)
  /\ UNCHANGED <<tus, tokens, grants>>

\* The quota is used up, tusd or the database does not answer.
Fail(r) ==
  /\ at[r] # "idle"
  /\ Refuse(r)
  /\ UNCHANGED <<tus, over, tokens, grants, calls>>

Step(r) ==
  \/ /\ LockSession(r) \/ LockLink(r) \/ LockIntent(r) \/ Probe(r)
     /\ UNCHANGED <<tus, tokens, grants>>
  \/ Exchange(r) \/ Select(r) \/ Authorize(r) \/ Accept(r) \/ Claim(r) \/ Inspect(r)
  \/ Expire(r) \/ Close(r) \/ Abort(r)

Continue(r) == Step(r) /\ UNCHANGED <<over, calls>>

-----------------------------------------------------------------------------
(* What else happens to the rows.                                          *)

\* create_upload_session, for the backend the settings name.
CreateSession(s, tusBackend) ==
  /\ session[s].state = "absent"
  /\ session' = [session EXCEPT ![s] = [state |-> "open", tus |-> tusBackend, browser |-> 0]]
  /\ UNCHANGED <<link, intent, requestVars, tus, over, tokens, grants, calls>>

\* The import is linked, fails, or the file expires; see UploadIngestion.
Proceed(f) ==
  /\ lock[<<"intent", f>>] = None
  /\ \/ intent[f] = "accepted" /\ intent' = [intent EXCEPT ![f] = "taken"]
     \/ intent[f] = "taken" /\ intent' = [intent EXCEPT ![f] = "failed"]
     \/ intent[f] \in {"pending", "accepted"} /\ f \in over
        /\ intent' = [intent EXCEPT ![f] = "expired"]
  /\ UNCHANGED <<session, link, requestVars, tus, over, tokens, grants, calls>>

\* tusd creates the upload its hook allowed, or forgets it.
TusMoves(f) ==
  /\ \/ tus[f] = "allowed" /\ tus' = [tus EXCEPT ![f] = "made"]
     \/ tus[f] = "made" /\ tus' = [tus EXCEPT ![f] = "none"]
  /\ UNCHANGED <<rowVars, requestVars, over, tokens, grants, calls>>

\* Files and grants do not outlive their session.
TimePasses ==
  /\ \/ \E s \in Sessions :
          over' = over \cup {s} \cup Chosen(s) \cup {link[f].grant : f \in Chosen(s)}
     \/ \E f \in Files : link[f].bound /\ over' = over \cup {f}
     \/ \E f \in Files : link[f].grant # 0 /\ over' = over \cup {link[f].grant}
  /\ UNCHANGED <<rowVars, requestVars, tus, tokens, grants, calls>>

Caller(r) ==
  \/ \E s \in Sessions, token \in 0 .. tokens :
       CallExchange(r, s, token) \/ CallClose(r, s, token)
  \/ \E s \in Sessions : CallEnd(r, s)
  \/ \E f \in Files, token \in 1 .. tokens :
       \E op \in {"authorize", "claim", "cancel"} : CallFile(r, op, f, token)
  \/ \E f \in Files, g \in 1 .. grants : CallAccept(r, f, g)

Next ==
  \/ \E r \in Requests : Caller(r) \/ Continue(r) \/ Fail(r)
  \/ \E s \in Sessions, tusBackend \in BOOLEAN : CreateSession(s, tusBackend)
  \/ \E f \in Files : Proceed(f) \/ TusMoves(f)
  \/ TimePasses

Spec == Init /\ [][Next]_vars

\* A request that can go on does.
FairSpec == Spec /\ \A r \in Requests : WF_vars(Continue(r))

-----------------------------------------------------------------------------
(* Properties.                                                             *)

\* Rows, requests and counters stay in their sets.
TypeOK ==
  /\ session \in [Sessions -> SessionRow]
  /\ link \in [Files -> LinkRow]
  /\ intent \in [Files -> IntentState]
  /\ tus \in [Files -> {"none", "allowed", "made"}]
  /\ over \subseteq Sessions \cup Files \cup Nat
  /\ lock \in [Rows -> Requests \cup {None}]
  /\ at \in [Requests -> Places]
  /\ call \in [Requests -> Calls \cup {NoCall}]
  /\ saw \in [Requests -> Reads]
  /\ tokens \in Nat /\ grants \in Nat /\ calls \in 0 .. MaxCalls

\* What a transaction has read and locked is still so while it waits, probes and
\* decides: no row changes under it and no file joins the session whose files
\* it has counted.
ReadsHold ==
  \A r \in Requests :
    LET s == call[r].session
        f == File(r)
    IN
    /\ saw[r].session # NoSession => saw[r].session = session[s]
    /\ saw[r].link # NoLink => saw[r].link = link[f]
    /\ saw[r].intent # "absent" => saw[r].intent = intent[f]
    /\ at[r] = "select" => saw[r].chosen = Chosen(s) /\ f \notin Chosen(s)

\* The rows as a session's user sees them.
StateOf ==
  [s \in Sessions |-> IF session[s].state = "expired" THEN "closed" ELSE session[s].state]
ResumableSessions == {s \in Sessions : session[s].tus}
BrowserOf == [s \in Sessions |-> session[s].browser]
ChosenFiles == {f \in Files : link[f].bound}
ProgressOf ==
  [f \in Files |-> IF intent[f] \in {"taken", "failed", "expired"} THEN "settled" ELSE intent[f]]
GrantOf == [f \in Files |-> link[f].grant]
UsedGrants == {f \in Files : link[f].used}

Promise == INSTANCE SessionPromise WITH
  state <- StateOf, resumable <- ResumableSessions, browser <- BrowserOf,
  chosen <- ChosenFiles, progress <- ProgressOf, grant <- GrantOf,
  used <- UsedGrants, issued <- grants

\* The rows keep what a session promises, as if each request were one step.
KeepsPromise == Promise!Spec

\* A request ends, though a hook locks a file's rows before its session's and
\* browsers lock them the other way round.
RequestsReturn == \A r \in Requests : at[r] # "idle" ~> at[r] = "idle"

===============================================================================
