------------------------ MODULE UploadSessionsProofs ------------------------
(***************************************************************************)
(* Proofs about UploadSessions, for every number of requests, sessions,    *)
(* files and calls.                                                        *)
(***************************************************************************)
EXTENDS UploadSessions, TLAPS

FileOps == {"authorize", "claim", "cancel", "accept"}

\* A session, a file's link and its intent exist together or not at all.
Paired ==
  /\ \A s \in Sessions :
       /\ session[s].state = "absent" => session[s] = NoSession
       /\ session[s].browser <= tokens
  /\ \A f \in Files :
       /\ link[f].bound => session[SessionOf[f]].state # "absent"
       /\ ~link[f].bound => link[f] = NoLink /\ intent[f] = "absent"
       /\ link[f].bound => intent[f] # "absent"

\* What a transaction has read it has locked.
LockedBy(r) ==
  /\ saw[r].session # NoSession => lock[<<"session", call[r].session>>] = r
  /\ saw[r].link # NoLink => lock[<<"link", File(r)>>] = r
  /\ saw[r].intent # "absent" => lock[<<"intent", File(r)>>] = r

Locked == \A r \in Requests : LockedBy(r)

\* Where a request is tells what it has read.
PlacedAt(r) ==
  /\ at[r] = "idle" => saw[r] = NoRead
  /\ at[r] # "idle" =>
       /\ call[r] \in Calls
       /\ Op(r) \in FileOps => File(r) \in Files /\ call[r].session = SessionOf[File(r)]
       /\ at[r] \in {"link", "intent", "probe", "select", "expire"} => Op(r) \in FileOps
       /\ saw[r].link # NoLink \/ saw[r].intent # "absent" => Op(r) \in FileOps
       /\ at[r] = "select" => Op(r) = "authorize"
       /\ Op(r) = "accept" =>
            call[r].key # 0 /\ (saw[r].link.bound => saw[r].link.grant = call[r].key)
       /\ \/ at[r] \in {"probe", "select", "decide"}
          \/ at[r] \in {"link", "intent"} /\ Op(r) # "accept"
          => saw[r].session.state # "absent"
       /\ \/ at[r] \in {"intent", "probe"}
          \/ at[r] = "session" /\ Op(r) = "accept"
          \/ at[r] = "decide" /\ Op(r) \in FileOps
          => saw[r].link.bound

Placed == \A r \in Requests : PlacedAt(r)

IInv == TypeOK /\ Paired /\ Locked /\ Placed /\ ReadsHold

-----------------------------------------------------------------------------
(* Requests and rows.                                                      *)

\* What a request has read is in rows of its session and file.
LEMMA ReadRows ==
  ASSUME TypeOK, Placed, NEW r \in Requests
  PROVE  /\ saw[r].session # NoSession => call[r].session \in Sessions
         /\ saw[r].link # NoLink => File(r) \in Files
         /\ saw[r].intent # "absent" => File(r) \in Files
         /\ at[r] # "idle" => call[r].session \in Sessions
  BY DEF TypeOK, Placed, PlacedAt, NoRead, Calls, File, Op

\* A row is one or the other: a session, a link or an intent.
LEMMA RowKinds ==
  /\ \A s \in Sessions : <<"session", s>> \in Rows
  /\ \A f \in Files : <<"link", f>> \in Rows /\ <<"intent", f>> \in Rows
  BY DEF Rows

\* A step of w leaves the other requests and their locks alone.
Apart(w) ==
  \A q \in Requests \ {w} :
    /\ at'[q] = at[q] /\ saw'[q] = saw[q] /\ call'[q] = call[q]
    /\ \A x \in Rows : lock[x] = q => lock'[x] = q

\* A request that ends frees its own rows.
LEMMA FinishApart ==
  ASSUME TypeOK, NEW r \in Requests, Finish(r)
  PROVE  Apart(r) /\ LockedBy(r)' /\ PlacedAt(r)' /\ saw'[r] = NoRead /\ at'[r] = "idle"
  <1>1. at'[r] = "idle" /\ saw'[r] = NoRead
    BY DEF Finish, Goto, TypeOK
  <1>2. Apart(r)
    BY SessionAssumption DEF Finish, Goto, TypeOK, Apart, Unlocked
  <1>3. LockedBy(r)' /\ PlacedAt(r)'
    BY <1>1 DEF LockedBy, PlacedAt, NoRead
  <1> QED BY <1>1, <1>2, <1>3

LEMMA FinishTypes ==
  ASSUME TypeOK, NEW r \in Requests, Finish(r)
  PROVE  /\ lock' \in [Rows -> Requests \cup {None}]
         /\ at' \in [Requests -> Places]
         /\ call' \in [Requests -> Calls \cup {NoCall}]
         /\ saw' \in [Requests -> Reads]
  <1>1. NoRead \in Reads
    BY DEF NoRead, Reads, NoSession, SessionRow, NoLink, LinkRow, IntentState
  <1>2. lock' \in [Rows -> Requests \cup {None}]
    BY DEF Finish, Unlocked, TypeOK
  <1>3. at' \in [Requests -> Places] /\ call' \in [Requests -> Calls \cup {NoCall}]
    BY DEF Finish, Goto, Places, TypeOK
  <1>4. saw' \in [Requests -> Reads]
    BY <1>1 DEF Finish, TypeOK
  <1> QED BY <1>2, <1>3, <1>4

\* Each request keeps its own reads locked, so together they do.
LEMMA ApartKeeps ==
  ASSUME TypeOK, Locked, Placed, NEW w, Apart(w),
         w \in Requests => LockedBy(w)' /\ PlacedAt(w)'
  PROVE  Locked' /\ Placed'
  <1> SUFFICES ASSUME NEW q \in Requests, q # w
               PROVE  LockedBy(q)' /\ PlacedAt(q)'
    BY DEF Locked, Placed
  <1>1. at'[q] = at[q] /\ saw'[q] = saw[q] /\ call'[q] = call[q]
    BY DEF Apart
  <1>2. LockedBy(q) /\ PlacedAt(q)
    BY DEF Locked, Placed
  <1>3. LockedBy(q)'
    <2>1. \A x \in Rows : lock[x] = q => lock'[x] = q
      BY DEF Apart
    <2>2. /\ saw[q].session # NoSession => <<"session", call[q].session>> \in Rows
          /\ saw[q].link # NoLink => <<"link", File(q)>> \in Rows
          /\ saw[q].intent # "absent" => <<"intent", File(q)>> \in Rows
      BY ReadRows, RowKinds
    <2> QED BY <1>1, <1>2, <2>1, <2>2 DEF LockedBy, File
  <1>4. PlacedAt(q)'
    BY <1>1, <1>2 DEF PlacedAt, Op, File
  <1> QED BY <1>3, <1>4

\* A step writes rows that it has locked, that are new, or intents that nobody
\* has locked; only the holder of a session adds files to it.
OwnRows(w) ==
  /\ \A s \in Sessions :
       session'[s] = session[s] \/ session[s] = NoSession \/ lock[<<"session", s>>] = w
  /\ \A f \in Files :
       /\ link'[f] = link[f] \/ link[f] = NoLink \/ lock[<<"link", f>>] = w
       /\ \/ intent'[f] = intent[f]
          \/ intent[f] = "absent"
          \/ lock[<<"intent", f>>] \in {w, None}
       /\ link'[f].bound = link[f].bound \/ lock[<<"session", SessionOf[f]>>] = w

\* A request's own part of ReadsHold.
HoldsFor(r) ==
  /\ saw[r].session # NoSession => saw[r].session = session[call[r].session]
  /\ saw[r].link # NoLink => saw[r].link = link[File(r)]
  /\ saw[r].intent # "absent" => saw[r].intent = intent[File(r)]
  /\ at[r] = "select" =>
       /\ saw[r].chosen = Chosen(call[r].session)
       /\ File(r) \notin Chosen(call[r].session)

\* Such a step is not seen by the transactions of others.
LEMMA OthersReads ==
  ASSUME IInv, NEW w, Apart(w), OwnRows(w), w \in Requests => HoldsFor(w)'
  PROVE  ReadsHold'
  <1> SUFFICES ASSUME NEW q \in Requests PROVE HoldsFor(q)'
    BY DEF ReadsHold, HoldsFor
  <1>1. CASE q = w
    BY <1>1
  <1>2. CASE q # w
    <2>1. at'[q] = at[q] /\ saw'[q] = saw[q] /\ call'[q] = call[q] /\ File(q)' = File(q)
      BY <1>2 DEF Apart, File
    <2>2. q # None /\ LockedBy(q) /\ PlacedAt(q)
      BY SessionAssumption DEF IInv, Locked, Placed
    <2>3. saw[q].session # NoSession => saw[q].session = session'[call[q].session]
      BY <1>2, <2>2, ReadRows DEF IInv, ReadsHold, LockedBy, OwnRows
    <2>4. saw[q].link # NoLink => saw[q].link = link'[File(q)]
      BY <1>2, <2>2, ReadRows DEF IInv, ReadsHold, LockedBy, OwnRows
    <2>5. saw[q].intent # "absent" => saw[q].intent = intent'[File(q)]
      BY <1>2, <2>2, ReadRows DEF IInv, ReadsHold, LockedBy, OwnRows
    <2>6. ASSUME at[q] = "select"
          PROVE  saw[q].chosen = Chosen(call[q].session)' /\ File(q) \notin Chosen(call[q].session)'
      <3>1. lock[<<"session", call[q].session>>] = q
        BY <2>2, <2>6 DEF LockedBy, PlacedAt, NoSession
      <3>2. Chosen(call[q].session)' = Chosen(call[q].session)
        <4>1. \A f \in Files :
                SessionOf[f] = call[q].session => link'[f].bound = link[f].bound
          BY <1>2, <3>1 DEF OwnRows
        <4> QED BY <2>1, <4>1 DEF Chosen
      <3> QED BY <2>6, <3>2 DEF IInv, ReadsHold
    <2> QED BY <2>1, <2>3, <2>4, <2>5, <2>6 DEF HoldsFor
  <1> QED BY <1>1, <1>2

\* A transaction that ends after writing its own rows.
LEMMA Ends ==
  ASSUME IInv, NEW r \in Requests, Finish(r), OwnRows(r)
  PROVE  Locked' /\ Placed' /\ ReadsHold'
  <1>1. Apart(r) /\ LockedBy(r)' /\ PlacedAt(r)' /\ saw'[r] = NoRead /\ at'[r] = "idle"
    BY FinishApart DEF IInv
  <1>2. HoldsFor(r)'
    BY <1>1 DEF HoldsFor, NoRead
  <1>3. Locked' /\ Placed'
    BY <1>1, ApartKeeps DEF IInv
  <1>4. ReadsHold'
    BY <1>1, <1>2, OthersReads
  <1> QED BY <1>3, <1>4

LEMMA RefuseKeeps ==
  ASSUME IInv, NEW r \in Requests, Refuse(r), UNCHANGED <<tus, over, tokens, grants, calls>>
  PROVE  IInv'
  <1> USE DEF Refuse, rowVars
  <1>1. Locked' /\ Placed' /\ ReadsHold'
    BY Ends DEF OwnRows
  <1>2. TypeOK'
    BY FinishTypes DEF IInv, TypeOK
  <1>3. Paired'
    BY DEF IInv, Paired
  <1> QED BY <1>1, <1>2, <1>3 DEF IInv

\* A transaction that locks and reads one more row.
LEMMA ReadKeeps ==
  ASSUME IInv, NEW r \in Requests, Apart(r), UNCHANGED <<rowVars, tus, over, tokens, grants>>,
         calls' \in 0 .. MaxCalls,
         lock' \in [Rows -> Requests \cup {None}], at' \in [Requests -> Places],
         call' \in [Requests -> Calls \cup {NoCall}], saw' \in [Requests -> Reads],
         LockedBy(r)', PlacedAt(r)', HoldsFor(r)'
  PROVE  IInv'
  <1> USE DEF rowVars
  <1>1. Locked' /\ Placed'
    BY ApartKeeps DEF IInv
  <1>2. ReadsHold'
    BY OthersReads DEF OwnRows
  <1>3. TypeOK'
    BY DEF IInv, TypeOK
  <1>4. Paired'
    BY DEF IInv, Paired
  <1> QED BY <1>1, <1>2, <1>3, <1>4 DEF IInv

-----------------------------------------------------------------------------
(* Each step keeps the invariant.                                          *)

LEMMA BeginKeeps ==
  ASSUME IInv, NEW r \in Requests, NEW op \in Ops, NEW s \in Sessions,
         NEW f \in Files \cup {None}, NEW key \in Nat, NEW fresh \in BOOLEAN, NEW place,
         Begin(r, op, s, f, key, fresh, place),
         \/ place = "session" /\ op # "accept"
         \/ place = "link" /\ op = "accept" /\ key # 0,
         op \in FileOps => f \in Files /\ s = SessionOf[f]
  PROVE  IInv'
  <1> DEFINE c == [op |-> op, session |-> s, file |-> f, key |-> key, fresh |-> fresh]
  <1>1. c \in Calls
    BY DEF Calls
  <1>2. /\ call' = [call EXCEPT ![r] = c] /\ at' = [at EXCEPT ![r] = place]
        /\ saw[r] = NoRead /\ saw' = saw /\ lock' = lock
    BY DEF Begin, Goto, IInv, Placed, PlacedAt
  <1>3. at'[r] = place /\ saw'[r] = NoRead /\ call'[r] = c
    BY <1>2 DEF IInv, TypeOK
  <1>4. Apart(r)
    BY <1>2 DEF Apart, IInv, TypeOK
  <1>5. LockedBy(r)' /\ HoldsFor(r)'
    BY <1>3 DEF LockedBy, HoldsFor, NoRead
  <1>6. PlacedAt(r)'
    BY <1>1, <1>3 DEF PlacedAt, NoRead, NoLink, Op, File, FileOps
  <1>7. /\ lock' \in [Rows -> Requests \cup {None}] /\ at' \in [Requests -> Places]
        /\ call' \in [Requests -> Calls \cup {NoCall}] /\ saw' \in [Requests -> Reads]
    BY <1>1, <1>2 DEF IInv, TypeOK, Places
  <1>8. UNCHANGED <<rowVars, tus, over, tokens, grants>> /\ calls' \in 0 .. MaxCalls
    BY SessionAssumption DEF Begin, IInv, TypeOK
  <1> QED BY <1>4, <1>5, <1>6, <1>7, <1>8, ReadKeeps

LEMMA CallerKeeps ==
  ASSUME IInv, NEW r \in Requests, Caller(r)
  PROVE  IInv'
  <1>0. (\A token \in 0 .. tokens : token \in Nat) /\ (\A token \in 1 .. tokens : token \in Nat)
    BY DEF IInv, TypeOK
  <1>1. ASSUME NEW s \in Sessions, NEW token \in 0 .. tokens, CallExchange(r, s, token)
        PROVE  IInv'
    BY <1>1, <1>0, BeginKeeps DEF CallExchange, Ops, FileOps
  <1>2. ASSUME NEW s \in Sessions, NEW token \in 0 .. tokens, CallClose(r, s, token)
        PROVE  IInv'
    BY <1>2, <1>0, BeginKeeps DEF CallClose, Ops, FileOps
  <1>3. ASSUME NEW s \in Sessions, CallEnd(r, s)
        PROVE  IInv'
    BY <1>3, BeginKeeps DEF CallEnd, Ops, FileOps
  <1>4. ASSUME NEW f \in Files, NEW token \in 1 .. tokens,
               NEW op \in {"authorize", "claim", "cancel"}, CallFile(r, op, f, token)
        PROVE  IInv'
    <2>1. op \in Ops /\ op # "accept" /\ token \in Nat /\ SessionOf[f] \in Sessions
      BY <1>0, SessionAssumption DEF Ops
    <2>2. PICK fresh \in BOOLEAN : Begin(r, op, SessionOf[f], f, token, fresh, "session")
      BY <1>4 DEF CallFile
    <2> QED BY <2>1, <2>2, BeginKeeps
  <1>5. ASSUME NEW f \in Files, NEW g \in 1 .. grants, CallAccept(r, f, g)
        PROVE  IInv'
    <2>1. g \in Nat /\ g # 0 /\ SessionOf[f] \in Sessions
      BY SessionAssumption DEF IInv, TypeOK
    <2> QED BY <1>5, <2>1, BeginKeeps DEF CallAccept, Ops
  <1> QED BY <1>1, <1>2, <1>3, <1>4, <1>5 DEF Caller

\* A request that locks the row it waits for takes it from nobody.
LEMMA LockTypes ==
  ASSUME TypeOK, NEW r \in Requests, Row(r) \in Rows, Lock(r)
  PROVE  /\ lock' \in [Rows -> Requests \cup {None}] /\ lock'[Row(r)] = r
         /\ \A x \in Rows, q \in Requests : lock[x] = q => lock'[x] = q
  BY SessionAssumption DEF TypeOK, Lock

LEMMA GotoTypes ==
  ASSUME TypeOK, NEW r \in Requests, NEW place \in Places, Goto(r, place)
  PROVE  at' \in [Requests -> Places] /\ at'[r] = place
  BY DEF TypeOK, Goto

LEMMA LockSessionKeeps ==
  ASSUME IInv, NEW r \in Requests, LockSession(r), UNCHANGED <<tus, over, tokens, grants, calls>>
  PROVE  IInv'
  <1> DEFINE s == call[r].session
             row == session[s]
  <1>1. CASE Refuse(r)
    BY <1>1, RefuseKeeps
  <1>2. CASE /\ Admits(r, row) /\ Lock(r)
             /\ saw' = [saw EXCEPT ![r].session = row]
             /\ Goto(r, AfterSession(r)) /\ UNCHANGED <<rowVars, call>>
    <2>1. /\ at[r] = "session" /\ TypeOK /\ PlacedAt(r) /\ LockedBy(r) /\ HoldsFor(r)
          /\ call[r] \in Calls /\ s \in Sessions /\ Op(r) \in Ops
      BY ReadRows DEF LockSession, IInv, Placed, PlacedAt, Locked, ReadsHold, HoldsFor, Op, Calls
    <2>2. Row(r) = <<"session", s>> /\ Row(r) \in Rows
      BY <2>1 DEF Row, Rows
    <2>3. AfterSession(r) \in {"link", "probe", "decide"} /\ AfterSession(r) \in Places
      BY DEF AfterSession, Places
    <2>4. row \in SessionRow /\ row.state # "absent" /\ row # NoSession
      BY <1>2, <2>1 DEF TypeOK, Admits, NoSession, SessionRow
    <2>5. saw' \in [Requests -> Reads] /\ saw'[r] = [saw[r] EXCEPT !.session = row]
      BY <1>2, <2>1, <2>4 DEF TypeOK, Reads
    <2>6. /\ lock' \in [Rows -> Requests \cup {None}] /\ lock'[<<"session", s>>] = r
          /\ \A x \in Rows, q \in Requests : lock[x] = q => lock'[x] = q
      BY <1>2, <2>1, <2>2, LockTypes
    <2>7. at' \in [Requests -> Places] /\ at'[r] = AfterSession(r)
      BY <1>2, <2>1, <2>3, GotoTypes
    <2>8. Apart(r)
      BY <1>2, <2>1, <2>6 DEF Apart, TypeOK, Goto
    <2>9. saw[r] \in Reads /\ saw'[r].session = row /\ saw'[r].link = saw[r].link
          /\ saw'[r].intent = saw[r].intent
      BY <2>1, <2>5 DEF TypeOK, Reads
    <2>10. LockedBy(r)'
      <3>1. /\ saw[r].link # NoLink => <<"link", File(r)>> \in Rows
            /\ saw[r].intent # "absent" => <<"intent", File(r)>> \in Rows
        BY ReadRows, RowKinds DEF IInv
      <3> QED BY <1>2, <2>1, <2>6, <2>9, <3>1 DEF LockedBy, File
    <2>11. PlacedAt(r)'
      BY <1>2, <2>1, <2>3, <2>4, <2>7, <2>9 DEF PlacedAt, Op, File, AfterSession, FileOps, Ops
    <2>12. HoldsFor(r)'
      BY <1>2, <2>1, <2>3, <2>7, <2>9 DEF HoldsFor, File, rowVars
    <2> QED BY <1>2, <2>1, <2>5, <2>6, <2>7, <2>8, <2>10, <2>11, <2>12, ReadKeeps DEF TypeOK
  <1> QED BY <1>1, <1>2 DEF LockSession

LEMMA LockLinkKeeps ==
  ASSUME IInv, NEW r \in Requests, LockLink(r), UNCHANGED <<tus, over, tokens, grants, calls>>
  PROVE  IInv'
  <1> DEFINE s == call[r].session
             f == File(r)
             row == link[f]
  <1>1. /\ at[r] = "link" /\ TypeOK /\ PlacedAt(r) /\ LockedBy(r) /\ HoldsFor(r)
        /\ call[r] \in Calls /\ s \in Sessions /\ Op(r) \in FileOps
        /\ f \in Files /\ s = SessionOf[f]
    BY ReadRows DEF LockLink, IInv, Placed, PlacedAt, Locked, ReadsHold, HoldsFor
  <1>2. Row(r) = <<"link", f>> /\ Row(r) \in Rows
    BY <1>1 DEF Row, Rows
  <1>3. /\ row \in LinkRow /\ saw[r] \in Reads
        /\ row.bound => row # NoLink
    BY <1>1 DEF TypeOK, NoLink
  <1>4. /\ saw[r].link # NoLink => <<"link", f>> \in Rows
        /\ saw[r].intent # "absent" => <<"intent", f>> \in Rows
        /\ <<"session", s>> \in Rows
    BY <1>1, RowKinds
  <1>5. CASE Refuse(r)
    BY <1>5, RefuseKeeps
  <1>6. CASE /\ Op(r) = "authorize" /\ ~row.bound
             /\ saw' = [saw EXCEPT ![r].chosen = Chosen(s)]
             /\ Goto(r, "select") /\ UNCHANGED <<rowVars, lock, call>>
    <2>1. Chosen(s) \in SUBSET Files
      BY DEF Chosen
    <2>2. saw' \in [Requests -> Reads] /\ saw'[r] = [saw[r] EXCEPT !.chosen = Chosen(s)]
      BY <1>1, <1>6, <2>1 DEF TypeOK, Reads
    <2>3. /\ saw'[r].session = saw[r].session /\ saw'[r].link = saw[r].link
          /\ saw'[r].intent = saw[r].intent /\ saw'[r].chosen = Chosen(s)
      BY <1>3, <2>2 DEF Reads
    <2>4. at' \in [Requests -> Places] /\ at'[r] = "select"
      BY <1>1, <1>6, GotoTypes DEF Places
    <2>5. Apart(r)
      BY <1>1, <1>6 DEF Apart, TypeOK, Goto
    <2>6. LockedBy(r)'
      BY <1>1, <1>6, <2>3 DEF LockedBy, File
    <2>7. PlacedAt(r)'
      BY <1>1, <1>6, <2>3, <2>4 DEF PlacedAt, Op, File, FileOps
    <2>8. HoldsFor(r)'
      <3>1. File(r)' = f /\ Chosen(call[r].session)' = Chosen(s) /\ f \notin Chosen(s)
        BY <1>6 DEF File, Chosen, rowVars
      <3> QED BY <1>1, <1>6, <2>3, <3>1 DEF HoldsFor, rowVars
    <2> QED BY <1>1, <1>6, <2>2, <2>4, <2>5, <2>6, <2>7, <2>8, ReadKeeps DEF TypeOK
  <1>7. CASE /\ row.bound /\ (Op(r) = "accept" => row.grant = call[r].key)
             /\ Lock(r)
             /\ saw' = [saw EXCEPT ![r].link = row]
             /\ Goto(r, "intent") /\ UNCHANGED <<rowVars, call>>
    <2>1. saw' \in [Requests -> Reads] /\ saw'[r] = [saw[r] EXCEPT !.link = row]
      BY <1>1, <1>3, <1>7 DEF TypeOK, Reads
    <2>2. /\ saw'[r].session = saw[r].session /\ saw'[r].link = row
          /\ saw'[r].intent = saw[r].intent
      BY <1>3, <2>1 DEF Reads
    <2>3. at' \in [Requests -> Places] /\ at'[r] = "intent"
      BY <1>1, <1>7, GotoTypes DEF Places
    <2>4. /\ lock' \in [Rows -> Requests \cup {None}] /\ lock'[<<"link", f>>] = r
          /\ \A x \in Rows, q \in Requests : lock[x] = q => lock'[x] = q
      BY <1>1, <1>2, <1>7, LockTypes
    <2>5. Apart(r)
      BY <1>1, <1>7, <2>4 DEF Apart, TypeOK, Goto
    <2>6. LockedBy(r)'
      BY <1>1, <1>4, <1>7, <2>2, <2>4 DEF LockedBy, File
    <2>7. PlacedAt(r)'
      BY <1>1, <1>7, <2>2, <2>3 DEF PlacedAt, Op, File, FileOps
    <2>8. HoldsFor(r)'
      BY <1>1, <1>7, <2>2, <2>3 DEF HoldsFor, File, rowVars
    <2> QED BY <1>1, <1>7, <2>1, <2>3, <2>4, <2>5, <2>6, <2>7, <2>8, ReadKeeps DEF TypeOK
  <1> QED BY <1>5, <1>6, <1>7 DEF LockLink

LEMMA LockIntentKeeps ==
  ASSUME IInv, NEW r \in Requests, LockIntent(r), UNCHANGED <<tus, over, tokens, grants, calls>>
  PROVE  IInv'
  <1> DEFINE f == File(r)
  <1>1. /\ at[r] = "intent" /\ TypeOK /\ PlacedAt(r) /\ LockedBy(r) /\ HoldsFor(r)
        /\ call[r] \in Calls /\ call[r].session \in Sessions /\ Op(r) \in FileOps
        /\ f \in Files /\ saw[r].link.bound
    BY ReadRows DEF LockIntent, IInv, Placed, PlacedAt, Locked, ReadsHold, HoldsFor
  <1>2. Row(r) = <<"intent", f>> /\ Row(r) \in Rows
    BY <1>1 DEF Row, Rows
  <1>3. <<"link", f>> \in Rows /\ <<"session", call[r].session>> \in Rows
    BY <1>1, RowKinds
  <1>4. AfterIntent(r) \in {"session", "probe", "decide"} /\ AfterIntent(r) \in Places
    BY DEF AfterIntent, Places
  <1>5. intent[f] \in IntentState /\ saw[r] \in Reads
    BY <1>1 DEF TypeOK
  <1>6. saw' \in [Requests -> Reads] /\ saw'[r] = [saw[r] EXCEPT !.intent = intent[f]]
    BY <1>1, <1>5 DEF LockIntent, TypeOK, Reads
  <1>7. /\ saw'[r].session = saw[r].session /\ saw'[r].link = saw[r].link
        /\ saw'[r].intent = intent[f]
    BY <1>5, <1>6 DEF Reads
  <1>8. at' \in [Requests -> Places] /\ at'[r] = AfterIntent(r)
    BY <1>1, <1>4, GotoTypes DEF LockIntent
  <1>9. /\ lock' \in [Rows -> Requests \cup {None}] /\ lock'[<<"intent", f>>] = r
        /\ \A x \in Rows, q \in Requests : lock[x] = q => lock'[x] = q
    BY <1>1, <1>2, LockTypes DEF LockIntent
  <1>10. Apart(r)
    BY <1>1, <1>9 DEF LockIntent, Apart, TypeOK, Goto
  <1>11. LockedBy(r)'
    BY <1>1, <1>3, <1>7, <1>9 DEF LockIntent, LockedBy, File
  <1>12. PlacedAt(r)'
    BY <1>1, <1>4, <1>7, <1>8 DEF LockIntent, PlacedAt, Op, File, FileOps, AfterIntent
  <1>13. HoldsFor(r)'
    BY <1>1, <1>4, <1>7, <1>8 DEF LockIntent, HoldsFor, File, rowVars
  <1> QED BY <1>1, <1>6, <1>8, <1>9, <1>10, <1>11, <1>12, <1>13, ReadKeeps DEF LockIntent, TypeOK

LEMMA ProbeKeeps ==
  ASSUME IInv, NEW r \in Requests, Probe(r), UNCHANGED <<tus, over, tokens, grants, calls>>
  PROVE  IInv'
  <1> DEFINE made == saw[r].intent # "pending" /\ tus[File(r)] = "made"
  <1>1. /\ at[r] = "probe" /\ TypeOK /\ PlacedAt(r) /\ LockedBy(r) /\ HoldsFor(r)
        /\ call[r] \in Calls /\ Op(r) \in FileOps /\ saw[r].link.bound
        /\ saw[r].session.state # "absent"
    BY DEF Probe, IInv, Placed, PlacedAt, Locked, ReadsHold, HoldsFor
  <1>2. saw[r] \in Reads /\ made \in BOOLEAN
    BY <1>1 DEF TypeOK
  <1>3. saw' = [saw EXCEPT ![r].made = made]
    BY DEF Probe
  <1> HIDE DEF made
  <1>4. saw' \in [Requests -> Reads] /\ saw'[r] = [saw[r] EXCEPT !.made = made]
    BY <1>1, <1>2, <1>3 DEF TypeOK, Reads
  <1>5. /\ saw'[r].session = saw[r].session /\ saw'[r].link = saw[r].link
        /\ saw'[r].intent = saw[r].intent
    BY <1>2, <1>4 DEF Reads
  <1>6. at' \in [Requests -> Places] /\ at'[r] = "decide"
    BY <1>1, GotoTypes DEF Probe, Places
  <1>7. Apart(r)
    BY <1>1 DEF Probe, Apart, TypeOK, Goto
  <1>8. LockedBy(r)'
    BY <1>1, <1>5 DEF Probe, LockedBy, File
  <1>9. PlacedAt(r)'
    BY <1>1, <1>5, <1>6 DEF Probe, PlacedAt, Op, File, FileOps
  <1>10. HoldsFor(r)'
    BY <1>1, <1>5, <1>6 DEF Probe, HoldsFor, File, rowVars
  <1> QED BY <1>1, <1>4, <1>6, <1>7, <1>8, <1>9, <1>10, ReadKeeps DEF Probe, TypeOK

-----------------------------------------------------------------------------
(* Each decision keeps the invariant.                                      *)

\* What a request that decides has read, of its session and file.
LEMMA Deciding ==
  ASSUME IInv, NEW r \in Requests, at[r] = "decide"
  PROVE  LET s == call[r].session
             f == File(r)
         IN /\ s \in Sessions /\ saw[r].session = session[s] /\ session[s].state # "absent"
            /\ lock[<<"session", s>>] = r
            /\ Op(r) \in FileOps =>
                 /\ f \in Files /\ s = SessionOf[f]
                 /\ saw[r].link = link[f] /\ link[f].bound /\ lock[<<"link", f>>] = r
                 /\ saw[r].intent # "absent" =>
                      saw[r].intent = intent[f] /\ lock[<<"intent", f>>] = r
  <1>1. PlacedAt(r) /\ LockedBy(r) /\ HoldsFor(r)
    BY DEF IInv, Placed, Locked, ReadsHold, HoldsFor
  <1>2. call[r].session \in Sessions
    BY ReadRows DEF IInv
  <1>3. saw[r].session # NoSession /\ (Op(r) \in FileOps => saw[r].link # NoLink)
    BY <1>1 DEF PlacedAt, NoSession, NoLink
  <1> QED BY <1>1, <1>2, <1>3 DEF PlacedAt, LockedBy, HoldsFor

\* What a request that selects a file has read.
LEMMA Selecting ==
  ASSUME IInv, NEW r \in Requests, at[r] = "select"
  PROVE  LET s == call[r].session
             f == File(r)
         IN /\ s \in Sessions /\ saw[r].session = session[s] /\ session[s].state # "absent"
            /\ lock[<<"session", s>>] = r
            /\ f \in Files /\ s = SessionOf[f]
            /\ saw[r].chosen = Chosen(s)
            /\ link[f] = NoLink /\ intent[f] = "absent"
  <1>1. PlacedAt(r) /\ LockedBy(r) /\ HoldsFor(r)
    BY DEF IInv, Placed, Locked, ReadsHold, HoldsFor
  <1>2. call[r].session \in Sessions
    BY ReadRows DEF IInv
  <1>3. saw[r].session # NoSession
    BY <1>1 DEF PlacedAt, NoSession
  <1>4. File(r) \in Files /\ call[r].session = SessionOf[File(r)] /\ File(r) \notin Chosen(call[r].session)
    BY <1>1 DEF PlacedAt, HoldsFor
  <1>5. link[File(r)] = NoLink /\ intent[File(r)] = "absent"
    BY <1>4 DEF IInv, Paired, Chosen
  <1> QED BY <1>1, <1>2, <1>3, <1>4, <1>5 DEF PlacedAt, LockedBy, HoldsFor

LEMMA ExchangeKeeps ==
  ASSUME IInv, NEW r \in Requests, Exchange(r), UNCHANGED <<over, calls>>
  PROVE  IInv'
  <1> DEFINE s == call[r].session
  <1>1. TypeOK /\ s \in Sessions /\ lock[<<"session", s>>] = r /\ session[s].state # "absent"
    BY Deciding DEF Exchange, IInv
  <1>2. \/ UNCHANGED <<session, tokens>>
        \/ tokens' = tokens + 1 /\ session' = [session EXCEPT ![s].browser = tokens + 1]
    BY DEF Exchange
  <1>3. OwnRows(r)
    BY <1>1, <1>2 DEF Exchange, OwnRows, TypeOK
  <1>4. Locked' /\ Placed' /\ ReadsHold'
    BY <1>3, Ends DEF Exchange
  <1>5. session' \in [Sessions -> SessionRow] /\ tokens' \in Nat
    BY <1>1, <1>2 DEF TypeOK, SessionRow
  <1>6. TypeOK'
    BY <1>1, <1>5, FinishTypes DEF Exchange, TypeOK
  <1>7. Paired'
    <2>1. ASSUME NEW t \in Sessions
          PROVE  /\ session'[t].state = session[t].state
                 /\ session[t].state = "absent" => session'[t] = session[t]
                 /\ session'[t].browser <= tokens'
      <3>1. session[t] \in SessionRow /\ session[t].browser <= tokens /\ tokens \in Nat
        BY DEF IInv, Paired, TypeOK
      <3>2. CASE UNCHANGED <<session, tokens>>
        BY <3>1, <3>2
      <3>3. CASE /\ tokens' = tokens + 1 /\ session' = [session EXCEPT ![s].browser = tokens + 1]
        <4>1. CASE t = s
          BY <1>1, <3>1, <3>3, <4>1 DEF TypeOK, SessionRow
        <4>2. CASE t # s
          BY <1>1, <3>1, <3>3, <4>2 DEF TypeOK, SessionRow
        <4> QED BY <4>1, <4>2
      <3> QED BY <1>2, <3>2, <3>3
    <2> QED BY <2>1, SessionAssumption DEF Exchange, IInv, Paired
  <1> QED BY <1>4, <1>6, <1>7 DEF IInv

LEMMA SelectKeeps ==
  ASSUME IInv, NEW r \in Requests, Select(r), UNCHANGED <<over, calls>>
  PROVE  IInv'
  <1> DEFINE s == call[r].session
             f == File(r)
             files == saw[r].chosen \cup {f}
             new == IF saw[r].session.tus THEN NewGrant ELSE Ungranted
  <1>1. /\ TypeOK /\ s \in Sessions /\ lock[<<"session", s>>] = r /\ session[s].state # "absent"
        /\ f \in Files /\ s = SessionOf[f] /\ link[f] = NoLink /\ intent[f] = "absent"
    BY Selecting DEF Select, IInv
  <1>2. CASE UNCHANGED <<rowVars, grants>>
    BY <1>2, RefuseKeeps DEF Select, Refuse
  <1>3. CASE /\ intent' = [intent EXCEPT ![f] = "pending"]
             /\ link' = [link EXCEPT ![f] = new]
             /\ grants' = IF saw[r].session.tus THEN grants + 1 ELSE grants
             /\ session' = IF files \in Full THEN [session EXCEPT ![s].state = "closed"] ELSE session
    <2>1. new \in LinkRow /\ new.bound
      <3>1. NewGrant \in LinkRow /\ NewGrant.bound
        BY <1>1 DEF NewGrant, LinkRow, TypeOK
      <3>2. Ungranted \in LinkRow /\ Ungranted.bound
        BY DEF Ungranted, LinkRow
      <3> QED BY <3>1, <3>2
    <2> HIDE DEF new, files
    <2>2. OwnRows(r)
      BY <1>1, <1>3 DEF OwnRows, TypeOK
    <2>3. Locked' /\ Placed' /\ ReadsHold'
      BY <2>2, Ends DEF Select
    <2>4. /\ session' \in [Sessions -> SessionRow] /\ link' \in [Files -> LinkRow]
          /\ intent' \in [Files -> IntentState] /\ grants' \in Nat
      BY <1>1, <1>3, <2>1 DEF TypeOK, SessionRow, IntentState
    <2>5. TypeOK'
      BY <1>1, <2>4, FinishTypes DEF Select, TypeOK
    <2>6. \A t \in Sessions :
            /\ session'[t].state = "absent" => session'[t] = NoSession
            /\ session'[t].browser <= tokens'
            /\ session[t].state # "absent" => session'[t].state # "absent"
      BY <1>1, <1>3 DEF Select, IInv, Paired, TypeOK, SessionRow
    <2>7. \A g \in Files :
            /\ link'[g].bound => session'[SessionOf[g]].state # "absent"
            /\ ~link'[g].bound => link'[g] = NoLink /\ intent'[g] = "absent"
            /\ link'[g].bound => intent'[g] # "absent"
      BY <1>1, <1>3, <2>1, <2>6, SessionAssumption DEF IInv, Paired, TypeOK
    <2> QED BY <2>3, <2>5, <2>6, <2>7 DEF IInv, Paired
  <1> QED BY <1>2, <1>3 DEF Select, rowVars

LEMMA AuthorizeKeeps ==
  ASSUME IInv, NEW r \in Requests, Authorize(r), UNCHANGED <<over, calls>>
  PROVE  IInv'
  <1> DEFINE f == File(r)
  <1>1. /\ TypeOK /\ f \in Files /\ link[f].bound /\ lock[<<"link", f>>] = r
    BY Deciding DEF Authorize, IInv, FileOps
  <1>2. CASE UNCHANGED <<link, grants>>
    BY <1>2, RefuseKeeps DEF Authorize, Refuse, rowVars
  <1>3. CASE link' = [link EXCEPT ![f] = NewGrant] /\ grants' = grants + 1
    <2>1. NewGrant \in LinkRow /\ NewGrant.bound
      BY <1>1 DEF NewGrant, LinkRow, TypeOK
    <2>2. OwnRows(r)
      BY <1>1, <1>3, <2>1 DEF Authorize, OwnRows, TypeOK
    <2>3. Locked' /\ Placed' /\ ReadsHold'
      BY <2>2, Ends DEF Authorize
    <2>4. link' \in [Files -> LinkRow] /\ grants' \in Nat
      BY <1>1, <1>3, <2>1 DEF TypeOK
    <2>5. TypeOK'
      BY <1>1, <2>4, FinishTypes DEF Authorize, TypeOK
    <2>6. Paired'
      BY <1>1, <1>3, <2>1 DEF Authorize, IInv, Paired, TypeOK
    <2> QED BY <2>3, <2>5, <2>6 DEF IInv
  <1> QED BY <1>2, <1>3 DEF Authorize

LEMMA AcceptKeeps ==
  ASSUME IInv, NEW r \in Requests, Accept(r), UNCHANGED <<over, calls>>
  PROVE  IInv'
  <1> DEFINE f == File(r)
  <1>1. /\ TypeOK /\ f \in Files /\ link[f].bound /\ lock[<<"link", f>>] = r
        /\ saw[r].intent # "absent" => saw[r].intent = intent[f] /\ lock[<<"intent", f>>] = r
    BY Deciding DEF Accept, IInv, FileOps
  <1>2. CASE UNCHANGED <<link, intent, tus>>
    BY <1>2, RefuseKeeps DEF Accept, Refuse, rowVars
  <1>3. CASE /\ saw[r].intent \in {"pending", "accepted"}
             /\ link' = [link EXCEPT ![f].used = TRUE]
             /\ intent' = [intent EXCEPT ![f] = "accepted"]
             /\ tus' = [tus EXCEPT ![f] = IF @ = "none" THEN "allowed" ELSE @]
    <2>1. OwnRows(r)
      BY <1>1, <1>3 DEF Accept, OwnRows, TypeOK, LinkRow
    <2>2. Locked' /\ Placed' /\ ReadsHold'
      BY <2>1, Ends DEF Accept
    <2>3. /\ link' \in [Files -> LinkRow] /\ intent' \in [Files -> IntentState]
          /\ tus' \in [Files -> {"none", "allowed", "made"}]
      BY <1>1, <1>3 DEF TypeOK, LinkRow, IntentState
    <2>4. TypeOK'
      BY <1>1, <2>3, FinishTypes DEF Accept, TypeOK
    <2>5. link'[f].bound
      BY <1>1, <1>3 DEF TypeOK, LinkRow
    <2>6. Paired'
      BY <1>1, <1>3, <2>5 DEF Accept, IInv, Paired, TypeOK
    <2> QED BY <2>2, <2>4, <2>6 DEF IInv
  <1> QED BY <1>2, <1>3 DEF Accept

LEMMA ClaimKeeps ==
  ASSUME IInv, NEW r \in Requests, Claim(r), UNCHANGED <<over, calls>>
  PROVE  IInv'
  <1> DEFINE f == File(r)
  <1>1. /\ TypeOK /\ f \in Files /\ link[f].bound
        /\ saw[r].intent # "absent" => saw[r].intent = intent[f] /\ lock[<<"intent", f>>] = r
    BY Deciding DEF Claim, IInv, FileOps
  <1>2. CASE UNCHANGED intent
    BY <1>2, RefuseKeeps DEF Claim, Refuse, rowVars
  <1>3. CASE saw[r].intent = "pending" /\ intent' = [intent EXCEPT ![f] = "accepted"]
    <2>1. OwnRows(r)
      BY <1>1, <1>3 DEF Claim, OwnRows, TypeOK
    <2>2. Locked' /\ Placed' /\ ReadsHold'
      BY <2>1, Ends DEF Claim
    <2>3. TypeOK'
      BY <1>1, <1>3, FinishTypes DEF Claim, TypeOK, IntentState
    <2>4. Paired'
      BY <1>1, <1>3 DEF Claim, IInv, Paired, TypeOK
    <2> QED BY <2>2, <2>3, <2>4 DEF IInv
  <1> QED BY <1>2, <1>3 DEF Claim

LEMMA InspectKeeps ==
  ASSUME IInv, NEW r \in Requests, Inspect(r), UNCHANGED <<over, calls>>
  PROVE  IInv'
  <1>1. CASE Finish(r)
    BY <1>1, RefuseKeeps DEF Inspect, Refuse
  <1>2. CASE /\ Goto(r, "expire") /\ lock' = Unlocked(r)
             /\ saw' = [saw EXCEPT ![r] = NoRead] /\ UNCHANGED call
    <2>1. /\ TypeOK /\ PlacedAt(r) /\ at[r] = "decide" /\ Op(r) = "cancel"
      BY DEF Inspect, IInv, Placed
    <2>2. NoRead \in Reads
      BY DEF NoRead, Reads, NoSession, SessionRow, NoLink, LinkRow, IntentState
    <2>3. saw' \in [Requests -> Reads] /\ saw'[r] = NoRead
      BY <1>2, <2>1, <2>2 DEF TypeOK
    <2>4. at' \in [Requests -> Places] /\ at'[r] = "expire"
      BY <1>2, <2>1, GotoTypes DEF Places
    <2>5. lock' \in [Rows -> Requests \cup {None}]
      BY <1>2, <2>1 DEF TypeOK, Unlocked
    <2>6. Apart(r)
      BY <1>2, <2>1, SessionAssumption DEF Apart, TypeOK, Goto, Unlocked
    <2>7. LockedBy(r)' /\ HoldsFor(r)'
      BY <2>3, <2>4 DEF LockedBy, HoldsFor, NoRead
    <2>8. PlacedAt(r)'
      BY <1>2, <2>1, <2>3, <2>4 DEF PlacedAt, NoRead, NoLink, Op, File, FileOps
    <2> QED BY <1>2, <2>1, <2>3, <2>4, <2>5, <2>6, <2>7, <2>8, ReadKeeps DEF Inspect, TypeOK
  <1> QED BY <1>1, <1>2 DEF Inspect

LEMMA ExpireKeeps ==
  ASSUME IInv, NEW r \in Requests, Expire(r), UNCHANGED <<over, calls>>
  PROVE  IInv'
  <1> DEFINE f == File(r)
  <1>1. TypeOK /\ PlacedAt(r) /\ f \in Files /\ lock[<<"intent", f>>] = None
    BY DEF Expire, IInv, Placed, PlacedAt
  <1>2. CASE UNCHANGED intent
    BY <1>2, RefuseKeeps DEF Expire, Refuse, rowVars
  <1>3. CASE /\ intent[f] \in {"pending", "accepted", "failed"}
             /\ intent' = [intent EXCEPT ![f] = "expired"]
    <2>1. OwnRows(r)
      BY <1>1, <1>3 DEF Expire, OwnRows, TypeOK
    <2>2. Locked' /\ Placed' /\ ReadsHold'
      BY <2>1, Ends DEF Expire
    <2>3. TypeOK'
      BY <1>1, <1>3, FinishTypes DEF Expire, TypeOK, IntentState
    <2>4. Paired'
      BY <1>1, <1>3 DEF Expire, IInv, Paired, TypeOK
    <2> QED BY <2>2, <2>3, <2>4 DEF IInv
  <1> QED BY <1>2, <1>3 DEF Expire

LEMMA CloseKeeps ==
  ASSUME IInv, NEW r \in Requests, Close(r), UNCHANGED <<over, calls>>
  PROVE  IInv'
  <1> DEFINE s == call[r].session
             end == IF call[r].fresh THEN "closed" ELSE "expired"
  <1>1. TypeOK /\ s \in Sessions /\ lock[<<"session", s>>] = r /\ session[s].state # "absent"
    BY Deciding DEF Close, IInv
  <1>2. session' = [session EXCEPT ![s].state = end] /\ end \in {"closed", "expired"}
    BY DEF Close
  <1> HIDE DEF end
  <1>3. OwnRows(r)
    BY <1>1, <1>2 DEF Close, OwnRows, TypeOK
  <1>4. Locked' /\ Placed' /\ ReadsHold'
    BY <1>3, Ends DEF Close
  <1>5. session' \in [Sessions -> SessionRow]
    BY <1>1, <1>2 DEF TypeOK, SessionRow
  <1>6. TypeOK'
    BY <1>1, <1>5, FinishTypes DEF Close, TypeOK
  <1>7. \A t \in Sessions :
          /\ session'[t].state = "absent" => session'[t] = NoSession
          /\ session'[t].browser <= tokens'
          /\ session[t].state # "absent" => session'[t].state # "absent"
    BY <1>1, <1>2 DEF Close, IInv, Paired, TypeOK, SessionRow
  <1>8. Paired'
    BY <1>7, SessionAssumption DEF Close, IInv, Paired
  <1> QED BY <1>4, <1>6, <1>8 DEF IInv

\* A step that is no request's.
LEMMA QuietKeeps ==
  ASSUME IInv, OwnRows(None), UNCHANGED requestVars
  PROVE  Locked' /\ Placed' /\ ReadsHold'
  <1>1. Apart(None) /\ None \notin Requests
    BY SessionAssumption DEF Apart, requestVars
  <1> QED BY <1>1, ApartKeeps, OthersReads DEF IInv

LEMMA CreateSessionKeeps ==
  ASSUME IInv, NEW s \in Sessions, NEW tusBackend \in BOOLEAN, CreateSession(s, tusBackend)
  PROVE  IInv'
  <1> DEFINE row == [state |-> "open", tus |-> tusBackend, browser |-> 0]
  <1>1. /\ TypeOK /\ session[s] = NoSession /\ session' = [session EXCEPT ![s] = row]
        /\ UNCHANGED requestVars
    BY DEF CreateSession, IInv, Paired
  <1>2. row \in SessionRow /\ row.browser = 0 /\ row.state # "absent"
    BY DEF SessionRow
  <1> HIDE DEF row
  <1>3. OwnRows(None)
    BY <1>1 DEF CreateSession, OwnRows, TypeOK
  <1>4. TypeOK'
    BY <1>1, <1>2 DEF CreateSession, TypeOK, requestVars
  <1>5. Paired'
    BY <1>1, <1>2, SessionAssumption DEF CreateSession, IInv, Paired, TypeOK
  <1> QED BY <1>1, <1>3, <1>4, <1>5, QuietKeeps DEF IInv

LEMMA ProceedKeeps ==
  ASSUME IInv, NEW f \in Files, Proceed(f)
  PROVE  IInv'
  <1>1. /\ TypeOK /\ lock[<<"intent", f>>] = None
        /\ intent[f] \in {"pending", "accepted", "taken"}
        /\ \E new \in {"taken", "failed", "expired"} :
             intent' = [intent EXCEPT ![f] = new]
    BY DEF Proceed, IInv
  <1>2. PICK new \in {"taken", "failed", "expired"} :
          intent' = [intent EXCEPT ![f] = new]
    BY <1>1
  <1>3. OwnRows(None)
    BY <1>1, <1>2 DEF Proceed, OwnRows, TypeOK
  <1>4. TypeOK'
    BY <1>1, <1>2 DEF Proceed, TypeOK, requestVars, IntentState
  <1>5. Paired'
    BY <1>1, <1>2 DEF Proceed, IInv, Paired, TypeOK
  <1> QED BY <1>3, <1>4, <1>5, QuietKeeps DEF Proceed, IInv

LEMMA WorldKeeps ==
  ASSUME IInv, \/ TimePasses
               \/ \E f \in Files : TusMoves(f)
               \/ UNCHANGED vars
  PROVE  IInv'
  <1>1. UNCHANGED <<rowVars, requestVars, tokens, grants, calls>>
    BY DEF TimePasses, TusMoves, vars
  <1>2. OwnRows(None)
    BY <1>1 DEF OwnRows, rowVars
  <1>3. tus' \in [Files -> {"none", "allowed", "made"}]
    BY DEF IInv, TypeOK, TimePasses, TusMoves, vars
  <1>4. over' \subseteq Sessions \cup Files \cup Nat
    <2>1. CASE TimePasses
      BY <2>1 DEF TimePasses, IInv, TypeOK, Chosen, LinkRow
    <2>2. CASE UNCHANGED over
      BY <2>2 DEF IInv, TypeOK
    <2> QED BY <2>1, <2>2 DEF TusMoves, vars
  <1>5. TypeOK' /\ Paired'
    BY <1>1, <1>3, <1>4 DEF IInv, TypeOK, Paired, rowVars, requestVars
  <1> QED BY <1>1, <1>2, <1>5, QuietKeeps DEF IInv

-----------------------------------------------------------------------------
(* The invariant.                                                          *)

LEMMA InitInv == Init => IInv
  <1> SUFFICES ASSUME Init PROVE IInv
    OBVIOUS
  <1>1. /\ NoRead \in Reads /\ NoSession \in SessionRow /\ NoLink \in LinkRow
        /\ NoCall \in Calls \cup {NoCall} /\ 0 \in 0 .. MaxCalls
    BY SessionAssumption DEF NoRead, Reads, NoSession, SessionRow, NoLink, LinkRow, IntentState
  <1>2. TypeOK
    BY <1>1 DEF Init, TypeOK, IntentState, Places
  <1>3. Paired
    BY SessionAssumption DEF Init, Paired, NoSession, NoLink
  <1>4. Locked /\ Placed
    BY DEF Init, Locked, LockedBy, Placed, PlacedAt, NoRead
  <1>5. ReadsHold
    BY DEF Init, ReadsHold, NoRead
  <1> QED BY <1>2, <1>3, <1>4, <1>5 DEF IInv

LEMMA StepInv == IInv /\ [Next]_vars => IInv'
  <1> SUFFICES ASSUME IInv, [Next]_vars PROVE IInv'
    OBVIOUS
  <1>1. ASSUME NEW r \in Requests, Caller(r) PROVE IInv'
    BY <1>1, CallerKeeps
  <1>2. ASSUME NEW r \in Requests, Continue(r) PROVE IInv'
    <2>1. UNCHANGED <<over, calls>>
      BY <1>2 DEF Continue
    <2>2. CASE (LockSession(r) \/ LockLink(r) \/ LockIntent(r) \/ Probe(r))
               /\ UNCHANGED <<tus, tokens, grants>>
      BY <2>1, <2>2, LockSessionKeeps, LockLinkKeeps, LockIntentKeeps, ProbeKeeps
    <2>3. CASE Exchange(r) \/ Select(r) \/ Authorize(r) \/ Accept(r)
      BY <2>1, <2>3, ExchangeKeeps, SelectKeeps, AuthorizeKeeps, AcceptKeeps
    <2>4. CASE Claim(r) \/ Inspect(r) \/ Expire(r) \/ Close(r)
      BY <2>1, <2>4, ClaimKeeps, InspectKeeps, ExpireKeeps, CloseKeeps
    <2>5. CASE Abort(r)
      BY <2>1, <2>5, RefuseKeeps DEF Abort
    <2> QED BY <1>2, <2>2, <2>3, <2>4, <2>5 DEF Continue, Step
  <1>3. ASSUME NEW r \in Requests, Fail(r) PROVE IInv'
    BY <1>3, RefuseKeeps DEF Fail
  <1>4. ASSUME NEW s \in Sessions, NEW tusBackend \in BOOLEAN, CreateSession(s, tusBackend)
        PROVE  IInv'
    BY <1>4, CreateSessionKeeps
  <1>5. ASSUME NEW f \in Files, Proceed(f) PROVE IInv'
    BY <1>5, ProceedKeeps
  <1> QED BY <1>1, <1>2, <1>3, <1>4, <1>5, WorldKeeps DEF Next

\* Type correctness of the rows, requests and counters.
THEOREM TypeCorrect == Spec => []TypeOK
  <1>1. IInv => TypeOK
    BY DEF IInv
  <1> QED BY <1>1, InitInv, StepInv, PTL DEF Spec

\* Whatever transactions of browsers, owners and hooks overlap, what each has
\* read of a session, a file and its upload is so when it decides: the locks of
\* authorize_session_file, accept_session_creation and the others are enough.
THEOREM ReadsAreStable == Spec => []ReadsHold
  <1>1. IInv => ReadsHold
    BY DEF IInv
  <1> QED BY <1>1, InitInv, StepInv, PTL DEF Spec

-----------------------------------------------------------------------------
(* The rows keep the promise.                                              *)

LEMMA SameView ==
  /\ UNCHANGED session => UNCHANGED <<StateOf, ResumableSessions, BrowserOf>>
  /\ UNCHANGED link => UNCHANGED <<ChosenFiles, GrantOf, UsedGrants>>
  /\ UNCHANGED intent => UNCHANGED ProgressOf
  BY DEF StateOf, ResumableSessions, BrowserOf, ChosenFiles, GrantOf, UsedGrants, ProgressOf

LEMMA QuietView ==
  UNCHANGED rowVars /\ UNCHANGED grants => UNCHANGED Promise!promise
  BY SameView DEF rowVars, Promise!promise

LEMMA ExchangeEnters ==
  ASSUME IInv, NEW r \in Requests, Exchange(r)
  PROVE  Promise!Enter(call[r].session) \/ UNCHANGED Promise!promise
  <1> DEFINE s == call[r].session
  <1>1. /\ s \in Sessions /\ session[s].state # "absent"
        /\ session \in [Sessions -> SessionRow] /\ session[s].browser <= tokens
        /\ tokens \in Nat
    BY Deciding DEF Exchange, IInv, TypeOK, Paired
  <1>2. UNCHANGED <<link, intent, grants>>
    BY DEF Exchange
  <1>3. CASE UNCHANGED session
    BY <1>2, <1>3, QuietView DEF rowVars
  <1>4. CASE session' = [session EXCEPT ![s].browser = tokens + 1]
    <2>1. session[s].browser \in Nat
      BY <1>1 DEF SessionRow
    <2>2. BrowserOf[s] = session[s].browser /\ BrowserOf'[s] = tokens + 1
      BY <1>1, <1>4 DEF BrowserOf, SessionRow
    <2>3. BrowserOf' = [BrowserOf EXCEPT ![s] = BrowserOf'[s]]
      BY <1>1, <1>4, <2>2 DEF BrowserOf, SessionRow
    <2>4. UNCHANGED <<StateOf, ResumableSessions>>
      <3>1. \A t \in Sessions :
              session'[t].state = session[t].state /\ session'[t].tus = session[t].tus
        BY <1>1, <1>4 DEF SessionRow
      <3> QED BY <3>1 DEF StateOf, ResumableSessions
    <2>5. StateOf[s] # "absent"
      BY <1>1 DEF StateOf
    <2> QED BY <1>1, <1>2, <2>1, <2>2, <2>3, <2>4, <2>5, SameView DEF Promise!Enter
  <1> QED BY <1>3, <1>4 DEF Exchange

\* The files a session has, in the model and in the promise.
LEMMA SameFiles == \A s : Promise!Chosen(s) = Chosen(s)
  BY DEF Promise!Chosen, Chosen, ChosenFiles

LEMMA SelectChooses ==
  ASSUME IInv, NEW r \in Requests, Select(r)
  PROVE  (Promise!Choose(File(r)) /\ File(r) \in Files) \/ UNCHANGED Promise!promise
  <1> DEFINE s == call[r].session
             f == File(r)
             files == saw[r].chosen \cup {f}
  <1>1. /\ s \in Sessions /\ saw[r].session = session[s] /\ f \in Files /\ s = SessionOf[f]
        /\ saw[r].chosen = Chosen(s) /\ link[f] = NoLink /\ intent[f] = "absent"
    BY Selecting DEF Select
  <1>2. CASE UNCHANGED <<rowVars, grants>>
    BY <1>2, QuietView
  <1>3. CASE /\ session[s].state = "open" /\ files \in Allowed
             /\ intent' = [intent EXCEPT ![f] = "pending"]
             /\ link' = [link EXCEPT ![f] = IF saw[r].session.tus THEN NewGrant ELSE Ungranted]
             /\ grants' = IF saw[r].session.tus THEN grants + 1 ELSE grants
             /\ session' = IF files \in Full THEN [session EXCEPT ![s].state = "closed"] ELSE session
    <2>1. /\ session \in [Sessions -> SessionRow] /\ link \in [Files -> LinkRow]
          /\ intent \in [Files -> IntentState] /\ ~link[f].bound /\ ~link[f].used
          /\ link[f].grant = 0
      BY <1>1 DEF IInv, TypeOK, NoLink
    <2>2. Promise!Chosen(SessionOf[f]) \cup {f} = files
      BY <1>1, SameFiles
    <2> HIDE DEF files
    <2>3. StateOf[SessionOf[f]] = "open" /\ f \notin ChosenFiles
      BY <1>1, <1>3, <2>1 DEF StateOf, ChosenFiles
    <2>4. ChosenFiles' = ChosenFiles \cup {f}
      <3>1. link'[f].bound
        BY <1>1, <1>3, <2>1 DEF NewGrant, Ungranted
      <3>2. \A g \in Files \ {f} : link'[g] = link[g]
        BY <1>3, <2>1
      <3> QED BY <1>1, <3>1, <3>2 DEF ChosenFiles
    <2>5. ProgressOf' = [ProgressOf EXCEPT ![f] = "pending"]
      BY <1>1, <1>3, <2>1 DEF ProgressOf
    <2>6. /\ StateOf' = IF files \in Full THEN [StateOf EXCEPT ![SessionOf[f]] = "closed"]
                        ELSE StateOf
          /\ UNCHANGED <<ResumableSessions, BrowserOf>>
      <3>1. CASE files \in Full
        <4>1. /\ session'[s].state = "closed"
              /\ \A t \in Sessions : session'[t].tus = session[t].tus
                                     /\ session'[t].browser = session[t].browser
              /\ \A t \in Sessions \ {s} : session'[t] = session[t]
          BY <1>1, <1>3, <2>1, <3>1 DEF SessionRow
        <4>2. StateOf' = [StateOf EXCEPT ![s] = "closed"]
          BY <1>1, <4>1 DEF StateOf
        <4>3. UNCHANGED <<ResumableSessions, BrowserOf>>
          BY <4>1 DEF ResumableSessions, BrowserOf
        <4> QED BY <1>1, <3>1, <4>2, <4>3
      <3>2. CASE files \notin Full
        BY <1>3, <3>2, SameView
      <3> QED BY <3>1, <3>2
    <2>7. IF SessionOf[f] \in ResumableSessions THEN Promise!Issue(f)
          ELSE UNCHANGED <<GrantOf, UsedGrants, grants>>
      <3>1. CASE session[s].tus
        <4>1. /\ link'[f].grant = grants + 1 /\ ~link'[f].used /\ grants' = grants + 1
              /\ \A g \in Files \ {f} : link'[g] = link[g]
          BY <1>1, <1>3, <2>1, <3>1 DEF NewGrant
        <4>2. GrantOf' = [GrantOf EXCEPT ![f] = grants + 1] /\ UsedGrants' = UsedGrants \ {f}
          BY <1>1, <4>1 DEF GrantOf, UsedGrants
        <4> QED BY <1>1, <3>1, <4>1, <4>2 DEF ResumableSessions, Promise!Issue
      <3>2. CASE ~session[s].tus
        <4>1. /\ link'[f].grant = 0 /\ ~link'[f].used /\ grants' = grants
              /\ \A g \in Files \ {f} : link'[g] = link[g]
          BY <1>1, <1>3, <2>1, <3>2 DEF Ungranted
        <4>2. GrantOf' = GrantOf /\ UsedGrants' = UsedGrants
          BY <1>1, <2>1, <4>1 DEF GrantOf, UsedGrants
        <4> QED BY <1>1, <3>2, <4>1, <4>2 DEF ResumableSessions
      <3> QED BY <3>1, <3>2
    <2> QED BY <1>1, <1>3, <2>2, <2>3, <2>4, <2>5, <2>6, <2>7 DEF Promise!Choose
  <1> QED BY <1>1, <1>2, <1>3 DEF Select

LEMMA AuthorizeRenews ==
  ASSUME IInv, NEW r \in Requests, Authorize(r)
  PROVE  (Promise!Renew(File(r)) /\ File(r) \in Files) \/ UNCHANGED Promise!promise
  <1> DEFINE f == File(r)
  <1>1. /\ saw[r].session = session[SessionOf[f]] /\ f \in Files /\ SessionOf[f] \in Sessions
        /\ saw[r].intent # "absent" => saw[r].intent = intent[f]
        /\ link \in [Files -> LinkRow] /\ link[f].bound
    <2>1. at[r] = "decide" /\ Op(r) \in FileOps
      BY DEF Authorize, FileOps
    <2>2. link \in [Files -> LinkRow] /\ intent \in [Files -> IntentState]
      BY DEF IInv, TypeOK
    <2> QED BY <2>1, <2>2, Deciding
  <1>2. CASE UNCHANGED <<link, grants>>
    BY <1>2, QuietView DEF Authorize, rowVars
  <1>3. CASE /\ saw[r].session.tus /\ saw[r].intent \in {"pending", "accepted"}
             /\ link' = [link EXCEPT ![f] = NewGrant] /\ grants' = grants + 1
    <2>1. SessionOf[f] \in ResumableSessions /\ ProgressOf[f] \in {"pending", "accepted"}
      BY <1>1, <1>3 DEF ResumableSessions, ProgressOf
    <2>2. /\ link'[f].grant = grants + 1 /\ ~link'[f].used /\ link'[f].bound
          /\ \A g \in Files \ {f} : link'[g] = link[g]
      BY <1>1, <1>3 DEF NewGrant
    <2>3. GrantOf' = [GrantOf EXCEPT ![f] = grants + 1] /\ UsedGrants' = UsedGrants \ {f}
      BY <1>1, <2>2 DEF GrantOf, UsedGrants
    <2>4. ChosenFiles' = ChosenFiles
      BY <1>1, <2>2 DEF ChosenFiles
    <2> QED BY <1>1, <1>3, <2>1, <2>3, <2>4, SameView DEF Authorize, Promise!Renew, Promise!Issue
  <1> QED BY <1>1, <1>2, <1>3 DEF Authorize

LEMMA AcceptUses ==
  ASSUME IInv, NEW r \in Requests, Accept(r)
  PROVE  (Promise!Use(File(r)) /\ File(r) \in Files) \/ UNCHANGED Promise!promise
  <1> DEFINE f == File(r)
  <1>1. /\ f \in Files /\ saw[r].link = link[f] /\ link[f].bound
        /\ saw[r].intent # "absent" => saw[r].intent = intent[f]
        /\ link \in [Files -> LinkRow] /\ intent \in [Files -> IntentState]
    BY Deciding DEF Accept, FileOps, IInv, TypeOK
  <1>2. link[f].grant # 0
    <2>1. PlacedAt(r)
      BY DEF IInv, Placed
    <2> QED BY <1>1, <2>1 DEF PlacedAt, Accept
  <1>3. CASE UNCHANGED <<link, intent>>
    BY <1>3, QuietView DEF Accept, rowVars
  <1>4. CASE /\ ~saw[r].link.used /\ saw[r].intent \in {"pending", "accepted"}
             /\ link' = [link EXCEPT ![f].used = TRUE]
             /\ intent' = [intent EXCEPT ![f] = "accepted"]
    <2>1. /\ GrantOf[f] # 0 /\ f \notin UsedGrants /\ ProgressOf[f] \in {"pending", "accepted"}
      BY <1>1, <1>2, <1>4 DEF GrantOf, UsedGrants, ProgressOf
    <2>2. /\ link'[f].used
          /\ \A g \in Files : link'[g].grant = link[g].grant /\ link'[g].bound = link[g].bound
          /\ \A g \in Files \ {f} : link'[g] = link[g]
      BY <1>1, <1>4 DEF LinkRow
    <2>3. UsedGrants' = UsedGrants \cup {f}
      BY <1>1, <2>2 DEF UsedGrants
    <2>4. GrantOf' = GrantOf /\ ChosenFiles' = ChosenFiles
      BY <2>2 DEF GrantOf, ChosenFiles
    <2>5. ProgressOf' = [ProgressOf EXCEPT ![f] = "accepted"]
      BY <1>1, <1>4 DEF ProgressOf
    <2> QED BY <1>1, <2>1, <2>3, <2>4, <2>5, SameView DEF Accept, Promise!Use
  <1> QED BY <1>3, <1>4 DEF Accept

LEMMA ClaimClaims ==
  ASSUME IInv, NEW r \in Requests, Claim(r)
  PROVE  (Promise!Claim(File(r)) /\ File(r) \in Files) \/ UNCHANGED Promise!promise
  <1> DEFINE f == File(r)
  <1>1. /\ saw[r].session = session[SessionOf[f]] /\ f \in Files
        /\ saw[r].intent # "absent" => saw[r].intent = intent[f]
        /\ intent \in [Files -> IntentState]
    <2>1. at[r] = "decide" /\ Op(r) \in FileOps
      BY DEF Claim, FileOps
    <2>2. link \in [Files -> LinkRow] /\ intent \in [Files -> IntentState]
      BY DEF IInv, TypeOK
    <2> QED BY <2>1, <2>2, Deciding
  <1>2. CASE UNCHANGED intent
    BY <1>2, QuietView DEF Claim, rowVars
  <1>3. CASE /\ ~saw[r].session.tus /\ saw[r].intent = "pending"
             /\ intent' = [intent EXCEPT ![f] = "accepted"]
    <2>1. SessionOf[f] \notin ResumableSessions /\ ProgressOf[f] = "pending"
      BY <1>1, <1>3 DEF ResumableSessions, ProgressOf
    <2>2. ProgressOf' = [ProgressOf EXCEPT ![f] = "accepted"]
      BY <1>1, <1>3 DEF ProgressOf
    <2> QED BY <1>1, <2>1, <2>2, SameView DEF Claim, Promise!Claim
  <1> QED BY <1>2, <1>3 DEF Claim

\* An upload that is taken, fails or expires is settled, and stays so.
LEMMA IntentSettles ==
  ASSUME TypeOK, NEW f \in Files, NEW new \in {"taken", "failed", "expired"},
         intent[f] \in {"pending", "accepted", "taken", "failed"},
         intent' = [intent EXCEPT ![f] = new], UNCHANGED <<session, link, grants>>
  PROVE  Promise!Settle(f) \/ UNCHANGED Promise!promise
  <1>1. ProgressOf' = [ProgressOf EXCEPT ![f] = "settled"]
    BY DEF ProgressOf, TypeOK
  <1>2. CASE intent[f] \in {"pending", "accepted"}
    <2>1. ProgressOf[f] \in {"pending", "accepted"}
      BY <1>2 DEF ProgressOf
    <2> QED BY <1>1, <2>1, SameView DEF Promise!Settle
  <1>3. CASE intent[f] \in {"taken", "failed"}
    <2>1. ProgressOf[f] = "settled"
      BY <1>3 DEF ProgressOf
    <2>2. ProgressOf' = ProgressOf
      BY <1>1, <2>1 DEF ProgressOf
    <2> QED BY <2>2, SameView DEF Promise!promise
  <1> QED BY <1>2, <1>3

LEMMA ExpireSettles ==
  ASSUME IInv, NEW r \in Requests, Expire(r)
  PROVE  (Promise!Settle(File(r)) /\ File(r) \in Files) \/ UNCHANGED Promise!promise
  <1>1. File(r) \in Files
    BY DEF Expire, IInv, Placed, PlacedAt
  <1>2. CASE UNCHANGED intent
    BY <1>2, QuietView DEF Expire, rowVars
  <1>3. CASE /\ intent[File(r)] \in {"pending", "accepted", "failed"}
             /\ intent' = [intent EXCEPT ![File(r)] = "expired"]
    BY <1>1, <1>3, IntentSettles DEF Expire, IInv
  <1> QED BY <1>2, <1>3 DEF Expire

LEMMA CloseCloses ==
  ASSUME IInv, NEW r \in Requests, Close(r)
  PROVE  Promise!Close(call[r].session) \/ UNCHANGED Promise!promise
  <1> DEFINE s == call[r].session
             end == IF call[r].fresh THEN "closed" ELSE "expired"
  <1>1. /\ s \in Sessions /\ session[s].state # "absent"
        /\ session \in [Sessions -> SessionRow]
    BY Deciding DEF Close, IInv, TypeOK
  <1>2. session' = [session EXCEPT ![s].state = end] /\ end \in {"closed", "expired"}
    BY DEF Close
  <1> HIDE DEF end
  <1>3. /\ session'[s].state \in {"closed", "expired"}
        /\ \A t \in Sessions : session'[t].tus = session[t].tus
                               /\ session'[t].browser = session[t].browser
        /\ \A t \in Sessions \ {s} : session'[t] = session[t]
    BY <1>1, <1>2 DEF SessionRow
  <1>4. StateOf' = [StateOf EXCEPT ![s] = "closed"]
    BY <1>1, <1>3 DEF StateOf
  <1>5. UNCHANGED <<ResumableSessions, BrowserOf>>
    BY <1>3 DEF ResumableSessions, BrowserOf
  <1>6. UNCHANGED <<ChosenFiles, GrantOf, UsedGrants, ProgressOf, grants>>
    BY SameView DEF Close
  <1>7. CASE session[s].state = "open"
    <2>1. StateOf[s] = "open"
      BY <1>1, <1>7 DEF StateOf
    <2> QED BY <2>1, <1>4, <1>5, <1>6 DEF Promise!Close
  <1>8. CASE session[s].state # "open"
    <2>1. StateOf[s] = "closed"
      BY <1>1, <1>8 DEF StateOf, SessionRow
    <2>2. StateOf' = StateOf
      BY <1>4, <2>1 DEF StateOf
    <2> QED BY <2>2, <1>5, <1>6 DEF Promise!promise
  <1> QED BY <1>7, <1>8

LEMMA CreateOpens ==
  ASSUME IInv, NEW s \in Sessions, NEW tusBackend \in BOOLEAN, CreateSession(s, tusBackend)
  PROVE  Promise!Open(s)
  <1> DEFINE row == [state |-> "open", tus |-> tusBackend, browser |-> 0]
  <1>1. /\ session \in [Sessions -> SessionRow] /\ session[s] = NoSession
        /\ session' = [session EXCEPT ![s] = row]
    BY DEF CreateSession, IInv, TypeOK, Paired
  <1>2. row.state = "open" /\ row.tus = tusBackend /\ row.browser = 0
    OBVIOUS
  <1> HIDE DEF row
  <1>3. /\ session'[s] = row
        /\ \A t \in Sessions \ {s} : session'[t] = session[t]
        /\ session[s].state = "absent" /\ ~session[s].tus /\ session[s].browser = 0
    BY <1>1 DEF NoSession
  <1>4. StateOf[s] = "absent" /\ StateOf' = [StateOf EXCEPT ![s] = "open"]
    BY <1>2, <1>3 DEF StateOf
  <1>5. BrowserOf' = BrowserOf
    BY <1>2, <1>3 DEF BrowserOf
  <1>6. ResumableSessions' \in {ResumableSessions, ResumableSessions \cup {s}}
    <2>1. CASE tusBackend
      BY <1>2, <1>3, <2>1 DEF ResumableSessions
    <2>2. CASE ~tusBackend
      BY <1>2, <1>3, <2>2 DEF ResumableSessions
    <2> QED BY <2>1, <2>2
  <1> QED BY <1>4, <1>5, <1>6, SameView DEF CreateSession, Promise!Open

LEMMA InitPromise == Init => Promise!Init
  <1> SUFFICES ASSUME Init PROVE Promise!Init
    OBVIOUS
  <1>1. /\ StateOf = [s \in Sessions |-> "absent"] /\ ResumableSessions = {}
        /\ BrowserOf = [s \in Sessions |-> 0]
    BY DEF Init, StateOf, ResumableSessions, BrowserOf, NoSession
  <1>2. /\ ChosenFiles = {} /\ UsedGrants = {} /\ GrantOf = [f \in Files |-> 0]
    BY DEF Init, ChosenFiles, UsedGrants, GrantOf, NoLink
  <1>3. ProgressOf = [f \in Files |-> "absent"]
    BY DEF Init, ProgressOf
  <1> QED BY <1>1, <1>2, <1>3 DEF Init, Promise!Init

LEMMA StepPromise ==
  ASSUME IInv, [Next]_vars
  PROVE  [Promise!Next]_Promise!promise
  <1>1. ASSUME NEW r \in Requests, Caller(r)
        PROVE  UNCHANGED Promise!promise
    BY <1>1, QuietView
      DEF Caller, CallExchange, CallClose, CallEnd, CallFile, CallAccept, Begin
  <1>2. ASSUME NEW r \in Requests, Continue(r)
        PROVE  [Promise!Next]_Promise!promise
    <2>0. call[r].session \in Sessions \/ at[r] = "idle"
      BY ReadRows DEF IInv
    <2>1. CASE (LockSession(r) \/ LockLink(r) \/ LockIntent(r) \/ Probe(r))
               /\ UNCHANGED <<tus, tokens, grants>>
      <3>1. UNCHANGED rowVars
        BY <2>1 DEF LockSession, LockLink, LockIntent, Probe, Refuse, rowVars
      <3> QED BY <2>1, <3>1, QuietView
    <2>2. CASE Exchange(r)
      BY <2>0, <2>2, ExchangeEnters DEF Promise!Next, Exchange
    <2>3. CASE Select(r)
      BY <2>3, SelectChooses DEF Promise!Next
    <2>4. CASE Authorize(r)
      BY <2>4, AuthorizeRenews DEF Promise!Next
    <2>5. CASE Accept(r)
      BY <2>5, AcceptUses DEF Promise!Next
    <2>6. CASE Claim(r)
      BY <2>6, ClaimClaims DEF Promise!Next
    <2>7. CASE Inspect(r)
      BY <2>7, QuietView DEF Inspect
    <2>8. CASE Expire(r)
      BY <2>8, ExpireSettles DEF Promise!Next
    <2>9. CASE Close(r)
      BY <2>0, <2>9, CloseCloses DEF Promise!Next, Close
    <2>10. CASE Abort(r)
      BY <2>10, QuietView DEF Abort, Refuse
    <2> QED BY <1>2, <2>1, <2>2, <2>3, <2>4, <2>5, <2>6, <2>7, <2>8, <2>9, <2>10
            DEF Continue, Step
  <1>3. ASSUME NEW r \in Requests, Fail(r)
        PROVE  UNCHANGED Promise!promise
    BY <1>3, QuietView DEF Fail, Refuse
  <1>4. ASSUME NEW s \in Sessions, NEW tusBackend \in BOOLEAN, CreateSession(s, tusBackend)
        PROVE  Promise!Next
    BY <1>4, CreateOpens DEF Promise!Next
  <1>5. ASSUME NEW f \in Files, Proceed(f)
        PROVE  [Promise!Next]_(Promise!promise)
    <2>1. /\ intent[f] \in {"pending", "accepted", "taken"}
          /\ UNCHANGED <<session, link, grants>>
      BY <1>5 DEF Proceed
    <2>2. PICK new \in {"taken", "failed", "expired"} :
            intent' = [intent EXCEPT ![f] = new]
      BY <1>5 DEF Proceed
    <2> QED BY <2>1, <2>2, IntentSettles DEF IInv, Promise!Next
  <1>6. ASSUME (\E f \in Files : TusMoves(f)) \/ TimePasses \/ UNCHANGED vars
        PROVE  UNCHANGED Promise!promise
    <2>1. UNCHANGED rowVars /\ UNCHANGED grants
      BY <1>6 DEF TusMoves, TimePasses, vars
    <2> QED BY <2>1, QuietView
  <1> QED BY <1>1, <1>2, <1>3, <1>4, <1>5, <1>6 DEF Next

\* Overlapping transactions change the rows as if each request were one step of
\* SessionPromise: files within the limits of a session that is open, one use of
\* a file's only grant, and no transfer that starts again.
THEOREM PromiseKept == Spec => KeepsPromise
  <1>1. Spec => []IInv
    BY InitInv, StepInv, PTL DEF Spec
  <1> QED BY <1>1, InitPromise, StepPromise, PTL DEF Spec, KeepsPromise, Promise!Spec

=============================================================================
