-------------------------- MODULE MediaImportProofs --------------------------
(***************************************************************************)
(* Proofs about MediaImport, for any importers, contents, labels and       *)
(* request keys and any number of imports, faults, crashes and damages.    *)
(*                                                                         *)
(* What holds outside imports (ReadyStored, CompletedReady, NoLitter) is   *)
(* kept because the publication lock makes one import the owner of its     *)
(* content: the invariant says what the owner knows at each of its steps.  *)
(***************************************************************************)
EXTENDS MediaImport, TLAPS

\* The steps of an import that do not hold the publication lock.
Unlocked == {"idle", "stage", "lock"}

\* An import holds the lock of its content from the reservation on.
Locals ==
  \A i \in Importers :
    /\ pc[i] # "idle" /\ i \notin restores => under[i] = label[i]
    /\ pc[i] \notin Unlocked => lock[content[i]] = i
    /\ pc[i] \in {"reserve", "complete"} => request[i] \in Requests
    /\ pc[i] \notin {"idle", "publish", "sync", "resolve", "complete"} => i \notin restores

Labelled == \A c \in Contents : row[c].state # "absent" => row[c].label \in Labels

\* What the owner of a content knows about its row.
OwnRow ==
  \A i \in Importers :
    /\ pc[i] \in {"publish", "sync", "resolve"} /\ i \in restores =>
         row[content[i]].state = "ready" /\ row[content[i]].label = under[i]
    /\ pc[i] \in {"pend", "probe", "publish", "sync", "resolve", "ready"} /\ i \notin restores =>
         row[content[i]].state # "ready"
    /\ pc[i] \in {"retained", "delete"} /\ row[content[i]].state = "ready" =>
         row[content[i]].label = under[i]
    /\ pc[i] = "complete" => row[content[i]].state = "ready"

\* A key an import has reserved is bound to its file.
Bound ==
  \A i \in Importers :
    pc[i] \notin Unlocked \cup {"reserve"} /\ request[i] # None => reserved[request[i]] = File(i)

Answered ==
  \A r \in Requests \cup {None}, c \in Contents, l \in Labels, m \in Contents :
    <<r, c, l, m>> \in answers =>
      /\ m = c /\ row[m].state = "ready"
      /\ r # None => reserved[r] = <<c, l>>

Keyed == Bound /\ CompletedReady /\ Answered

\* What the owner knows about the object it publishes or removes.
OwnObject ==
  \A i \in Importers :
    /\ pc[i] \in {"sync", "resolve"} /\ i \in restores /\ i \in created => Key(i) \in lost
    /\ pc[i] = "ready" => object[Key(i)] = "good" \/ Key(i) \in lost
    /\ pc[i] = "delete" /\ row[content[i]].state = "ready" => Key(i) \in lost

BadLost == \A k \in Keys : object[k] = "bad" => k \in lost

Stored == BadLost /\ OwnObject /\ ReadyStored

\* An object some ready row names, or that a crash or the disk left behind.
Accounted(c, l) ==
  \/ object[<<c, l>>] = "absent"
  \/ row[c].state = "ready" /\ row[c].label = l
  \/ <<c, l>> \in litter

\* Only the owner of a content has an object that is not accounted for.
Busy == {"sync", "resolve", "ready", "retained", "delete"}

OthersAccounted ==
  \A c \in Contents, l \in Labels :
    Accounted(c, l) \/ \E i \in Importers : pc[i] \in Busy /\ content[i] = c /\ under[i] = l

OldAccounted ==
  \A i \in Importers :
    pc[i] \in {"sync", "resolve"} /\ i \notin created => Accounted(content[i], under[i])

Clean == OthersAccounted /\ OldAccounted

Base == ControlType /\ CatalogType /\ StoreType /\ Locals /\ Labelled

-----------------------------------------------------------------------------
\* Two imports never hold the publication lock of one content.
LEMMA Owner ==
  ASSUME Locals, NEW i \in Importers, NEW j \in Importers, j # i,
         pc[i] \notin Unlocked, pc[j] \notin Unlocked
  PROVE  content[j] # content[i]
PROOF BY DEF Locals

\* What no import is busy with is accounted for.
LEMMA NotBusy ==
  ASSUME Locals, ControlType, OthersAccounted, NEW i \in Importers,
         pc[i] \notin Unlocked \cup Busy
  PROVE  Accounted(content[i], under[i])
PROOF
<1>1. content[i] \in Contents /\ under[i] \in Labels
  BY DEF ControlType, Unlocked
<1>2. ASSUME NEW j \in Importers, pc[j] \in Busy, content[j] = content[i]
      PROVE  FALSE
  <2>1. j # i
    BY <1>2
  <2>2. QED BY <1>2, <2>1, Owner DEF Busy, Unlocked
<1>3. QED BY <1>1, <1>2 DEF OthersAccounted

\* An import goes from state to state with its file, key and lock.
LEMMA ControlStep ==
  ASSUME Base, [Next]_vars
  PROVE  ControlType'
PROOF
<1> USE ImportAssumption DEF Base, ControlType, ImportState, Locals, Labelled,
      importVars, fileVars, placeVars, catalogVars, historyVars, boundVars
<1>1. ASSUME NEW i \in Importers, NEW c \in Contents, NEW l \in Labels,
             NEW r \in Requests \cup {None}, Import(i, c, l, r)
      PROVE  ControlType'
  BY <1>1 DEF Import, Goto
<1>2. ASSUME NEW i \in Importers,
             Stage(i) \/ StageFails(i) \/ TakeLock(i)
      PROVE  ControlType'
  <2>1. CASE Stage(i) BY <2>1 DEF Stage, Goto
  <2>2. CASE StageFails(i) BY <2>2 DEF StageFails, Goto, Fault
  <2>3. CASE TakeLock(i) BY <2>3 DEF TakeLock, Goto
  <2>9. QED BY <1>2, <2>1, <2>2, <2>3
<1>3. ASSUME NEW i \in Importers,
             Reserve(i) \/ Lookup(i) \/ Pend(i)
      PROVE  ControlType'
  <2>1. CASE Reserve(i) BY <2>1 DEF Reserve, File, Proceed, Finish, Goto
  <2>2. CASE Lookup(i) BY <2>2 DEF Lookup, Proceed, Goto
  <2>3. CASE Pend(i) BY <2>3 DEF Pend, Proceed, Pending, ReplaceMedia, Goto
  <2>9. QED BY <1>3, <2>1, <2>2, <2>3
<1>4. ASSUME NEW i \in Importers,
             CatalogFails(i)
      PROVE  ControlType'
  BY <1>4 DEF CatalogFails, File, Finish, Fault, Pending, ReplaceMedia, Goto
<1>5. ASSUME NEW i \in Importers,
             Probe(i)
      PROVE  ControlType'
  BY <1>5 DEF Probe, Proceed, Fault, Fine, Goto
<1>6. ASSUME NEW i \in Importers,
             PublishFails(i) \/ PublishSame(i) \/ PublishReplace(i)
      PROVE  ControlType'
  <2>1. CASE PublishFails(i) BY <2>1 DEF PublishFails, Fault, PublishRaises,
       Proceed, Finish, Goto
  <2>2. CASE PublishSame(i) BY <2>2 DEF PublishSame, Key, Proceed, Goto
  <2>3. CASE PublishReplace(i) BY <2>3 DEF PublishReplace, Key, Proceed, Goto
  <2>9. QED BY <1>6, <2>1, <2>2, <2>3
<1>7. ASSUME NEW i \in Importers,
             Sync(i) \/ SyncFails(i)
      PROVE  ControlType'
  <2>1. CASE Sync(i) BY <2>1 DEF Sync, Proceed, Goto
  <2>2. CASE SyncFails(i) BY <2>2 DEF SyncFails, Key, Fault, PublishRaises, Proceed,
       Finish, Goto
  <2>9. QED BY <1>7, <2>1, <2>2
<1>8. ASSUME NEW i \in Importers,
             Resolve(i) \/ ResolveFails(i)
      PROVE  ControlType'
  <2>1. CASE Resolve(i) BY <2>1 DEF Resolve, Key, AfterPublish, Proceed, Finish,
       Goto
  <2>2. CASE ResolveFails(i) BY <2>2 DEF ResolveFails, Key, Fault, Fine,
       PublishRaises, Proceed, Finish, Goto
  <2>9. QED BY <1>8, <2>1, <2>2
<1>9. ASSUME NEW i \in Importers,
             MakeReady(i) \/ MakeReadyFails(i)
      PROVE  ControlType'
  <2>1. CASE MakeReady(i) BY <2>1 DEF MakeReady, Proceed, Finish, Fault, Fine,
       ReplaceMedia, Goto
  <2>2. CASE MakeReadyFails(i) BY <2>2 DEF MakeReadyFails, Proceed, Fault, Goto
  <2>9. QED BY <1>9, <2>1, <2>2
<1>10. ASSUME NEW i \in Importers,
             CheckRetained(i) \/ CheckFails(i)
      PROVE  ControlType'
  <2>1. CASE CheckRetained(i) BY <2>1 DEF CheckRetained, Proceed, Goto
  <2>2. CASE CheckFails(i) BY <2>2 DEF CheckFails, Key, Proceed, Fault, Goto
  <2>9. QED BY <1>10, <2>1, <2>2
<1>11. ASSUME NEW i \in Importers,
             Delete(i) \/ Mark(i) \/ Complete(i)
      PROVE  ControlType'
  <2>1. CASE Delete(i) BY <2>1 DEF Delete, Key, Proceed, Fault, Fine, Goto
  <2>2. CASE Mark(i) BY <2>2 DEF Mark, Finish, Fault, Fine, Pending, ReplaceMedia,
       Goto
  <2>3. CASE Complete(i) BY <2>3 DEF Complete, File, Finish, Goto
  <2>9. QED BY <1>11, <2>1, <2>2, <2>3
<1>12. ASSUME NEW i \in Importers,
             Crash(i)
      PROVE  ControlType'
  BY <1>12 DEF Crash, Key, Goto
<1>13. ASSUME NEW k \in Keys, Damage(k) PROVE ControlType'
  BY <1>13 DEF Damage
<1>14. CASE UNCHANGED vars BY <1>14 DEF vars
<1>15. QED
  BY <1>1, <1>2, <1>3, <1>4, <1>5, <1>6, <1>7, <1>8, <1>9, <1>10, <1>11, <1>12,
     <1>13, <1>14
     DEF Next, Continue

\* Tables hold rows, and answers what the imports were given.
LEMMA CatalogStep ==
  ASSUME Base, [Next]_vars
  PROVE  CatalogType'
PROOF
<1> USE ImportAssumption DEF Base, ControlType, CatalogType, Locals, Files, Row,
      File, importVars, fileVars, placeVars, catalogVars, historyVars, boundVars
<1>1. ASSUME NEW i \in Importers, NEW c \in Contents, NEW l \in Labels,
             NEW r \in Requests \cup {None}, Import(i, c, l, r)
      PROVE  CatalogType'
  BY <1>1 DEF Import, Goto
<1>2. ASSUME NEW i \in Importers,
             Stage(i) \/ StageFails(i) \/ TakeLock(i)
      PROVE  CatalogType'
  <2>1. CASE Stage(i) BY <2>1 DEF Stage, Goto
  <2>2. CASE StageFails(i) BY <2>2 DEF StageFails, Goto, Fault
  <2>3. CASE TakeLock(i) BY <2>3 DEF TakeLock, Goto
  <2>9. QED BY <1>2, <2>1, <2>2, <2>3
<1>3. ASSUME NEW i \in Importers,
             Reserve(i) \/ Lookup(i) \/ Pend(i)
      PROVE  CatalogType'
  <2>1. CASE Reserve(i) BY <2>1 DEF Reserve, File, Proceed, Finish, Goto
  <2>2. CASE Lookup(i) BY <2>2 DEF Lookup, Proceed, Goto
  <2>3. CASE Pend(i) BY <2>3 DEF Pend, Proceed, Pending, ReplaceMedia, Goto
  <2>9. QED BY <1>3, <2>1, <2>2, <2>3
<1>4. ASSUME NEW i \in Importers,
             CatalogFails(i)
      PROVE  CatalogType'
  <2> USE DEF Fault, Finish, Goto
  <2>1. CASE UNCHANGED catalogVars
    BY <1>4, <2>1 DEF CatalogFails
  <2>2. CASE /\ pc[i] = "reserve" /\ reserved[request[i]] = None
             /\ reserved' = [reserved EXCEPT ![request[i]] = File(i)]
             /\ UNCHANGED <<row, completed>>
    BY <1>4, <2>2 DEF CatalogFails
  <2>3. CASE /\ pc[i] = "pend" /\ ReplaceMedia(content[i], Pending(i))
             /\ UNCHANGED <<reserved, completed>>
    BY <1>4, <2>3 DEF CatalogFails, ReplaceMedia, Pending
  <2>4. CASE /\ pc[i] = "complete" /\ reserved[request[i]] = File(i)
             /\ completed' = [completed EXCEPT ![request[i]] = content[i]]
             /\ UNCHANGED <<row, reserved>>
    BY <1>4, <2>4 DEF CatalogFails
  <2>9. QED BY <1>4, <2>1, <2>2, <2>3, <2>4 DEF CatalogFails
<1>5. ASSUME NEW i \in Importers,
             Probe(i)
      PROVE  CatalogType'
  BY <1>5 DEF Probe, Proceed, Fault, Fine, Goto
<1>6. ASSUME NEW i \in Importers,
             PublishFails(i) \/ PublishSame(i) \/ PublishReplace(i)
      PROVE  CatalogType'
  <2>1. CASE PublishFails(i) BY <2>1 DEF PublishFails, Fault, PublishRaises,
       Proceed, Finish, Goto
  <2>2. CASE PublishSame(i) BY <2>2 DEF PublishSame, Key, Proceed, Goto
  <2>3. CASE PublishReplace(i) BY <2>3 DEF PublishReplace, Key, Proceed, Goto
  <2>9. QED BY <1>6, <2>1, <2>2, <2>3
<1>7. ASSUME NEW i \in Importers,
             Sync(i) \/ SyncFails(i)
      PROVE  CatalogType'
  <2>1. CASE Sync(i) BY <2>1 DEF Sync, Proceed, Goto
  <2>2. CASE SyncFails(i) BY <2>2 DEF SyncFails, Key, Fault, PublishRaises, Proceed,
       Finish, Goto
  <2>9. QED BY <1>7, <2>1, <2>2
<1>8. ASSUME NEW i \in Importers,
             Resolve(i) \/ ResolveFails(i)
      PROVE  CatalogType'
  <2>1. CASE Resolve(i) BY <2>1 DEF Resolve, Key, AfterPublish, Proceed, Finish,
       Goto
  <2>2. CASE ResolveFails(i) BY <2>2 DEF ResolveFails, Key, Fault, Fine,
       PublishRaises, Proceed, Finish, Goto
  <2>9. QED BY <1>8, <2>1, <2>2
<1>9. ASSUME NEW i \in Importers,
             MakeReady(i) \/ MakeReadyFails(i)
      PROVE  CatalogType'
  <2>1. CASE MakeReady(i) BY <2>1 DEF MakeReady, Proceed, Finish, Fault, Fine,
       ReplaceMedia, Goto
  <2>2. CASE MakeReadyFails(i) BY <2>2 DEF MakeReadyFails, Proceed, Fault, Goto
  <2>9. QED BY <1>9, <2>1, <2>2
<1>10. ASSUME NEW i \in Importers,
             CheckRetained(i) \/ CheckFails(i)
      PROVE  CatalogType'
  <2>1. CASE CheckRetained(i) BY <2>1 DEF CheckRetained, Proceed, Goto
  <2>2. CASE CheckFails(i) BY <2>2 DEF CheckFails, Key, Proceed, Fault, Goto
  <2>9. QED BY <1>10, <2>1, <2>2
<1>11. ASSUME NEW i \in Importers,
             Delete(i) \/ Mark(i) \/ Complete(i)
      PROVE  CatalogType'
  <2>1. CASE Delete(i) BY <2>1 DEF Delete, Key, Proceed, Fault, Fine, Goto
  <2>2. CASE Mark(i)
    <3>1. [Pending(i) EXCEPT !.state = "failed"] = [state |-> "failed", label |-> label[i]]
      BY DEF Pending
    <3>2. label[i] \in Labels
      BY <2>2 DEF Mark
    <3>3. row' \in [Contents -> Row]
      BY <2>2, <3>1, <3>2 DEF Mark, ReplaceMedia
    <3>4. QED BY <2>2, <3>3 DEF Mark, Finish
  <2>3. CASE Complete(i) BY <2>3 DEF Complete, File, Finish, Goto
  <2>9. QED BY <1>11, <2>1, <2>2, <2>3
<1>12. ASSUME NEW i \in Importers,
             Crash(i)
      PROVE  CatalogType'
  BY <1>12 DEF Crash, Key, Goto
<1>13. ASSUME NEW k \in Keys, Damage(k) PROVE CatalogType'
  BY <1>13 DEF Damage
<1>14. CASE UNCHANGED vars BY <1>14 DEF vars
<1>15. QED
  BY <1>1, <1>2, <1>3, <1>4, <1>5, <1>6, <1>7, <1>8, <1>9, <1>10, <1>11, <1>12,
     <1>13, <1>14
     DEF Next, Continue

\* Objects are absent, good or bad.
LEMMA DiskStep ==
  ASSUME Base, [Next]_vars
  PROVE  StoreType'
PROOF
<1> USE ImportAssumption DEF Base, ControlType, StoreType, Keys, Key, importVars,
      fileVars, placeVars, catalogVars, historyVars, boundVars
<1>1. ASSUME NEW i \in Importers, NEW c \in Contents, NEW l \in Labels,
             NEW r \in Requests \cup {None}, Import(i, c, l, r)
      PROVE  StoreType'
  BY <1>1 DEF Import, Goto
<1>2. ASSUME NEW i \in Importers,
             Stage(i) \/ StageFails(i) \/ TakeLock(i)
      PROVE  StoreType'
  <2>1. CASE Stage(i) BY <2>1 DEF Stage, Goto
  <2>2. CASE StageFails(i) BY <2>2 DEF StageFails, Goto, Fault
  <2>3. CASE TakeLock(i) BY <2>3 DEF TakeLock, Goto
  <2>9. QED BY <1>2, <2>1, <2>2, <2>3
<1>3. ASSUME NEW i \in Importers,
             Reserve(i) \/ Lookup(i) \/ Pend(i)
      PROVE  StoreType'
  <2>1. CASE Reserve(i) BY <2>1 DEF Reserve, File, Proceed, Finish, Goto
  <2>2. CASE Lookup(i) BY <2>2 DEF Lookup, Proceed, Goto
  <2>3. CASE Pend(i) BY <2>3 DEF Pend, Proceed, Pending, ReplaceMedia, Goto
  <2>9. QED BY <1>3, <2>1, <2>2, <2>3
<1>4. ASSUME NEW i \in Importers,
             CatalogFails(i)
      PROVE  StoreType'
  BY <1>4 DEF CatalogFails, File, Finish, Fault, Pending, ReplaceMedia, Goto
<1>5. ASSUME NEW i \in Importers,
             Probe(i)
      PROVE  StoreType'
  BY <1>5 DEF Probe, Proceed, Fault, Fine, Goto
<1>6. ASSUME NEW i \in Importers,
             PublishFails(i) \/ PublishSame(i) \/ PublishReplace(i)
      PROVE  StoreType'
  <2>1. CASE PublishFails(i) BY <2>1 DEF PublishFails, Fault, PublishRaises,
       Proceed, Finish, Goto
  <2>2. CASE PublishSame(i) BY <2>2 DEF PublishSame, Key, Proceed, Goto
  <2>3. CASE PublishReplace(i) BY <2>3 DEF PublishReplace, Key, Proceed, Goto
  <2>9. QED BY <1>6, <2>1, <2>2, <2>3
<1>7. ASSUME NEW i \in Importers,
             Sync(i) \/ SyncFails(i)
      PROVE  StoreType'
  <2>1. CASE Sync(i) BY <2>1 DEF Sync, Proceed, Goto
  <2>2. CASE SyncFails(i) BY <2>2 DEF SyncFails, Key, Fault, PublishRaises, Proceed,
       Finish, Goto
  <2>9. QED BY <1>7, <2>1, <2>2
<1>8. ASSUME NEW i \in Importers,
             Resolve(i) \/ ResolveFails(i)
      PROVE  StoreType'
  <2>1. CASE Resolve(i) BY <2>1 DEF Resolve, Key, AfterPublish, Proceed, Finish,
       Goto
  <2>2. CASE ResolveFails(i) BY <2>2 DEF ResolveFails, Key, Fault, Fine,
       PublishRaises, Proceed, Finish, Goto
  <2>9. QED BY <1>8, <2>1, <2>2
<1>9. ASSUME NEW i \in Importers,
             MakeReady(i) \/ MakeReadyFails(i)
      PROVE  StoreType'
  <2>1. CASE MakeReady(i) BY <2>1 DEF MakeReady, Proceed, Finish, Fault, Fine,
       ReplaceMedia, Goto
  <2>2. CASE MakeReadyFails(i) BY <2>2 DEF MakeReadyFails, Proceed, Fault, Goto
  <2>9. QED BY <1>9, <2>1, <2>2
<1>10. ASSUME NEW i \in Importers,
             CheckRetained(i) \/ CheckFails(i)
      PROVE  StoreType'
  <2>1. CASE CheckRetained(i) BY <2>1 DEF CheckRetained, Proceed, Goto
  <2>2. CASE CheckFails(i) BY <2>2 DEF CheckFails, Key, Proceed, Fault, Goto
  <2>9. QED BY <1>10, <2>1, <2>2
<1>11. ASSUME NEW i \in Importers,
             Delete(i) \/ Mark(i) \/ Complete(i)
      PROVE  StoreType'
  <2>1. CASE Delete(i) BY <2>1 DEF Delete, Key, Proceed, Fault, Fine, Goto
  <2>2. CASE Mark(i) BY <2>2 DEF Mark, Finish, Fault, Fine, Pending, ReplaceMedia,
       Goto
  <2>3. CASE Complete(i) BY <2>3 DEF Complete, File, Finish, Goto
  <2>9. QED BY <1>11, <2>1, <2>2, <2>3
<1>12. ASSUME NEW i \in Importers,
             Crash(i)
      PROVE  StoreType'
  BY <1>12 DEF Crash, Key, Goto
<1>13. ASSUME NEW k \in Keys, Damage(k) PROVE StoreType'
  BY <1>13 DEF Damage
<1>14. CASE UNCHANGED vars BY <1>14 DEF vars
<1>15. QED
  BY <1>1, <1>2, <1>3, <1>4, <1>5, <1>6, <1>7, <1>8, <1>9, <1>10, <1>11, <1>12,
     <1>13, <1>14
     DEF Next, Continue

\* An import keeps hold of its file, its key and its lock.
LEMMA LocalStep ==
  ASSUME Base, [Next]_vars
  PROVE  Locals'
PROOF
<1> USE ImportAssumption DEF Base, ControlType, Locals, Unlocked, importVars,
      fileVars, placeVars, catalogVars, historyVars, boundVars
<1>1. ASSUME NEW i \in Importers, NEW c \in Contents, NEW l \in Labels,
             NEW r \in Requests \cup {None}, Import(i, c, l, r)
      PROVE  Locals'
  BY <1>1 DEF Import, Goto
<1>2. ASSUME NEW i \in Importers,
             Stage(i) \/ StageFails(i) \/ TakeLock(i)
      PROVE  Locals'
  <2>1. CASE Stage(i) BY <2>1 DEF Stage, Goto
  <2>2. CASE StageFails(i) BY <2>2 DEF StageFails, Goto, Fault
  <2>3. CASE TakeLock(i) BY <2>3 DEF TakeLock, Goto
  <2>9. QED BY <1>2, <2>1, <2>2, <2>3
<1>3. ASSUME NEW i \in Importers,
             Reserve(i) \/ Lookup(i) \/ Pend(i)
      PROVE  Locals'
  <2>1. CASE Reserve(i) BY <2>1 DEF Reserve, File, Proceed, Finish, Goto
  <2>2. CASE Lookup(i) BY <2>2 DEF Lookup, Proceed, Goto
  <2>3. CASE Pend(i) BY <2>3 DEF Pend, Proceed, Pending, ReplaceMedia, Goto
  <2>9. QED BY <1>3, <2>1, <2>2, <2>3
<1>4. ASSUME NEW i \in Importers,
             CatalogFails(i)
      PROVE  Locals'
  BY <1>4 DEF CatalogFails, File, Finish, Fault, Pending, ReplaceMedia, Goto
<1>5. ASSUME NEW i \in Importers,
             Probe(i)
      PROVE  Locals'
  BY <1>5 DEF Probe, Proceed, Fault, Fine, Goto
<1>6. ASSUME NEW i \in Importers,
             PublishFails(i) \/ PublishSame(i) \/ PublishReplace(i)
      PROVE  Locals'
  <2>1. CASE PublishFails(i) BY <2>1 DEF PublishFails, Fault, PublishRaises,
       Proceed, Finish, Goto
  <2>2. CASE PublishSame(i) BY <2>2 DEF PublishSame, Key, Proceed, Goto
  <2>3. CASE PublishReplace(i) BY <2>3 DEF PublishReplace, Key, Proceed, Goto
  <2>9. QED BY <1>6, <2>1, <2>2, <2>3
<1>7. ASSUME NEW i \in Importers,
             Sync(i) \/ SyncFails(i)
      PROVE  Locals'
  <2>1. CASE Sync(i) BY <2>1 DEF Sync, Proceed, Goto
  <2>2. CASE SyncFails(i) BY <2>2 DEF SyncFails, Key, Fault, PublishRaises, Proceed,
       Finish, Goto
  <2>9. QED BY <1>7, <2>1, <2>2
<1>8. ASSUME NEW i \in Importers,
             Resolve(i) \/ ResolveFails(i)
      PROVE  Locals'
  <2>1. CASE Resolve(i) BY <2>1 DEF Resolve, Key, AfterPublish, Proceed, Finish,
       Goto
  <2>2. CASE ResolveFails(i) BY <2>2 DEF ResolveFails, Key, Fault, Fine,
       PublishRaises, Proceed, Finish, Goto
  <2>9. QED BY <1>8, <2>1, <2>2
<1>9. ASSUME NEW i \in Importers,
             MakeReady(i) \/ MakeReadyFails(i)
      PROVE  Locals'
  <2>1. CASE MakeReady(i) BY <2>1 DEF MakeReady, Proceed, Finish, Fault, Fine,
       ReplaceMedia, Goto
  <2>2. CASE MakeReadyFails(i) BY <2>2 DEF MakeReadyFails, Proceed, Fault, Goto
  <2>9. QED BY <1>9, <2>1, <2>2
<1>10. ASSUME NEW i \in Importers,
             CheckRetained(i) \/ CheckFails(i)
      PROVE  Locals'
  <2>1. CASE CheckRetained(i) BY <2>1 DEF CheckRetained, Proceed, Goto
  <2>2. CASE CheckFails(i) BY <2>2 DEF CheckFails, Key, Proceed, Fault, Goto
  <2>9. QED BY <1>10, <2>1, <2>2
<1>11. ASSUME NEW i \in Importers,
             Delete(i) \/ Mark(i) \/ Complete(i)
      PROVE  Locals'
  <2>1. CASE Delete(i) BY <2>1 DEF Delete, Key, Proceed, Fault, Fine, Goto
  <2>2. CASE Mark(i) BY <2>2 DEF Mark, Finish, Fault, Fine, Pending, ReplaceMedia,
       Goto
  <2>3. CASE Complete(i) BY <2>3 DEF Complete, File, Finish, Goto
  <2>9. QED BY <1>11, <2>1, <2>2, <2>3
<1>12. ASSUME NEW i \in Importers,
             Crash(i)
      PROVE  Locals'
  BY <1>12 DEF Crash, Key, Goto
<1>13. ASSUME NEW k \in Keys, Damage(k) PROVE Locals'
  BY <1>13 DEF Damage
<1>14. CASE UNCHANGED vars BY <1>14 DEF vars
<1>15. QED
  BY <1>1, <1>2, <1>3, <1>4, <1>5, <1>6, <1>7, <1>8, <1>9, <1>10, <1>11, <1>12,
     <1>13, <1>14
     DEF Next, Continue

\* Rows carry the label of an import.
LEMMA LabelStep ==
  ASSUME Base, [Next]_vars
  PROVE  Labelled'
PROOF
<1> USE ImportAssumption DEF Base, ControlType, CatalogType, Labelled, importVars,
      fileVars, placeVars, catalogVars, historyVars, boundVars
<1>1. ASSUME NEW i \in Importers, NEW c \in Contents, NEW l \in Labels,
             NEW r \in Requests \cup {None}, Import(i, c, l, r)
      PROVE  Labelled'
  BY <1>1 DEF Import, Goto
<1>2. ASSUME NEW i \in Importers,
             Stage(i) \/ StageFails(i) \/ TakeLock(i)
      PROVE  Labelled'
  <2>1. CASE Stage(i) BY <2>1 DEF Stage, Goto
  <2>2. CASE StageFails(i) BY <2>2 DEF StageFails, Goto, Fault
  <2>3. CASE TakeLock(i) BY <2>3 DEF TakeLock, Goto
  <2>9. QED BY <1>2, <2>1, <2>2, <2>3
<1>3. ASSUME NEW i \in Importers,
             Reserve(i) \/ Lookup(i) \/ Pend(i)
      PROVE  Labelled'
  <2>1. CASE Reserve(i) BY <2>1 DEF Reserve, File, Proceed, Finish, Goto
  <2>2. CASE Lookup(i) BY <2>2 DEF Lookup, Proceed, Goto
  <2>3. CASE Pend(i) BY <2>3 DEF Pend, Proceed, Pending, ReplaceMedia, Goto
  <2>9. QED BY <1>3, <2>1, <2>2, <2>3
<1>4. ASSUME NEW i \in Importers,
             CatalogFails(i)
      PROVE  Labelled'
  BY <1>4 DEF CatalogFails, File, Finish, Fault, Pending, ReplaceMedia, Goto
<1>5. ASSUME NEW i \in Importers,
             Probe(i)
      PROVE  Labelled'
  BY <1>5 DEF Probe, Proceed, Fault, Fine, Goto
<1>6. ASSUME NEW i \in Importers,
             PublishFails(i) \/ PublishSame(i) \/ PublishReplace(i)
      PROVE  Labelled'
  <2>1. CASE PublishFails(i) BY <2>1 DEF PublishFails, Fault, PublishRaises,
       Proceed, Finish, Goto
  <2>2. CASE PublishSame(i) BY <2>2 DEF PublishSame, Key, Proceed, Goto
  <2>3. CASE PublishReplace(i) BY <2>3 DEF PublishReplace, Key, Proceed, Goto
  <2>9. QED BY <1>6, <2>1, <2>2, <2>3
<1>7. ASSUME NEW i \in Importers,
             Sync(i) \/ SyncFails(i)
      PROVE  Labelled'
  <2>1. CASE Sync(i) BY <2>1 DEF Sync, Proceed, Goto
  <2>2. CASE SyncFails(i) BY <2>2 DEF SyncFails, Key, Fault, PublishRaises, Proceed,
       Finish, Goto
  <2>9. QED BY <1>7, <2>1, <2>2
<1>8. ASSUME NEW i \in Importers,
             Resolve(i) \/ ResolveFails(i)
      PROVE  Labelled'
  <2>1. CASE Resolve(i) BY <2>1 DEF Resolve, Key, AfterPublish, Proceed, Finish,
       Goto
  <2>2. CASE ResolveFails(i) BY <2>2 DEF ResolveFails, Key, Fault, Fine,
       PublishRaises, Proceed, Finish, Goto
  <2>9. QED BY <1>8, <2>1, <2>2
<1>9. ASSUME NEW i \in Importers,
             MakeReady(i) \/ MakeReadyFails(i)
      PROVE  Labelled'
  <2>1. CASE MakeReady(i) BY <2>1 DEF MakeReady, Proceed, Finish, Fault, Fine,
       ReplaceMedia, Goto
  <2>2. CASE MakeReadyFails(i) BY <2>2 DEF MakeReadyFails, Proceed, Fault, Goto
  <2>9. QED BY <1>9, <2>1, <2>2
<1>10. ASSUME NEW i \in Importers,
             CheckRetained(i) \/ CheckFails(i)
      PROVE  Labelled'
  <2>1. CASE CheckRetained(i) BY <2>1 DEF CheckRetained, Proceed, Goto
  <2>2. CASE CheckFails(i) BY <2>2 DEF CheckFails, Key, Proceed, Fault, Goto
  <2>9. QED BY <1>10, <2>1, <2>2
<1>11. ASSUME NEW i \in Importers,
             Delete(i) \/ Mark(i) \/ Complete(i)
      PROVE  Labelled'
  <2>1. CASE Delete(i) BY <2>1 DEF Delete, Key, Proceed, Fault, Fine, Goto
  <2>2. CASE Mark(i) BY <2>2 DEF Mark, Finish, Fault, Fine, Pending, ReplaceMedia,
       Goto
  <2>3. CASE Complete(i) BY <2>3 DEF Complete, File, Finish, Goto
  <2>9. QED BY <1>11, <2>1, <2>2, <2>3
<1>12. ASSUME NEW i \in Importers,
             Crash(i)
      PROVE  Labelled'
  BY <1>12 DEF Crash, Key, Goto
<1>13. ASSUME NEW k \in Keys, Damage(k) PROVE Labelled'
  BY <1>13 DEF Damage
<1>14. CASE UNCHANGED vars BY <1>14 DEF vars
<1>15. QED
  BY <1>1, <1>2, <1>3, <1>4, <1>5, <1>6, <1>7, <1>8, <1>9, <1>10, <1>11, <1>12,
     <1>13, <1>14
     DEF Next, Continue

\* Only the owner of a content changes its row.
LEMMA RowStep ==
  ASSUME Base, OwnRow, [Next]_vars
  PROVE  OwnRow'
PROOF
<1> USE ImportAssumption DEF Base, ControlType, Locals, Unlocked, CatalogType,
      OwnRow, importVars, fileVars, placeVars, catalogVars, historyVars, boundVars
<1>1. ASSUME NEW i \in Importers, NEW c \in Contents, NEW l \in Labels,
             NEW r \in Requests \cup {None}, Import(i, c, l, r)
      PROVE  OwnRow'
  BY <1>1 DEF Import, Goto
<1>2. ASSUME NEW i \in Importers,
             Stage(i) \/ StageFails(i) \/ TakeLock(i)
      PROVE  OwnRow'
  <2>1. CASE Stage(i) BY <2>1 DEF Stage, Goto
  <2>2. CASE StageFails(i) BY <2>2 DEF StageFails, Goto, Fault
  <2>3. CASE TakeLock(i) BY <2>3 DEF TakeLock, Goto
  <2>9. QED BY <1>2, <2>1, <2>2, <2>3
<1>3. ASSUME NEW i \in Importers,
             Reserve(i) \/ Lookup(i) \/ Pend(i)
      PROVE  OwnRow'
  <2>1. CASE Reserve(i) BY <2>1 DEF Reserve, File, Proceed, Finish, Goto
  <2>2. CASE Lookup(i) BY <2>2 DEF Lookup, Proceed, Goto
  <2>3. CASE Pend(i) BY <2>3 DEF Pend, Proceed, Pending, ReplaceMedia, Goto
  <2>9. QED BY <1>3, <2>1, <2>2, <2>3
<1>4. ASSUME NEW i \in Importers,
             CatalogFails(i)
      PROVE  OwnRow'
  BY <1>4 DEF CatalogFails, File, Finish, Fault, Pending, ReplaceMedia, Goto
<1>5. ASSUME NEW i \in Importers,
             Probe(i)
      PROVE  OwnRow'
  BY <1>5 DEF Probe, Proceed, Fault, Fine, Goto
<1>6. ASSUME NEW i \in Importers,
             PublishFails(i) \/ PublishSame(i) \/ PublishReplace(i)
      PROVE  OwnRow'
  <2>1. CASE PublishFails(i) BY <2>1 DEF PublishFails, Fault, PublishRaises,
       Proceed, Finish, Goto
  <2>2. CASE PublishSame(i) BY <2>2 DEF PublishSame, Key, Proceed, Goto
  <2>3. CASE PublishReplace(i) BY <2>3 DEF PublishReplace, Key, Proceed, Goto
  <2>9. QED BY <1>6, <2>1, <2>2, <2>3
<1>7. ASSUME NEW i \in Importers,
             Sync(i) \/ SyncFails(i)
      PROVE  OwnRow'
  <2>1. CASE Sync(i) BY <2>1 DEF Sync, Proceed, Goto
  <2>2. CASE SyncFails(i) BY <2>2 DEF SyncFails, Key, Fault, PublishRaises, Proceed,
       Finish, Goto
  <2>9. QED BY <1>7, <2>1, <2>2
<1>8. ASSUME NEW i \in Importers,
             Resolve(i) \/ ResolveFails(i)
      PROVE  OwnRow'
  <2>1. CASE Resolve(i) BY <2>1 DEF Resolve, Key, AfterPublish, Proceed, Finish,
       Goto
  <2>2. CASE ResolveFails(i) BY <2>2 DEF ResolveFails, Key, Fault, Fine,
       PublishRaises, Proceed, Finish, Goto
  <2>9. QED BY <1>8, <2>1, <2>2
<1>9. ASSUME NEW i \in Importers,
             MakeReady(i) \/ MakeReadyFails(i)
      PROVE  OwnRow'
  <2>1. CASE MakeReady(i) BY <2>1 DEF MakeReady, Proceed, Finish, Fault, Fine,
       ReplaceMedia, Goto
  <2>2. CASE MakeReadyFails(i) BY <2>2 DEF MakeReadyFails, Proceed, Fault, Goto
  <2>9. QED BY <1>9, <2>1, <2>2
<1>10. ASSUME NEW i \in Importers,
             CheckRetained(i) \/ CheckFails(i)
      PROVE  OwnRow'
  <2>1. CASE CheckRetained(i) BY <2>1 DEF CheckRetained, Proceed, Goto
  <2>2. CASE CheckFails(i) BY <2>2 DEF CheckFails, Key, Proceed, Fault, Goto
  <2>9. QED BY <1>10, <2>1, <2>2
<1>11. ASSUME NEW i \in Importers,
             Delete(i) \/ Mark(i) \/ Complete(i)
      PROVE  OwnRow'
  <2>1. CASE Delete(i) BY <2>1 DEF Delete, Key, Proceed, Fault, Fine, Goto
  <2>2. CASE Mark(i) BY <2>2 DEF Mark, Finish, Fault, Fine, Pending, ReplaceMedia,
       Goto
  <2>3. CASE Complete(i) BY <2>3 DEF Complete, File, Finish, Goto
  <2>9. QED BY <1>11, <2>1, <2>2, <2>3
<1>12. ASSUME NEW i \in Importers,
             Crash(i)
      PROVE  OwnRow'
  BY <1>12 DEF Crash, Key, Goto
<1>13. ASSUME NEW k \in Keys, Damage(k) PROVE OwnRow'
  BY <1>13 DEF Damage
<1>14. CASE UNCHANGED vars BY <1>14 DEF vars
<1>15. QED
  BY <1>1, <1>2, <1>3, <1>4, <1>5, <1>6, <1>7, <1>8, <1>9, <1>10, <1>11, <1>12,
     <1>13, <1>14
     DEF Next, Continue

\* A request key never changes its file.
LEMMA BoundStep ==
  ASSUME Base, Bound, [Next]_vars
  PROVE  Bound'
PROOF
<1> USE ImportAssumption DEF Base, ControlType, Locals, Unlocked, CatalogType,
      Bound, File, importVars, fileVars, placeVars, catalogVars, historyVars,
      boundVars
<1>1. ASSUME NEW i \in Importers, NEW c \in Contents, NEW l \in Labels,
             NEW r \in Requests \cup {None}, Import(i, c, l, r)
      PROVE  Bound'
  BY <1>1 DEF Import, Goto
<1>2. ASSUME NEW i \in Importers,
             Stage(i) \/ StageFails(i) \/ TakeLock(i)
      PROVE  Bound'
  <2>1. CASE Stage(i) BY <2>1 DEF Stage, Goto
  <2>2. CASE StageFails(i) BY <2>2 DEF StageFails, Goto, Fault
  <2>3. CASE TakeLock(i) BY <2>3 DEF TakeLock, Goto
  <2>9. QED BY <1>2, <2>1, <2>2, <2>3
<1>3. ASSUME NEW i \in Importers,
             Reserve(i) \/ Lookup(i) \/ Pend(i)
      PROVE  Bound'
  <2>1. CASE Reserve(i) BY <2>1 DEF Reserve, File, Proceed, Finish, Goto
  <2>2. CASE Lookup(i) BY <2>2 DEF Lookup, Proceed, Goto
  <2>3. CASE Pend(i) BY <2>3 DEF Pend, Proceed, Pending, ReplaceMedia, Goto
  <2>9. QED BY <1>3, <2>1, <2>2, <2>3
<1>4. ASSUME NEW i \in Importers,
             CatalogFails(i)
      PROVE  Bound'
  <2> USE DEF Fault, Finish, Goto
  <2>1. CASE UNCHANGED catalogVars
    BY <1>4, <2>1 DEF CatalogFails
  <2>2. CASE /\ pc[i] = "reserve" /\ reserved[request[i]] = None
             /\ reserved' = [reserved EXCEPT ![request[i]] = File(i)]
             /\ UNCHANGED <<row, completed>>
    BY <1>4, <2>2 DEF CatalogFails
  <2>3. CASE /\ pc[i] = "pend" /\ ReplaceMedia(content[i], Pending(i))
             /\ UNCHANGED <<reserved, completed>>
    BY <1>4, <2>3 DEF CatalogFails, ReplaceMedia, Pending
  <2>4. CASE /\ pc[i] = "complete" /\ reserved[request[i]] = File(i)
             /\ completed' = [completed EXCEPT ![request[i]] = content[i]]
             /\ UNCHANGED <<row, reserved>>
    BY <1>4, <2>4 DEF CatalogFails
  <2>9. QED BY <1>4, <2>1, <2>2, <2>3, <2>4 DEF CatalogFails
<1>5. ASSUME NEW i \in Importers,
             Probe(i)
      PROVE  Bound'
  BY <1>5 DEF Probe, Proceed, Fault, Fine, Goto
<1>6. ASSUME NEW i \in Importers,
             PublishFails(i) \/ PublishSame(i) \/ PublishReplace(i)
      PROVE  Bound'
  <2>1. CASE PublishFails(i) BY <2>1 DEF PublishFails, Fault, PublishRaises,
       Proceed, Finish, Goto
  <2>2. CASE PublishSame(i) BY <2>2 DEF PublishSame, Key, Proceed, Goto
  <2>3. CASE PublishReplace(i) BY <2>3 DEF PublishReplace, Key, Proceed, Goto
  <2>9. QED BY <1>6, <2>1, <2>2, <2>3
<1>7. ASSUME NEW i \in Importers,
             Sync(i) \/ SyncFails(i)
      PROVE  Bound'
  <2>1. CASE Sync(i) BY <2>1 DEF Sync, Proceed, Goto
  <2>2. CASE SyncFails(i) BY <2>2 DEF SyncFails, Key, Fault, PublishRaises, Proceed,
       Finish, Goto
  <2>9. QED BY <1>7, <2>1, <2>2
<1>8. ASSUME NEW i \in Importers,
             Resolve(i) \/ ResolveFails(i)
      PROVE  Bound'
  <2>1. CASE Resolve(i) BY <2>1 DEF Resolve, Key, AfterPublish, Proceed, Finish,
       Goto
  <2>2. CASE ResolveFails(i) BY <2>2 DEF ResolveFails, Key, Fault, Fine,
       PublishRaises, Proceed, Finish, Goto
  <2>9. QED BY <1>8, <2>1, <2>2
<1>9. ASSUME NEW i \in Importers,
             MakeReady(i) \/ MakeReadyFails(i)
      PROVE  Bound'
  <2>1. CASE MakeReady(i) BY <2>1 DEF MakeReady, Proceed, Finish, Fault, Fine,
       ReplaceMedia, Goto
  <2>2. CASE MakeReadyFails(i) BY <2>2 DEF MakeReadyFails, Proceed, Fault, Goto
  <2>9. QED BY <1>9, <2>1, <2>2
<1>10. ASSUME NEW i \in Importers,
             CheckRetained(i) \/ CheckFails(i)
      PROVE  Bound'
  <2>1. CASE CheckRetained(i) BY <2>1 DEF CheckRetained, Proceed, Goto
  <2>2. CASE CheckFails(i) BY <2>2 DEF CheckFails, Key, Proceed, Fault, Goto
  <2>9. QED BY <1>10, <2>1, <2>2
<1>11. ASSUME NEW i \in Importers,
             Delete(i) \/ Mark(i) \/ Complete(i)
      PROVE  Bound'
  <2>1. CASE Delete(i) BY <2>1 DEF Delete, Key, Proceed, Fault, Fine, Goto
  <2>2. CASE Mark(i) BY <2>2 DEF Mark, Finish, Fault, Fine, Pending, ReplaceMedia,
       Goto
  <2>3. CASE Complete(i) BY <2>3 DEF Complete, File, Finish, Goto
  <2>9. QED BY <1>11, <2>1, <2>2, <2>3
<1>12. ASSUME NEW i \in Importers,
             Crash(i)
      PROVE  Bound'
  BY <1>12 DEF Crash, Key, Goto
<1>13. ASSUME NEW k \in Keys, Damage(k) PROVE Bound'
  BY <1>13 DEF Damage
<1>14. CASE UNCHANGED vars BY <1>14 DEF vars
<1>15. QED
  BY <1>1, <1>2, <1>3, <1>4, <1>5, <1>6, <1>7, <1>8, <1>9, <1>10, <1>11, <1>12,
     <1>13, <1>14
     DEF Next, Continue

\* A request is completed with the ready media of its file.
LEMMA CompletedStep ==
  ASSUME Base, OwnRow, Keyed, [Next]_vars
  PROVE  CompletedReady'
PROOF
<1> USE ImportAssumption DEF Base, ControlType, Locals, Unlocked, CatalogType,
      OwnRow, Keyed, Bound, CompletedReady, File, importVars, fileVars, placeVars,
      catalogVars, historyVars, boundVars
<1>1. ASSUME NEW i \in Importers, NEW c \in Contents, NEW l \in Labels,
             NEW r \in Requests \cup {None}, Import(i, c, l, r)
      PROVE  CompletedReady'
  BY <1>1 DEF Import, Goto
<1>2. ASSUME NEW i \in Importers,
             Stage(i) \/ StageFails(i) \/ TakeLock(i)
      PROVE  CompletedReady'
  <2>1. CASE Stage(i) BY <2>1 DEF Stage, Goto
  <2>2. CASE StageFails(i) BY <2>2 DEF StageFails, Goto, Fault
  <2>3. CASE TakeLock(i) BY <2>3 DEF TakeLock, Goto
  <2>9. QED BY <1>2, <2>1, <2>2, <2>3
<1>3. ASSUME NEW i \in Importers,
             Reserve(i) \/ Lookup(i) \/ Pend(i)
      PROVE  CompletedReady'
  <2>1. CASE Reserve(i) BY <2>1 DEF Reserve, File, Proceed, Finish, Goto
  <2>2. CASE Lookup(i) BY <2>2 DEF Lookup, Proceed, Goto
  <2>3. CASE Pend(i) BY <2>3 DEF Pend, Proceed, Pending, ReplaceMedia, Goto
  <2>9. QED BY <1>3, <2>1, <2>2, <2>3
<1>4. ASSUME NEW i \in Importers,
             CatalogFails(i)
      PROVE  CompletedReady'
  <2> USE DEF Fault, Finish, Goto
  <2>1. CASE UNCHANGED catalogVars
    BY <1>4, <2>1 DEF CatalogFails
  <2>2. CASE /\ pc[i] = "reserve" /\ reserved[request[i]] = None
             /\ reserved' = [reserved EXCEPT ![request[i]] = File(i)]
             /\ UNCHANGED <<row, completed>>
    BY <1>4, <2>2 DEF CatalogFails
  <2>3. CASE /\ pc[i] = "pend" /\ ReplaceMedia(content[i], Pending(i))
             /\ UNCHANGED <<reserved, completed>>
    BY <1>4, <2>3 DEF CatalogFails, ReplaceMedia, Pending
  <2>4. CASE /\ pc[i] = "complete" /\ reserved[request[i]] = File(i)
             /\ completed' = [completed EXCEPT ![request[i]] = content[i]]
             /\ UNCHANGED <<row, reserved>>
    BY <1>4, <2>4 DEF CatalogFails
  <2>9. QED BY <1>4, <2>1, <2>2, <2>3, <2>4 DEF CatalogFails
<1>5. ASSUME NEW i \in Importers,
             Probe(i)
      PROVE  CompletedReady'
  BY <1>5 DEF Probe, Proceed, Fault, Fine, Goto
<1>6. ASSUME NEW i \in Importers,
             PublishFails(i) \/ PublishSame(i) \/ PublishReplace(i)
      PROVE  CompletedReady'
  <2>1. CASE PublishFails(i) BY <2>1 DEF PublishFails, Fault, PublishRaises,
       Proceed, Finish, Goto
  <2>2. CASE PublishSame(i) BY <2>2 DEF PublishSame, Key, Proceed, Goto
  <2>3. CASE PublishReplace(i) BY <2>3 DEF PublishReplace, Key, Proceed, Goto
  <2>9. QED BY <1>6, <2>1, <2>2, <2>3
<1>7. ASSUME NEW i \in Importers,
             Sync(i) \/ SyncFails(i)
      PROVE  CompletedReady'
  <2>1. CASE Sync(i) BY <2>1 DEF Sync, Proceed, Goto
  <2>2. CASE SyncFails(i) BY <2>2 DEF SyncFails, Key, Fault, PublishRaises, Proceed,
       Finish, Goto
  <2>9. QED BY <1>7, <2>1, <2>2
<1>8. ASSUME NEW i \in Importers,
             Resolve(i) \/ ResolveFails(i)
      PROVE  CompletedReady'
  <2>1. CASE Resolve(i) BY <2>1 DEF Resolve, Key, AfterPublish, Proceed, Finish,
       Goto
  <2>2. CASE ResolveFails(i) BY <2>2 DEF ResolveFails, Key, Fault, Fine,
       PublishRaises, Proceed, Finish, Goto
  <2>9. QED BY <1>8, <2>1, <2>2
<1>9. ASSUME NEW i \in Importers,
             MakeReady(i) \/ MakeReadyFails(i)
      PROVE  CompletedReady'
  <2>1. CASE MakeReady(i) BY <2>1 DEF MakeReady, Proceed, Finish, Fault, Fine,
       ReplaceMedia, Goto
  <2>2. CASE MakeReadyFails(i) BY <2>2 DEF MakeReadyFails, Proceed, Fault, Goto
  <2>9. QED BY <1>9, <2>1, <2>2
<1>10. ASSUME NEW i \in Importers,
             CheckRetained(i) \/ CheckFails(i)
      PROVE  CompletedReady'
  <2>1. CASE CheckRetained(i) BY <2>1 DEF CheckRetained, Proceed, Goto
  <2>2. CASE CheckFails(i) BY <2>2 DEF CheckFails, Key, Proceed, Fault, Goto
  <2>9. QED BY <1>10, <2>1, <2>2
<1>11. ASSUME NEW i \in Importers,
             Delete(i) \/ Mark(i) \/ Complete(i)
      PROVE  CompletedReady'
  <2>1. CASE Delete(i) BY <2>1 DEF Delete, Key, Proceed, Fault, Fine, Goto
  <2>2. CASE Mark(i) BY <2>2 DEF Mark, Finish, Fault, Fine, Pending, ReplaceMedia,
       Goto
  <2>3. CASE Complete(i) BY <2>3 DEF Complete, File, Finish, Goto
  <2>9. QED BY <1>11, <2>1, <2>2, <2>3
<1>12. ASSUME NEW i \in Importers,
             Crash(i)
      PROVE  CompletedReady'
  BY <1>12 DEF Crash, Key, Goto
<1>13. ASSUME NEW k \in Keys, Damage(k) PROVE CompletedReady'
  BY <1>13 DEF Damage
<1>14. CASE UNCHANGED vars BY <1>14 DEF vars
<1>15. QED
  BY <1>1, <1>2, <1>3, <1>4, <1>5, <1>6, <1>7, <1>8, <1>9, <1>10, <1>11, <1>12,
     <1>13, <1>14
     DEF Next, Continue

\* An import answers with the ready media of its file.
LEMMA AnswerStep ==
  ASSUME Base, OwnRow, Keyed, [Next]_vars
  PROVE  Answered'
PROOF
<1> USE ImportAssumption DEF Base, ControlType, Locals, Unlocked, CatalogType,
      OwnRow, Keyed, Bound, CompletedReady, Answered, File, importVars, fileVars,
      placeVars, catalogVars, historyVars, boundVars
<1>1. ASSUME NEW i \in Importers, NEW c \in Contents, NEW l \in Labels,
             NEW r \in Requests \cup {None}, Import(i, c, l, r)
      PROVE  Answered'
  BY <1>1 DEF Import, Goto
<1>2. ASSUME NEW i \in Importers,
             Stage(i) \/ StageFails(i) \/ TakeLock(i)
      PROVE  Answered'
  <2>1. CASE Stage(i) BY <2>1 DEF Stage, Goto
  <2>2. CASE StageFails(i) BY <2>2 DEF StageFails, Goto, Fault
  <2>3. CASE TakeLock(i) BY <2>3 DEF TakeLock, Goto
  <2>9. QED BY <1>2, <2>1, <2>2, <2>3
<1>3. ASSUME NEW i \in Importers,
             Reserve(i) \/ Lookup(i) \/ Pend(i)
      PROVE  Answered'
  <2>1. CASE Reserve(i)
    <3>1. ASSUME NEW q \in Requests, reserved[q] \in Files PROVE reserved'[q] = reserved[q]
      BY <2>1, <3>1 DEF Reserve, File, Files
    <3>2. ASSUME NEW r \in Requests \cup {None}, NEW c \in Contents, NEW l \in Labels,
                 NEW m \in Contents, <<r, c, l, m>> \in answers
          PROVE  m = c /\ row'[m].state = "ready" /\ (r # None => reserved'[r] = <<c, l>>)
      <4>1. m = c /\ row[m].state = "ready" /\ (r # None => reserved[r] = <<c, l>>)
        BY <3>2
      <4>2. row' = row
        BY <2>1 DEF Reserve
      <4>3. <<c, l>> \in Files
        BY DEF Files
      <4>4. ASSUME r # None PROVE reserved'[r] = <<c, l>>
        <5>1. r \in Requests /\ reserved[r] = <<c, l>>
          BY <4>1, <4>4
        <5>2. reserved[r] \in Files
          BY <4>3, <5>1
        <5>3. QED BY <3>1, <5>1, <5>2
      <4>5. QED BY <4>1, <4>2, <4>4
    <3>3. CASE answers' = answers
      BY <3>2, <3>3
    <3>4. CASE /\ completed[request[i]] # None
               /\ reserved[request[i]] \in {None, File(i)}
               /\ answers' = answers \cup {<<request[i], content[i], label[i],
                                            completed[request[i]]>>}
      <4>1. request[i] \in Requests
        BY <2>1 DEF Reserve
      <4>2. PICK k \in Labels : reserved[request[i]] = <<completed[request[i]], k>>
        BY <3>4, <4>1
      <4>3. <<completed[request[i]], k>> # None
        BY <3>4, <4>1 DEF Files
      <4>4. reserved[request[i]] = <<content[i], label[i]>>
        BY <3>4, <4>2, <4>3 DEF File
      <4>5. completed[request[i]] = content[i]
        BY <4>2, <4>4
      <4>6. row'[content[i]].state = "ready"
        BY <2>1, <3>4, <4>1, <4>5 DEF Reserve
      <4>7. reserved'[request[i]] = <<content[i], label[i]>>
        BY <2>1, <4>1, <4>4 DEF Reserve, File
      <4>8. QED BY <3>2, <3>4, <4>5, <4>6, <4>7
    <3>5. QED BY <2>1, <3>3, <3>4 DEF Reserve, Proceed, Finish
  <2>2. CASE Lookup(i) BY <2>2 DEF Lookup, Proceed, Goto
  <2>3. CASE Pend(i) BY <2>3 DEF Pend, Proceed, Pending, ReplaceMedia, Goto
  <2>9. QED BY <1>3, <2>1, <2>2, <2>3
<1>4. ASSUME NEW i \in Importers,
             CatalogFails(i)
      PROVE  Answered'
  <2> USE DEF Fault, Finish, Goto
  <2>1. CASE UNCHANGED catalogVars
    BY <1>4, <2>1 DEF CatalogFails
  <2>2. CASE /\ pc[i] = "reserve" /\ reserved[request[i]] = None
             /\ reserved' = [reserved EXCEPT ![request[i]] = File(i)]
             /\ UNCHANGED <<row, completed>>
    BY <1>4, <2>2 DEF CatalogFails
  <2>3. CASE /\ pc[i] = "pend" /\ ReplaceMedia(content[i], Pending(i))
             /\ UNCHANGED <<reserved, completed>>
    BY <1>4, <2>3 DEF CatalogFails, ReplaceMedia, Pending
  <2>4. CASE /\ pc[i] = "complete" /\ reserved[request[i]] = File(i)
             /\ completed' = [completed EXCEPT ![request[i]] = content[i]]
             /\ UNCHANGED <<row, reserved>>
    BY <1>4, <2>4 DEF CatalogFails
  <2>9. QED BY <1>4, <2>1, <2>2, <2>3, <2>4 DEF CatalogFails
<1>5. ASSUME NEW i \in Importers,
             Probe(i)
      PROVE  Answered'
  BY <1>5 DEF Probe, Proceed, Fault, Fine, Goto
<1>6. ASSUME NEW i \in Importers,
             PublishFails(i) \/ PublishSame(i) \/ PublishReplace(i)
      PROVE  Answered'
  <2>1. CASE PublishFails(i) BY <2>1 DEF PublishFails, Fault, PublishRaises,
       Proceed, Finish, Goto
  <2>2. CASE PublishSame(i) BY <2>2 DEF PublishSame, Key, Proceed, Goto
  <2>3. CASE PublishReplace(i) BY <2>3 DEF PublishReplace, Key, Proceed, Goto
  <2>9. QED BY <1>6, <2>1, <2>2, <2>3
<1>7. ASSUME NEW i \in Importers,
             Sync(i) \/ SyncFails(i)
      PROVE  Answered'
  <2>1. CASE Sync(i) BY <2>1 DEF Sync, Proceed, Goto
  <2>2. CASE SyncFails(i) BY <2>2 DEF SyncFails, Key, Fault, PublishRaises, Proceed,
       Finish, Goto
  <2>9. QED BY <1>7, <2>1, <2>2
<1>8. ASSUME NEW i \in Importers,
             Resolve(i) \/ ResolveFails(i)
      PROVE  Answered'
  <2>1. CASE Resolve(i) BY <2>1 DEF Resolve, Key, AfterPublish, Proceed, Finish,
       Goto
  <2>2. CASE ResolveFails(i) BY <2>2 DEF ResolveFails, Key, Fault, Fine,
       PublishRaises, Proceed, Finish, Goto
  <2>9. QED BY <1>8, <2>1, <2>2
<1>9. ASSUME NEW i \in Importers,
             MakeReady(i) \/ MakeReadyFails(i)
      PROVE  Answered'
  <2>1. CASE MakeReady(i) BY <2>1 DEF MakeReady, Proceed, Finish, Fault, Fine,
       ReplaceMedia, Goto
  <2>2. CASE MakeReadyFails(i) BY <2>2 DEF MakeReadyFails, Proceed, Fault, Goto
  <2>9. QED BY <1>9, <2>1, <2>2
<1>10. ASSUME NEW i \in Importers,
             CheckRetained(i) \/ CheckFails(i)
      PROVE  Answered'
  <2>1. CASE CheckRetained(i) BY <2>1 DEF CheckRetained, Proceed, Goto
  <2>2. CASE CheckFails(i) BY <2>2 DEF CheckFails, Key, Proceed, Fault, Goto
  <2>9. QED BY <1>10, <2>1, <2>2
<1>11. ASSUME NEW i \in Importers,
             Delete(i) \/ Mark(i) \/ Complete(i)
      PROVE  Answered'
  <2>1. CASE Delete(i) BY <2>1 DEF Delete, Key, Proceed, Fault, Fine, Goto
  <2>2. CASE Mark(i) BY <2>2 DEF Mark, Finish, Fault, Fine, Pending, ReplaceMedia,
       Goto
  <2>3. CASE Complete(i) BY <2>3 DEF Complete, File, Finish, Goto
  <2>9. QED BY <1>11, <2>1, <2>2, <2>3
<1>12. ASSUME NEW i \in Importers,
             Crash(i)
      PROVE  Answered'
  BY <1>12 DEF Crash, Key, Goto
<1>13. ASSUME NEW k \in Keys, Damage(k) PROVE Answered'
  BY <1>13 DEF Damage
<1>14. CASE UNCHANGED vars BY <1>14 DEF vars
<1>15. QED
  BY <1>1, <1>2, <1>3, <1>4, <1>5, <1>6, <1>7, <1>8, <1>9, <1>10, <1>11, <1>12,
     <1>13, <1>14
     DEF Next, Continue

\* Only the disk damages an object.
LEMMA BadStep ==
  ASSUME Base, BadLost, [Next]_vars
  PROVE  BadLost'
PROOF
<1> USE ImportAssumption DEF Base, ControlType, StoreType, BadLost, Keys, Key,
      importVars, fileVars, placeVars, catalogVars, historyVars, boundVars
<1>1. ASSUME NEW i \in Importers, NEW c \in Contents, NEW l \in Labels,
             NEW r \in Requests \cup {None}, Import(i, c, l, r)
      PROVE  BadLost'
  BY <1>1 DEF Import, Goto
<1>2. ASSUME NEW i \in Importers,
             Stage(i) \/ StageFails(i) \/ TakeLock(i)
      PROVE  BadLost'
  <2>1. CASE Stage(i) BY <2>1 DEF Stage, Goto
  <2>2. CASE StageFails(i) BY <2>2 DEF StageFails, Goto, Fault
  <2>3. CASE TakeLock(i) BY <2>3 DEF TakeLock, Goto
  <2>9. QED BY <1>2, <2>1, <2>2, <2>3
<1>3. ASSUME NEW i \in Importers,
             Reserve(i) \/ Lookup(i) \/ Pend(i)
      PROVE  BadLost'
  <2>1. CASE Reserve(i) BY <2>1 DEF Reserve, File, Proceed, Finish, Goto
  <2>2. CASE Lookup(i) BY <2>2 DEF Lookup, Proceed, Goto
  <2>3. CASE Pend(i) BY <2>3 DEF Pend, Proceed, Pending, ReplaceMedia, Goto
  <2>9. QED BY <1>3, <2>1, <2>2, <2>3
<1>4. ASSUME NEW i \in Importers,
             CatalogFails(i)
      PROVE  BadLost'
  BY <1>4 DEF CatalogFails, File, Finish, Fault, Pending, ReplaceMedia, Goto
<1>5. ASSUME NEW i \in Importers,
             Probe(i)
      PROVE  BadLost'
  BY <1>5 DEF Probe, Proceed, Fault, Fine, Goto
<1>6. ASSUME NEW i \in Importers,
             PublishFails(i) \/ PublishSame(i) \/ PublishReplace(i)
      PROVE  BadLost'
  <2>1. CASE PublishFails(i) BY <2>1 DEF PublishFails, Fault, PublishRaises,
       Proceed, Finish, Goto
  <2>2. CASE PublishSame(i) BY <2>2 DEF PublishSame, Key, Proceed, Goto
  <2>3. CASE PublishReplace(i) BY <2>3 DEF PublishReplace, Key, Proceed, Goto
  <2>9. QED BY <1>6, <2>1, <2>2, <2>3
<1>7. ASSUME NEW i \in Importers,
             Sync(i) \/ SyncFails(i)
      PROVE  BadLost'
  <2>1. CASE Sync(i) BY <2>1 DEF Sync, Proceed, Goto
  <2>2. CASE SyncFails(i) BY <2>2 DEF SyncFails, Key, Fault, PublishRaises, Proceed,
       Finish, Goto
  <2>9. QED BY <1>7, <2>1, <2>2
<1>8. ASSUME NEW i \in Importers,
             Resolve(i) \/ ResolveFails(i)
      PROVE  BadLost'
  <2>1. CASE Resolve(i) BY <2>1 DEF Resolve, Key, AfterPublish, Proceed, Finish,
       Goto
  <2>2. CASE ResolveFails(i) BY <2>2 DEF ResolveFails, Key, Fault, Fine,
       PublishRaises, Proceed, Finish, Goto
  <2>9. QED BY <1>8, <2>1, <2>2
<1>9. ASSUME NEW i \in Importers,
             MakeReady(i) \/ MakeReadyFails(i)
      PROVE  BadLost'
  <2>1. CASE MakeReady(i) BY <2>1 DEF MakeReady, Proceed, Finish, Fault, Fine,
       ReplaceMedia, Goto
  <2>2. CASE MakeReadyFails(i) BY <2>2 DEF MakeReadyFails, Proceed, Fault, Goto
  <2>9. QED BY <1>9, <2>1, <2>2
<1>10. ASSUME NEW i \in Importers,
             CheckRetained(i) \/ CheckFails(i)
      PROVE  BadLost'
  <2>1. CASE CheckRetained(i) BY <2>1 DEF CheckRetained, Proceed, Goto
  <2>2. CASE CheckFails(i) BY <2>2 DEF CheckFails, Key, Proceed, Fault, Goto
  <2>9. QED BY <1>10, <2>1, <2>2
<1>11. ASSUME NEW i \in Importers,
             Delete(i) \/ Mark(i) \/ Complete(i)
      PROVE  BadLost'
  <2>1. CASE Delete(i) BY <2>1 DEF Delete, Key, Proceed, Fault, Fine, Goto
  <2>2. CASE Mark(i) BY <2>2 DEF Mark, Finish, Fault, Fine, Pending, ReplaceMedia,
       Goto
  <2>3. CASE Complete(i) BY <2>3 DEF Complete, File, Finish, Goto
  <2>9. QED BY <1>11, <2>1, <2>2, <2>3
<1>12. ASSUME NEW i \in Importers,
             Crash(i)
      PROVE  BadLost'
  BY <1>12 DEF Crash, Key, Goto
<1>13. ASSUME NEW k \in Keys, Damage(k) PROVE BadLost'
  BY <1>13 DEF Damage
<1>14. CASE UNCHANGED vars BY <1>14 DEF vars
<1>15. QED
  BY <1>1, <1>2, <1>3, <1>4, <1>5, <1>6, <1>7, <1>8, <1>9, <1>10, <1>11, <1>12,
     <1>13, <1>14
     DEF Next, Continue

\* The owner knows what it published.
LEMMA ObjectStep ==
  ASSUME Base, OwnRow, Stored, [Next]_vars
  PROVE  OwnObject'
PROOF
<1> USE ImportAssumption DEF Base, ControlType, Locals, Unlocked, CatalogType,
      StoreType, Keys, OwnRow, Stored, BadLost, OwnObject, ReadyStored, Key,
      importVars, fileVars, placeVars, catalogVars, historyVars, boundVars
<1>1. ASSUME NEW i \in Importers, NEW c \in Contents, NEW l \in Labels,
             NEW r \in Requests \cup {None}, Import(i, c, l, r)
      PROVE  OwnObject'
  BY <1>1 DEF Import, Goto
<1>2. ASSUME NEW i \in Importers,
             Stage(i) \/ StageFails(i) \/ TakeLock(i)
      PROVE  OwnObject'
  <2>1. CASE Stage(i) BY <2>1 DEF Stage, Goto
  <2>2. CASE StageFails(i) BY <2>2 DEF StageFails, Goto, Fault
  <2>3. CASE TakeLock(i) BY <2>3 DEF TakeLock, Goto
  <2>9. QED BY <1>2, <2>1, <2>2, <2>3
<1>3. ASSUME NEW i \in Importers,
             Reserve(i) \/ Lookup(i) \/ Pend(i)
      PROVE  OwnObject'
  <2>1. CASE Reserve(i) BY <2>1 DEF Reserve, File, Proceed, Finish, Goto
  <2>2. CASE Lookup(i) BY <2>2 DEF Lookup, Proceed, Goto
  <2>3. CASE Pend(i) BY <2>3 DEF Pend, Proceed, Pending, ReplaceMedia, Goto
  <2>9. QED BY <1>3, <2>1, <2>2, <2>3
<1>4. ASSUME NEW i \in Importers,
             CatalogFails(i)
      PROVE  OwnObject'
  BY <1>4 DEF CatalogFails, File, Finish, Fault, Pending, ReplaceMedia, Goto
<1>5. ASSUME NEW i \in Importers,
             Probe(i)
      PROVE  OwnObject'
  BY <1>5 DEF Probe, Proceed, Fault, Fine, Goto
<1>6. ASSUME NEW i \in Importers,
             PublishFails(i) \/ PublishSame(i) \/ PublishReplace(i)
      PROVE  OwnObject'
  <2>1. CASE PublishFails(i) BY <2>1 DEF PublishFails, Fault, PublishRaises,
       Proceed, Finish, Goto
  <2>2. CASE PublishSame(i) BY <2>2 DEF PublishSame, Key, Proceed, Goto
  <2>3. CASE PublishReplace(i) BY <2>3 DEF PublishReplace, Key, Proceed, Goto
  <2>9. QED BY <1>6, <2>1, <2>2, <2>3
<1>7. ASSUME NEW i \in Importers,
             Sync(i) \/ SyncFails(i)
      PROVE  OwnObject'
  <2>1. CASE Sync(i) BY <2>1 DEF Sync, Proceed, Goto
  <2>2. CASE SyncFails(i) BY <2>2 DEF SyncFails, Key, Fault, PublishRaises, Proceed,
       Finish, Goto
  <2>9. QED BY <1>7, <2>1, <2>2
<1>8. ASSUME NEW i \in Importers,
             Resolve(i) \/ ResolveFails(i)
      PROVE  OwnObject'
  <2>1. CASE Resolve(i)
    <3>1. \A j \in Importers : j # i => Key(j)' = Key(j) /\ pc'[j] = pc[j]
      BY <2>1 DEF Resolve, Key, AfterPublish, Proceed, Finish, Goto
    <3>2. pc[i] \notin Unlocked
      BY <2>1 DEF Resolve
    <3>3. pc'[i] \in {"ready", "idle", "complete"} /\ Key(i)' = Key(i)
      BY <2>1 DEF Resolve, Key, AfterPublish, Proceed, Finish, Goto
    <3>4. object[Key(i)] = "good" \/ Key(i) \in lost'
      BY <2>1 DEF Resolve
    <3>5. \A k \in Keys : k # Key(i) => (k \in lost' <=> k \in lost)
      BY <2>1 DEF Resolve
    <3>6. object' = object /\ row' = row /\ restores' = restores /\ created' = created
      BY <2>1 DEF Resolve
    <3>7. ASSUME NEW j \in Importers, j # i, pc[j] \notin Unlocked
          PROVE  Key(j) \in lost' <=> Key(j) \in lost
      <4>1. content[j] # content[i]
        BY <3>2, <3>7, Owner
      <4>2. Key(j) \in Keys /\ Key(j) # Key(i)
        BY <3>7, <4>1
      <4>3. QED BY <2>1, <4>2 DEF Resolve
    <3>8. ASSUME NEW j \in Importers, j # i, pc'[j] \notin Unlocked
          PROVE  /\ pc'[j] = pc[j] /\ Key(j)' = Key(j) /\ content'[j] = content[j]
                 /\ Key(j)' \in lost' <=> Key(j) \in lost
      <4>1. pc[j] \notin Unlocked
        BY <3>1, <3>8
      <4>2. QED BY <2>1, <3>1, <3>7, <3>8, <4>1 DEF Resolve
    <3>9. \A j \in Importers :
            /\ pc'[j] \in {"sync", "resolve"} /\ j \in restores' /\ j \in created' =>
                 Key(j)' \in lost'
            /\ pc'[j] = "delete" /\ row'[content'[j]].state = "ready" => Key(j)' \in lost'
      BY <3>3, <3>6, <3>8
    <3>10. ASSUME NEW j \in Importers, pc'[j] = "ready"
           PROVE  object'[Key(j)'] = "good" \/ Key(j)' \in lost'
      <4>1. CASE j = i
        BY <3>3, <3>4, <3>6, <4>1
      <4>2. CASE j # i
        <5>1. object[Key(j)] = "good" \/ Key(j) \in lost
          BY <3>1, <3>10, <4>2
        <5>2. QED BY <3>6, <3>8, <3>10, <4>2, <5>1
      <4>3. QED BY <4>1, <4>2
    <3>11. QED BY <3>9, <3>10
  <2>2. CASE ResolveFails(i) BY <2>2 DEF ResolveFails, Key, Fault, Fine,
       PublishRaises, Proceed, Finish, Goto
  <2>9. QED BY <1>8, <2>1, <2>2
<1>9. ASSUME NEW i \in Importers,
             MakeReady(i) \/ MakeReadyFails(i)
      PROVE  OwnObject'
  <2>1. CASE MakeReady(i) BY <2>1 DEF MakeReady, Proceed, Finish, Fault, Fine,
       ReplaceMedia, Goto
  <2>2. CASE MakeReadyFails(i) BY <2>2 DEF MakeReadyFails, Proceed, Fault, Goto
  <2>9. QED BY <1>9, <2>1, <2>2
<1>10. ASSUME NEW i \in Importers,
             CheckRetained(i) \/ CheckFails(i)
      PROVE  OwnObject'
  <2>1. CASE CheckRetained(i) BY <2>1 DEF CheckRetained, Proceed, Goto
  <2>2. CASE CheckFails(i) BY <2>2 DEF CheckFails, Key, Proceed, Fault, Goto
  <2>9. QED BY <1>10, <2>1, <2>2
<1>11. ASSUME NEW i \in Importers,
             Delete(i) \/ Mark(i) \/ Complete(i)
      PROVE  OwnObject'
  <2>1. CASE Delete(i) BY <2>1 DEF Delete, Key, Proceed, Fault, Fine, Goto
  <2>2. CASE Mark(i) BY <2>2 DEF Mark, Finish, Fault, Fine, Pending, ReplaceMedia,
       Goto
  <2>3. CASE Complete(i) BY <2>3 DEF Complete, File, Finish, Goto
  <2>9. QED BY <1>11, <2>1, <2>2, <2>3
<1>12. ASSUME NEW i \in Importers,
             Crash(i)
      PROVE  OwnObject'
  BY <1>12 DEF Crash, Key, Goto
<1>13. ASSUME NEW k \in Keys, Damage(k) PROVE OwnObject'
  BY <1>13 DEF Damage
<1>14. CASE UNCHANGED vars BY <1>14 DEF vars
<1>15. QED
  BY <1>1, <1>2, <1>3, <1>4, <1>5, <1>6, <1>7, <1>8, <1>9, <1>10, <1>11, <1>12,
     <1>13, <1>14
     DEF Next, Continue

\* Only the owner of a content removes its objects.
LEMMA StoredStep ==
  ASSUME Base, OwnRow, Stored, [Next]_vars
  PROVE  ReadyStored'
PROOF
<1> USE ImportAssumption DEF Base, ControlType, Locals, Unlocked, CatalogType,
      StoreType, Keys, OwnRow, Stored, OwnObject, ReadyStored, Key, importVars,
      fileVars, placeVars, catalogVars, historyVars, boundVars
<1>1. ASSUME NEW i \in Importers, NEW c \in Contents, NEW l \in Labels,
             NEW r \in Requests \cup {None}, Import(i, c, l, r)
      PROVE  ReadyStored'
  BY <1>1 DEF Import, Goto
<1>2. ASSUME NEW i \in Importers,
             Stage(i) \/ StageFails(i) \/ TakeLock(i)
      PROVE  ReadyStored'
  <2>1. CASE Stage(i) BY <2>1 DEF Stage, Goto
  <2>2. CASE StageFails(i) BY <2>2 DEF StageFails, Goto, Fault
  <2>3. CASE TakeLock(i) BY <2>3 DEF TakeLock, Goto
  <2>9. QED BY <1>2, <2>1, <2>2, <2>3
<1>3. ASSUME NEW i \in Importers,
             Reserve(i) \/ Lookup(i) \/ Pend(i)
      PROVE  ReadyStored'
  <2>1. CASE Reserve(i) BY <2>1 DEF Reserve, File, Proceed, Finish, Goto
  <2>2. CASE Lookup(i) BY <2>2 DEF Lookup, Proceed, Goto
  <2>3. CASE Pend(i) BY <2>3 DEF Pend, Proceed, Pending, ReplaceMedia, Goto
  <2>9. QED BY <1>3, <2>1, <2>2, <2>3
<1>4. ASSUME NEW i \in Importers,
             CatalogFails(i)
      PROVE  ReadyStored'
  BY <1>4 DEF CatalogFails, File, Finish, Fault, Pending, ReplaceMedia, Goto
<1>5. ASSUME NEW i \in Importers,
             Probe(i)
      PROVE  ReadyStored'
  BY <1>5 DEF Probe, Proceed, Fault, Fine, Goto
<1>6. ASSUME NEW i \in Importers,
             PublishFails(i) \/ PublishSame(i) \/ PublishReplace(i)
      PROVE  ReadyStored'
  <2>1. CASE PublishFails(i) BY <2>1 DEF PublishFails, Fault, PublishRaises,
       Proceed, Finish, Goto
  <2>2. CASE PublishSame(i) BY <2>2 DEF PublishSame, Key, Proceed, Goto
  <2>3. CASE PublishReplace(i) BY <2>3 DEF PublishReplace, Key, Proceed, Goto
  <2>9. QED BY <1>6, <2>1, <2>2, <2>3
<1>7. ASSUME NEW i \in Importers,
             Sync(i) \/ SyncFails(i)
      PROVE  ReadyStored'
  <2>1. CASE Sync(i) BY <2>1 DEF Sync, Proceed, Goto
  <2>2. CASE SyncFails(i) BY <2>2 DEF SyncFails, Key, Fault, PublishRaises, Proceed,
       Finish, Goto
  <2>9. QED BY <1>7, <2>1, <2>2
<1>8. ASSUME NEW i \in Importers,
             Resolve(i) \/ ResolveFails(i)
      PROVE  ReadyStored'
  <2>1. CASE Resolve(i) BY <2>1 DEF Resolve, Key, AfterPublish, Proceed, Finish,
       Goto
  <2>2. CASE ResolveFails(i)
    <3>1. row' = row /\ lost' = lost
      BY <2>2 DEF ResolveFails, PublishRaises, Proceed, Finish
    <3>2. CASE object' = object
      BY <3>1, <3>2
    <3>3. CASE i \in created /\ object' = [object EXCEPT ![Key(i)] = "absent"]
      BY <2>2, <3>1, <3>3 DEF ResolveFails
    <3>4. QED BY <2>2, <3>2, <3>3 DEF ResolveFails
  <2>9. QED BY <1>8, <2>1, <2>2
<1>9. ASSUME NEW i \in Importers,
             MakeReady(i) \/ MakeReadyFails(i)
      PROVE  ReadyStored'
  <2>1. CASE MakeReady(i) BY <2>1 DEF MakeReady, Proceed, Finish, Fault, Fine,
       ReplaceMedia, Goto
  <2>2. CASE MakeReadyFails(i) BY <2>2 DEF MakeReadyFails, Proceed, Fault, Goto
  <2>9. QED BY <1>9, <2>1, <2>2
<1>10. ASSUME NEW i \in Importers,
             CheckRetained(i) \/ CheckFails(i)
      PROVE  ReadyStored'
  <2>1. CASE CheckRetained(i) BY <2>1 DEF CheckRetained, Proceed, Goto
  <2>2. CASE CheckFails(i) BY <2>2 DEF CheckFails, Key, Proceed, Fault, Goto
  <2>9. QED BY <1>10, <2>1, <2>2
<1>11. ASSUME NEW i \in Importers,
             Delete(i) \/ Mark(i) \/ Complete(i)
      PROVE  ReadyStored'
  <2>1. CASE Delete(i)
    <3> USE <2>1 DEF Delete
    <3>1. CASE object' = [object EXCEPT ![Key(i)] = "absent"]
      <4>1. row[content[i]].state = "ready" => Key(i) \in lost
        OBVIOUS
      <4>2. ASSUME NEW c \in Contents, row[c].state = "ready", <<c, row[c].label>> # Key(i)
            PROVE  object'[<<c, row[c].label>>] = object[<<c, row[c].label>>]
        BY <3>1, <4>2
      <4>3. QED BY <4>1, <4>2
    <3>2. CASE object' = object
      BY <3>2
    <3>3. QED BY <3>1, <3>2
  <2>2. CASE Mark(i) BY <2>2 DEF Mark, Finish, Fault, Fine, Pending, ReplaceMedia,
       Goto
  <2>3. CASE Complete(i) BY <2>3 DEF Complete, File, Finish, Goto
  <2>9. QED BY <1>11, <2>1, <2>2, <2>3
<1>12. ASSUME NEW i \in Importers,
             Crash(i)
      PROVE  ReadyStored'
  BY <1>12 DEF Crash, Key, Goto
<1>13. ASSUME NEW k \in Keys, Damage(k) PROVE ReadyStored'
  <2>1. \A j \in Keys : j # k => object'[j] = object[j]
    BY <1>13 DEF Damage
  <2>2. \A c \in Contents : row[c].state = "ready" => <<c, row[c].label>> \in Keys
    BY DEF Labelled
  <2>3. QED BY <1>13, <2>1, <2>2 DEF Damage
<1>14. CASE UNCHANGED vars BY <1>14 DEF vars
<1>15. QED
  BY <1>1, <1>2, <1>3, <1>4, <1>5, <1>6, <1>7, <1>8, <1>9, <1>10, <1>11, <1>12,
     <1>13, <1>14
     DEF Next, Continue

-----------------------------------------------------------------------------
(* A step of one import keeps the objects accounted for when the others    *)
(* stay where they are, it spoils nothing but its own object, and it       *)
(* accounts for that one before it leaves.                                 *)

Frame(i) ==
  \A j \in Importers : j # i => pc'[j] = pc[j] /\ content'[j] = content[j] /\ under'[j] = under[j]

Kept(i) ==
  \A c \in Contents, l \in Labels :
    Accounted(c, l) =>
      \/ Accounted(c, l)'
      \/ pc'[i] \in Busy /\ content'[i] = c /\ under'[i] = l

Settled(i) ==
  \A c \in Contents, l \in Labels :
    pc[i] \in Busy /\ content[i] = c /\ under[i] = l =>
      \/ Accounted(c, l)'
      \/ pc'[i] \in Busy /\ content'[i] = c /\ under'[i] = l

LEMMA FrameClean ==
  ASSUME OthersAccounted, NEW i \in Importers, Frame(i), Kept(i), Settled(i)
  PROVE  OthersAccounted'
<1>1. SUFFICES ASSUME NEW c \in Contents, NEW l \in Labels
               PROVE  Accounted(c, l)' \/ \E j \in Importers :
                        pc'[j] \in Busy /\ content'[j] = c /\ under'[j] = l
  BY DEF OthersAccounted, Busy
<1>2. CASE Accounted(c, l)
  BY <1>2 DEF Kept
<1>3. CASE ~Accounted(c, l)
  <2>1. PICK j \in Importers : pc[j] \in Busy /\ content[j] = c /\ under[j] = l
    BY <1>3 DEF OthersAccounted
  <2>2. CASE j = i
    BY <2>1, <2>2 DEF Settled
  <2>3. CASE j # i
    BY <2>1, <2>3 DEF Frame
  <2>4. QED BY <2>2, <2>3
<1>4. QED BY <1>2, <1>3

\* The owner accounts for its object before it leaves.
LEMMA CleanStep ==
  ASSUME Base, OwnRow, Clean, [Next]_vars
  PROVE  OthersAccounted'
PROOF
<1> USE ImportAssumption DEF Base, ControlType, Locals, Unlocked, CatalogType,
      StoreType, Keys, OwnRow, Clean, OldAccounted, Key, importVars, fileVars,
      placeVars, catalogVars, historyVars, boundVars
<1>1. ASSUME NEW i \in Importers, NEW c \in Contents, NEW l \in Labels,
             NEW r \in Requests \cup {None}, Import(i, c, l, r)
      PROVE  OthersAccounted'
  <2>1. Frame(i)
    BY <1>1 DEF Import, Goto, Frame
  <2>2. Kept(i)
    BY <1>1 DEF Import, Goto, Kept, Accounted
  <2>3. Settled(i)
    BY <1>1 DEF Import, Settled, Busy
  <2>4. QED BY <2>1, <2>2, <2>3, FrameClean
<1>2. ASSUME NEW i \in Importers,
             Stage(i) \/ StageFails(i) \/ TakeLock(i)
      PROVE  OthersAccounted'
  <2>1. CASE Stage(i)
    <3>1. Frame(i)
      BY <2>1 DEF Stage, Goto, Frame
    <3>2. Kept(i)
      BY <2>1 DEF Stage, Goto, Kept, Accounted, Busy
    <3>3. Settled(i)
      BY <2>1 DEF Stage, Goto, Settled, Accounted, Busy, Unmarked
    <3>4. QED BY <3>1, <3>2, <3>3, FrameClean
  <2>2. CASE StageFails(i)
    <3>1. Frame(i)
      BY <2>2 DEF StageFails, Goto, Fault, Frame
    <3>2. Kept(i)
      BY <2>2 DEF StageFails, Goto, Fault, Kept, Accounted, Busy
    <3>3. Settled(i)
      BY <2>2 DEF StageFails, Goto, Fault, Settled, Accounted, Busy, Unmarked
    <3>4. QED BY <3>1, <3>2, <3>3, FrameClean
  <2>3. CASE TakeLock(i)
    <3>1. Frame(i)
      BY <2>3 DEF TakeLock, Goto, Frame
    <3>2. Kept(i)
      BY <2>3 DEF TakeLock, Goto, Kept, Accounted, Busy
    <3>3. Settled(i)
      BY <2>3 DEF TakeLock, Goto, Settled, Accounted, Busy, Unmarked
    <3>4. QED BY <3>1, <3>2, <3>3, FrameClean
  <2>9. QED BY <1>2, <2>1, <2>2, <2>3
<1>3. ASSUME NEW i \in Importers,
             Reserve(i) \/ Lookup(i) \/ Pend(i)
      PROVE  OthersAccounted'
  <2>1. CASE Reserve(i)
    <3>1. Frame(i)
      BY <2>1 DEF Reserve, File, Proceed, Finish, Goto, Frame
    <3>2. Kept(i)
      BY <2>1 DEF Reserve, File, Proceed, Finish, Goto, Kept, Accounted, Busy
    <3>3. Settled(i)
      BY <2>1 DEF Reserve, File, Proceed, Finish, Goto, Settled, Accounted, Busy,
          Unmarked
    <3>4. QED BY <3>1, <3>2, <3>3, FrameClean
  <2>2. CASE Lookup(i)
    <3>1. Frame(i)
      BY <2>2 DEF Lookup, Proceed, Goto, Frame
    <3>2. Kept(i)
      BY <2>2 DEF Lookup, Proceed, Goto, Kept, Accounted, Busy
    <3>3. Settled(i)
      BY <2>2 DEF Lookup, Proceed, Goto, Settled, Accounted, Busy, Unmarked
    <3>4. QED BY <3>1, <3>2, <3>3, FrameClean
  <2>3. CASE Pend(i)
    <3>1. Frame(i)
      BY <2>3 DEF Pend, Proceed, Pending, ReplaceMedia, Goto, Frame
    <3>2. Kept(i)
      BY <2>3 DEF Pend, Proceed, Pending, ReplaceMedia, Goto, Kept, Accounted, Busy
    <3>3. Settled(i)
      BY <2>3 DEF Pend, Proceed, Pending, ReplaceMedia, Goto, Settled, Accounted,
          Busy, Unmarked
    <3>4. QED BY <3>1, <3>2, <3>3, FrameClean
  <2>9. QED BY <1>3, <2>1, <2>2, <2>3
<1>4. ASSUME NEW i \in Importers,
             CatalogFails(i)
      PROVE  OthersAccounted'
  <2>1. Frame(i)
    BY <1>4 DEF CatalogFails, File, Finish, Fault, Pending, ReplaceMedia, Goto,
        Frame
  <2>2. Kept(i)
    BY <1>4 DEF CatalogFails, File, Finish, Fault, Pending, ReplaceMedia, Goto,
        Kept, Accounted, Busy
  <2>3. Settled(i)
    BY <1>4 DEF CatalogFails, File, Finish, Fault, Pending, ReplaceMedia, Goto,
        Settled, Accounted, Busy, Unmarked
  <2>4. QED BY <2>1, <2>2, <2>3, FrameClean
<1>5. ASSUME NEW i \in Importers,
             Probe(i)
      PROVE  OthersAccounted'
  <2>1. Frame(i)
    BY <1>5 DEF Probe, Proceed, Fault, Fine, Goto, Frame
  <2>2. Kept(i)
    BY <1>5 DEF Probe, Proceed, Fault, Fine, Goto, Kept, Accounted, Busy
  <2>3. Settled(i)
    BY <1>5 DEF Probe, Proceed, Fault, Fine, Goto, Settled, Accounted, Busy,
        Unmarked
  <2>4. QED BY <2>1, <2>2, <2>3, FrameClean
<1>6. ASSUME NEW i \in Importers,
             PublishFails(i) \/ PublishSame(i) \/ PublishReplace(i)
      PROVE  OthersAccounted'
  <2>1. CASE PublishFails(i)
    <3>1. Frame(i)
      BY <2>1 DEF PublishFails, Fault, PublishRaises, Proceed, Finish, Goto, Frame
    <3>2. Kept(i)
      BY <2>1 DEF PublishFails, Fault, PublishRaises, Proceed, Finish, Goto, Kept,
          Accounted, Busy
    <3>3. Settled(i)
      BY <2>1 DEF PublishFails, Fault, PublishRaises, Proceed, Finish, Goto,
          Settled, Accounted, Busy, Unmarked
    <3>4. QED BY <3>1, <3>2, <3>3, FrameClean
  <2>2. CASE PublishSame(i)
    <3>1. Frame(i)
      BY <2>2 DEF PublishSame, Key, Proceed, Goto, Frame
    <3>2. Kept(i)
      BY <2>2 DEF PublishSame, Key, Proceed, Goto, Kept, Accounted, Busy
    <3>3. Settled(i)
      BY <2>2 DEF PublishSame, Key, Proceed, Goto, Settled, Accounted, Busy,
          Unmarked
    <3>4. QED BY <3>1, <3>2, <3>3, FrameClean
  <2>3. CASE PublishReplace(i)
    <3>1. Frame(i)
      BY <2>3 DEF PublishReplace, Key, Proceed, Goto, Frame
    <3>2. Kept(i)
      BY <2>3 DEF PublishReplace, Key, Proceed, Goto, Kept, Accounted, Busy
    <3>3. Settled(i)
      BY <2>3 DEF PublishReplace, Key, Proceed, Goto, Settled, Accounted, Busy,
          Unmarked
    <3>4. QED BY <3>1, <3>2, <3>3, FrameClean
  <2>9. QED BY <1>6, <2>1, <2>2, <2>3
<1>7. ASSUME NEW i \in Importers,
             Sync(i) \/ SyncFails(i)
      PROVE  OthersAccounted'
  <2>1. CASE Sync(i)
    <3>1. Frame(i)
      BY <2>1 DEF Sync, Proceed, Goto, Frame
    <3>2. Kept(i)
      BY <2>1 DEF Sync, Proceed, Goto, Kept, Accounted, Busy
    <3>3. Settled(i)
      BY <2>1 DEF Sync, Proceed, Goto, Settled, Accounted, Busy, Unmarked
    <3>4. QED BY <3>1, <3>2, <3>3, FrameClean
  <2>2. CASE SyncFails(i)
    <3>1. Frame(i)
      BY <2>2 DEF SyncFails, Key, Fault, PublishRaises, Proceed, Finish, Goto, Frame
    <3>2. Kept(i)
      BY <2>2 DEF SyncFails, Key, Fault, PublishRaises, Proceed, Finish, Goto, Kept,
          Accounted, Busy
    <3>3. Settled(i)
      BY <2>2 DEF SyncFails, Key, Fault, PublishRaises, Proceed, Finish, Goto,
          Settled, Accounted, Busy, Unmarked
    <3>4. QED BY <3>1, <3>2, <3>3, FrameClean
  <2>9. QED BY <1>7, <2>1, <2>2
<1>8. ASSUME NEW i \in Importers,
             Resolve(i) \/ ResolveFails(i)
      PROVE  OthersAccounted'
  <2>1. CASE Resolve(i)
    <3>1. Frame(i)
      BY <2>1 DEF Resolve, Key, AfterPublish, Proceed, Finish, Goto, Frame
    <3>2. Kept(i)
      BY <2>1 DEF Resolve, Key, AfterPublish, Proceed, Finish, Goto, Kept,
          Accounted, Busy
    <3>3. Settled(i)
      BY <2>1 DEF Resolve, Key, AfterPublish, Proceed, Finish, Goto, Settled,
          Accounted, Busy, Unmarked
    <3>4. QED BY <3>1, <3>2, <3>3, FrameClean
  <2>2. CASE ResolveFails(i)
    <3>1. Frame(i)
      BY <2>2 DEF ResolveFails, Key, Fault, Fine, PublishRaises, Proceed, Finish,
          Goto, Frame
    <3>2. Kept(i)
      <4>1. /\ row' = row
            /\ \/ object' = object /\ litter \subseteq litter'
               \/ /\ object' = [object EXCEPT ![Key(i)] = "absent"]
                  /\ litter' = litter \ {Key(i)}
        BY <2>2 DEF ResolveFails, PublishRaises, Proceed, Finish
      <4>2. ASSUME NEW c \in Contents, NEW l \in Labels
            PROVE  Accounted(c, l) => Accounted(c, l)'
        <5>1. <<c, l>> # Key(i) /\ Accounted(c, l) => Accounted(c, l)'
          BY <4>1 DEF Accounted
        <5>2. <<c, l>> = Key(i) /\ Accounted(c, l) => Accounted(c, l)'
          BY <4>1 DEF Accounted
        <5>3. QED BY <5>1, <5>2
      <4>3. QED BY <4>2 DEF Kept
    <3>3. Settled(i)
      BY <2>2 DEF ResolveFails, Key, Fault, Fine, PublishRaises, Proceed, Finish,
          Goto, Settled, Accounted, Busy, Unmarked
    <3>4. QED BY <3>1, <3>2, <3>3, FrameClean
  <2>9. QED BY <1>8, <2>1, <2>2
<1>9. ASSUME NEW i \in Importers,
             MakeReady(i) \/ MakeReadyFails(i)
      PROVE  OthersAccounted'
  <2>1. CASE MakeReady(i)
    <3>1. Frame(i)
      BY <2>1 DEF MakeReady, Proceed, Finish, Fault, Fine, ReplaceMedia, Goto, Frame
    <3>2. Kept(i)
      BY <2>1 DEF MakeReady, Proceed, Finish, Fault, Fine, ReplaceMedia, Goto, Kept,
          Accounted, Busy
    <3>3. Settled(i)
      BY <2>1 DEF MakeReady, Proceed, Finish, Fault, Fine, ReplaceMedia, Goto,
          Settled, Accounted, Busy, Unmarked
    <3>4. QED BY <3>1, <3>2, <3>3, FrameClean
  <2>2. CASE MakeReadyFails(i)
    <3>1. Frame(i)
      BY <2>2 DEF MakeReadyFails, Proceed, Fault, Goto, Frame
    <3>2. Kept(i)
      BY <2>2 DEF MakeReadyFails, Proceed, Fault, Goto, Kept, Accounted, Busy
    <3>3. Settled(i)
      BY <2>2 DEF MakeReadyFails, Proceed, Fault, Goto, Settled, Accounted, Busy,
          Unmarked
    <3>4. QED BY <3>1, <3>2, <3>3, FrameClean
  <2>9. QED BY <1>9, <2>1, <2>2
<1>10. ASSUME NEW i \in Importers,
             CheckRetained(i) \/ CheckFails(i)
      PROVE  OthersAccounted'
  <2>1. CASE CheckRetained(i)
    <3>1. Frame(i)
      BY <2>1 DEF CheckRetained, Proceed, Goto, Frame
    <3>2. Kept(i)
      BY <2>1 DEF CheckRetained, Proceed, Goto, Kept, Accounted, Busy
    <3>3. Settled(i)
      BY <2>1 DEF CheckRetained, Proceed, Goto, Settled, Accounted, Busy, Unmarked
    <3>4. QED BY <3>1, <3>2, <3>3, FrameClean
  <2>2. CASE CheckFails(i)
    <3>1. Frame(i)
      BY <2>2 DEF CheckFails, Key, Proceed, Fault, Goto, Frame
    <3>2. Kept(i)
      BY <2>2 DEF CheckFails, Key, Proceed, Fault, Goto, Kept, Accounted, Busy
    <3>3. Settled(i)
      BY <2>2 DEF CheckFails, Key, Proceed, Fault, Goto, Settled, Accounted, Busy,
          Unmarked
    <3>4. QED BY <3>1, <3>2, <3>3, FrameClean
  <2>9. QED BY <1>10, <2>1, <2>2
<1>11. ASSUME NEW i \in Importers,
             Delete(i) \/ Mark(i) \/ Complete(i)
      PROVE  OthersAccounted'
  <2>1. CASE Delete(i)
    <3>1. Frame(i)
      BY <2>1 DEF Delete, Proceed, Goto, Frame
    <3>2. CASE object' = [object EXCEPT ![Key(i)] = "absent"] /\ litter' = litter \ {Key(i)}
      <4>1. ASSUME NEW c \in Contents, NEW l \in Labels
            PROVE  Accounted(c, l) \/ <<c, l>> = Key(i) => Accounted(c, l)'
        BY <2>1, <3>2 DEF Delete, Accounted
      <4>2. QED BY <2>1, <3>1, <4>1, FrameClean DEF Delete, Kept, Settled
    <3>3. CASE object' = object /\ litter' = litter \cup {Key(i)}
      <4>1. ASSUME NEW c \in Contents, NEW l \in Labels
            PROVE  Accounted(c, l) \/ <<c, l>> = Key(i) => Accounted(c, l)'
        BY <2>1, <3>3 DEF Delete, Accounted
      <4>2. QED BY <2>1, <3>1, <4>1, FrameClean DEF Delete, Kept, Settled
    <3>4. QED BY <2>1, <3>2, <3>3 DEF Delete
  <2>2. CASE Mark(i)
    <3>1. Frame(i)
      BY <2>2 DEF Mark, Finish, Fault, Fine, Pending, ReplaceMedia, Goto, Frame
    <3>2. Kept(i)
      BY <2>2 DEF Mark, Finish, Fault, Fine, Pending, ReplaceMedia, Goto, Kept,
          Accounted, Busy
    <3>3. Settled(i)
      BY <2>2 DEF Mark, Finish, Fault, Fine, Pending, ReplaceMedia, Goto, Settled,
          Accounted, Busy, Unmarked
    <3>4. QED BY <3>1, <3>2, <3>3, FrameClean
  <2>3. CASE Complete(i)
    <3>1. Frame(i)
      BY <2>3 DEF Complete, File, Finish, Goto, Frame
    <3>2. Kept(i)
      BY <2>3 DEF Complete, File, Finish, Goto, Kept, Accounted, Busy
    <3>3. Settled(i)
      BY <2>3 DEF Complete, File, Finish, Goto, Settled, Accounted, Busy, Unmarked
    <3>4. QED BY <3>1, <3>2, <3>3, FrameClean
  <2>9. QED BY <1>11, <2>1, <2>2, <2>3
<1>12. ASSUME NEW i \in Importers,
             Crash(i)
      PROVE  OthersAccounted'
  <2>1. Frame(i)
    BY <1>12 DEF Crash, Key, Goto, Frame
  <2>2. Kept(i)
    BY <1>12 DEF Crash, Key, Goto, Kept, Accounted, Busy
  <2>3. Settled(i)
    BY <1>12 DEF Crash, Key, Goto, Settled, Accounted, Busy, Unmarked
  <2>4. QED BY <2>1, <2>2, <2>3, FrameClean
<1>13. ASSUME NEW k \in Keys, Damage(k) PROVE OthersAccounted'
  <2>1. \A c \in Contents, l \in Labels : Accounted(c, l) => Accounted(c, l)'
    BY <1>13 DEF Damage, Accounted
  <2>2. \A j \in Importers : pc'[j] = pc[j] /\ content'[j] = content[j] /\ under'[j] = under[j]
    BY <1>13 DEF Damage
  <2>3. QED BY <2>1, <2>2 DEF OthersAccounted
<1>14. CASE UNCHANGED vars
  <2>1. \A c \in Contents, l \in Labels : Accounted(c, l) => Accounted(c, l)'
    BY <1>14 DEF vars, Accounted
  <2>2. \A j \in Importers : pc'[j] = pc[j] /\ content'[j] = content[j] /\ under'[j] = under[j]
    BY <1>14 DEF vars
  <2>3. QED BY <2>1, <2>2 DEF OthersAccounted
<1>15. QED
  BY <1>1, <1>2, <1>3, <1>4, <1>5, <1>6, <1>7, <1>8, <1>9, <1>10, <1>11, <1>12,
     <1>13, <1>14
     DEF Next, Continue

\* An object found under the key was accounted for.
LEMMA OldStep ==
  ASSUME Base, OwnRow, Clean, [Next]_vars
  PROVE  OldAccounted'
PROOF
<1> USE ImportAssumption DEF Base, ControlType, Locals, Unlocked, CatalogType,
      StoreType, Keys, OwnRow, Clean, OldAccounted, OthersAccounted, Accounted, Key,
      Busy, importVars, fileVars, placeVars, catalogVars, historyVars, boundVars
<1>1. ASSUME NEW i \in Importers, NEW c \in Contents, NEW l \in Labels,
             NEW r \in Requests \cup {None}, Import(i, c, l, r)
      PROVE  OldAccounted'
  BY <1>1 DEF Import, Goto
<1>2. ASSUME NEW i \in Importers,
             Stage(i) \/ StageFails(i) \/ TakeLock(i)
      PROVE  OldAccounted'
  <2>1. CASE Stage(i) BY <2>1 DEF Stage, Goto
  <2>2. CASE StageFails(i) BY <2>2 DEF StageFails, Goto, Fault
  <2>3. CASE TakeLock(i) BY <2>3 DEF TakeLock, Goto
  <2>9. QED BY <1>2, <2>1, <2>2, <2>3
<1>3. ASSUME NEW i \in Importers,
             Reserve(i) \/ Lookup(i) \/ Pend(i)
      PROVE  OldAccounted'
  <2>1. CASE Reserve(i) BY <2>1 DEF Reserve, File, Proceed, Finish, Goto
  <2>2. CASE Lookup(i) BY <2>2 DEF Lookup, Proceed, Goto
  <2>3. CASE Pend(i) BY <2>3 DEF Pend, Proceed, Pending, ReplaceMedia, Goto
  <2>9. QED BY <1>3, <2>1, <2>2, <2>3
<1>4. ASSUME NEW i \in Importers,
             CatalogFails(i)
      PROVE  OldAccounted'
  BY <1>4 DEF CatalogFails, File, Finish, Fault, Pending, ReplaceMedia, Goto
<1>5. ASSUME NEW i \in Importers,
             Probe(i)
      PROVE  OldAccounted'
  BY <1>5 DEF Probe, Proceed, Fault, Fine, Goto
<1>6. ASSUME NEW i \in Importers,
             PublishFails(i) \/ PublishSame(i) \/ PublishReplace(i)
      PROVE  OldAccounted'
  <2>1. CASE PublishFails(i) BY <2>1 DEF PublishFails, Fault, PublishRaises,
       Proceed, Finish, Goto
  <2>2. CASE PublishSame(i)
    <3>1. Accounted(content[i], under[i])
      BY <2>2, NotBusy DEF PublishSame
    <3>3. \A j \in Importers : content'[j] = content[j] /\ under'[j] = under[j]
      BY <2>2 DEF PublishSame
    <3>4. \A j \in Importers : j # i => pc'[j] = pc[j] /\ (j \in created' <=> j \in created)
      BY <2>2 DEF PublishSame, Proceed, Goto
    <3>5. ASSUME NEW j \in Importers, pc'[j] \in {"sync", "resolve"}, j \notin created'
          PROVE  Accounted(content[j], under[j])
      <4>1. CASE j = i
        BY <3>1, <4>1
      <4>2. CASE j # i
        BY <3>4, <3>5, <4>2
      <4>3. QED BY <4>1, <4>2
    <3>6. QED BY <2>2, <3>3, <3>5 DEF PublishSame
  <2>3. CASE PublishReplace(i)
    <3>1. Accounted(content[i], under[i])
      BY <2>3, NotBusy DEF PublishReplace
    <3>2. object[Key(i)] # "absent" => Accounted(content[i], under[i])'
      BY <2>3, <3>1 DEF PublishReplace
    <3>3. i \notin created' => object[Key(i)] # "absent"
      BY <2>3 DEF PublishReplace
    <3>4. ASSUME NEW j \in Importers, j # i, pc'[j] \in {"sync", "resolve"}, j \notin created'
          PROVE  Accounted(content[j], under[j])'
      <4>1. pc[j] = pc'[j] /\ j \notin created
        BY <2>3, <3>4 DEF PublishReplace, Proceed, Goto
      <4>2. content[j] # content[i]
        BY <2>3, <3>4, <4>1, Owner DEF PublishReplace
      <4>3. Accounted(content[j], under[j])
        BY <3>4, <4>1
      <4>4. content[j] \in Contents /\ under[j] \in Labels
        BY <3>4, <4>1
      <4>5. object'[<<content[j], under[j]>>] = object[<<content[j], under[j]>>]
        BY <2>3, <4>2, <4>4 DEF PublishReplace
      <4>6. QED BY <2>3, <4>3, <4>5 DEF PublishReplace
    <3>5. ASSUME NEW j \in Importers, pc'[j] \in {"sync", "resolve"}, j \notin created'
          PROVE  Accounted(content[j], under[j])'
      <4>1. CASE j = i
        BY <3>2, <3>3, <3>5, <4>1
      <4>2. CASE j # i
        BY <3>4, <3>5, <4>2
      <4>3. QED BY <4>1, <4>2
    <3>6. QED BY <3>5
  <2>9. QED BY <1>6, <2>1, <2>2, <2>3
<1>7. ASSUME NEW i \in Importers,
             Sync(i) \/ SyncFails(i)
      PROVE  OldAccounted'
  <2>1. CASE Sync(i) BY <2>1 DEF Sync, Proceed, Goto
  <2>2. CASE SyncFails(i) BY <2>2 DEF SyncFails, Key, Fault, PublishRaises, Proceed,
       Finish, Goto
  <2>9. QED BY <1>7, <2>1, <2>2
<1>8. ASSUME NEW i \in Importers,
             Resolve(i) \/ ResolveFails(i)
      PROVE  OldAccounted'
  <2>1. CASE Resolve(i) BY <2>1 DEF Resolve, Key, AfterPublish, Proceed, Finish,
       Goto
  <2>2. CASE ResolveFails(i) BY <2>2 DEF ResolveFails, Key, Fault, Fine,
       PublishRaises, Proceed, Finish, Goto
  <2>9. QED BY <1>8, <2>1, <2>2
<1>9. ASSUME NEW i \in Importers,
             MakeReady(i) \/ MakeReadyFails(i)
      PROVE  OldAccounted'
  <2>1. CASE MakeReady(i) BY <2>1 DEF MakeReady, Proceed, Finish, Fault, Fine,
       ReplaceMedia, Goto
  <2>2. CASE MakeReadyFails(i) BY <2>2 DEF MakeReadyFails, Proceed, Fault, Goto
  <2>9. QED BY <1>9, <2>1, <2>2
<1>10. ASSUME NEW i \in Importers,
             CheckRetained(i) \/ CheckFails(i)
      PROVE  OldAccounted'
  <2>1. CASE CheckRetained(i) BY <2>1 DEF CheckRetained, Proceed, Goto
  <2>2. CASE CheckFails(i) BY <2>2 DEF CheckFails, Key, Proceed, Fault, Goto
  <2>9. QED BY <1>10, <2>1, <2>2
<1>11. ASSUME NEW i \in Importers,
             Delete(i) \/ Mark(i) \/ Complete(i)
      PROVE  OldAccounted'
  <2>1. CASE Delete(i) BY <2>1 DEF Delete, Key, Proceed, Fault, Fine, Goto
  <2>2. CASE Mark(i) BY <2>2 DEF Mark, Finish, Fault, Fine, Pending, ReplaceMedia,
       Goto
  <2>3. CASE Complete(i) BY <2>3 DEF Complete, File, Finish, Goto
  <2>9. QED BY <1>11, <2>1, <2>2, <2>3
<1>12. ASSUME NEW i \in Importers,
             Crash(i)
      PROVE  OldAccounted'
  BY <1>12 DEF Crash, Key, Goto
<1>13. ASSUME NEW k \in Keys, Damage(k) PROVE OldAccounted'
  BY <1>13 DEF Damage
<1>14. CASE UNCHANGED vars BY <1>14 DEF vars
<1>15. QED
  BY <1>1, <1>2, <1>3, <1>4, <1>5, <1>6, <1>7, <1>8, <1>9, <1>10, <1>11, <1>12,
     <1>13, <1>14
     DEF Next, Continue

\* No step touches a ready row.
LEMMA KeepStep ==
  ASSUME Base, [Next]_vars
  PROVE  \A d \in Contents : row[d].state = "ready" => row'[d] = row[d]
PROOF
<1> USE ImportAssumption DEF Base, ControlType, CatalogType, importVars, fileVars,
      placeVars, catalogVars, historyVars, boundVars
<1>1. ASSUME NEW i \in Importers, NEW c \in Contents, NEW l \in Labels,
             NEW r \in Requests \cup {None}, Import(i, c, l, r)
      PROVE  \A d \in Contents : row[d].state = "ready" => row'[d] = row[d]
  BY <1>1 DEF Import, Goto
<1>2. ASSUME NEW i \in Importers,
             Stage(i) \/ StageFails(i) \/ TakeLock(i)
      PROVE  \A d \in Contents : row[d].state = "ready" => row'[d] = row[d]
  <2>1. CASE Stage(i) BY <2>1 DEF Stage, Goto
  <2>2. CASE StageFails(i) BY <2>2 DEF StageFails, Goto, Fault
  <2>3. CASE TakeLock(i) BY <2>3 DEF TakeLock, Goto
  <2>9. QED BY <1>2, <2>1, <2>2, <2>3
<1>3. ASSUME NEW i \in Importers,
             Reserve(i) \/ Lookup(i) \/ Pend(i)
      PROVE  \A d \in Contents : row[d].state = "ready" => row'[d] = row[d]
  <2>1. CASE Reserve(i) BY <2>1 DEF Reserve, File, Proceed, Finish, Goto
  <2>2. CASE Lookup(i) BY <2>2 DEF Lookup, Proceed, Goto
  <2>3. CASE Pend(i) BY <2>3 DEF Pend, Proceed, Pending, ReplaceMedia, Goto
  <2>9. QED BY <1>3, <2>1, <2>2, <2>3
<1>4. ASSUME NEW i \in Importers,
             CatalogFails(i)
      PROVE  \A d \in Contents : row[d].state = "ready" => row'[d] = row[d]
  BY <1>4 DEF CatalogFails, File, Finish, Fault, Pending, ReplaceMedia, Goto
<1>5. ASSUME NEW i \in Importers,
             Probe(i)
      PROVE  \A d \in Contents : row[d].state = "ready" => row'[d] = row[d]
  BY <1>5 DEF Probe, Proceed, Fault, Fine, Goto
<1>6. ASSUME NEW i \in Importers,
             PublishFails(i) \/ PublishSame(i) \/ PublishReplace(i)
      PROVE  \A d \in Contents : row[d].state = "ready" => row'[d] = row[d]
  <2>1. CASE PublishFails(i) BY <2>1 DEF PublishFails, Fault, PublishRaises,
       Proceed, Finish, Goto
  <2>2. CASE PublishSame(i) BY <2>2 DEF PublishSame, Key, Proceed, Goto
  <2>3. CASE PublishReplace(i) BY <2>3 DEF PublishReplace, Key, Proceed, Goto
  <2>9. QED BY <1>6, <2>1, <2>2, <2>3
<1>7. ASSUME NEW i \in Importers,
             Sync(i) \/ SyncFails(i)
      PROVE  \A d \in Contents : row[d].state = "ready" => row'[d] = row[d]
  <2>1. CASE Sync(i) BY <2>1 DEF Sync, Proceed, Goto
  <2>2. CASE SyncFails(i) BY <2>2 DEF SyncFails, Key, Fault, PublishRaises, Proceed,
       Finish, Goto
  <2>9. QED BY <1>7, <2>1, <2>2
<1>8. ASSUME NEW i \in Importers,
             Resolve(i) \/ ResolveFails(i)
      PROVE  \A d \in Contents : row[d].state = "ready" => row'[d] = row[d]
  <2>1. CASE Resolve(i) BY <2>1 DEF Resolve, Key, AfterPublish, Proceed, Finish,
       Goto
  <2>2. CASE ResolveFails(i) BY <2>2 DEF ResolveFails, Key, Fault, Fine,
       PublishRaises, Proceed, Finish, Goto
  <2>9. QED BY <1>8, <2>1, <2>2
<1>9. ASSUME NEW i \in Importers,
             MakeReady(i) \/ MakeReadyFails(i)
      PROVE  \A d \in Contents : row[d].state = "ready" => row'[d] = row[d]
  <2>1. CASE MakeReady(i) BY <2>1 DEF MakeReady, Proceed, Finish, Fault, Fine,
       ReplaceMedia, Goto
  <2>2. CASE MakeReadyFails(i) BY <2>2 DEF MakeReadyFails, Proceed, Fault, Goto
  <2>9. QED BY <1>9, <2>1, <2>2
<1>10. ASSUME NEW i \in Importers,
             CheckRetained(i) \/ CheckFails(i)
      PROVE  \A d \in Contents : row[d].state = "ready" => row'[d] = row[d]
  <2>1. CASE CheckRetained(i) BY <2>1 DEF CheckRetained, Proceed, Goto
  <2>2. CASE CheckFails(i) BY <2>2 DEF CheckFails, Key, Proceed, Fault, Goto
  <2>9. QED BY <1>10, <2>1, <2>2
<1>11. ASSUME NEW i \in Importers,
             Delete(i) \/ Mark(i) \/ Complete(i)
      PROVE  \A d \in Contents : row[d].state = "ready" => row'[d] = row[d]
  <2>1. CASE Delete(i) BY <2>1 DEF Delete, Key, Proceed, Fault, Fine, Goto
  <2>2. CASE Mark(i) BY <2>2 DEF Mark, Finish, Fault, Fine, Pending, ReplaceMedia,
       Goto
  <2>3. CASE Complete(i) BY <2>3 DEF Complete, File, Finish, Goto
  <2>9. QED BY <1>11, <2>1, <2>2, <2>3
<1>12. ASSUME NEW i \in Importers,
             Crash(i)
      PROVE  \A d \in Contents : row[d].state = "ready" => row'[d] = row[d]
  BY <1>12 DEF Crash, Key, Goto
<1>13. ASSUME NEW k \in Keys, Damage(k) PROVE \A d \in Contents : row[d].state = "ready" => row'[d] = row[d]
  BY <1>13 DEF Damage
<1>14. CASE UNCHANGED vars BY <1>14 DEF vars
<1>15. QED
  BY <1>1, <1>2, <1>3, <1>4, <1>5, <1>6, <1>7, <1>8, <1>9, <1>10, <1>11, <1>12,
     <1>13, <1>14
     DEF Next, Continue

-----------------------------------------------------------------------------
IInv == Base /\ OwnRow /\ Keyed /\ Stored /\ Clean

\* The invariant holds in every reachable state.
THEOREM Invariant == Spec => []IInv
PROOF
<1>1. Init => IInv
  BY ImportAssumption
  DEF Init, IInv, Base, ControlType, CatalogType, StoreType, Locals, Labelled, OwnRow, Keyed, Bound, CompletedReady,
      Answered, Stored, BadLost, OwnObject, ReadyStored, Clean, OthersAccounted,
      OldAccounted, Accounted, Busy, Unlocked, ImportState,
      Files, Keys, Row, File, Key
<1>2. IInv /\ [Next]_vars => IInv'
  BY ControlStep, CatalogStep, DiskStep, LocalStep, LabelStep, RowStep, BoundStep, CompletedStep, AnswerStep,
     BadStep, ObjectStep, StoredStep, CleanStep, OldStep
  DEF IInv, Base, Keyed, Stored, Clean
<1>3. QED BY <1>1, <1>2, PTL DEF Spec

\* The state keeps its types.
THEOREM TypeCorrect == Spec => []TypeOK
PROOF BY Invariant, PTL DEF IInv, Base, TypeOK

\* Ready media has its bytes, unless the disk lost them or an import whose
\* commit was uncertain could not read the row.
THEOREM ReadyMediaStored == Spec => []ReadyStored
PROOF BY Invariant, PTL DEF IInv, Stored

\* A completed request refers to ready media of the file it was made for.
THEOREM CompletedMediaReady == Spec => []CompletedReady
PROOF BY Invariant, PTL DEF IInv, Keyed

\* Whoever used a request key passed the same file and got its media.
THEOREM KeysBind == Spec => []KeyBinds
PROOF
<1>1. IInv => KeyBinds
  BY DEF IInv, Base, CatalogType, Keyed, Answered, KeyBinds
<1>2. QED BY <1>1, Invariant, PTL

\* Nothing but a crash or a failing disk leaves an object no ready row names.
THEOREM NothingLeft == Spec => []NoLitter
PROOF
<1>1. IInv => NoLitter
  <2>1. SUFFICES ASSUME IInv, NEW c \in Contents, NEW l \in Labels,
                        object[<<c, l>>] # "absent", lock[c] = None
                 PROVE  \/ row[c] = [state |-> "ready", label |-> l]
                        \/ <<c, l>> \in litter
    BY DEF NoLitter
  <2>2. Accounted(c, l)
    <3>1. ASSUME NEW i \in Importers, pc[i] \in Busy, content[i] = c PROVE FALSE
      BY <2>1, <3>1, ImportAssumption DEF IInv, Base, Locals, Busy, Unlocked
    <3>2. QED BY <2>1, <3>1 DEF IInv, Clean, OthersAccounted
  <2>3. row[c] = [state |-> row[c].state, label |-> row[c].label]
    BY <2>1 DEF IInv, Base, CatalogType, Row
  <2>4. QED BY <2>1, <2>2, <2>3 DEF Accounted
<1>2. QED BY <1>1, Invariant, PTL

\* Ready rows are never changed.
THEOREM ReadyMediaFinal == Spec => ReadyForever
PROOF
<1>1. IInv /\ [Next]_vars =>
        [\A c \in Contents : row[c].state = "ready" => row'[c] = row[c]]_vars
  BY KeepStep DEF IInv
<1>2. QED BY <1>1, Invariant, PTL DEF Spec, ReadyForever
=============================================================================
