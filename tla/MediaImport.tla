----------------------------- MODULE MediaImport -----------------------------
(***************************************************************************)
(* Media imports: MediaService._import of media_service.py over the        *)
(* catalog's media and import-request tables and the local object store.   *)
(*                                                                         *)
(* An import stages its source, takes the publication lock of the content, *)
(* reserves its request key, writes a pending row, probes, publishes the   *)
(* object and makes the row ready; what failed is compensated.  Each       *)
(* transaction and each file operation is a step.  A transaction may fail, *)
(* or be committed without the caller learning it; a process may die; the  *)
(* disk may lose or damage an object.                                      *)
(*                                                                         *)
(* The catalog keeps one row per checksum, so a row is named by its        *)
(* content.  A label stands for a filename, declared type and suffix; the  *)
(* storage key of an object is its content and its label's suffix.         *)
(***************************************************************************)
EXTENDS Integers, FiniteSets

CONSTANTS
  Importers,   \* processes or threads that import
  Contents,    \* contents, as their checksums
  Labels,
  Requests,    \* request keys
  MaxImports,  \* bound: imports started
  MaxFaults,   \* bound: failed calls and uncertain commits
  MaxCrashes,  \* bound: processes that die
  MaxDamages,  \* bound: objects lost or damaged by the disk
  None

ASSUME ImportAssumption ==
  /\ MaxImports \in Nat /\ MaxFaults \in Nat /\ MaxCrashes \in Nat /\ MaxDamages \in Nat
  /\ None \notin Importers /\ None \notin Contents /\ None \notin Requests
  /\ None \notin Labels /\ None \notin Contents \X Labels

Files == Contents \X Labels
Keys == Contents \X Labels
Row == [state : {"absent", "pending", "ready", "failed"}, label : Labels \cup {None}]

VARIABLES
  pc,        \* where each import is
  content,   \* what it imports
  label,     \* under which label
  request,   \* its request key, or None
  under,     \* the label of the storage key it publishes to
  restores,  \* imports of content that was ready when they looked
  created,   \* imports whose publication found no object
  lock,      \* holder of each content's publication lock
  row,       \* the catalog's row of each content
  reserved,  \* the file each request key is bound to
  completed, \* the content each request key has produced
  object,    \* the object under each storage key
  answers,   \* <<request, content, label, media>> of imports that returned
  lost,      \* keys whose object the disk lost or an uncertain import removed
  litter,    \* keys whose object a crash or a failing disk left behind
  imports, faults, crashes, damages

fileVars == <<content, label, request>>
placeVars == <<under, restores, created>>
importVars == <<pc, fileVars, placeVars>>
catalogVars == <<row, reserved, completed>>
historyVars == <<answers, lost, litter>>
boundVars == <<imports, faults, crashes, damages>>
vars == <<importVars, lock, catalogVars, object, historyVars, boundVars>>

ImportState ==
  {"idle", "stage", "lock", "reserve", "lookup", "pend", "probe",
   "publish", "sync", "resolve", "ready", "retained", "delete", "mark", "complete"}

\* Where an import that fails has nothing to undo.
Unmarked == {"reserve", "lookup", "pend", "complete"}

Init ==
  /\ pc = [i \in Importers |-> "idle"]
  /\ content = [i \in Importers |-> None]
  /\ label = [i \in Importers |-> None]
  /\ request = [i \in Importers |-> None]
  /\ under = [i \in Importers |-> None]
  /\ restores = {} /\ created = {}
  /\ lock = [c \in Contents |-> None]
  /\ row = [c \in Contents |-> [state |-> "absent", label |-> None]]
  /\ reserved = [r \in Requests |-> None]
  /\ completed = [r \in Requests |-> None]
  /\ object = [k \in Keys |-> "absent"]
  /\ answers = {} /\ lost = {} /\ litter = {}
  /\ imports = 0 /\ faults = 0 /\ crashes = 0 /\ damages = 0

File(i) == <<content[i], label[i]>>
Key(i) == <<content[i], under[i]>>
Pending(i) == [state |-> "pending", label |-> label[i]]

-----------------------------------------------------------------------------
(* Steps of an import.                                                     *)

Goto(i, state) == pc' = [pc EXCEPT ![i] = state]
Fault == faults < MaxFaults /\ faults' = faults + 1
Fine == UNCHANGED faults

\* Mutant: the lock outlives a failed import.
KeepLock(i, media) ==
  /\ Goto(i, "idle")
  /\ lock' = IF media = None THEN lock
             ELSE [lock EXCEPT ![content[i]] = IF @ = i THEN None ELSE @]
  /\ answers' = IF media = None THEN answers
                ELSE answers \cup {<<request[i], content[i], label[i], media>>}

\* The lock is left and the staged file discarded; media is None after an error.
Finish(i, media) ==
  /\ Goto(i, "idle")
  /\ lock' = [lock EXCEPT ![content[i]] = IF @ = i THEN None ELSE @]
  /\ answers' = IF media = None THEN answers
                ELSE answers \cup {<<request[i], content[i], label[i], media>>}

Proceed(i, state) == Goto(i, state) /\ UNCHANGED <<lock, answers>>

\* A local path has no request key; a quarantined upload has one.
Import(i, c, l, r) ==
  /\ pc[i] = "idle" /\ imports < MaxImports
  /\ imports' = imports + 1
  /\ content' = [content EXCEPT ![i] = c]
  /\ label' = [label EXCEPT ![i] = l]
  /\ under' = [under EXCEPT ![i] = l]
  /\ request' = [request EXCEPT ![i] = r]
  /\ restores' = restores \ {i} /\ created' = created \ {i}
  /\ Goto(i, "stage")
  /\ UNCHANGED <<lock, catalogVars, object, historyVars, faults, crashes, damages>>

Stage(i) ==
  /\ pc[i] = "stage"
  /\ Goto(i, "lock")
  /\ UNCHANGED <<fileVars, placeVars, lock, catalogVars, object, historyVars,
                 boundVars>>

\* The source is missing, empty, too large, or changes while it is copied.
StageFails(i) ==
  /\ pc[i] = "stage" /\ Fault
  /\ Goto(i, "idle")
  /\ UNCHANGED <<fileVars, placeVars, lock, catalogVars, object, historyVars, imports,
                 crashes, damages>>

TakeLock(i) ==
  /\ pc[i] = "lock" /\ lock[content[i]] = None
  /\ lock' = [lock EXCEPT ![content[i]] = i]
  /\ Goto(i, IF request[i] = None THEN "lookup" ELSE "reserve")
  /\ UNCHANGED <<fileVars, placeVars, catalogVars, object, historyVars, boundVars>>

\* Mutant: a key is not compared with the file it was reserved for.
ReserveAnyFile(i) ==
  /\ pc[i] = "reserve"
  /\ reserved' = [reserved EXCEPT ![request[i]] = IF @ = None THEN File(i) ELSE @]
  /\ \/ completed[request[i]] = None /\ Proceed(i, "lookup")
     \/ completed[request[i]] # None /\ Finish(i, completed[request[i]])
  /\ UNCHANGED <<fileVars, placeVars, row, completed, object, lost, litter, boundVars>>

\* reserve_media_import: a key is bound to the first file it is used for; one
\* that is completed answers with its media.
Reserve(i) ==
  /\ pc[i] = "reserve"
  /\ LET bound == reserved[request[i]]
         media == completed[request[i]] IN
       /\ reserved' = [reserved EXCEPT ![request[i]] = IF bound = None THEN File(i) ELSE @]
       /\ \/ bound \notin {None, File(i)} /\ Finish(i, None)
          \/ bound \in {None, File(i)} /\ media = None /\ Proceed(i, "lookup")
          \/ bound \in {None, File(i)} /\ media # None /\ Finish(i, media)
  /\ UNCHANGED <<fileVars, placeVars, row, completed, object, lost, litter, boundVars>>

\* Mutant: content the catalog knows is taken for stored, failed or not.
LookupAny(i) ==
  /\ pc[i] = "lookup"
  /\ restores' = restores \cup {i}
  /\ under' = [under EXCEPT ![i] = row[content[i]].label]
  /\ Proceed(i, "publish")
  /\ UNCHANGED <<fileVars, created, catalogVars, object, lost, litter, boundVars>>

\* get_media_by_checksum: ready media is published again under its own key.
Lookup(i) ==
  /\ pc[i] = "lookup"
  /\ IF row[content[i]].state = "ready"
     THEN /\ restores' = restores \cup {i}
          /\ under' = [under EXCEPT ![i] = row[content[i]].label]
          /\ Proceed(i, "publish")
     ELSE Proceed(i, "pend") /\ UNCHANGED <<restores, under>>
  /\ UNCHANGED <<fileVars, created, catalogVars, object, lost, litter, boundVars>>

\* Mutant: a row is replaced whatever its state.
ReplaceAny(c, record) == row' = [row EXCEPT ![c] = record]

\* replace_media, and put_media under the lock: a ready row is final.
ReplaceMedia(c, record) ==
  row' = IF row[c].state = "ready" THEN row ELSE [row EXCEPT ![c] = record]

Pend(i) ==
  /\ pc[i] = "pend"
  /\ ReplaceMedia(content[i], Pending(i))
  /\ Proceed(i, "probe")
  /\ UNCHANGED <<fileVars, placeVars, reserved, completed, object, lost, litter,
                 boundVars>>

\* A transaction fails, committed or not; the import has no handler for it.
CatalogFails(i) ==
  /\ pc[i] \in Unmarked /\ Fault
  /\ \/ UNCHANGED catalogVars
     \/ pc[i] = "reserve" /\ reserved[request[i]] = None
        /\ reserved' = [reserved EXCEPT ![request[i]] = File(i)]
        /\ UNCHANGED <<row, completed>>
     \/ pc[i] = "pend" /\ ReplaceMedia(content[i], Pending(i))
        /\ UNCHANGED <<reserved, completed>>
     \/ pc[i] = "complete" /\ reserved[request[i]] = File(i)
        /\ completed' = [completed EXCEPT ![request[i]] = content[i]]
        /\ UNCHANGED <<row, reserved>>
  /\ Finish(i, None)
  /\ UNCHANGED <<fileVars, placeVars, object, lost, litter, imports, crashes, damages>>

Probe(i) ==
  /\ pc[i] = "probe"
  /\ \/ Fine /\ Proceed(i, "publish")
     \/ Fault /\ Proceed(i, "mark")
  /\ UNCHANGED <<fileVars, placeVars, catalogVars, object, lost, litter, imports,
                 crashes, damages>>

-----------------------------------------------------------------------------
(* LocalObjectStore.publish, with replace_corrupt.                         *)

\* After the store an import of ready content is over; a failed one marks its
\* row, unless the row was ready before.
AfterPublish(i) ==
  IF i \notin restores THEN Proceed(i, "ready")
  ELSE IF request[i] = None THEN Finish(i, content[i])
  ELSE Proceed(i, "complete")

PublishRaises(i) ==
  IF i \in restores THEN Finish(i, None) ELSE Proceed(i, "mark")

\* The staged file is gone or altered, or the destination cannot be used.
PublishFails(i) ==
  /\ pc[i] = "publish" /\ Fault
  /\ PublishRaises(i)
  /\ UNCHANGED <<fileVars, placeVars, catalogVars, object, lost, litter, imports,
                 crashes, damages>>

\* The destination holds the same bytes: the staged file is removed.
PublishSame(i) ==
  /\ pc[i] = "publish" /\ object[Key(i)] = "good"
  /\ created' = created \ {i}
  /\ Proceed(i, "resolve")
  /\ UNCHANGED <<fileVars, under, restores, catalogVars, object, lost, litter,
                 boundVars>>

\* durable_replace: the rename.
PublishReplace(i) ==
  /\ pc[i] = "publish" /\ object[Key(i)] # "good"
  /\ created' = IF object[Key(i)] = "absent" THEN created \cup {i} ELSE created \ {i}
  /\ object' = [object EXCEPT ![Key(i)] = "good"]
  /\ Proceed(i, "sync")
  /\ UNCHANGED <<fileVars, under, restores, catalogVars, lost, litter, boundVars>>

Sync(i) ==
  /\ pc[i] = "sync"
  /\ Proceed(i, "resolve")
  /\ UNCHANGED <<fileVars, placeVars, catalogVars, object, lost, litter, boundVars>>

\* The rename is done but counts as not published: nothing undoes it.
SyncFails(i) ==
  /\ pc[i] = "sync" /\ Fault
  /\ litter' = litter \cup {Key(i)}
  /\ PublishRaises(i)
  /\ UNCHANGED <<fileVars, placeVars, catalogVars, object, lost, imports, crashes,
                 damages>>

Resolve(i) ==
  /\ pc[i] = "resolve"
  /\ object[Key(i)] # "absent"
  /\ lost' = IF object[Key(i)] = "good" THEN lost \ {Key(i)} ELSE lost
  /\ AfterPublish(i)
  /\ UNCHANGED <<fileVars, placeVars, catalogVars, object, litter, boundVars>>

\* Mutant: a publication that failed is left in place.
KeepPublished(i) ==
  /\ pc[i] = "resolve"
  /\ Fault
  /\ PublishRaises(i)
  /\ UNCHANGED <<fileVars, placeVars, catalogVars, object, lost, litter, imports,
                 crashes, damages>>

\* The published object cannot be resolved: if it is new it is removed, unless
\* the disk refuses that too.
ResolveFails(i) ==
  /\ pc[i] = "resolve"
  /\ IF object[Key(i)] = "absent" THEN Fine ELSE Fault
  /\ \/ i \notin created /\ UNCHANGED <<object, litter>>
     \/ /\ i \in created
        /\ object' = [object EXCEPT ![Key(i)] = "absent"]
        /\ litter' = litter \ {Key(i)}
     \/ /\ i \in created /\ object[Key(i)] # "absent"
        /\ litter' = litter \cup {Key(i)} /\ UNCHANGED object
  /\ PublishRaises(i)
  /\ UNCHANGED <<fileVars, placeVars, catalogVars, lost, imports, crashes, damages>>

-----------------------------------------------------------------------------
(* The row becomes ready, or the publication is compensated.               *)

MakeReady(i) ==
  /\ pc[i] = "ready"
  /\ ReplaceMedia(content[i], [state |-> "ready", label |-> under[i]])
  /\ \/ Fine /\ IF request[i] = None THEN Finish(i, content[i]) ELSE Proceed(i, "complete")
     \/ Fault /\ Proceed(i, "retained")
  /\ UNCHANGED <<fileVars, placeVars, reserved, completed, object, lost, litter,
                 imports, crashes, damages>>

\* Mutant: an error of the transaction is taken for a late success.
AssumeReady(i) ==
  /\ pc[i] = "ready" /\ Fault
  /\ request[i] # None /\ Proceed(i, "complete")
  /\ UNCHANGED <<fileVars, placeVars, catalogVars, object, lost, litter, imports,
                 crashes, damages>>

MakeReadyFails(i) ==
  /\ pc[i] = "ready" /\ Fault
  /\ Proceed(i, "retained")
  /\ UNCHANGED <<fileVars, placeVars, catalogVars, object, lost, litter, imports,
                 crashes, damages>>

\* Mutant: the object is removed without a look at the row.
RemoveBlindly(i) ==
  /\ pc[i] = "retained"
  /\ Proceed(i, "delete")
  /\ UNCHANGED <<fileVars, placeVars, catalogVars, object, lost, litter, boundVars>>

\* The row is read again; an object that a ready row names is kept.
CheckRetained(i) ==
  /\ pc[i] = "retained"
  /\ Proceed(i, IF row[content[i]].state = "ready" THEN "mark" ELSE "delete")
  /\ UNCHANGED <<fileVars, placeVars, catalogVars, object, lost, litter, boundVars>>

\* The row cannot be read: it is taken for one that is not ready.
CheckFails(i) ==
  /\ pc[i] = "retained" /\ Fault
  /\ lost' = lost \cup {Key(i)}
  /\ Proceed(i, "delete")
  /\ UNCHANGED <<fileVars, placeVars, catalogVars, object, litter, imports, crashes,
                 damages>>

\* Removal of an object that is gone raises like any other and is ignored.
Delete(i) ==
  /\ pc[i] = "delete"
  /\ \/ Fine /\ object' = [object EXCEPT ![Key(i)] = "absent"]
        /\ litter' = litter \ {Key(i)}
     \/ Fault /\ litter' = litter \cup {Key(i)} /\ UNCHANGED object
  /\ Proceed(i, "mark")
  /\ UNCHANGED <<fileVars, placeVars, catalogVars, lost, imports, crashes, damages>>

\* _mark_failed tries and ignores every error; the import raises.
Mark(i) ==
  /\ pc[i] = "mark"
  /\ \/ Fine /\ ReplaceMedia(content[i], [Pending(i) EXCEPT !.state = "failed"])
     \/ Fault /\ UNCHANGED row
  /\ Finish(i, None)
  /\ UNCHANGED <<fileVars, placeVars, reserved, completed, object, lost, litter,
                 imports, crashes, damages>>

\* complete_media_import.
Complete(i) ==
  /\ pc[i] = "complete"
  /\ IF reserved[request[i]] = File(i) /\ completed[request[i]] \in {None, content[i]}
     THEN /\ completed' = [completed EXCEPT ![request[i]] = content[i]]
          /\ Finish(i, content[i])
     ELSE Finish(i, None) /\ UNCHANGED completed
  /\ UNCHANGED <<fileVars, placeVars, row, reserved, object, lost, litter, boundVars>>

-----------------------------------------------------------------------------
(* The environment.                                                        *)

\* A process dies: its lock is freed, what it published stays.
Crash(i) ==
  /\ pc[i] # "idle" /\ crashes < MaxCrashes
  /\ crashes' = crashes + 1
  /\ Goto(i, "idle")
  /\ lock' = [lock EXCEPT ![content[i]] = IF @ = i THEN None ELSE @]
  /\ litter' = litter \cup {Key(i)}
  /\ UNCHANGED <<fileVars, placeVars, catalogVars, object, answers, lost, imports,
                 faults, damages>>

Damage(k) ==
  /\ object[k] = "good" /\ damages < MaxDamages
  /\ damages' = damages + 1
  /\ object' \in {[object EXCEPT ![k] = "bad"], [object EXCEPT ![k] = "absent"]}
  /\ lost' = lost \cup {k}
  /\ UNCHANGED <<importVars, lock, catalogVars, answers, litter, imports, faults,
                 crashes>>

Continue(i) ==
  \/ Stage(i) \/ StageFails(i) \/ TakeLock(i) \/ Reserve(i) \/ Lookup(i) \/ Pend(i)
  \/ CatalogFails(i) \/ Probe(i)
  \/ PublishFails(i) \/ PublishSame(i) \/ PublishReplace(i) \/ Sync(i) \/ SyncFails(i)
  \/ Resolve(i) \/ ResolveFails(i)
  \/ MakeReady(i) \/ MakeReadyFails(i) \/ CheckRetained(i) \/ CheckFails(i)
  \/ Delete(i) \/ Mark(i) \/ Complete(i)

Next ==
  \/ \E i \in Importers :
       \/ \E c \in Contents, l \in Labels, r \in Requests \cup {None} : Import(i, c, l, r)
       \/ Continue(i) \/ Crash(i)
  \/ \E k \in Keys : Damage(k)

Spec == Init /\ [][Next]_vars

\* An import that runs takes its next step.
FairSpec == Spec /\ \A i \in Importers : WF_vars(Continue(i))

-----------------------------------------------------------------------------
(* Properties.                                                             *)

\* Where imports are and what they hold.
ControlType ==
  /\ pc \in [Importers -> ImportState]
  /\ content \in [Importers -> Contents \cup {None}]
  /\ label \in [Importers -> Labels \cup {None}]
  /\ request \in [Importers -> Requests \cup {None}]
  /\ under \in [Importers -> Labels \cup {None}]
  /\ \A i \in Importers :
       pc[i] # "idle" => content[i] \in Contents /\ label[i] \in Labels /\ under[i] \in Labels
  /\ restores \subseteq Importers /\ created \subseteq Importers
  /\ lock \in [Contents -> Importers \cup {None}]

\* Tables hold rows, and answers what imports were given.
CatalogType ==
  /\ row \in [Contents -> Row]
  /\ reserved \in [Requests -> Files \cup {None}]
  /\ completed \in [Requests -> Contents \cup {None}]
  /\ answers \subseteq (Requests \cup {None}) \X Contents \X Labels \X Contents

\* Objects are absent, good or damaged, and the bounds hold.
StoreType ==
  /\ object \in [Keys -> {"absent", "good", "bad"}]
  /\ lost \subseteq Keys /\ litter \subseteq Keys
  /\ imports \in 0..MaxImports /\ faults \in 0..MaxFaults
  /\ crashes \in 0..MaxCrashes /\ damages \in 0..MaxDamages

TypeOK == ControlType /\ CatalogType /\ StoreType

\* Ready media has its bytes: however imports of one content race, fail and
\* are compensated, none takes the object from under a ready row, except when
\* the outcome of its commit is unknown and the row cannot be read either.
ReadyStored ==
  \A c \in Contents :
    row[c].state = "ready" =>
      \/ object[<<c, row[c].label>>] = "good"
      \/ <<c, row[c].label>> \in lost

\* Ready media never changes: readers keep a record and its key across imports
\* of the same content under other names, retries and late failures.
ReadyForever ==
  [][\A c \in Contents : row[c].state = "ready" => row'[c] = row[c]]_vars

\* A request key stands for one file: whoever used it got the media of the
\* content it passed, all of them passed the same file, and the media is ready.
KeyBinds ==
  /\ \A a \in answers : a[4] = a[2] /\ row[a[4]].state = "ready"
  /\ \A a, b \in answers : a[1] = b[1] /\ a[1] # None => a[2] = b[2] /\ a[3] = b[3]

\* A key that is completed refers to ready media of its own file.
CompletedReady ==
  \A r \in Requests :
    completed[r] # None =>
      /\ \E l \in Labels : reserved[r] = <<completed[r], l>>
      /\ row[completed[r]].state = "ready"

\* An import that failed leaves no object behind: outside imports, an object is
\* the one a ready row names, or a crash or a failing disk has left it.
NoLitter ==
  \A c \in Contents, l \in Labels :
    object[<<c, l>>] # "absent" /\ lock[c] = None =>
      \/ row[c] = [state |-> "ready", label |-> l]
      \/ <<c, l>> \in litter

\* Every import returns: nobody waits for a lock for ever.
ImportsReturn == \A i \in Importers : pc[i] # "idle" ~> pc[i] = "idle"
=============================================================================
