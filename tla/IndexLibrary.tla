---------------------------- MODULE IndexLibrary ----------------------------
(***************************************************************************)
(* What the index repository promises to a search (core/snapshots.py): the *)
(* library maps each media to one generation that is ready to be searched; *)
(* it changes by whole generations, one media at a time, or by withdrawing *)
(* media; and a generation it has served stays ready, for the searches     *)
(* that resolved an earlier snapshot.                                      *)
(***************************************************************************)
CONSTANTS Ops, Media, MediaOf, None

VARIABLES
  library, \* the generation served for each media, or None
  ready,   \* generations complete on disk and in the vector store
  served   \* generations the library has ever served

Init ==
  /\ library = [m \in Media |-> None]
  /\ ready = {}
  /\ served = {}

Build(o) ==
  /\ ready' = ready \cup {o}
  /\ UNCHANGED <<library, served>>

Discard(o) ==
  /\ o \notin served
  /\ ready' = ready \ {o}
  /\ UNCHANGED <<library, served>>

Publish(o) ==
  /\ o \in ready
  /\ library' = [library EXCEPT ![MediaOf[o]] = o]
  /\ served' = served \cup {o}
  /\ UNCHANGED ready

Withdraw ==
  /\ \E gone \in SUBSET Media :
       library' = [m \in Media |-> IF m \in gone THEN None ELSE library[m]]
  /\ UNCHANGED <<ready, served>>

Next == Withdraw \/ \E o \in Ops : Build(o) \/ Discard(o) \/ Publish(o)

Spec == Init /\ [][Next]_<<library, ready, served>>
=============================================================================
