---------------------------- MODULE ActorClusters ----------------------------
(***************************************************************************)
(* The actors of a video: how process_actor_samples of                     *)
(* capabilities/actor/indexing.py puts faces into clusters as they are     *)
(* found, what finalize_actor_index leaves of them, and what               *)
(* capabilities/actor/results.py reads.                                    *)
(*                                                                         *)
(* Which cluster a face resembles is the recognizer's answer; a cluster is *)
(* the number of its first face among the first faces.                     *)
(***************************************************************************)
EXTENDS Intervals, FiniteSets

NoMatch == 0

\* ActorIndexState, and the detections stored so far.
NoFaces == [sizes |-> <<>>, first |-> <<>>, last |-> <<>>, stored |-> {}]

Detection(face, cluster) ==
  [cluster |-> cluster, frame |-> face.frame, ordinal |-> face.ordinal]

\* A face that resembles no cluster is the first of a new one.
Opened(state, face) ==
  [sizes |-> Append(state.sizes, 1),
   first |-> Append(state.first, face.frame), last |-> Append(state.last, face.frame),
   stored |-> state.stored \cup {Detection(face, Len(state.sizes) + 1)}]

Joined(state, face, c) ==
  [sizes |-> [state.sizes EXCEPT ![c] = @ + 1],
   first |-> [state.first EXCEPT ![c] = Lesser(@, face.frame)],
   last |-> [state.last EXCEPT ![c] = Greater(@, face.frame)],
   stored |-> state.stored \cup {Detection(face, c)}]

Found(state, face, match) ==
  IF match = NoMatch THEN Opened(state, face) ELSE Joined(state, face, match)

\* finalize_actor_index: detections of clusters that are too small are deleted, and
\* each other cluster gets a summary.
Retained(state, minimum) == {c \in DOMAIN state.sizes : state.sizes[c] >= minimum}

Kept(state, minimum) == {d \in state.stored : d.cluster \in Retained(state, minimum)}

Summaries(state, minimum) ==
  {[cluster |-> c, count |-> state.sizes[c],
    first |-> state.first[c], last |-> state.last[c]] : c \in Retained(state, minimum)}

\* _cluster_summary, of an index without summaries: the same, from the detections.
Of(detections, c) == {d \in detections : d.cluster = c}

IsSummary(detections, s) ==
  /\ s.count = Cardinality(Of(detections, s.cluster))
  /\ \E d \in Of(detections, s.cluster) : d.frame = s.first
  /\ \E d \in Of(detections, s.cluster) : d.frame = s.last
  /\ \A d \in Of(detections, s.cluster) : s.first <= d.frame /\ d.frame <= s.last

\* A reader that finds summaries and one that counts the detections see the same
\* actors, each seen often enough.
ActorsRight(state, minimum) ==
  /\ \A s \in Summaries(state, minimum) :
       IsSummary(Kept(state, minimum), s) /\ s.count >= minimum
  /\ \A d \in Kept(state, minimum) : \E s \in Summaries(state, minimum) : s.cluster = d.cluster
===============================================================================
