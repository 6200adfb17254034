----------------------------- MODULE SearchFusion -----------------------------
(***************************************************************************)
(* How a search joins the hits of its modalities into moments:             *)
(* fuse_search_results of search_fusion.py, one hit of the sorted list at  *)
(* a time.  A moment keeps the interval all of its hits share.             *)
(*                                                                         *)
(* Hits are records with a media, a start and an end; a moment names its   *)
(* hits by their places in the list.  Scores, which only order moments     *)
(* that are already formed, are left out.                                  *)
(***************************************************************************)
EXTENDS Integers, Sequences

Sooner(a, b) == IF a < b THEN a ELSE b
Later(a, b) == IF a > b THEN a ELSE b

\* SearchHit: an interval of a media, here a number like the times.
IsHit(h) ==
  /\ h \in [media : Nat, start : Nat, end : Nat]
  /\ h.start < h.end

\* The sort by media, then start (by end, modality, rank and source after that).
Ordered(hits) ==
  \A i, j \in DOMAIN hits : i < j =>
    \/ hits[i].media < hits[j].media
    \/ hits[i].media = hits[j].media /\ hits[i].start <= hits[j].start

\* A hit that starts before the interval the last moment's hits share ends.
Overlaps(moment, hit) == hit.media = moment.media /\ hit.start < moment.end

Joined(moment, hit, n) ==
  [media |-> moment.media, hits |-> moment.hits \cup {n},
   start |-> Later(moment.start, hit.start), end |-> Sooner(moment.end, hit.end)]

Opened(hit, n) ==
  [media |-> hit.media, hits |-> {n}, start |-> hit.start, end |-> hit.end]

\* One turn of the loop.
Extend(moments, hit, n) ==
  IF moments # <<>> /\ Overlaps(moments[Len(moments)], hit)
  THEN [moments EXCEPT ![Len(moments)] = Joined(@, hit, n)]
  ELSE Append(moments, Opened(hit, n))

Fused(hits) ==
  LET first[n \in 0..Len(hits)] ==
        IF n = 0 THEN <<>> ELSE Extend(first[n - 1], hits[n], n)
  IN first[Len(hits)]

\* A moment is an interval of positive length that all its hits, of one media,
\* share: FusedMoment refuses any other, and the whole search fails with it.
MomentsValid(hits, moments) ==
  \A i \in DOMAIN moments :
    /\ moments[i].start < moments[i].end
    /\ \A n \in moments[i].hits :
         /\ hits[n].media = moments[i].media
         /\ hits[n].start <= moments[i].start /\ moments[i].end <= hits[n].end

\* Two moments of one media do not overlap: the same scene is not found twice.
MomentsDisjoint(moments) ==
  \A i, j \in DOMAIN moments :
    i < j /\ moments[i].media = moments[j].media => moments[i].end <= moments[j].start

\* Each of the first n hits is in one moment.
HitsOnce(n, moments) ==
  /\ \A k \in 1..n : \E i \in DOMAIN moments : k \in moments[i].hits
  /\ \A i, j \in DOMAIN moments : i # j => moments[i].hits \cap moments[j].hits = {}
===============================================================================
