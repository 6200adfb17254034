---------------------------- MODULE MCArtifactJobs ----------------------------
(***************************************************************************)
(* A small instance of ArtifactJobs for TLC: a snippet on the CPU queue    *)
(* and a query on the GPU queue that delivers the same clip.               *)
(* The moments a query finds and the clip it delivers are compared with    *)
(* what is promised of them, for short lists of hits and short media.      *)
(***************************************************************************)
EXTENDS ArtifactJobs, SearchFusion, EvidenceRange, TLC

CONSTANTS j1, j2, j3, j4, snippet, query, clip, cpu, gpu

MCSubmissions == {<<j1, snippet>>, <<j1, query>>, <<j2, query>>}
MCQueueOf == snippet :> cpu @@ query :> gpu
MCKeyOf == [r \in Requests |-> clip]
MCRetryIds == [j \in Ids |-> IF j = j1 THEN {j3} ELSE {}]
MCForkIds == [j \in Ids |-> IF j = j2 THEN {j4} ELSE {}]

MCHits == {h \in [media : 1..2, start : 0..2, end : 1..3] : IsHit(h)}

ASSUME FusionChecked ==
  \A n \in 0..3 : \A hits \in [1..n -> MCHits] :
    Ordered(hits) =>
      /\ MomentsValid(hits, Fused(hits)) /\ MomentsDisjoint(Fused(hits))
      /\ HitsOnce(n, Fused(hits))

MCEvidence ==
  [start : {-1, 0, 2, 4, 7}, end : {1, 3, 4, 7}, best : {0, 3, 7},
   before : {0, 2}, after : {0, 2}, limit : {1, 3, 6}, duration : {2, 5}]

ASSUME ClipsChecked == \A e \in MCEvidence : ClipRight(e) /\ ClipWhole(e)
=============================================================================
