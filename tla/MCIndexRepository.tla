-------------------------- MODULE MCIndexRepository --------------------------
(***************************************************************************)
(* Small instances of IndexRepository for TLC.                             *)
(* What the capabilities write into a generation is compared with what is  *)
(* promised of it, for short videos, sounds, transcripts and lists of      *)
(* faces.                                                                  *)
(***************************************************************************)
EXTENDS IndexRepository, VisualStream, SoundWindows, SpeechPhrases, ActorClusters, TLC

CONSTANTS o1, o2, o3, v1, v2, x, y

\* Two operations index the same media, the second with fewer capabilities.
TwoMedia == (o1 :> v1 @@ o2 :> v1 @@ o3 :> v2)
MixedProfiles == (o1 :> {x, y} @@ o2 :> {x} @@ o3 :> {x, y})

-----------------------------------------------------------------------------
ByStride == [stride : 1..3, fps : {1}, target : {1}]

ASSUME SamplingsChecked ==
  \A s \in ByStride \cup [stride : {0}, fps : 1..5, target : 1..5], n \in 0..7 :
    /\ ScenesTile(s, n) /\ IntervalsPositive(s, n, 0..(n + 1))
    /\ ByTime(s) => ClipsMeet(s, n)

ASSUME StreamsChecked ==
  \A s, t \in ByStride \cup [stride : {0}, fps : {1, 3, 5}, target : {1, 2}],
     size \in 1..3, count \in 0..7 :
    /\ SharesRight({s, t}, size, count)
    /\ \A length \in 1..3 : ClipsRight(length, {s, t}, size, count)

Heard(limit, blocks, flushed) ==
  FoldLeft(Added, FoldLeft(Decoded, Silence(limit), blocks), flushed)

ASSUME SoundsChecked ==
  \A limit \in {Unknown} \cup 0..8, b \in 0..3, f \in 0..2 :
    \A blocks \in [1..b -> 0..4], flushed \in [1..f -> 0..3] :
      WindowsRight(limit, FoldLeft(+, 0, blocks \o flushed), Ended(Heard(limit, blocks, flushed)))

ASSUME ActivationsChecked ==
  \A start \in 0..2, length \in 1..8, many \in 0..5 :
    ActivationsRight([start |-> start, end |-> start + length], many)

ASSUME PhrasesChecked ==
  \A size \in 1..3 :
    /\ \A segment \in [start : 0..2, end : 0..3, worded : {FALSE}, words : {<<>>}, tokens : 0..5] :
         TokensRight(segment, size)
    /\ \A n \in 0..3 :
         \A segment \in [start : {0}, end : {0}, worded : {TRUE},
                         words : [1..n -> [start : 0..3, end : 0..3]], tokens : {0}] :
           WordsRight(segment, size)

\* The frames and matches of faces, in the order they are found; a face can only
\* match a cluster that is there.
Faces(n) ==
  {f \in [1..n -> [frame : 1..3, match : 0..2]] :
     /\ \A i \in 1..(n - 1) : f[i].frame <= f[i + 1].frame
     /\ \A i \in 1..n : f[i].match <= Cardinality({j \in 1..(i - 1) : f[j].match = NoMatch})}

Clustered(faces) ==
  FoldLeftDomain(LAMBDA state, i :
                   Found(state, [frame |-> faces[i].frame, ordinal |-> i], faces[i].match),
                 NoFaces, faces)

ASSUME ActorsChecked ==
  \A n \in 0..4, minimum \in 1..3 :
    \A faces \in Faces(n) : ActorsRight(Clustered(faces), minimum)
=============================================================================
