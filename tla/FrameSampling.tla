---------------------------- MODULE FrameSampling ----------------------------
(***************************************************************************)
(* Which frames of a video a capability looks at, and the interval each of *)
(* its records stands for: FrameSampling of core/video.py, the records of  *)
(* capabilities/scene and capabilities/action.                             *)
(*                                                                         *)
(* A sampling takes every stride-th frame, or as many frames a second as   *)
(* its target.  Rates are whole numbers of a common unit; a time is a      *)
(* number of ticks, of which a frame lasts target and a sample of the      *)
(* target rate fps.  Arithmetic is exact, where the code's rounds.         *)
(***************************************************************************)
EXTENDS Integers

IsSampling(s) ==
  /\ s \in [stride : Nat, fps : Nat \ {0}, target : Nat \ {0}]

ByTime(s) == s.stride = 0

\* FrameSampling.includes
Includes(s, i) ==
  IF ByTime(s)
  THEN \/ s.fps <= s.target \/ i = 0
       \/ (i * s.target) \div s.fps > ((i - 1) * s.target) \div s.fps
  ELSE i % s.stride = 0

\* Frame j is the first that is included after frame i.
Follows(s, i, j) ==
  /\ i < j /\ Includes(s, j)
  /\ \A k \in (i + 1) .. (j - 1) : ~Includes(s, k)

\* FrameSampling.next_sample_timestamp, as a frame of a video of n frames.
NextSample(s, i, n) ==
  IF \E j \in (i + 1) .. (n - 1) : Follows(s, i, j)
  THEN CHOOSE j \in (i + 1) .. (n - 1) : Follows(s, i, j)
  ELSE n

\* scene_records: a sample stands for the frames to the next one.  A video may
\* have more frames than it says; each of those stands for itself.
SceneEnd(s, i, n) == IF NextSample(s, i, n) > i THEN NextSample(s, i, n) ELSE i + 1

\* videoprism_records: a clip lasts from its first sample until one sampling
\* interval after its last, within the video.
Cadence(s) == IF s.fps <= s.target THEN s.target ELSE s.fps
ClipEnd(s, first, last, n) ==
  LET end == IF n * s.target < last * s.target + Cadence(s)
             THEN n * s.target ELSE last * s.target + Cadence(s)
  IN IF end <= first * s.target THEN (first + 1) * s.target ELSE end

\* Each frame of the video is in the scene of exactly one sample: a search by
\* scene neither misses a frame nor finds it twice.
ScenesTile(s, n) ==
  \A k \in 0 .. (n - 1) : \E i \in 0 .. k :
    /\ Includes(s, i) /\ k < SceneEnd(s, i, n)
    /\ \A j \in 0 .. (n - 1) :
         Includes(s, j) /\ j <= k /\ k < SceneEnd(s, j, n) => j = i

\* A clip ends less than a frame from where the next one starts, though samples
\* are not equally far apart; exactly there when every frame is a sample.
ClipsMeet(s, n) ==
  \A first, last, next \in 0 .. (n - 1) :
    /\ first <= last /\ Includes(s, last) /\ Follows(s, last, next)
    => /\ ClipEnd(s, first, last, n) < (next + 1) * s.target
       /\ ClipEnd(s, first, last, n) > (next - 1) * s.target
       /\ s.fps <= s.target => ClipEnd(s, first, last, n) = next * s.target

\* No record stands for nothing, even of frames the video did not announce: a
\* search that meets one refuses the whole index.
IntervalsPositive(s, n, frames) ==
  \A first, last \in frames :
    first <= last =>
      /\ first < SceneEnd(s, first, n)
      /\ first * s.target < ClipEnd(s, first, last, n)
===============================================================================
