--------------------------- MODULE CapabilityProofs ---------------------------
(***************************************************************************)
(* Proofs about what the capabilities write into a generation: the scenes  *)
(* and clips of every sampling, the batches of every pass over a video,    *)
(* the windows of every sound, the phrases of every segment and the        *)
(* clusters of every list of faces.                                        *)
(*                                                                         *)
(* What is computed in a loop over what a decoder or a model returns is a  *)
(* state machine here, so that what holds after any number of rounds is an *)
(* invariant.                                                              *)
(***************************************************************************)
EXTENDS VisualStream, SoundWindows, SpeechPhrases, ActorClusters,
        WellFoundedInduction, FiniteSetTheorems, TLAPS

(* Division, order of products, and the least and greatest of some numbers. *)

LEMMA Quotient ==
  ASSUME NEW a \in Nat, NEW b \in Nat \ {0}
  PROVE  /\ a \div b \in Nat /\ a % b \in 0 .. (b - 1)
         /\ (a \div b) * b <= a /\ a < (a \div b) * b + b
PROOF OBVIOUS

LEMMA QuotientUnique ==
  ASSUME NEW a \in Nat, NEW b \in Nat \ {0}, NEW q \in Nat, q * b <= a, a < q * b + b
  PROVE  a \div b = q
PROOF BY Quotient

LEMMA MulMono ==
  ASSUME NEW a \in Int, NEW b \in Int, NEW c \in Nat, a <= b
  PROVE  a * c <= b * c
PROOF OBVIOUS

LEMMA MulLess ==
  ASSUME NEW a \in Int, NEW b \in Int, NEW c \in Nat, a * c < b * c
  PROVE  a < b
PROOF BY MulMono

\* Of the numbers up to k one is the last: the sets of those between each and k are
\* finite, and the smallest of these sets belongs to it.
LEMMA Latest ==
  ASSUME NEW S \in SUBSET Nat, NEW k \in Nat, NEW i \in S, i <= k
  PROVE  \E l \in S : l <= k /\ \A j \in S : j <= k => j <= l
PROOF
<1> DEFINE T == {(l + 1) .. k : l \in {m \in S : m <= k}}
           W == 0 .. k
<1>1. IsWellFoundedOn(StrictSubsetOrdering(W), FiniteSubsetsOf(W))
  BY FS_StrictSubsetOrderingWellFounded
<1>2. T \subseteq FiniteSubsetsOf(W)
  <2>1. IsFiniteSet(W)
    BY FS_Interval
  <2>2. FiniteSubsetsOf(W) = SUBSET W
    BY <2>1, FS_FiniteSubsetsOfFinite
  <2>3. QED BY <2>2
<1>3. T # {}
  OBVIOUS
<1>4. PICK t \in T : \A u \in T : ~(<<u, t>> \in StrictSubsetOrdering(W))
  BY <1>1, <1>2, <1>3, WFMin
<1>5. PICK l \in S : l <= k /\ t = (l + 1) .. k
  BY <1>4
<1>6. ASSUME NEW j \in S, j <= k, l < j PROVE FALSE
  <2>1. (j + 1) .. k \in T
    BY <1>6
  <2>2. (j + 1) .. k \subseteq t /\ j \in t /\ j \notin (j + 1) .. k
    BY <1>5, <1>6
  <2>3. <<(j + 1) .. k, t>> \in StrictSubsetOrdering(W)
    BY <2>2, <1>5 DEF StrictSubsetOrdering
  <2>4. QED BY <1>4, <2>1, <2>3
<1>7. QED BY <1>5, <1>6

\* Of any numbers one is the first: the last of their distances from one of them.
LEMMA Earliest ==
  ASSUME NEW S \in SUBSET Nat, NEW i \in S
  PROVE  \E e \in S : e <= i /\ \A j \in S : e <= j
PROOF
<1> DEFINE R == {i - m : m \in {x \in S : x <= i}}
<1>1. R \in SUBSET Nat /\ 0 \in R /\ i \in Nat /\ 0 <= i
  OBVIOUS
<1>2. \A j \in S : j \in Nat /\ (j <= i => i - j \in R)
  OBVIOUS
<1>3. \A l \in R : \E e \in S : e <= i /\ l = i - e
  OBVIOUS
<1> HIDE DEF R
<1>4. PICK l \in R : l <= i /\ \A j \in R : j <= i => j <= l
  BY <1>1, Latest
<1>5. PICK e \in S : e <= i /\ l = i - e
  BY <1>4, <1>3
<1>6. ASSUME NEW j \in S PROVE e <= j
  <2>1. CASE j <= i
    <3>1. i - j \in R /\ i - j <= i
      BY <2>1, <1>1, <1>2
    <3>2. QED BY <3>1, <1>1, <1>4, <1>5, <1>2
  <2>2. CASE j > i
    BY <2>2, <1>1, <1>5, <1>2
  <2>3. QED BY <2>1, <2>2, <1>1, <1>2
<1>7. QED BY <1>5, <1>6

-----------------------------------------------------------------------------
(* The records of a video.                                                 *)

\* The first frame is always a sample.
LEMMA FrameZero ==
  ASSUME NEW s, IsSampling(s)
  PROVE  Includes(s, 0)
PROOF
<1>1. CASE ByTime(s)
  BY <1>1 DEF Includes, ByTime
<1>2. CASE ~ByTime(s)
  BY <1>2 DEF Includes, ByTime, IsSampling
<1>3. QED BY <1>1, <1>2

\* What next_sample_timestamp returns is the next sample, or the end if there is none.
LEMMA NextIs ==
  ASSUME NEW s, NEW i \in Nat, NEW n \in Nat
  PROVE  /\ NextSample(s, i, n) \in Nat
         /\ \/ Follows(s, i, NextSample(s, i, n)) /\ NextSample(s, i, n) < n
            \/ NextSample(s, i, n) = n /\ \A j \in (i + 1) .. (n - 1) : ~Follows(s, i, j)
PROOF BY DEF NextSample

\* For every sampling and every length of the video, a frame is in exactly one of the
\* scenes that scene_records makes of the samples.
THEOREM ScenesCover ==
  ASSUME NEW s, IsSampling(s), NEW n \in Nat
  PROVE  ScenesTile(s, n)
PROOF
<1> SUFFICES ASSUME NEW k \in 0 .. (n - 1)
             PROVE  \E i \in 0 .. k :
                      /\ Includes(s, i) /\ k < SceneEnd(s, i, n)
                      /\ \A j \in 0 .. (n - 1) :
                           Includes(s, j) /\ j <= k /\ k < SceneEnd(s, j, n) => j = i
  BY DEF ScenesTile
<1>1. PICK i \in Nat :
        Includes(s, i) /\ i <= k /\ \A j \in Nat : Includes(s, j) /\ j <= k => j <= i
  <2> DEFINE Samples == {m \in Nat : Includes(s, m)}
  <2>1. 0 \in Samples /\ Samples \in SUBSET Nat /\ k \in Nat /\ 0 <= k
    BY FrameZero
  <2>2. \A m : m \in Samples <=> m \in Nat /\ Includes(s, m)
    OBVIOUS
  <2> HIDE DEF Samples
  <2>3. PICK l \in Samples : l <= k /\ \A j \in Samples : j <= k => j <= l
    BY <2>1, Latest
  <2>4. QED BY <2>2, <2>3
<1>2. k < SceneEnd(s, i, n)
  <2>1. CASE Follows(s, i, NextSample(s, i, n))
    BY <2>1, <1>1, NextIs DEF Follows, SceneEnd
  <2>2. CASE NextSample(s, i, n) = n
    BY <2>2, <1>1 DEF SceneEnd
  <2>3. QED BY <2>1, <2>2, <1>1, NextIs
<1>3. ASSUME NEW j \in 0 .. (n - 1), Includes(s, j), j < i
      PROVE  SceneEnd(s, j, n) <= i
  <2>1. NextSample(s, j, n) \in Nat /\ i < n /\ i \in Nat
    BY <1>1, NextIs
  <2>2. NextSample(s, j, n) <= i
    <3> DEFINE After == {m \in Nat : j < m /\ Includes(s, m)}
    <3>1. i \in After /\ After \in SUBSET Nat
      BY <1>1, <1>3
    <3>2. PICK e \in After : e <= i /\ \A m \in After : e <= m
      BY <3>1, Earliest
    <3>3. Follows(s, j, e) /\ e \in (j + 1) .. (n - 1)
      BY <3>2, <2>1 DEF Follows
    <3>4. Follows(s, j, NextSample(s, j, n))
      BY <3>3, NextIs
    <3>5. NextSample(s, j, n) <= e
      BY <3>2, <3>3, <3>4, <2>1 DEF Follows
    <3>6. QED BY <3>2, <3>5, <2>1
  <2>3. QED BY <2>1, <2>2, <1>3 DEF SceneEnd
<1>4. ASSUME NEW j \in 0 .. (n - 1) PROVE SceneEnd(s, j, n) \in Nat
  <2>1. j \in Nat
    OBVIOUS
  <2>2. NextSample(s, j, n) \in Nat
    BY <2>1, NextIs
  <2>3. QED BY <2>1, <2>2 DEF SceneEnd
<1>5. ASSUME NEW j \in 0 .. (n - 1), Includes(s, j), j <= k, k < SceneEnd(s, j, n) PROVE j = i
  <2>1. j <= i
    BY <1>1, <1>5
  <2>2. ~(j < i)
    BY <1>1, <1>3, <1>4, <1>5
  <2>3. QED BY <1>1, <2>1, <2>2
<1>6. QED BY <1>1, <1>2, <1>5

\* A frame that is sampled by time is the first of a sample of the target rate.
LEMMA SampleOf ==
  ASSUME NEW s, IsSampling(s), ByTime(s), s.fps > s.target, NEW i \in Nat, Includes(s, i)
  PROVE  LET q == (i * s.target) \div s.fps IN
           /\ q \in Nat /\ q * s.fps <= i * s.target
           /\ i * s.target < q * s.fps + s.target
PROOF
<1> DEFINE q == (i * s.target) \div s.fps
<1>1. s.fps \in Nat \ {0} /\ s.target \in Nat \ {0} /\ i * s.target \in Nat
  BY DEF IsSampling
<1>2. q \in Nat /\ q * s.fps <= i * s.target
  BY <1>1, Quotient
<1>3. CASE i = 0
  BY <1>1, <1>2, <1>3
<1>4. CASE i > 0 /\ q > ((i - 1) * s.target) \div s.fps
  <2> DEFINE p == ((i - 1) * s.target) \div s.fps
  <2>1. (i - 1) * s.target \in Nat /\ (i - 1) * s.target = i * s.target - s.target
    BY <1>1, <1>4
  <2>2. p \in Nat /\ (i - 1) * s.target < p * s.fps + s.fps
    BY <1>1, <2>1, Quotient
  <2>3. (p + 1) * s.fps <= q * s.fps
    BY <1>1, <1>2, <1>4, <2>2, MulMono
  <2>4. p * s.fps + s.fps <= q * s.fps
    BY <1>1, <2>2, <2>3
  <2>5. QED BY <1>1, <1>2, <2>1, <2>2, <2>4
<1>5. QED BY <1>1, <1>3, <1>4 DEF Includes

\* Two samples that follow each other are one sampling interval apart, but for less
\* than a frame.
LEMMA SampleGap ==
  ASSUME NEW s, IsSampling(s), ByTime(s), s.fps > s.target,
         NEW i \in Nat, Includes(s, i), NEW j \in Nat, Follows(s, i, j)
  PROVE  /\ j * s.target < i * s.target + s.fps + s.target
         /\ j * s.target > i * s.target + s.fps - s.target
PROOF
<1> DEFINE q == (i * s.target) \div s.fps
           r == (j * s.target) \div s.fps
           p == ((j - 1) * s.target) \div s.fps
<1>1. /\ s.fps \in Nat \ {0} /\ s.target \in Nat \ {0}
      /\ i * s.target \in Nat /\ j * s.target \in Nat /\ i < j /\ Includes(s, j)
  BY DEF IsSampling, Follows
<1>2. q \in Nat /\ q * s.fps <= i * s.target /\ i * s.target < q * s.fps + s.target
  BY SampleOf
<1>3. r \in Nat /\ r * s.fps <= j * s.target /\ j * s.target < r * s.fps + s.target
  BY <1>1, SampleOf
<1>4. /\ (j - 1) * s.target \in Nat /\ (j - 1) * s.target = j * s.target - s.target
      /\ i * s.target <= (j - 1) * s.target
  BY <1>1, MulMono
<1>5. p \in Nat /\ p * s.fps <= (j - 1) * s.target /\ (j - 1) * s.target < p * s.fps + s.fps
  BY <1>1, <1>4, Quotient
<1>6. p = q
  <2>1. q <= p
    <3>1. q * s.fps < (p + 1) * s.fps
      BY <1>1, <1>2, <1>4, <1>5
    <3>2. QED BY <1>1, <1>2, <1>5, <3>1, MulLess
  <2>2. ASSUME q < p PROVE FALSE
    <3> DEFINE Later == {m \in Nat : i < m /\ q < (m * s.target) \div s.fps}
    <3>1. j - 1 \in Later /\ Later \in SUBSET Nat
      <4>1. i # j - 1
        BY <2>2, <1>2, <1>5
      <4>2. QED BY <1>1, <2>2, <4>1
    <3>2. PICK e \in Later : e <= j - 1 /\ \A m \in Later : e <= m
      BY <3>1, Earliest
    <3>3. ((e - 1) * s.target) \div s.fps <= q
      <4>1. CASE e - 1 = i
        BY <4>1, <1>2
      <4>2. CASE e - 1 > i
        <5>1. e - 1 \notin Later /\ (e - 1) * s.target \in Nat
          BY <1>1, <3>2, <4>2
        <5>2. ((e - 1) * s.target) \div s.fps \in Nat
          BY <1>1, <5>1, Quotient
        <5>3. QED BY <1>2, <4>2, <5>1, <5>2
      <4>3. QED BY <3>2, <4>1, <4>2
    <3>4. (e * s.target) \div s.fps \in Nat /\ ((e - 1) * s.target) \div s.fps \in Nat
      <4>1. e * s.target \in Nat /\ (e - 1) * s.target \in Nat
        BY <1>1, <3>2
      <4>2. QED BY <1>1, <4>1, Quotient
    <3>5. Includes(s, e)
      BY <1>2, <3>2, <3>3, <3>4 DEF Includes
    <3>6. QED BY <1>1, <3>2, <3>5 DEF Follows
  <2>3. QED BY <1>2, <1>5, <2>1, <2>2
<1>7. r > p
  BY <1>1 DEF Includes
<1>8. r = q + 1
  <2>1. r * s.fps < (q + 2) * s.fps
    BY <1>1, <1>2, <1>3, <1>4, <1>5, <1>6
  <2>2. r < q + 2
    BY <1>1, <1>2, <1>3, <2>1, MulLess
  <2>3. QED BY <1>2, <1>3, <1>6, <1>7, <2>2
<1>9. r * s.fps = q * s.fps + s.fps
  BY <1>1, <1>2, <1>8
<1>10. QED BY <1>1, <1>2, <1>3, <1>9

\* For every target rate, a clip of videoprism_records ends less than a frame from
\* where the next one starts, and exactly there when every frame is a sample.
THEOREM ClipsAdjoin ==
  ASSUME NEW s, IsSampling(s), ByTime(s), NEW n \in Nat
  PROVE  ClipsMeet(s, n)
PROOF
<1> SUFFICES ASSUME NEW first \in 0 .. (n - 1), NEW last \in 0 .. (n - 1), NEW next \in 0 .. (n - 1),
                    first <= last, Includes(s, last), Follows(s, last, next)
             PROVE  /\ ClipEnd(s, first, last, n) < (next + 1) * s.target
                    /\ ClipEnd(s, first, last, n) > (next - 1) * s.target
                    /\ s.fps <= s.target => ClipEnd(s, first, last, n) = next * s.target
  BY DEF ClipsMeet
<1> DEFINE f == first * s.target
           l == last * s.target
           x == next * s.target
           e == n * s.target
<1>1. /\ s.fps \in Nat \ {0} /\ s.target \in Nat \ {0} /\ last < next
      /\ f \in Nat /\ l \in Nat /\ x \in Nat /\ e \in Nat
      /\ (next + 1) * s.target = x + s.target /\ (next - 1) * s.target = x - s.target
      /\ (first + 1) * s.target = f + s.target /\ (last + 1) * s.target = l + s.target
  BY DEF IsSampling, Follows
<1>2. f <= l /\ x + s.target <= e /\ l + s.target <= x
  <2> first \in Int /\ last \in Int /\ next \in Int /\ n \in Int /\ s.target \in Nat
    BY <1>1
  <2>0. last + 1 \in Int /\ next + 1 \in Int /\ last + 1 <= next /\ next + 1 <= n
    BY <1>1
  <2>1. first * s.target <= last * s.target
    BY MulMono
  <2>2. (next + 1) * s.target <= n * s.target
    BY <2>0, MulMono
  <2>3. (last + 1) * s.target <= next * s.target
    BY <2>0, MulMono
  <2>4. (last + 1) * s.target = l + s.target
    BY <1>1
  <2>5. x + s.target <= e
    BY <1>1, <2>2
  <2>6. l + s.target <= x
    BY <1>1, <2>3, <2>4
  <2>7. QED BY <2>1, <2>5, <2>6
<1> HIDE DEF f, l, x, e
<1>3. CASE s.fps <= s.target
  <2>1. next = last + 1
    <3>1. ASSUME last + 1 < next PROVE FALSE
      <4>1. Includes(s, last + 1)
        BY <1>3 DEF Includes
      <4>2. QED BY <3>1, <4>1 DEF Follows
    <3>2. QED BY <1>1, <3>1
  <2>2. x = l + s.target
    BY <1>1, <2>1 DEF x, l
  <2>3. ClipEnd(s, first, last, n) = x
    BY <1>1, <1>2, <1>3, <2>2 DEF ClipEnd, Cadence, f, l, e
  <2>4. QED BY <1>1, <2>3
<1>4. CASE s.fps > s.target
  <2>1. x < l + s.fps + s.target /\ x > l + s.fps - s.target
    BY <1>1, <1>4, SampleGap DEF x, l
  <2>2. QED BY <1>1, <1>2, <1>4, <2>1 DEF ClipEnd, Cadence, f, l, e
<1>5. QED BY <1>1, <1>3, <1>4

\* No record of a scene or a clip is empty, whether or not the video has the frames it
\* announced: _to_hits of capabilities/search.py would refuse every result with it.
THEOREM RecordsLast ==
  ASSUME NEW s, IsSampling(s), NEW n \in Nat, NEW frames \in SUBSET Nat
  PROVE  IntervalsPositive(s, n, frames)
PROOF
<1> SUFFICES ASSUME NEW first \in frames, NEW last \in frames, first <= last
             PROVE  first < SceneEnd(s, first, n) /\ first * s.target < ClipEnd(s, first, last, n)
  BY DEF IntervalsPositive
<1>1. first < SceneEnd(s, first, n)
  BY NextIs DEF SceneEnd
<1>2. first * s.target < ClipEnd(s, first, last, n)
  <2>1. /\ s.fps \in Nat \ {0} /\ s.target \in Nat \ {0} /\ first \in Nat /\ last \in Nat
        /\ first * s.target \in Nat /\ last * s.target \in Nat /\ n * s.target \in Nat
        /\ (first + 1) * s.target = first * s.target + s.target
    BY DEF IsSampling
  <2>2. QED BY <2>1 DEF ClipEnd, Cadence
<1>3. QED BY <1>1, <1>2

-----------------------------------------------------------------------------
(* The sound of a media, read by a loop: a block is added when no whole    *)
(* window waits, except when the resampler is flushed, and windows are cut *)
(* one at a time.                                                          *)

CONSTANT Lasts
VARIABLES sound, heard, flushing

SoundInit == sound = Silence(Lasts) /\ heard = 0 /\ flushing = FALSE

Hear ==
  \E block \in Nat :
    /\ sound.pending < Window \/ flushing
    /\ sound' = Added(sound, block) /\ heard' = heard + block
    /\ UNCHANGED flushing

CutWindow ==
  /\ ~flushing /\ sound.pending >= Window
  /\ sound' = Emitted(sound)
  /\ UNCHANGED <<heard, flushing>>

Flush ==
  /\ ~flushing /\ sound.pending < Window
  /\ flushing' = TRUE
  /\ UNCHANGED <<sound, heard>>

SoundLoop == SoundInit /\ [][Hear \/ CutWindow \/ Flush]_<<sound, heard, flushing>>

Counted == IF Lasts = Unknown THEN heard ELSE Lesser(heard, Lasts)

SoundInv ==
  /\ heard \in Nat
  /\ sound \in [limit : {Lasts}, pending : Nat, emitted : Nat, windows : Seq([start : Nat, end : Nat])]
  /\ sound.emitted + sound.pending = Counted
  /\ IF sound.emitted = 0 THEN sound.windows = <<>> ELSE Tile(sound.windows, 0, sound.emitted)

\* A window that starts where the others end continues them.
LEMMA Grows ==
  ASSUME NEW w \in Seq([start : Nat, end : Nat]), NEW a \in Nat, NEW b \in Nat \ {0},
         IF a = 0 THEN w = <<>> ELSE Tile(w, 0, a)
  PROVE  /\ Append(w, [start |-> a, end |-> a + b]) \in Seq([start : Nat, end : Nat])
         /\ Tile(Append(w, [start |-> a, end |-> a + b]), 0, a + b)
PROOF
<1> DEFINE i == [start |-> a, end |-> a + b]
           v == Append(w, i)
<1>1. i \in [start : Nat, end : Nat] /\ i.start = a /\ i.end = a + b /\ a < a + b
  OBVIOUS
<1> HIDE DEF i
<1>2. /\ v \in Seq([start : Nat, end : Nat]) /\ Len(v) = Len(w) + 1 /\ v[Len(v)] = i
      /\ Len(w) \in Nat /\ DOMAIN v = 1 .. Len(v) /\ DOMAIN w = 1 .. Len(w)
      /\ \A k \in 1 .. Len(w) : v[k] = w[k]
  BY <1>1
<1>3. CASE a = 0
  <2>1. Len(v) = 1 /\ v[1] = i /\ v # <<>>
    BY <1>2, <1>3
  <2>2. QED BY <1>1, <1>2, <1>3, <2>1 DEF Tile, Adjoin, i
<1>4. CASE a # 0
  <2>1. Len(w) > 0 /\ w[Len(w)].end = a /\ v[1] = w[1] /\ w[1].start = 0
    BY <1>2, <1>4 DEF Tile
  <2>2. Adjoin(v)
    <3>1. SUFFICES ASSUME NEW k \in 1 .. Len(v)
                   PROVE  v[k].start < v[k].end /\ (k > 1 => v[k].start = v[k - 1].end)
      BY <1>2 DEF Adjoin
    <3>2. CASE k = Len(v)
      <4>1. v[k] = i /\ k - 1 = Len(w) /\ Len(w) \in 1 .. Len(w)
        BY <1>2, <2>1, <3>2
      <4>3. v[k - 1] = w[Len(w)]
        BY <1>2, <4>1
      <4>2. QED BY <1>1, <2>1, <4>1, <4>3
    <3>3. CASE k # Len(v)
      <4>1. k \in 1 .. Len(w) /\ v[k] = w[k] /\ (k > 1 => v[k - 1] = w[k - 1])
        BY <1>2, <3>3
      <4>2. QED BY <1>2, <1>4, <4>1 DEF Tile, Adjoin
    <3>4. QED BY <3>2, <3>3
  <2>3. QED BY <1>1, <1>2, <2>1, <2>2 DEF Tile, i
<1>5. QED BY <1>3, <1>4 DEF i

\* However the decoder and the resampler cut the sound into blocks, the windows of
\* iter_audio_windows are all of it, as far as the container lasts, once each.
THEOREM SoundWhole ==
  ASSUME Lasts \in Nat \cup {Unknown}
  PROVE  SoundLoop => []WindowsRight(Lasts, heard, Ended(sound))
PROOF
<1>1. SoundInit => SoundInv
  BY DEF SoundInit, SoundInv, Silence, Counted, Lesser, Unknown
<1>2. SoundInv /\ [Hear \/ CutWindow \/ Flush]_<<sound, heard, flushing>> => SoundInv'
  <2> SUFFICES ASSUME SoundInv, [Hear \/ CutWindow \/ Flush]_<<sound, heard, flushing>>
               PROVE  SoundInv'
    OBVIOUS
  <2>1. CASE Hear
    <3>1. PICK block \in Nat : sound' = Added(sound, block) /\ heard' = heard + block
      BY <2>1 DEF Hear
    <3> DEFINE more == IF Lasts = Unknown THEN block
                       ELSE Lesser(block, Greater(0, Lasts - sound.emitted - sound.pending))
    <3> DEFINE room == Greater(0, Lasts - sound.emitted - sound.pending)
    <3>2. /\ sound.limit = Lasts /\ sound.pending \in Nat /\ sound.emitted \in Nat /\ heard \in Nat
          /\ sound.emitted + sound.pending = Counted /\ Unknown = -1 /\ Lasts \in Nat \cup {Unknown}
      BY DEF SoundInv, Unknown
    <3> DEFINE Sounds == [limit : {Lasts}, pending : Nat, emitted : Nat, windows : Seq([start : Nat, end : Nat])]
    <3>3. sound' = [sound EXCEPT !.pending = @ + more] /\ sound \in Sounds
      BY <3>1, <3>2 DEF Added, SoundInv
    <3>7. ASSUME more \in Nat, sound.emitted + sound.pending + more = Counted' PROVE SoundInv'
      <4> HIDE DEF more
      <4>6. sound.pending + more \in Nat
        BY <3>2, <3>7
      <4>1. sound' \in Sounds
        BY <3>3, <4>6
      <4>2. sound'.pending = sound.pending + more /\ sound'.emitted = sound.emitted /\ sound'.windows = sound.windows
        BY <3>3
      <4>3. heard' \in Nat
        BY <3>1, <3>2
      <4>4. sound'.emitted + sound'.pending = Counted'
        BY <3>2, <3>7, <4>2
      <4>5. QED BY <4>1, <4>2, <4>3, <4>4 DEF SoundInv
    <3>4. CASE Lasts = Unknown
      <4>1. more = block /\ Counted = heard /\ Counted' = heard + block
        BY <3>1, <3>4 DEF Counted
      <4>2. more \in Nat /\ sound.emitted + sound.pending + more = Counted'
        BY <3>2, <4>1
      <4>3. QED BY <3>7, <4>2
    <3>5. CASE Lasts # Unknown
      <4>1. more = Lesser(block, room) /\ Counted = Lesser(heard, Lasts) /\ Counted' = Lesser(heard + block, Lasts)
        BY <3>1, <3>5 DEF Counted
      <4>2. Lasts \in Nat
        BY <3>2, <3>5
      <4>3. more \in Nat /\ sound.emitted + sound.pending + more = Counted'
        BY <3>2, <4>1, <4>2 DEF Lesser, Greater
      <4>4. QED BY <3>7, <4>3
    <3>6. QED BY <3>4, <3>5
  <2>2. CASE CutWindow
    <3>1. sound' = Emitted(sound) /\ heard' = heard /\ sound.pending >= Window /\ Window \in Nat \ {0}
      BY <2>2, WindowAssumption DEF CutWindow
    <3> DEFINE w == Append(sound.windows, [start |-> sound.emitted, end |-> sound.emitted + Window])
    <3>2. w \in Seq([start : Nat, end : Nat]) /\ Tile(w, 0, sound.emitted + Window)
      BY <3>1, Grows DEF SoundInv
    <3>3. sound' = [sound EXCEPT !.pending = @ - Window, !.emitted = @ + Window, !.windows = w]
      BY <3>1 DEF Emitted
    <3> HIDE DEF w
    <3>4. /\ sound'.pending = sound.pending - Window /\ sound'.emitted = sound.emitted + Window
          /\ sound'.windows = w /\ Counted' = Counted /\ sound'.emitted # 0
          /\ sound' \in [limit : {Lasts}, pending : Nat, emitted : Nat, windows : Seq([start : Nat, end : Nat])]
      <4>1. sound \in [limit : {Lasts}, pending : Nat, emitted : Nat, windows : Seq([start : Nat, end : Nat])]
        BY DEF SoundInv
      <4>2. Counted' = Counted
        BY <3>1 DEF Counted
      <4>3. sound.pending - Window \in Nat /\ sound.emitted + Window \in Nat /\ sound.emitted + Window # 0
        BY <3>1, <4>1
      <4>4. QED BY <3>2, <3>3, <4>1, <4>2, <4>3
    <3>5. QED BY <3>1, <3>2, <3>4 DEF SoundInv
  <2>3. CASE Flush
    BY <2>3 DEF Flush, SoundInv, Counted
  <2>4. CASE UNCHANGED <<sound, heard, flushing>>
    BY <2>4 DEF SoundInv, Counted
  <2>5. QED BY <2>1, <2>2, <2>3, <2>4
<1>3. SoundInv => WindowsRight(Lasts, heard, Ended(sound))
  <2> SUFFICES ASSUME SoundInv
               PROVE  WindowsRight(Lasts, heard, Ended(sound))
    OBVIOUS
  <2>1. CASE sound.pending = 0
    <3>1. sound.emitted = Counted
      BY <2>1 DEF SoundInv
    <3>2. QED BY <2>1, <3>1 DEF SoundInv, Ended, WindowsRight, Counted
  <2>2. CASE sound.pending # 0
    <3>1. /\ sound.pending \in Nat \ {0} /\ Counted # 0
          /\ Tile(Ended(sound), 0, Counted)
      BY <2>2, Grows DEF SoundInv, Ended
    <3>2. QED BY <3>1 DEF WindowsRight, Counted
  <2>3. QED BY <2>1, <2>2
<1>4. QED BY <1>1, <1>2, <1>3, PTL DEF SoundLoop

-----------------------------------------------------------------------------
(* Groups of a given size.                                                 *)

\* The last group reaches the end.
LEMMA LastGroup ==
  ASSUME NEW count \in Nat, NEW size \in Nat \ {0}
  PROVE  /\ Pieces(count, size) \in Nat /\ Pieces(count, size) * size \in Nat
         /\ count <= Pieces(count, size) * size /\ Pieces(count, size) * size < count + size
         /\ count > 0 => Pieces(count, size) > 0
PROOF
<1> DEFINE many == Pieces(count, size)
<1>1. many \in Nat /\ many * size <= count + size - 1 /\ count + size - 1 < many * size + size
  <2>1. count + size - 1 \in Nat
    OBVIOUS
  <2>2. QED BY <2>1, Quotient DEF Pieces
<1> HIDE DEF many
<1>2. CASE many = 0
  BY <1>1, <1>2 DEF many
<1>3. CASE many # 0
  <2>1. many * size \in Nat /\ many > 0
    BY <1>1, <1>3
  <2>2. QED BY <1>1, <2>1 DEF many
<1>4. QED BY <1>2, <1>3

\* Of every group but the last the size is full; the last begins before the end.
LEMMA GroupWithin ==
  ASSUME NEW count \in Nat, NEW size \in Nat \ {0}, NEW g \in Nat \ {0},
         g <= Pieces(count, size)
  PROVE  /\ (g - 1) * size \in Nat /\ g * size \in Nat /\ (g - 1) * size = g * size - size
         /\ (g - 1) * size < count
         /\ g < Pieces(count, size) => g * size < count
PROOF
<1> DEFINE many == Pieces(count, size)
<1>1. many \in Nat /\ many * size \in Nat /\ many * size < count + size
  BY LastGroup
<1>2. (g - 1) * size \in Nat /\ g * size \in Nat /\ (g - 1) * size = g * size - size
  OBVIOUS
<1>3. g * size <= many * size
  BY <1>1, MulMono
<1>4. ASSUME g < many PROVE g * size < count
  <2>1. (g + 1) * size <= many * size /\ (g + 1) * size = g * size + size
    BY <1>1, <1>4, MulMono
  <2>2. QED BY <1>1, <1>2, <2>1
<1>5. QED BY <1>1, <1>2, <1>3, <1>4

\* The activations that sound_records stores of a window follow each other from its
\* beginning, and are all of it when the model returns enough.
THEOREM ActivationsWhole ==
  ASSUME NEW window \in [start : Nat, end : Nat], window.start < window.end, NEW many \in Nat
  PROVE  ActivationsRight(window, many)
PROOF
<1> DEFINE length == window.end - window.start
           all == Pieces(length, Dense)
           count == Lesser(many, all)
           parts == Activations(window, many)
<1>1. Dense \in Nat \ {0} /\ length \in Nat \ {0} /\ window.start \in Nat /\ window.end \in Nat
  BY WindowAssumption
<1> HIDE DEF length
<1>2. all \in Nat \ {0} /\ all * Dense \in Nat /\ length <= all * Dense
  BY <1>1, LastGroup
<1>3. count \in Nat /\ count <= all /\ count <= many /\ (many > 0 => count > 0)
  BY <1>2 DEF Lesser
<1>4. parts = [a \in 1 .. count |->
                 [start |-> window.start + (a - 1) * Dense,
                  end |-> Lesser(window.end, window.start + (a - 1) * Dense + Dense)]]
  BY DEF Activations, length
<1>5. ASSUME NEW a \in 1 .. count
      PROVE  /\ (a - 1) * Dense \in Nat /\ a * Dense \in Nat /\ (a - 1) * Dense = a * Dense - Dense
             /\ (a - 1) * Dense < length /\ (a < all => a * Dense < length)
  <2>1. a \in Nat \ {0} /\ a <= all /\ length \in Nat
    BY <1>1, <1>2, <1>3
  <2>2. QED BY <1>1, <2>1, GroupWithin
<1> HIDE DEF all, count, parts
<1>6. Len(parts) = count /\ DOMAIN parts = 1 .. count
  BY <1>3, <1>4
<1>7. ASSUME NEW a \in 1 .. count
      PROVE  /\ parts[a].start = window.start + (a * Dense - Dense)
             /\ parts[a].end = Lesser(window.end, window.start + a * Dense)
             /\ parts[a].start < parts[a].end /\ parts[a].end <= window.end
             /\ a < all => parts[a].end = window.start + a * Dense
  <2>1. /\ (a - 1) * Dense \in Nat /\ a * Dense \in Nat /\ (a - 1) * Dense = a * Dense - Dense
        /\ (a - 1) * Dense < length /\ (a < all => a * Dense < length)
    BY <1>5
  <2>2. /\ parts[a].start = window.start + (a * Dense - Dense)
        /\ parts[a].end = Lesser(window.end, window.start + (a * Dense - Dense) + Dense)
    BY <1>4, <2>1
  <2>3. QED BY <1>1, <2>1, <2>2 DEF Lesser, length
<1>8. Adjoin(parts)
  <2>1. SUFFICES ASSUME NEW a \in 1 .. count
                 PROVE  parts[a].start < parts[a].end /\ (a > 1 => parts[a].start = parts[a - 1].end)
    BY <1>6 DEF Adjoin
  <2>2. CASE a = 1
    BY <1>7, <2>2
  <2>3. CASE a > 1
    <3>1. a - 1 \in 1 .. count /\ a - 1 < all /\ (a - 1) * Dense = a * Dense - Dense
      BY <1>2, <1>3, <1>5, <2>3
    <3>2. parts[a - 1].end = window.start + (a - 1) * Dense
      BY <1>7, <3>1
    <3>3. QED BY <1>7, <3>1, <3>2
  <2>4. QED BY <2>2, <2>3, <1>3
<1>9. parts # <<>> => 1 \in 1 .. count /\ count \in 1 .. count
  BY <1>3, <1>6
<1>10. count > 0 => parts # <<>>
  BY <1>3, <1>6
<1>11. parts # <<>> => parts[1].start = window.start /\ parts[Len(parts)].end <= window.end
  <2>1. 1 * Dense - Dense = 0
    BY <1>1
  <2>2. QED BY <1>1, <1>6, <1>7, <1>9, <2>1
<1>12. ASSUME many * Dense >= window.end - window.start
       PROVE  Tile(parts, window.start, window.end)
  <2>1. many > 0
    BY <1>1, <1>12 DEF length
  <2>2. parts # <<>> /\ count \in 1 .. count
    BY <1>3, <1>9, <1>10, <2>1
  <2>3. count * Dense >= length /\ count * Dense \in Nat
    <3>1. count = many \/ count = all
      BY DEF count, Lesser
    <3>2. QED BY <1>1, <1>2, <1>3, <1>12, <3>1 DEF length
  <2>4. parts[count].end = window.end
    <3>1. parts[count].end = Lesser(window.end, window.start + count * Dense)
      BY <1>7, <2>2
    <3>2. window.start + count * Dense >= window.end
      BY <1>1, <2>3 DEF length
    <3>3. QED BY <1>1, <2>3, <3>1, <3>2 DEF Lesser
  <2>5. QED BY <1>6, <1>8, <1>11, <2>2, <2>4 DEF Tile
<1>13. QED BY <1>3, <1>8, <1>10, <1>11, <1>12 DEF ActivationsRight, parts

-----------------------------------------------------------------------------
(* The phrases of a segment, as the transcriber returns it.                *)

Segment == [start : Int, end : Int, worded : BOOLEAN, words : Seq([start : Int, end : Int]), tokens : Nat]

\* build_dialogue_phrases shares the time of a segment without words among all of its
\* tokens.
THEOREM TokensShareSegment ==
  ASSUME NEW segment \in Segment, NEW size \in Nat \ {0}
  PROVE  TokensRight(segment, size)
PROOF
<1> SUFFICES ASSUME Accepted(segment, size), ~segment.worded, segment.tokens > 0
             PROVE  Tile(Phrases(segment, size),
                         segment.start * segment.tokens, segment.end * segment.tokens)
  BY DEF TokensRight
<1> DEFINE n == segment.tokens
           d == segment.end - segment.start
           base == segment.start * n
           many == Pieces(n, size)
           from(g) == base + d * ((g - 1) * size)
           to(g) == base + d * Lesser(g * size, n)
           phrases == Phrases(segment, size)
<1>1. n \in Nat \ {0} /\ d \in Nat \ {0} /\ base \in Int /\ size \in Nat \ {0}
      /\ segment.end * n = base + d * n
  BY DEF Segment, Accepted, IsInterval
<1>2. many \in Nat \ {0} /\ many * size \in Nat /\ n <= many * size
  <2> HIDE DEF n
  <2>1. QED BY <1>1, LastGroup
<1>3. phrases = [g \in 1 .. many |-> [start |-> from(g), end |-> to(g)]]
  BY DEF Phrases, TokenPhrases, Groups, FirstOf, LastOf
<1>4. ASSUME NEW g \in 1 .. many
      PROVE  /\ (g - 1) * size \in Nat /\ g * size \in Nat /\ (g - 1) * size = g * size - size
             /\ (g - 1) * size < n /\ (g < many => g * size < n)
  <2> HIDE DEF n
  <2>1. g \in Nat \ {0} /\ g <= many /\ n \in Nat
    BY <1>1, <1>2
  <2>2. QED BY <1>1, <2>1, GroupWithin
<1>5. ASSUME NEW a \in Nat, NEW b \in Nat, a < b PROVE base + d * a < base + d * b
  <2>1. d * b = d * a + d * (b - a) /\ d * (b - a) > 0 /\ d * a \in Nat /\ d * b \in Nat
    BY <1>1, <1>5
  <2>2. QED BY <1>1, <2>1
<1>6. Len(phrases) = many /\ DOMAIN phrases = 1 .. many /\ phrases # <<>>
  BY <1>2, <1>3
<1> HIDE DEF n, d, base, many, phrases
<1>7. ASSUME NEW g \in 1 .. many
      PROVE  /\ phrases[g].start = from(g) /\ phrases[g].end = to(g)
             /\ from(g) < to(g) /\ (g > 1 => from(g) = to(g - 1))
  <2>1. phrases[g].start = from(g) /\ phrases[g].end = to(g)
    BY <1>3
  <2>2. from(g) < to(g)
    <3>1. Lesser(g * size, n) \in Nat /\ (g - 1) * size < Lesser(g * size, n) /\ (g - 1) * size \in Nat
      BY <1>1, <1>4 DEF Lesser
    <3>2. QED BY <1>5, <3>1
  <2>3. ASSUME g > 1 PROVE from(g) = to(g - 1)
    <3>1. g - 1 \in 1 .. many /\ g - 1 < many
      BY <1>2, <2>3
    <3>2. Lesser((g - 1) * size, n) = (g - 1) * size
      BY <1>1, <1>4, <3>1 DEF Lesser
    <3>3. QED BY <3>2
  <2>4. QED BY <2>1, <2>2, <2>3
<1>8. Adjoin(phrases)
  <2>1. SUFFICES ASSUME NEW g \in 1 .. many
                 PROVE  phrases[g].start < phrases[g].end /\ (g > 1 => phrases[g].start = phrases[g - 1].end)
    BY <1>6 DEF Adjoin
  <2>2. CASE g = 1
    BY <1>7, <2>2
  <2>3. CASE g > 1
    <3>1. g - 1 \in 1 .. many
      BY <1>2, <2>3
    <3>2. phrases[g - 1].end = to(g - 1)
      BY <1>7, <3>1
    <3>3. QED BY <1>7, <2>3, <3>2
  <2>4. QED BY <1>2, <2>2, <2>3
<1>9. 1 \in 1 .. many /\ many \in 1 .. many
  BY <1>2
<1>10. phrases[1].start = base
  <2>1. phrases[1].start = from(1)
    BY <1>7, <1>9
  <2>2. (1 - 1) * size = 0 /\ d * 0 = 0
    BY <1>1
  <2>3. QED BY <1>1, <2>1, <2>2
<1>11. phrases[many].end = segment.end * n
  <2>1. phrases[many].end = to(many)
    BY <1>7, <1>9
  <2>2. Lesser(many * size, n) = n
    BY <1>1, <1>2 DEF Lesser
  <2>3. QED BY <1>1, <2>1, <2>2
<1>12. QED BY <1>6, <1>8, <1>10, <1>11 DEF Tile, phrases, base, n

\* Each place of a sequence holds a member of its set.
LEMMA InSequence ==
  ASSUME NEW S, NEW q \in Seq(S)
  PROVE  Len(q) \in Nat /\ DOMAIN q = 1 .. Len(q) /\ \A w \in 1 .. Len(q) : q[w] \in S
PROOF OBVIOUS

\* build_dialogue_phrases accepts words that follow each other, and puts each into a
\* phrase that lasts at least as long.
THEOREM WordsInPhrases ==
  ASSUME NEW segment \in Segment, NEW size \in Nat \ {0}
  PROVE  WordsRight(segment, size)
PROOF
<1> DEFINE words == segment.words
           n == Len(words)
           many == Pieces(n, size)
           phrases == Phrases(segment, size)
<1> SUFFICES ASSUME segment.worded,
                    \A w \in DOMAIN words : IsInterval(words[w]),
                    \A v, w \in DOMAIN words : v < w => words[v].end <= words[w].start
             PROVE  /\ Accepted(segment, size)
                    /\ \A g, h \in DOMAIN phrases : g < h => phrases[g].end <= phrases[h].start
                    /\ \A w \in DOMAIN words : \E g \in DOMAIN phrases :
                         phrases[g].start <= words[w].start /\ words[w].end <= phrases[g].end
  BY DEF WordsRight
<1>1. /\ words \in Seq([start : Int, end : Int]) /\ n \in Nat /\ DOMAIN words = 1 .. n
      /\ \A w \in 1 .. n : words[w] \in [start : Int, end : Int]
  <2>1. words \in Seq([start : Int, end : Int])
    BY DEF Segment
  <2> HIDE DEF words
  <2>2. QED BY <2>1, InSequence DEF n
<1>2. many \in Nat /\ many * size \in Nat /\ n <= many * size
  <2> HIDE DEF n
  <2>1. QED BY <1>1, LastGroup
<1>3. /\ phrases = WordPhrases(words, size)
      /\ phrases = [g \in 1 .. many |-> [start |-> words[(g - 1) * size + 1].start,
                                        end |-> words[Lesser(g * size, n)].end]]
  BY DEF Phrases, WordPhrases, Groups, FirstOf, LastOf
<1> HIDE DEF n, many, phrases, words
<1>4. ASSUME NEW g \in 1 .. many
      PROVE  /\ (g - 1) * size + 1 \in 1 .. n /\ Lesser(g * size, n) \in 1 .. n
             /\ (g - 1) * size + 1 <= Lesser(g * size, n)
             /\ g < many => Lesser(g * size, n) = g * size
             /\ phrases[g].start = words[(g - 1) * size + 1].start
             /\ phrases[g].end = words[Lesser(g * size, n)].end
  <2>1. /\ (g - 1) * size \in Nat /\ g * size \in Nat /\ (g - 1) * size = g * size - size
        /\ (g - 1) * size < n /\ (g < many => g * size < n)
    <3>1. g \in Nat \ {0} /\ g <= many /\ n \in Nat
      BY <1>1, <1>2
    <3>2. QED BY <3>1, GroupWithin DEF many
  <2>2. QED BY <1>1, <1>3, <2>1 DEF Lesser
<1>5. ASSUME NEW v \in 1 .. n, NEW w \in 1 .. n, v <= w
      PROVE  /\ words[v].start <= words[w].start /\ words[v].end <= words[w].end
             /\ words[v].start < words[w].end /\ words[v].start >= 0
  <2>1. /\ IsInterval(words[v]) /\ IsInterval(words[w])
        /\ words[v] \in [start : Int, end : Int] /\ words[w] \in [start : Int, end : Int]
        /\ v < w => words[v].end <= words[w].start
    BY <1>1
  <2>2. QED BY <1>5, <2>1 DEF IsInterval
<1>6. Accepted(segment, size)
  <2>1. SUFFICES ASSUME NEW g \in 1 .. many PROVE IsInterval(phrases[g])
    BY <1>3 DEF Accepted, words
  <2>2. QED BY <1>4, <1>5 DEF IsInterval
<1>7. ASSUME NEW g \in 1 .. many, NEW h \in 1 .. many, g < h
      PROVE  phrases[g].end <= phrases[h].start
  <2>1. g < many /\ g * size <= (h - 1) * size
    BY <1>2, <1>7, MulMono
  <2>2. g * size \in Nat /\ (h - 1) * size \in Nat
    BY <1>7
  <2>3. g * size \in 1 .. n /\ (h - 1) * size + 1 \in 1 .. n /\ g * size < (h - 1) * size + 1
    <3>1. Lesser(g * size, n) = g * size /\ Lesser(g * size, n) \in 1 .. n
      BY <1>4, <2>1
    <3>2. (h - 1) * size + 1 \in 1 .. n
      BY <1>4
    <3>3. QED BY <2>1, <2>2, <3>1, <3>2
  <2>4. words[g * size].end <= words[(h - 1) * size + 1].start
    BY <1>1, <2>3
  <2>5. QED BY <1>4, <2>1, <2>4
<1>8. ASSUME NEW w \in 1 .. n
      PROVE  \E g \in 1 .. many : phrases[g].start <= words[w].start /\ words[w].end <= phrases[g].end
  <2> DEFINE q == (w - 1) \div size
             g == q + 1
  <2>1. w - 1 \in Nat /\ q \in Nat /\ q * size \in Nat /\ q * size <= w - 1 /\ w - 1 < q * size + size
    <3>1. w - 1 \in Nat
      BY <1>1
    <3>2. q \in Nat /\ q * size <= w - 1 /\ w - 1 < q * size + size
      BY <3>1, Quotient
    <3> HIDE DEF q
    <3>3. QED BY <3>1, <3>2
  <2> HIDE DEF q
  <2>2. (g - 1) * size = q * size /\ g * size = q * size + size
    BY <2>1
  <2>3. g \in 1 .. many
    <3>1. q * size < many * size
      <4> DEFINE whole == many * size
                 before == q * size
      <4>1. n \in Nat /\ whole \in Nat /\ n <= whole /\ before \in Nat /\ w \in Nat /\ w <= n
            /\ before <= w - 1
        BY <1>1, <1>2, <2>1
      <4> HIDE DEF whole, before
      <4>2. before < whole
        BY <4>1
      <4>3. QED BY <4>2 DEF whole, before
    <3>2. q < many
      BY <1>2, <2>1, <3>1, MulLess
    <3>3. QED BY <1>2, <2>1, <3>2
  <2>4. (g - 1) * size + 1 <= w /\ w <= Lesser(g * size, n)
    BY <1>1, <2>1, <2>2 DEF Lesser
  <2>5. phrases[g].start <= words[w].start
    BY <1>4, <1>5, <2>3, <2>4
  <2>6. words[w].end <= phrases[g].end
    BY <1>4, <1>5, <2>3, <2>4
  <2>7. QED BY <2>3, <2>5, <2>6
<1>9. DOMAIN phrases = 1 .. many
  BY <1>3
<1>10. QED BY <1>1, <1>6, <1>7, <1>8, <1>9

-----------------------------------------------------------------------------
(* The faces of a video, found one after another.                          *)

VARIABLE actors

\* A detection's name holds its frame and its place there, so that no two are the same.
NewFace(face) ==
  \A d \in actors.stored : <<d.frame, d.ordinal>> # <<face.frame, face.ordinal>>

FindFace ==
  \E face \in [frame : Nat, ordinal : Nat], match \in {NoMatch} \cup DOMAIN actors.sizes :
    /\ NewFace(face)
    /\ actors' = Found(actors, face, match)

FacesLoop == actors = NoFaces /\ [][FindFace]_actors

Detections == [cluster : Nat, frame : Nat, ordinal : Nat]

Counts(c) ==
  IsSummary(actors.stored, [cluster |-> c, count |-> actors.sizes[c],
                            first |-> actors.first[c], last |-> actors.last[c]])

ActorsInv ==
  /\ actors \in [sizes : Seq(Nat), first : Seq(Nat), last : Seq(Nat), stored : SUBSET Detections]
  /\ Len(actors.first) = Len(actors.sizes) /\ Len(actors.last) = Len(actors.sizes)
  /\ IsFiniteSet(actors.stored)
  /\ \A d \in actors.stored : d.cluster \in DOMAIN actors.sizes
  /\ \A c \in DOMAIN actors.sizes : Counts(c)

\* A cluster's place in a sequence changes, or a cluster is added.
LEMMA PlaceChanged ==
  ASSUME NEW q \in Seq(Nat), NEW c \in 1 .. Len(q), NEW v \in Nat
  PROVE  /\ [q EXCEPT ![c] = v] \in Seq(Nat) /\ Len([q EXCEPT ![c] = v]) = Len(q)
         /\ [q EXCEPT ![c] = v][c] = v /\ q[c] \in Nat
         /\ \A o \in 1 .. Len(q) : o # c => [q EXCEPT ![c] = v][o] = q[o]
PROOF OBVIOUS

LEMMA PlaceAdded ==
  ASSUME NEW q \in Seq(Nat), NEW v \in Nat
  PROVE  /\ Append(q, v) \in Seq(Nat) /\ Len(Append(q, v)) = Len(q) + 1 /\ Len(q) \in Nat
         /\ Append(q, v)[Len(q) + 1] = v
         /\ \A o \in 1 .. Len(q) : Append(q, v)[o] = q[o]
PROOF OBVIOUS

LEMMA Places ==
  ASSUME NEW q \in Seq(Nat)
  PROVE  Len(q) \in Nat /\ DOMAIN q = 1 .. Len(q)
PROOF OBVIOUS

Grown(face, c) == actors.stored \cup {Detection(face, c)}

\* One more detection of its cluster, and no other cluster's.
LEMMA OneMore ==
  ASSUME ActorsInv, NEW face \in [frame : Nat, ordinal : Nat], NEW c \in Nat, NewFace(face)
  PROVE  /\ Grown(face, c) \in SUBSET Detections /\ IsFiniteSet(Grown(face, c))
         /\ Of(Grown(face, c), c) = Of(actors.stored, c) \cup {Detection(face, c)}
         /\ Cardinality(Of(Grown(face, c), c)) = Cardinality(Of(actors.stored, c)) + 1
         /\ Cardinality(Of(actors.stored, c)) \in Nat
         /\ \A o \in Nat : o # c => Of(Grown(face, c), o) = Of(actors.stored, o)
PROOF
<1> DEFINE d == Detection(face, c)
           stored == Grown(face, c)
<1>1. d \in Detections /\ d.cluster = c /\ d.frame = face.frame /\ d.ordinal = face.ordinal
  BY DEF Detection, Detections
<1>2. d \notin actors.stored
  BY <1>1 DEF NewFace
<1>3. stored = actors.stored \cup {d}
  BY DEF Grown
<1> HIDE DEF d, stored
<1>4. IsFiniteSet(actors.stored) /\ actors.stored \in SUBSET Detections
  BY DEF ActorsInv
<1>5. IsFiniteSet(stored) /\ stored \in SUBSET Detections
  BY <1>1, <1>3, <1>4, FS_AddElement
<1>6. Of(stored, c) = Of(actors.stored, c) \cup {d} /\ d \notin Of(actors.stored, c)
  BY <1>1, <1>2, <1>3 DEF Of
<1>7. IsFiniteSet(Of(actors.stored, c))
  BY <1>4, FS_Subset DEF Of
<1>8. /\ Cardinality(Of(actors.stored, c)) \in Nat
      /\ Cardinality(Of(stored, c)) = Cardinality(Of(actors.stored, c)) + 1
  BY <1>6, <1>7, FS_AddElement, FS_CardinalityType
<1>9. ASSUME NEW o \in Nat, o # c PROVE Of(stored, o) = Of(actors.stored, o)
  BY <1>1, <1>3, <1>9 DEF Of
<1>10. QED BY <1>5, <1>6, <1>8, <1>9 DEF d, stored

\* The first face of a new cluster.
LEMMA OpenedCounts ==
  ASSUME ActorsInv, NEW face \in [frame : Nat, ordinal : Nat], NewFace(face),
         actors' = Opened(actors, face)
  PROVE  ActorsInv'
PROOF
<1> DEFINE n == Len(actors.sizes)
           c == n + 1
           stored == Grown(face, c)
<1>1. /\ actors.sizes \in Seq(Nat) /\ actors.first \in Seq(Nat) /\ actors.last \in Seq(Nat)
      /\ Len(actors.first) = n /\ Len(actors.last) = n
      /\ \A d \in actors.stored : d.cluster \in DOMAIN actors.sizes
      /\ \A o \in DOMAIN actors.sizes : Counts(o)
      /\ face.frame \in Nat
  BY DEF ActorsInv
<1>2. n \in Nat /\ DOMAIN actors.sizes = 1 .. n
  BY <1>1, Places
<1>3. /\ actors'.sizes = Append(actors.sizes, 1) /\ actors'.first = Append(actors.first, face.frame)
      /\ actors'.last = Append(actors.last, face.frame) /\ actors'.stored = stored
      /\ actors' = [sizes |-> actors'.sizes, first |-> actors'.first, last |-> actors'.last,
                    stored |-> actors'.stored]
  BY DEF Opened, Grown
<1> HIDE DEF n
<1>4. c \in Nat /\ \A o \in 1 .. n : o \in Nat /\ o # c
  BY <1>2
<1>5. /\ stored \in SUBSET Detections /\ IsFiniteSet(stored)
      /\ Of(stored, c) = Of(actors.stored, c) \cup {Detection(face, c)}
      /\ \A o \in Nat : o # c => Of(stored, o) = Of(actors.stored, o)
  BY <1>4, OneMore
<1>6. Of(actors.stored, c) = {}
  BY <1>1, <1>2, <1>4 DEF Of
<1>7. Of(stored, c) = {Detection(face, c)}
  BY <1>5, <1>6
<1>8. Detection(face, c).frame = face.frame /\ Detection(face, c).cluster = c
  BY DEF Detection
<1>9. \A e \in stored : e.cluster \in 1 .. c
  BY <1>1, <1>2, <1>8 DEF Grown
<1> HIDE DEF stored
<1>10. /\ actors'.sizes \in Seq(Nat) /\ Len(actors'.sizes) = c /\ actors'.sizes[c] = 1
       /\ \A o \in 1 .. n : actors'.sizes[o] = actors.sizes[o]
  BY <1>1, <1>3, PlaceAdded DEF n
<1>11. /\ actors'.first \in Seq(Nat) /\ Len(actors'.first) = c /\ actors'.first[c] = face.frame
       /\ \A o \in 1 .. n : actors'.first[o] = actors.first[o]
  BY <1>1, <1>3, PlaceAdded
<1>12. /\ actors'.last \in Seq(Nat) /\ Len(actors'.last) = c /\ actors'.last[c] = face.frame
       /\ \A o \in 1 .. n : actors'.last[o] = actors.last[o]
  BY <1>1, <1>3, PlaceAdded
<1>13. Cardinality(Of(stored, c)) = 1
  BY <1>7, FS_Singleton
<1> HIDE DEF c
<1>14. ASSUME NEW o, o = c PROVE Counts(o)'
  <2>1. /\ actors'.sizes[o] = 1 /\ actors'.first[o] = face.frame /\ actors'.last[o] = face.frame
        /\ Of(actors'.stored, o) = {Detection(face, o)} /\ Cardinality(Of(actors'.stored, o)) = 1
        /\ Detection(face, o).frame = face.frame
    BY <1>3, <1>7, <1>8, <1>10, <1>11, <1>12, <1>13, <1>14
  <2>2. \A d \in Of(actors'.stored, o) : d.frame = face.frame
    BY <2>1
  <2>3. \E d \in Of(actors'.stored, o) : d.frame = face.frame
    BY <2>1
  <2>4. face.frame <= face.frame
    BY <1>1
  <2> DEFINE summary == [cluster |-> o, count |-> actors'.sizes[o],
                         first |-> actors'.first[o], last |-> actors'.last[o]]
  <2>5. summary.cluster = o /\ summary.count = 1 /\ summary.first = face.frame /\ summary.last = face.frame
    BY <2>1
  <2> HIDE DEF summary
  <2>6. IsSummary(actors'.stored, summary)
    BY <2>1, <2>2, <2>3, <2>4, <2>5 DEF IsSummary
  <2>7. QED BY <2>6 DEF Counts, summary
<1>15. ASSUME NEW o \in 1 .. n PROVE Counts(o)'
  <2>1. Counts(o) /\ Of(stored, o) = Of(actors.stored, o)
    BY <1>1, <1>2, <1>4, <1>5
  <2>2. actors'.sizes[o] = actors.sizes[o] /\ actors'.first[o] = actors.first[o] /\ actors'.last[o] = actors.last[o]
    BY <1>10, <1>11, <1>12
  <2>3. QED BY <1>3, <2>1, <2>2 DEF Counts, IsSummary
<1>16. DOMAIN actors'.sizes = 1 .. c
  BY <1>10, Places
<1>17. \A o \in 1 .. c : Counts(o)'
  <2>1. \A o \in 1 .. c : o \in 1 .. n \/ o = c
    BY <1>2 DEF c
  <2>2. QED BY <1>14, <1>15, <2>1
<1>18. QED BY <1>3, <1>5, <1>9, <1>10, <1>11, <1>12, <1>16, <1>17 DEF ActorsInv

\* Another face of a cluster.
LEMMA JoinedCounts ==
  ASSUME ActorsInv, NEW face \in [frame : Nat, ordinal : Nat], NewFace(face),
         NEW c \in DOMAIN actors.sizes, actors' = Joined(actors, face, c)
  PROVE  ActorsInv'
PROOF
<1> DEFINE n == Len(actors.sizes)
           stored == Grown(face, c)
<1>1. /\ actors.sizes \in Seq(Nat) /\ actors.first \in Seq(Nat) /\ actors.last \in Seq(Nat)
      /\ Len(actors.first) = n /\ Len(actors.last) = n
      /\ \A d \in actors.stored : d.cluster \in DOMAIN actors.sizes
      /\ \A o \in DOMAIN actors.sizes : Counts(o)
      /\ face.frame \in Nat /\ actors.stored \in SUBSET Detections
  BY DEF ActorsInv
<1>2. n \in Nat /\ DOMAIN actors.sizes = 1 .. n
  BY <1>1, Places
<1>3. /\ actors'.sizes = [actors.sizes EXCEPT ![c] = actors.sizes[c] + 1]
      /\ actors'.first = [actors.first EXCEPT ![c] = Lesser(actors.first[c], face.frame)]
      /\ actors'.last = [actors.last EXCEPT ![c] = Greater(actors.last[c], face.frame)]
      /\ actors'.stored = stored
      /\ actors' = [sizes |-> actors'.sizes, first |-> actors'.first, last |-> actors'.last,
                    stored |-> actors'.stored]
  BY DEF Joined, Grown
<1> HIDE DEF n
<1>4. c \in Nat /\ c \in 1 .. n /\ \A o \in 1 .. n : o \in Nat
  BY <1>2
<1>5. /\ stored \in SUBSET Detections /\ IsFiniteSet(stored)
      /\ Of(stored, c) = Of(actors.stored, c) \cup {Detection(face, c)}
      /\ Cardinality(Of(stored, c)) = Cardinality(Of(actors.stored, c)) + 1
      /\ \A o \in Nat : o # c => Of(stored, o) = Of(actors.stored, o)
  BY <1>4, OneMore
<1>6. Detection(face, c).frame = face.frame /\ Detection(face, c).cluster = c
  BY DEF Detection
<1>7. \A e \in stored : e.cluster \in 1 .. n
  BY <1>1, <1>2, <1>4, <1>6 DEF Grown
<1> HIDE DEF stored
<1>8. actors.sizes[c] \in Nat /\ actors.first[c] \in Nat /\ actors.last[c] \in Nat
  <2>1. c \in 1 .. Len(actors.sizes) /\ c \in 1 .. Len(actors.first) /\ c \in 1 .. Len(actors.last)
    BY <1>1, <1>4 DEF n
  <2>2. QED BY <1>1, <2>1, PlaceChanged
<1> DEFINE first == Lesser(actors.first[c], face.frame)
           last == Greater(actors.last[c], face.frame)
<1>9. /\ first \in Nat /\ first <= face.frame /\ first <= actors.first[c]
      /\ first = face.frame \/ first = actors.first[c]
      /\ last \in Nat /\ face.frame <= last /\ actors.last[c] <= last
      /\ last = face.frame \/ last = actors.last[c]
  BY <1>1, <1>8 DEF Lesser, Greater
<1> HIDE DEF first, last
<1>10. /\ actors'.sizes \in Seq(Nat) /\ Len(actors'.sizes) = n /\ actors'.sizes[c] = actors.sizes[c] + 1
       /\ \A o \in 1 .. n : o # c => actors'.sizes[o] = actors.sizes[o]
  <2>1. actors.sizes[c] + 1 \in Nat /\ c \in 1 .. Len(actors.sizes)
    BY <1>4, <1>8 DEF n
  <2>2. QED BY <1>1, <1>3, <2>1, PlaceChanged DEF n
<1>11. /\ actors'.first \in Seq(Nat) /\ Len(actors'.first) = n /\ actors'.first[c] = first
       /\ \A o \in 1 .. n : o # c => actors'.first[o] = actors.first[o]
  <2>1. actors'.first = [actors.first EXCEPT ![c] = first]
    BY <1>3 DEF first
  <2>2. actors.first \in Seq(Nat) /\ c \in 1 .. Len(actors.first) /\ first \in Nat /\ Len(actors.first) = n
    BY <1>1, <1>4, <1>9
  <2>3. QED BY <2>1, <2>2, PlaceChanged
<1>12. /\ actors'.last \in Seq(Nat) /\ Len(actors'.last) = n /\ actors'.last[c] = last
       /\ \A o \in 1 .. n : o # c => actors'.last[o] = actors.last[o]
  <2>1. actors'.last = [actors.last EXCEPT ![c] = last]
    BY <1>3 DEF last
  <2>2. actors.last \in Seq(Nat) /\ c \in 1 .. Len(actors.last) /\ last \in Nat /\ Len(actors.last) = n
    BY <1>1, <1>4, <1>9
  <2>3. QED BY <2>1, <2>2, PlaceChanged
<1>13. Counts(c)'
  <2> DEFINE mine == Of(actors.stored, c)
  <2>1. /\ actors.sizes[c] = Cardinality(mine)
        /\ \E d \in mine : d.frame = actors.first[c]
        /\ \E d \in mine : d.frame = actors.last[c]
        /\ \A d \in mine : actors.first[c] <= d.frame /\ d.frame <= actors.last[c]
    BY <1>1 DEF Counts, IsSummary
  <2>2. \A d \in mine : d.frame \in Nat
    BY <1>1 DEF Of, Detections
  <2> HIDE DEF mine
  <2>3. Of(stored, c) = mine \cup {Detection(face, c)}
    BY <1>5 DEF mine
  <2>4. actors'.sizes[c] = Cardinality(Of(stored, c))
    BY <1>5, <1>10, <2>1 DEF mine
  <2>5. \E d \in Of(stored, c) : d.frame = first
    BY <1>6, <1>9, <2>1, <2>3
  <2>6. \E d \in Of(stored, c) : d.frame = last
    BY <1>6, <1>9, <2>1, <2>3
  <2>7. ASSUME NEW d \in Of(stored, c) PROVE first <= d.frame /\ d.frame <= last
    <3>1. CASE d = Detection(face, c)
      BY <1>6, <1>9, <3>1
    <3>2. CASE d \in mine
      <4>1. d.frame \in Nat /\ actors.first[c] <= d.frame /\ d.frame <= actors.last[c]
        BY <2>1, <2>2, <3>2
      <4>2. QED BY <1>8, <1>9, <4>1
    <3>3. QED BY <2>3, <3>1, <3>2
  <2>8. QED BY <1>3, <1>11, <1>12, <2>4, <2>5, <2>6, <2>7 DEF Counts, IsSummary
<1>14. ASSUME NEW o \in 1 .. n, o # c PROVE Counts(o)'
  <2>1. Counts(o) /\ Of(stored, o) = Of(actors.stored, o)
    BY <1>1, <1>2, <1>4, <1>5, <1>14
  <2>2. actors'.sizes[o] = actors.sizes[o] /\ actors'.first[o] = actors.first[o] /\ actors'.last[o] = actors.last[o]
    BY <1>10, <1>11, <1>12, <1>14
  <2>3. QED BY <1>3, <2>1, <2>2 DEF Counts, IsSummary
<1>15. DOMAIN actors'.sizes = 1 .. n
  BY <1>10, Places
<1>16. QED BY <1>3, <1>5, <1>7, <1>10, <1>11, <1>12, <1>13, <1>14, <1>15 DEF ActorsInv

\* However many detections a cluster must have, what finalize_actor_index stores of an
\* actor is what its detections say: a reader of the summaries and one that counts
\* the detections agree.
THEOREM ActorsCounted ==
  FacesLoop => [](\A minimum \in Nat : ActorsRight(actors, minimum))
PROOF
<1>1. actors = NoFaces => ActorsInv
  BY FS_EmptySet DEF NoFaces, ActorsInv
<1>2. ActorsInv /\ [FindFace]_actors => ActorsInv'
  <2> SUFFICES ASSUME ActorsInv, [FindFace]_actors PROVE ActorsInv'
    OBVIOUS
  <2>1. CASE FindFace
    <3>1. PICK face \in [frame : Nat, ordinal : Nat], match \in {NoMatch} \cup DOMAIN actors.sizes :
            NewFace(face) /\ actors' = Found(actors, face, match)
      BY <2>1 DEF FindFace
    <3>2. CASE match = NoMatch
      BY <3>1, <3>2, OpenedCounts DEF Found
    <3>3. CASE match # NoMatch
      BY <3>1, <3>3, JoinedCounts DEF Found
    <3>4. QED BY <3>2, <3>3
  <2>2. CASE UNCHANGED actors
    BY <2>2 DEF ActorsInv, Counts
  <2>3. QED BY <2>1, <2>2
<1>3. ActorsInv => \A minimum \in Nat : ActorsRight(actors, minimum)
  <2> SUFFICES ASSUME ActorsInv, NEW minimum \in Nat PROVE ActorsRight(actors, minimum)
    OBVIOUS
  <2>1. ASSUME NEW c \in Retained(actors, minimum)
        PROVE  /\ c \in DOMAIN actors.sizes /\ actors.sizes[c] >= minimum
               /\ Of(Kept(actors, minimum), c) = Of(actors.stored, c)
    BY <2>1 DEF Retained, Kept, Of
  <2>2. ASSUME NEW s \in Summaries(actors, minimum)
        PROVE  IsSummary(Kept(actors, minimum), s) /\ s.count >= minimum
    <3>1. PICK c \in Retained(actors, minimum) :
            s = [cluster |-> c, count |-> actors.sizes[c], first |-> actors.first[c], last |-> actors.last[c]]
      BY DEF Summaries
    <3>2. Counts(c)
      BY <2>1 DEF ActorsInv
    <3>3. QED BY <2>1, <3>1, <3>2 DEF Counts, IsSummary
  <2>3. ASSUME NEW d \in Kept(actors, minimum)
        PROVE  \E s \in Summaries(actors, minimum) : s.cluster = d.cluster
    <3> DEFINE s == [cluster |-> d.cluster, count |-> actors.sizes[d.cluster],
                     first |-> actors.first[d.cluster], last |-> actors.last[d.cluster]]
    <3>1. s \in Summaries(actors, minimum)
      BY DEF Kept, Summaries
    <3>2. QED BY <3>1
  <2>4. QED BY <2>2, <2>3 DEF ActorsRight
<1>4. QED BY <1>1, <1>2, <1>3, PTL DEF FacesLoop
-----------------------------------------------------------------------------
(* One pass over a video for several capabilities: each frame is read, or  *)
(* skipped when none of them wants it.                                     *)

CONSTANTS Samplings, BatchSize
VARIABLES read, stream

VisualInit == read = 0 /\ stream = NoBatch

ReadFrame == stream' = Turn(Samplings, BatchSize, stream, read) /\ read' = read + 1

VisualLoop == VisualInit /\ [][ReadFrame]_<<read, stream>>

Stream == [batch : Seq(Nat), out : Seq(Seq(Nat))]

VisualInv ==
  /\ read \in Nat /\ stream \in Stream
  /\ Len(stream.batch) < BatchSize
  /\ \A b \in DOMAIN stream.out : Len(stream.out[b]) = BatchSize
  /\ Holds(Samplings, read, Append(stream.out, stream.batch))

\* The batches, of which the last may be empty.
LEMMA AppendedBatch ==
  ASSUME NEW out \in Seq(Seq(Nat)), NEW batch \in Seq(Nat)
  PROVE  LET all == Append(out, batch) IN
           /\ all \in Seq(Seq(Nat)) /\ Len(all) = Len(out) + 1 /\ Len(out) \in Nat
           /\ DOMAIN all = 1 .. (Len(out) + 1) /\ DOMAIN out = 1 .. Len(out)
           /\ all[Len(out) + 1] = batch
           /\ \A b \in 1 .. Len(out) : all[b] = out[b]
           /\ DOMAIN batch = 1 .. Len(batch) /\ Len(batch) \in Nat
PROOF OBVIOUS

\* An empty batch at the end holds nothing.
LEMMA HoldsEmpty ==
  ASSUME NEW out \in Seq(Seq(Nat)), NEW n \in Nat
  PROVE  Holds(Samplings, n, Append(out, <<>>)) <=> Holds(Samplings, n, out)
PROOF
<1> DEFINE all == Append(out, <<>>)
           m == Len(out) + 1
<1>1. /\ DOMAIN all = 1 .. m /\ DOMAIN out = 1 .. Len(out) /\ Len(out) \in Nat
      /\ \A b \in 1 .. Len(out) : all[b] = out[b]
      /\ all[m] = <<>> /\ DOMAIN all[m] = {}
  BY AppendedBatch
<1> HIDE DEF all
<1>2. \A b \in DOMAIN all : \A k \in DOMAIN all[b] : b \in DOMAIN out /\ all[b] = out[b]
  BY <1>1
<1>3. \A b \in DOMAIN out : b \in DOMAIN all /\ all[b] = out[b]
  BY <1>1
<1>4. Holds(Samplings, n, all) => Holds(Samplings, n, out)
  BY <1>2, <1>3 DEF Holds
<1>5. Holds(Samplings, n, out) => Holds(Samplings, n, all)
  BY <1>2, <1>3 DEF Holds
<1>6. QED BY <1>4, <1>5 DEF all

\* A frame that no capability wants changes nothing.
LEMMA HoldsSkipped ==
  ASSUME NEW n \in Nat, NEW batches, Holds(Samplings, n, batches), ~Wanted(Samplings, n)
  PROVE  Holds(Samplings, n + 1, batches)
PROOF
<1>1. \A i \in 0 .. (n + 1 - 1) : i = n \/ i \in 0 .. (n - 1)
  OBVIOUS
<1>2. \A i \in 0 .. (n - 1) : i \in 0 .. (n + 1 - 1)
  OBVIOUS
<1>3. QED BY <1>1, <1>2 DEF Holds

\* A wanted frame joins the last batch.
LEMMA HoldsNext ==
  ASSUME NEW out \in Seq(Seq(Nat)), NEW batch \in Seq(Nat), NEW n \in Nat,
         Holds(Samplings, n, Append(out, batch)), Wanted(Samplings, n)
  PROVE  Holds(Samplings, n + 1, Append(out, Append(batch, n)))
PROOF
<1> DEFINE old == Append(out, batch)
           new == Append(out, Append(batch, n))
           m == Len(out) + 1
           e == Len(batch) + 1
<1>1. /\ DOMAIN old = 1 .. m /\ m \in Nat /\ old[m] = batch
      /\ DOMAIN new = 1 .. m /\ new[m] = Append(batch, n)
      /\ \A b \in 1 .. m : b # m => new[b] = old[b]
  <2>1. Append(batch, n) \in Seq(Nat)
    OBVIOUS
  <2>2. \A b \in 1 .. m : b # m => b \in 1 .. Len(out)
    OBVIOUS
  <2>3. QED BY <2>1, <2>2, AppendedBatch
<1>2. /\ DOMAIN batch = 1 .. (e - 1) /\ e \in Nat
      /\ DOMAIN Append(batch, n) = 1 .. e /\ Append(batch, n)[e] = n
      /\ \A k \in 1 .. e : k # e => Append(batch, n)[k] = batch[k]
  OBVIOUS
<1> HIDE DEF old, new, m, e
\* A place in the new batches is the new one or was one before.
<1>3. \A b \in DOMAIN new : \A k \in DOMAIN new[b] :
        \/ b = m /\ k = e /\ new[b][k] = n
        \/ b \in DOMAIN old /\ k \in DOMAIN old[b] /\ new[b][k] = old[b][k]
  <2> SUFFICES ASSUME NEW b \in DOMAIN new, NEW k \in DOMAIN new[b], ~(b = m /\ k = e)
               PROVE  b \in DOMAIN old /\ k \in DOMAIN old[b] /\ new[b][k] = old[b][k]
    BY <1>1, <1>2
  <2>1. CASE b = m
    BY <1>1, <1>2, <2>1
  <2>2. CASE b # m
    BY <1>1, <2>2
  <2>3. QED BY <2>1, <2>2
<1>4. \A b \in DOMAIN old : \A k \in DOMAIN old[b] :
        /\ b \in DOMAIN new /\ k \in DOMAIN new[b] /\ new[b][k] = old[b][k]
        /\ b \in 1 .. m /\ (b = m => k \in 1 .. (e - 1))
  <2> TAKE b \in DOMAIN old
  <2> TAKE k \in DOMAIN old[b]
  <2>1. CASE b = m
    <3>1. k \in 1 .. e /\ k # e
      BY <1>1, <1>2, <2>1
    <3>2. QED BY <1>1, <1>2, <2>1, <3>1
  <2>2. CASE b # m
    BY <1>1, <2>2
  <2>3. QED BY <2>1, <2>2
<1>5. m \in DOMAIN new /\ e \in DOMAIN new[m] /\ new[m][e] = n
  <2>1. m \in 1 .. m /\ e \in 1 .. e
    BY <1>1, <1>2 DEF m, e
  <2>2. QED BY <1>1, <1>2, <2>1
<1>6. /\ \A i \in 0 .. (n + 1 - 1) : i = n \/ i \in 0 .. (n - 1)
      /\ \A i \in 0 .. (n - 1) : i \in 0 .. (n + 1 - 1) /\ i < n
      /\ n \in 0 .. (n + 1 - 1)
  OBVIOUS
<1>7. Holds(Samplings, n, old)
  BY DEF old
<1>8. ASSUME NEW i \in 0 .. (n + 1 - 1), Wanted(Samplings, i)
      PROVE  \E b \in DOMAIN new : \E k \in DOMAIN new[b] : new[b][k] = i
  <2>1. CASE i = n
    BY <1>5, <2>1
  <2>2. CASE i # n
    <3>1. PICK b \in DOMAIN old : \E k \in DOMAIN old[b] : old[b][k] = i
      BY <1>6, <1>7, <1>8, <2>2 DEF Holds
    <3>2. QED BY <1>4, <3>1
  <2>3. QED BY <2>1, <2>2
<1>9. ASSUME NEW b \in DOMAIN new, NEW k \in DOMAIN new[b]
      PROVE  new[b][k] \in 0 .. (n + 1 - 1) /\ Wanted(Samplings, new[b][k])
  <2>1. CASE b = m /\ k = e /\ new[b][k] = n
    BY <1>6, <2>1
  <2>2. CASE b \in DOMAIN old /\ k \in DOMAIN old[b] /\ new[b][k] = old[b][k]
    BY <1>6, <1>7, <2>2 DEF Holds
  <2>3. QED BY <1>3, <2>1, <2>2
<1>10. ASSUME NEW b \in DOMAIN new, NEW c \in DOMAIN new,
              NEW k \in DOMAIN new[b], NEW l \in DOMAIN new[c],
              b < c \/ (b = c /\ k < l)
       PROVE  new[b][k] < new[c][l]
  <2>1. ASSUME b = m, k = e PROVE FALSE
    <3>1. c \in 1 .. m /\ ~(b < c)
      BY <1>1, <2>1
    <3>2. c = m /\ e < l /\ l \in 1 .. e
      BY <1>1, <1>2, <1>10, <2>1, <3>1
    <3>3. QED BY <1>2, <3>2
  <2>2. b \in DOMAIN old /\ k \in DOMAIN old[b] /\ new[b][k] = old[b][k]
    BY <1>3, <2>1
  <2>3. CASE c = m /\ l = e /\ new[c][l] = n
    <3>1. old[b][k] < n
      BY <1>6, <1>7, <2>2 DEF Holds
    <3>2. QED BY <2>2, <2>3, <3>1
  <2>4. CASE c \in DOMAIN old /\ l \in DOMAIN old[c] /\ new[c][l] = old[c][l]
    BY <1>7, <1>10, <2>2, <2>4 DEF Holds
  <2>5. QED BY <1>3, <2>3, <2>4
<1>11. Holds(Samplings, n + 1, new)
  BY ONLY <1>8, <1>9, <1>10 DEF Holds
<1>12. QED BY <1>11 DEF new

\* Whatever is indexed in one pass over a video, the batches of iter_frame_batches
\* hold each wanted frame once and in order, and none is empty or too large: what a
\* capability picks from them is its own sampling, as if it were alone.
THEOREM FramesShared ==
  ASSUME BatchSize \in Nat \ {0}
  PROVE  VisualLoop => []BatchesRight(Samplings, BatchSize, read, Flushed(stream))
PROOF
<1>1. VisualInit => VisualInv
  <2> SUFFICES ASSUME VisualInit
               PROVE  VisualInv
    OBVIOUS
  <2>1. read = 0 /\ stream = [batch |-> <<>>, out |-> <<>>]
    BY DEF VisualInit, NoBatch
  <2>2. stream \in Stream /\ stream.batch = <<>> /\ stream.out = <<>> /\ Len(stream.batch) = 0
    BY <2>1 DEF Stream
  <2>3. Holds(Samplings, read, stream.out)
    BY <2>1, <2>2 DEF Holds
  <2>4. Holds(Samplings, read, Append(stream.out, stream.batch))
    BY <2>1, <2>2, <2>3, HoldsEmpty DEF Stream
  <2>5. QED BY <2>1, <2>2, <2>4 DEF VisualInv
<1>2. VisualInv /\ [ReadFrame]_<<read, stream>> => VisualInv'
  <2> SUFFICES ASSUME VisualInv, [ReadFrame]_<<read, stream>>
               PROVE  VisualInv'
    OBVIOUS
  <2> DEFINE out == stream.out
             batch == stream.batch
             more == Append(batch, read)
  <2>1. /\ read \in Nat /\ batch \in Seq(Nat) /\ out \in Seq(Seq(Nat)) /\ Len(batch) < BatchSize
        /\ Holds(Samplings, read, Append(out, batch)) /\ stream = [batch |-> batch, out |-> out]
        /\ \A b \in DOMAIN out : Len(out[b]) = BatchSize
        /\ more \in Seq(Nat) /\ Len(more) = Len(batch) + 1 /\ Len(batch) \in Nat
    BY DEF VisualInv, Stream
  <2>2. CASE UNCHANGED <<read, stream>>
    BY <2>2 DEF VisualInv
  <2>3. CASE ReadFrame /\ ~Wanted(Samplings, read)
    <3>1. stream' = stream /\ read' = read + 1
      BY <2>3 DEF ReadFrame, Turn
    <3>2. QED BY <2>1, <2>3, <3>1, HoldsSkipped DEF VisualInv
  <2>4. CASE ReadFrame /\ Wanted(Samplings, read)
    <3>1. read' = read + 1 /\ Holds(Samplings, read + 1, Append(out, more))
      BY <2>1, <2>4, HoldsNext DEF ReadFrame
    <3>2. stream' = IF Len(more) = BatchSize THEN [batch |-> <<>>, out |-> Append(out, more)]
                    ELSE [batch |-> more, out |-> out]
      <4>1. stream' = Turn(Samplings, BatchSize, stream, read)
        BY <2>4 DEF ReadFrame
      <4>2. CASE Len(more) = BatchSize
        BY <2>4, <4>1, <4>2 DEF Turn
      <4>3. CASE Len(more) # BatchSize
        <5>1. stream' = [stream EXCEPT !.batch = more]
          BY <2>4, <4>1, <4>3 DEF Turn
        <5>2. [stream EXCEPT !.batch = more] = [batch |-> more, out |-> out]
          <6>1. stream \in [batch : Seq(Nat), out : Seq(Seq(Nat))]
            BY DEF VisualInv, Stream
          <6> HIDE DEF more
          <6>2. QED BY <6>1
        <5>3. QED BY <4>3, <5>1, <5>2
      <4>4. QED BY <4>2, <4>3
    <3> HIDE DEF out, batch, more
    <3>3. CASE Len(more) = BatchSize
      <4>1. stream'.batch = <<>> /\ stream'.out = Append(out, more) /\ Append(out, more) \in Seq(Seq(Nat))
        BY <2>1, <3>2, <3>3
      <4>2. stream' \in Stream
        BY <2>1, <3>2, <3>3, <4>1 DEF Stream
      <4>3. \A b \in DOMAIN Append(out, more) : Len(Append(out, more)[b]) = BatchSize
        BY <2>1, <3>3, AppendedBatch
      <4>4. Holds(Samplings, read', Append(stream'.out, stream'.batch))
        <5>1. read' \in Nat /\ Holds(Samplings, read', stream'.out)
          BY <2>1, <3>1, <4>1
        <5>2. QED BY <4>1, <5>1, HoldsEmpty
      <4>5. QED BY <2>1, <3>1, <4>1, <4>2, <4>3, <4>4 DEF VisualInv
    <3>4. CASE Len(more) # BatchSize
      <4>1. stream'.batch = more /\ stream'.out = out /\ stream' \in Stream /\ Len(more) < BatchSize
        BY <2>1, <3>2, <3>4 DEF Stream
      <4>2. QED BY <2>1, <3>1, <4>1 DEF VisualInv
    <3>5. QED BY <3>3, <3>4
  <2>5. QED BY <2>2, <2>3, <2>4
<1>3. VisualInv => BatchesRight(Samplings, BatchSize, read, Flushed(stream))
  <2> SUFFICES ASSUME VisualInv
               PROVE  BatchesRight(Samplings, BatchSize, read, Flushed(stream))
    OBVIOUS
  <2>1. stream.out \in Seq(Seq(Nat)) /\ stream.batch \in Seq(Nat)
    BY DEF VisualInv, Stream
  <2>2. CASE stream.batch = <<>>
    <3>1. Flushed(stream) = stream.out /\ Holds(Samplings, read, stream.out)
      BY <2>1, <2>2, HoldsEmpty DEF VisualInv, Flushed
    <3>2. QED BY <3>1 DEF VisualInv, BatchesRight
  <2>3. CASE stream.batch # <<>>
    <3>1. Flushed(stream) = Append(stream.out, stream.batch) /\ Len(stream.batch) \in 1 .. BatchSize
      BY <2>1, <2>3 DEF VisualInv, Flushed
    <3>2. QED BY <2>1, <3>1, AppendedBatch DEF VisualInv, BatchesRight
  <2>4. QED BY <2>2, <2>3
<1>4. QED BY <1>1, <1>2, <1>3, PTL DEF VisualLoop

-----------------------------------------------------------------------------
(* What the action capability is given of the batches, one share after the *)
(* other, and the clips it cuts from it.                                   *)

CONSTANT ClipFrames
VARIABLES given, cut

ActionInit == given = <<>> /\ cut = NoClips

Process ==
  \E share \in Seq(Nat) \ {<<>>} :
    given' = given \o share /\ cut' = CutClips(ClipFrames, cut, share)

ActionLoop == ActionInit /\ [][Process]_<<given, cut>>

\* The first whole clips of some frames, and the frames from a place on.
Whole(items, many) ==
  [g \in 1 .. many |-> SubSeq(items, (g - 1) * ClipFrames + 1, g * ClipFrames)]

From(items, place) == SubSeq(items, place + 1, Len(items))

ActionInv ==
  /\ given \in Seq(Nat)
  /\ cut = [clips |-> Whole(given, Len(given) \div ClipFrames),
            pending |-> From(given, (Len(given) \div ClipFrames) * ClipFrames)]

LEMMA SubSeqIs ==
  ASSUME NEW s \in Seq(Nat), NEW a \in Nat \ {0}, NEW b \in Nat, b <= Len(s), a <= b + 1
  PROVE  /\ SubSeq(s, a, b) \in Seq(Nat) /\ Len(SubSeq(s, a, b)) = b - a + 1
         /\ \A i \in 1 .. (b - a + 1) : SubSeq(s, a, b)[i] = s[a + i - 1]
PROOF OBVIOUS

LEMMA SameSeq ==
  ASSUME NEW S, NEW s \in Seq(S), NEW t \in Seq(S), Len(s) = Len(t),
         \A i \in 1 .. Len(s) : s[i] = t[i]
  PROVE  s = t
PROOF OBVIOUS

LEMMA AppendIs ==
  ASSUME NEW S, NEW s \in Seq(S), NEW e \in S
  PROVE  Append(s, e) = [i \in 1 .. (Len(s) + 1) |-> IF i = Len(s) + 1 THEN e ELSE s[i]]
PROOF
<1> DEFINE t == [i \in 1 .. (Len(s) + 1) |-> IF i = Len(s) + 1 THEN e ELSE s[i]]
<1>1. Len(s) \in Nat /\ \A i \in 1 .. (Len(s) + 1) : i = Len(s) + 1 \/ s[i] \in S
  OBVIOUS
<1>2. t \in Seq(S) /\ Len(t) = Len(s) + 1
  BY <1>1
<1>3. /\ Append(s, e) \in Seq(S) /\ Len(Append(s, e)) = Len(s) + 1
      /\ \A i \in 1 .. (Len(s) + 1) : Append(s, e)[i] = IF i = Len(s) + 1 THEN e ELSE s[i]
  OBVIOUS
<1>4. \A i \in 1 .. (Len(s) + 1) : Append(s, e)[i] = t[i]
  BY <1>3
<1> HIDE DEF t
<1>5. Append(s, e) = t
  BY <1>2, <1>3, <1>4, SameSeq
<1>6. QED BY <1>5 DEF t

LEMMA FromIs ==
  ASSUME NEW s \in Seq(Nat), NEW d \in Nat, d <= Len(s)
  PROVE  /\ From(s, d) \in Seq(Nat) /\ Len(From(s, d)) = Len(s) - d
         /\ \A i \in 1 .. (Len(s) - d) : From(s, d)[i] = s[d + i]
PROOF
<1> DEFINE a == d + 1
           b == Len(s)
           p == SubSeq(s, a, b)
<1>1. /\ a \in Nat \ {0} /\ b \in Nat /\ b <= Len(s) /\ a <= b + 1 /\ b - a + 1 = Len(s) - d
      /\ \A i \in 1 .. (b - a + 1) : a + i - 1 = d + i
  OBVIOUS
<1> HIDE DEF a, b
<1>2. p \in Seq(Nat) /\ Len(p) = b - a + 1 /\ \A i \in 1 .. (b - a + 1) : p[i] = s[a + i - 1]
  BY <1>1, SubSeqIs
<1>3. From(s, d) = p
  BY DEF From, a, b
<1> HIDE DEF p
<1>4. QED BY <1>1, <1>2, <1>3

\* A piece of a piece.
LEMMA SubSeqWithin ==
  ASSUME NEW s \in Seq(Nat), NEW p \in Seq(Nat), NEW d \in Nat, d + Len(p) <= Len(s),
         \A i \in 1 .. Len(p) : p[i] = s[d + i],
         NEW a \in Nat \ {0}, NEW b \in Nat, b <= Len(p), a <= b + 1
  PROVE  SubSeq(p, a, b) = SubSeq(s, d + a, d + b)
PROOF
<1> DEFINE t == SubSeq(p, a, b)
           u == SubSeq(s, d + a, d + b)
<1>1. t \in Seq(Nat) /\ Len(t) = b - a + 1 /\ \A i \in 1 .. (b - a + 1) : t[i] = p[a + i - 1]
  BY SubSeqIs
<1>2. /\ d + a \in Nat \ {0} /\ d + b \in Nat /\ Len(p) \in Nat /\ Len(s) \in Nat
      /\ d + b <= Len(s) /\ d + a <= d + b + 1 /\ d + b - (d + a) + 1 = b - a + 1
  OBVIOUS
<1>3. /\ u \in Seq(Nat) /\ Len(u) = b - a + 1
      /\ \A i \in 1 .. (b - a + 1) : u[i] = s[d + a + i - 1]
  BY <1>2, SubSeqIs
<1> HIDE DEF t, u
<1>4. ASSUME NEW i \in 1 .. Len(t) PROVE t[i] = u[i]
  <2>1. a + i - 1 \in 1 .. Len(p) /\ d + (a + i - 1) = d + a + i - 1
    BY <1>1, <1>2
  <2>2. QED BY <1>1, <1>3, <2>1
<1>5. t = u
  BY <1>1, <1>3, <1>4, SameSeq
<1>6. QED BY <1>5 DEF t, u

LEMMA LesserIs ==
  ASSUME NEW a \in Int, NEW b \in Int, a <= b
  PROVE  Min({a, b}) = a /\ Min({b, a}) = a
PROOF BY DEF Min

LEMMA WholeIs ==
  ASSUME ClipFrames \in Nat \ {0}, NEW items \in Seq(Nat), NEW many \in Nat,
         many * ClipFrames <= Len(items)
  PROVE  /\ Whole(items, many) \in Seq(Seq(Nat)) /\ Len(Whole(items, many)) = many
         /\ \A g \in 1 .. many :
              Whole(items, many)[g] = SubSeq(items, (g - 1) * ClipFrames + 1, g * ClipFrames)
PROOF
<1>1. ASSUME NEW g \in 1 .. many
      PROVE  SubSeq(items, (g - 1) * ClipFrames + 1, g * ClipFrames) \in Seq(Nat)
  <2>1. /\ g * ClipFrames <= many * ClipFrames /\ g * ClipFrames \in Nat /\ many * ClipFrames \in Nat
        /\ (g - 1) * ClipFrames \in Nat /\ (g - 1) * ClipFrames <= g * ClipFrames
    BY MulMono
  <2>2. QED BY <2>1, SubSeqIs
<1>2. QED BY <1>1 DEF Whole

\* Batched cuts whole clips, and a shorter one if frames are left.
LEMMA BatchedIs ==
  ASSUME ClipFrames \in Nat \ {0}, NEW items \in Seq(Nat)
  PROVE  LET many == Len(items) \div ClipFrames
             rest == From(items, many * ClipFrames) IN
           Batched(items, ClipFrames)
             = IF rest = <<>> THEN Whole(items, many) ELSE Append(Whole(items, many), rest)
PROOF
<1> DEFINE n == Len(items)
           many == n \div ClipFrames
           rest == From(items, many * ClipFrames)
           groups == (n + ClipFrames - 1) \div ClipFrames
<1>1. /\ n \in Nat /\ many \in Nat /\ many * ClipFrames \in Nat
      /\ many * ClipFrames <= n /\ n < many * ClipFrames + ClipFrames
  <2>1. n \in Nat
    OBVIOUS
  <2> HIDE DEF n
  <2>2. many \in Nat /\ many * ClipFrames <= n /\ n < many * ClipFrames + ClipFrames
    BY <2>1, Quotient
  <2>3. QED BY <2>1, <2>2
<1>2. rest \in Seq(Nat) /\ Len(rest) = n - many * ClipFrames
  BY <1>1, SubSeqIs DEF From
<1>3. Batched(items, ClipFrames)
        = [g \in 1 .. groups |->
             SubSeq(items, (g - 1) * ClipFrames + 1, Min({g * ClipFrames, n}))]
  BY DEF Batched
<1> HIDE DEF n, many, rest, groups
<1>4. \A g \in 1 .. many : Min({g * ClipFrames, n}) = g * ClipFrames
  <2> TAKE g \in 1 .. many
  <2>1. g * ClipFrames <= many * ClipFrames /\ g * ClipFrames \in Nat
    BY <1>1, MulMono
  <2>2. QED BY <1>1, <2>1, LesserIs
<1>5. CASE rest = <<>>
  <2>1. n = many * ClipFrames
    BY <1>1, <1>2, <1>5
  <2>2. groups = many
    <3>1. /\ n + ClipFrames - 1 \in Nat /\ many * ClipFrames <= n + ClipFrames - 1
          /\ n + ClipFrames - 1 < many * ClipFrames + ClipFrames
      BY <1>1, <2>1
    <3>2. QED BY <1>1, <3>1, QuotientUnique DEF groups
  <2>3. QED BY <1>3, <1>4, <1>5, <2>2 DEF Whole, many, n, rest
<1>6. CASE rest # <<>>
  <2>1. n > many * ClipFrames
    BY <1>1, <1>2, <1>6
  <2>2. /\ many + 1 \in Nat /\ (many + 1) * ClipFrames = many * ClipFrames + ClipFrames
        /\ (many + 1) * ClipFrames \in Nat
    BY <1>1
  <2>3. groups = many + 1
    <3>1. /\ n + ClipFrames - 1 \in Nat /\ (many + 1) * ClipFrames <= n + ClipFrames - 1
          /\ n + ClipFrames - 1 < (many + 1) * ClipFrames + ClipFrames
      BY <1>1, <2>1, <2>2
    <3>2. QED BY <2>2, <3>1, QuotientUnique DEF groups
  <2>4. Min({(many + 1) * ClipFrames, n}) = n
    BY <1>1, <2>2, LesserIs
  <2>5. ASSUME NEW g \in 1 .. (many + 1), g = many + 1
        PROVE  rest = SubSeq(items, (g - 1) * ClipFrames + 1, Min({g * ClipFrames, n}))
    <3>1. g - 1 = many /\ Min({g * ClipFrames, n}) = n
      BY <1>1, <2>4, <2>5
    <3>2. QED BY <3>1 DEF rest, From, n
  <2>6. Append(Whole(items, many), rest)
          = [g \in 1 .. (many + 1) |->
               IF g = many + 1 THEN rest
               ELSE Whole(items, many)[g]]
    <3>1. Whole(items, many) \in Seq(Seq(Nat)) /\ Len(Whole(items, many)) = many
      BY <1>1, WholeIs DEF n
    <3>2. QED BY <1>2, <3>1, AppendIs
  <2>7. \A g \in 1 .. (many + 1) : g = many + 1 \/ g \in 1 .. many
    BY <1>1
  <2>8. Batched(items, ClipFrames) = Append(Whole(items, many), rest)
    <3>1. \A g \in 1 .. (many + 1) :
            SubSeq(items, (g - 1) * ClipFrames + 1, Min({g * ClipFrames, n}))
              = IF g = many + 1 THEN rest ELSE Whole(items, many)[g]
      <4> TAKE g \in 1 .. (many + 1)
      <4>1. CASE g = many + 1
        BY <2>5, <4>1
      <4>2. CASE g # many + 1
        <5>1. g \in 1 .. many
          BY <2>7, <4>2
        <5>2. Whole(items, many)[g] = SubSeq(items, (g - 1) * ClipFrames + 1, g * ClipFrames)
          BY <1>1, <5>1, WholeIs DEF n
        <5>3. QED BY <1>4, <4>2, <5>1, <5>2
      <4>3. QED BY <4>1, <4>2
    <3>2. QED BY <1>3, <2>3, <2>6, <3>1
  <2>9. QED BY <1>6, <2>8 DEF many, n, rest
<1>7. QED BY <1>5, <1>6

LEMMA ConcatIs ==
  ASSUME NEW S, NEW s \in Seq(S), NEW t \in Seq(S)
  PROVE  /\ s \o t \in Seq(S) /\ Len(s \o t) = Len(s) + Len(t) /\ Len(s) \in Nat /\ Len(t) \in Nat
         /\ \A i \in 1 .. Len(s) : (s \o t)[i] = s[i]
         /\ \A i \in 1 .. Len(t) : (s \o t)[Len(s) + i] = t[i]
         /\ \A i \in 1 .. Len(s \o t) : i \in 1 .. Len(s) \/ i - Len(s) \in 1 .. Len(t)
PROOF OBVIOUS

LEMMA ConcatAfter ==
  ASSUME NEW S, NEW s \in Seq(S), NEW t \in Seq(S), NEW i \in 1 .. Len(t)
  PROVE  (s \o t)[Len(s) + i] = t[i]
PROOF BY ConcatIs

\* What is given later changes no clip.
LEMMA WholeKept ==
  ASSUME ClipFrames \in Nat \ {0}, NEW s \in Seq(Nat), NEW t \in Seq(Nat), NEW many \in Nat,
         many * ClipFrames <= Len(s)
  PROVE  Whole(s \o t, many) = Whole(s, many)
PROOF
<1> DEFINE all == s \o t
<1>1. /\ all \in Seq(Nat) /\ Len(s) \in Nat /\ Len(s) <= Len(all) /\ Len(all) \in Nat
      /\ \A i \in 1 .. Len(s) : s[i] = all[0 + i]
  <2>1. \A i \in 1 .. Len(s) : 0 + i = i
    OBVIOUS
  <2>2. QED BY <2>1, ConcatIs
<1> HIDE DEF all
<1>2. ASSUME NEW g \in 1 .. many
      PROVE  SubSeq(s, (g - 1) * ClipFrames + 1, g * ClipFrames)
               = SubSeq(all, (g - 1) * ClipFrames + 1, g * ClipFrames)
  <2> DEFINE a == (g - 1) * ClipFrames + 1
             b == g * ClipFrames
  <2>1. many * ClipFrames \in Nat /\ b \in Nat /\ b <= many * ClipFrames
    BY MulMono
  <2>2. a \in Nat \ {0} /\ a <= b + 1
    OBVIOUS
  <2> HIDE DEF a, b
  <2>3. b <= Len(s) /\ 0 + Len(s) <= Len(all) /\ 0 + a = a /\ 0 + b = b
    BY <1>1, <2>1, <2>2
  <2>4. SubSeq(s, a, b) = SubSeq(all, 0 + a, 0 + b)
    BY <1>1, <2>1, <2>2, <2>3, SubSeqWithin
  <2>5. QED BY <2>3, <2>4 DEF a, b
<1>3. QED BY <1>2 DEF Whole, all

\* The whole clips of what is left follow those before.
LEMMA WholeSplit ==
  ASSUME ClipFrames \in Nat \ {0}, NEW all \in Seq(Nat), NEW w \in Nat, NEW q \in Nat,
         w * ClipFrames + q * ClipFrames <= Len(all)
  PROVE  Whole(all, w) \o Whole(SubSeq(From(all, w * ClipFrames), 1, q * ClipFrames), q)
           = Whole(all, w + q)
PROOF
<1> DEFINE d == w * ClipFrames
           k == q * ClipFrames
           p == From(all, d)
           part == SubSeq(p, 1, k)
           left == Whole(all, w)
           right == Whole(part, q)
<1>1. d \in Nat /\ k \in Nat /\ Len(all) \in Nat /\ (w + q) * ClipFrames = d + k /\ w + q \in Nat
  OBVIOUS
<1>2. d + k <= Len(all)
  OBVIOUS
<1> HIDE DEF d, k
<1>3. p \in Seq(Nat) /\ Len(p) = Len(all) - d /\ \A i \in 1 .. Len(p) : p[i] = all[d + i]
  <2>1. d <= Len(all)
    BY <1>1, <1>2
  <2>2. /\ p \in Seq(Nat) /\ Len(p) = Len(all) - d
        /\ \A i \in 1 .. (Len(all) - d) : p[i] = all[d + i]
    BY <1>1, <2>1, FromIs
  <2> HIDE DEF p
  <2>3. QED BY <2>2
<1> HIDE DEF p
<1>4. part \in Seq(Nat) /\ Len(part) = k /\ \A i \in 1 .. k : part[i] = all[d + i]
  <2>1. k <= Len(p) /\ 1 \in Nat \ {0} /\ 1 <= k + 1 /\ k - 1 + 1 = k
    BY <1>1, <1>2, <1>3
  <2>2. \A i \in 1 .. k : 1 + i - 1 = i /\ i \in 1 .. Len(p)
    BY <1>1, <2>1
  <2>3. /\ part \in Seq(Nat) /\ Len(part) = k - 1 + 1
        /\ \A i \in 1 .. (k - 1 + 1) : part[i] = p[1 + i - 1]
    BY <1>1, <1>3, <2>1, SubSeqIs
  <2> HIDE DEF part
  <2>4. QED BY <1>3, <2>1, <2>2, <2>3
<1> HIDE DEF part
<1>5. /\ left \in Seq(Seq(Nat)) /\ Len(left) = w
      /\ \A g \in 1 .. w : left[g] = SubSeq(all, (g - 1) * ClipFrames + 1, g * ClipFrames)
  BY <1>1, <1>2, WholeIs DEF d
<1>6. /\ right \in Seq(Seq(Nat)) /\ Len(right) = q
      /\ \A g \in 1 .. q : right[g] = SubSeq(part, (g - 1) * ClipFrames + 1, g * ClipFrames)
  <2>1. q * ClipFrames <= Len(part)
    BY <1>1, <1>4 DEF k
  <2>2. QED BY <1>4, <2>1, WholeIs
<1>7. /\ Whole(all, w + q) \in Seq(Seq(Nat)) /\ Len(Whole(all, w + q)) = w + q
      /\ \A g \in 1 .. (w + q) :
           Whole(all, w + q)[g] = SubSeq(all, (g - 1) * ClipFrames + 1, g * ClipFrames)
  BY <1>1, <1>2, WholeIs
<1> HIDE DEF left, right
<1>8. ASSUME NEW g \in 1 .. q PROVE right[g] = Whole(all, w + q)[w + g]
  <2> DEFINE a == (g - 1) * ClipFrames + 1
             b == g * ClipFrames
  <2>1. b \in Nat /\ b <= k /\ a \in Nat \ {0} /\ a <= b + 1
    <3>1. g * ClipFrames <= q * ClipFrames
      BY MulMono
    <3>2. QED BY <3>1 DEF k
  <2>2. /\ (w + g - 1) * ClipFrames + 1 = d + a /\ (w + g) * ClipFrames = d + b
        /\ w + g \in 1 .. (w + q)
    BY DEF d
  <2> HIDE DEF a, b
  <2>3. SubSeq(part, a, b) = SubSeq(all, d + a, d + b)
    BY <1>1, <1>2, <1>4, <2>1, SubSeqWithin
  <2>4. Whole(all, w + q)[w + g] = SubSeq(all, d + a, d + b)
    <3>1. Whole(all, w + q)[w + g] = SubSeq(all, (w + g - 1) * ClipFrames + 1, (w + g) * ClipFrames)
      BY <1>7, <2>2
    <3>2. QED BY <2>2, <3>1
  <2>5. QED BY <1>6, <2>3, <2>4 DEF a, b
<1>9. ASSUME NEW i \in 1 .. Len(left \o right)
      PROVE  (left \o right)[i] = Whole(all, w + q)[i]
  <2>1. CASE i \in 1 .. w
    <3>1. i \in 1 .. (w + q)
      BY <2>1
    <3>2. (left \o right)[i] = left[i]
      BY <1>5, <1>6, <2>1, ConcatIs
    <3>3. QED BY <1>5, <1>7, <2>1, <3>1, <3>2
  <2>2. CASE i - w \in 1 .. q
    <3>1. w + (i - w) = i
      BY <1>5, <1>6, ConcatIs
    <3>2. (left \o right)[w + (i - w)] = right[i - w]
      <4>1. \A j \in 1 .. q : (left \o right)[w + j] = right[j]
        <5>1. \A j \in 1 .. Len(right) : (left \o right)[Len(left) + j] = right[j]
          <6> TAKE j \in 1 .. Len(right)
          <6>1. left \in Seq(Seq(Nat)) /\ right \in Seq(Seq(Nat))
            BY <1>5, <1>6
          <6>2. QED BY ONLY <6>1, j \in 1 .. Len(right), ConcatAfter
        <5>2. QED BY <1>5, <1>6, <5>1
      <4>2. QED BY <2>2, <4>1
    <3>3. QED BY <1>8, <2>2, <3>1, <3>2
  <2>3. QED BY <1>5, <1>6, <2>1, <2>2, ConcatIs
<1>10. left \o right \in Seq(Seq(Nat)) /\ Len(left \o right) = w + q
  BY <1>5, <1>6, ConcatIs
<1>11. left \o right = Whole(all, w + q)
  BY <1>7, <1>9, <1>10, SameSeq
<1>12. QED BY <1>11 DEF left, right, part, p, d, k

LEMMA FromFrom ==
  ASSUME NEW s \in Seq(Nat), NEW d \in Nat, NEW k \in Nat, d + k <= Len(s)
  PROVE  From(From(s, d), k) = From(s, d + k)
PROOF
<1> DEFINE p == From(s, d)
           t == From(p, k)
           u == From(s, d + k)
<1>1. p \in Seq(Nat) /\ Len(p) = Len(s) - d /\ \A i \in 1 .. (Len(s) - d) : p[i] = s[d + i]
  <2>1. d <= Len(s)
    OBVIOUS
  <2>2. QED BY <2>1, FromIs
<1> HIDE DEF p
<1>2. /\ t \in Seq(Nat) /\ Len(t) = Len(p) - k
      /\ \A i \in 1 .. (Len(p) - k) : t[i] = p[k + i]
  <2>1. k <= Len(p)
    BY <1>1
  <2>2. QED BY <1>1, <2>1, FromIs
<1>3. /\ u \in Seq(Nat) /\ Len(u) = Len(s) - (d + k)
      /\ \A i \in 1 .. (Len(s) - (d + k)) : u[i] = s[d + k + i]
  BY FromIs
<1> HIDE DEF t, u
<1>4. Len(t) = Len(u) /\ Len(s) \in Nat
  BY <1>1, <1>2, <1>3
<1>5. ASSUME NEW i \in 1 .. Len(t) PROVE t[i] = u[i]
  <2>1. k + i \in 1 .. (Len(s) - d) /\ d + (k + i) = d + k + i
    BY <1>1, <1>2, <1>4
  <2>2. t[i] = p[k + i] /\ p[k + i] = s[d + (k + i)] /\ u[i] = s[d + k + i]
    BY <1>1, <1>2, <1>3, <1>4, <2>1
  <2>3. QED BY <2>1, <2>2
<1>6. t = u
  BY <1>2, <1>3, <1>4, <1>5, SameSeq
<1>7. QED BY <1>6 DEF t, u, p

\* What is left, and what follows, is what is left of both.
LEMMA FromJoined ==
  ASSUME NEW s \in Seq(Nat), NEW t \in Seq(Nat), NEW d \in Nat, d <= Len(s)
  PROVE  From(s, d) \o t = From(s \o t, d)
PROOF
<1> DEFINE all == s \o t
           rest == From(s, d)
           late == From(all, d)
           joined == rest \o t
           m == Len(s) - d
<1>1. /\ all \in Seq(Nat) /\ Len(all) = Len(s) + Len(t) /\ Len(s) \in Nat /\ Len(t) \in Nat
      /\ \A i \in 1 .. Len(s) : all[i] = s[i]
      /\ \A i \in 1 .. Len(t) : all[Len(s) + i] = t[i]
  <2>1. \A i \in 1 .. Len(t) : all[Len(s) + i] = t[i]
    BY ConcatAfter
  <2>2. QED BY <2>1, ConcatIs
<1> HIDE DEF all
<1>2. /\ rest \in Seq(Nat) /\ Len(rest) = m /\ m \in Nat
      /\ \A i \in 1 .. m : rest[i] = s[d + i]
  BY <1>1, FromIs
<1> HIDE DEF rest
<1>3. /\ joined \in Seq(Nat) /\ Len(joined) = m + Len(t)
      /\ \A i \in 1 .. m : joined[i] = rest[i]
      /\ \A i \in 1 .. Len(t) : joined[m + i] = t[i]
      /\ \A i \in 1 .. Len(joined) : i \in 1 .. m \/ i - m \in 1 .. Len(t)
  <2>1. \A i \in 1 .. Len(t) : joined[Len(rest) + i] = t[i]
    BY <1>2, ConcatAfter
  <2>2. \A i \in 1 .. Len(t) : joined[m + i] = t[i]
    <3> HIDE DEF m, joined
    <3>1. QED BY <1>2, <2>1
  <2>3. /\ joined \in Seq(Nat) /\ Len(joined) = Len(rest) + Len(t)
        /\ \A i \in 1 .. Len(rest) : joined[i] = rest[i]
        /\ \A i \in 1 .. Len(joined) : i \in 1 .. Len(rest) \/ i - Len(rest) \in 1 .. Len(t)
    BY <1>2, ConcatIs
  <2> HIDE DEF m, joined
  <2>4. QED BY <1>2, <2>2, <2>3
<1>4. /\ late \in Seq(Nat) /\ Len(late) = m + Len(t)
      /\ \A i \in 1 .. (m + Len(t)) : late[i] = all[d + i]
  <2>1. d <= Len(all) /\ Len(all) - d = m + Len(t)
    BY <1>1
  <2>2. /\ late \in Seq(Nat) /\ Len(late) = Len(all) - d
        /\ \A i \in 1 .. (Len(all) - d) : late[i] = all[d + i]
    BY <1>1, <2>1, FromIs
  <2> HIDE DEF late, m
  <2>3. QED BY <2>1, <2>2
<1> HIDE DEF joined, late
<1>5. ASSUME NEW i \in 1 .. Len(joined) PROVE joined[i] = late[i]
  <2>1. CASE i \in 1 .. m
    <3>1. d + i \in 1 .. Len(s) /\ i \in 1 .. (m + Len(t))
      BY <1>1, <1>2, <2>1
    <3>2. QED BY <1>1, <1>2, <1>3, <1>4, <2>1, <3>1
  <2>2. CASE i - m \in 1 .. Len(t)
    <3> DEFINE j == i - m
    <3>1. m + j = i /\ d + i = Len(s) + j /\ i \in 1 .. (m + Len(t))
      BY <1>1, <1>2, <1>3
    <3>2. joined[m + j] = t[j] /\ all[Len(s) + j] = t[j]
      BY <1>1, <1>3, <2>2
    <3> HIDE DEF j, m
    <3>3. QED BY <1>4, <3>1, <3>2
  <2>3. QED BY <1>3, <2>1, <2>2
<1>6. joined = late
  BY <1>3, <1>4, <1>5, SameSeq
<1>7. QED BY <1>6 DEF joined, late, rest, all

\* One more share: what was pending and the share are what follows the whole clips.
LEMMA ShareCut ==
  ASSUME ClipFrames \in Nat \ {0}, ActionInv, NEW share \in Seq(Nat),
         given' = given \o share, cut' = CutClips(ClipFrames, cut, share)
  PROVE  ActionInv'
PROOF
<1> DEFINE n == Len(given)
           w == n \div ClipFrames
           d == w * ClipFrames
           all == given \o share
           pending == From(given, d) \o share
           q == Len(pending) \div ClipFrames
           k == q * ClipFrames
           part == SubSeq(pending, 1, k)
<1>1. /\ given \in Seq(Nat) /\ n \in Nat /\ Len(share) \in Nat
      /\ cut = [clips |-> Whole(given, w), pending |-> From(given, d)]
  BY DEF ActionInv
<1>2. w \in Nat /\ d \in Nat /\ d <= n /\ n < d + ClipFrames
  <2> HIDE DEF n
  <2>1. w \in Nat /\ d <= n /\ n < d + ClipFrames
    BY <1>1, Quotient
  <2>2. QED BY <2>1
<1> HIDE DEF w, d
<1>3. all \in Seq(Nat) /\ Len(all) = n + Len(share)
  BY <1>1, ConcatIs
<1>4. pending = From(all, d) /\ pending \in Seq(Nat) /\ Len(pending) = n + Len(share) - d
  <2>1. pending = From(all, d)
    BY <1>1, <1>2, FromJoined
  <2>2. d <= Len(all)
    BY <1>1, <1>2, <1>3
  <2> HIDE DEF pending, all
  <2>3. QED BY <1>2, <1>3, <2>1, <2>2, FromIs
<1> HIDE DEF n, pending, all
<1>5. q \in Nat /\ k \in Nat /\ k <= Len(pending) /\ Len(pending) < k + ClipFrames
  <2>1. Len(pending) \in Nat
    BY <1>4
  <2>2. q \in Nat /\ k <= Len(pending) /\ Len(pending) < k + ClipFrames
    BY <2>1, Quotient
  <2>3. QED BY <2>2
<1>6. part \in Seq(Nat) /\ Len(part) = k
  <2> HIDE DEF k
  <2>1. 1 <= k + 1 /\ k - 1 + 1 = k /\ 1 \in Nat \ {0}
    BY <1>5
  <2>2. part \in Seq(Nat) /\ Len(part) = k - 1 + 1
    BY <1>4, <1>5, <2>1, SubSeqIs
  <2>3. QED BY <2>1, <2>2
<1> HIDE DEF q, part
<1>7. Batched(part, ClipFrames) = Whole(part, q)
  <2>1. Len(part) \div ClipFrames = q
    <3>1. q * ClipFrames <= Len(part) /\ Len(part) < q * ClipFrames + ClipFrames /\ Len(part) \in Nat
      BY <1>5, <1>6
    <3>2. QED BY <1>5, <3>1, QuotientUnique
  <2>2. From(part, q * ClipFrames) = <<>>
    BY <1>5, <1>6 DEF From
  <2>3. QED BY <1>6, <2>1, <2>2, BatchedIs
<1>8. (w + q) * ClipFrames = d + k /\ w + q \in Nat /\ d + k <= Len(all)
  BY <1>1, <1>2, <1>3, <1>4, <1>5 DEF d
<1>9. Len(all) \div ClipFrames = w + q
  <2>1. Len(all) \in Nat /\ Len(all) < d + k + ClipFrames
    BY <1>1, <1>2, <1>3, <1>4, <1>5
  <2>2. QED BY <1>8, <2>1, QuotientUnique
<1> HIDE DEF k
<1>10. CutClips(ClipFrames, cut, share)
         = [clips |-> Whole(given, w) \o Batched(part, ClipFrames), pending |-> From(pending, k)]
  BY <1>1 DEF CutClips, From, part, pending, q, k
<1>11. Whole(given, w) \o Batched(part, ClipFrames) = Whole(all, w + q)
  <2>1. Whole(given, w) = Whole(all, w)
    BY <1>1, <1>2, WholeKept DEF d, n, all
  <2>2. part = SubSeq(From(all, w * ClipFrames), 1, q * ClipFrames)
    BY <1>4 DEF part, d, k
  <2>3. w * ClipFrames + q * ClipFrames <= Len(all)
    BY <1>8 DEF d, k
  <2>4. Whole(all, w) \o Whole(part, q) = Whole(all, w + q)
    BY <1>2, <1>3, <1>5, <2>2, <2>3, WholeSplit
  <2>5. QED BY <1>7, <2>1, <2>4
<1>12. From(pending, k) = From(all, (w + q) * ClipFrames)
  <2>1. From(From(all, d), k) = From(all, d + k)
    BY <1>2, <1>3, <1>5, <1>8, FromFrom
  <2>2. QED BY <1>4, <1>8, <2>1
<1>13. QED BY <1>3, <1>9, <1>10, <1>11, <1>12 DEF ActionInv, all

\* However the frames of its sampling are shared out among the batches, the clips that
\* the action capability makes of them are those of one share with all of them: a video
\* indexed together with other capabilities gets the same records of this one.
THEOREM ClipsAsOne ==
  ASSUME ClipFrames \in Nat \ {0}
  PROVE  ActionLoop => [](Finalized(cut) = Batched(given, ClipFrames))
PROOF
<1>1. ActionInit => ActionInv
  <2> SUFFICES ASSUME ActionInit
               PROVE  ActionInv
    OBVIOUS
  <2>1. given = <<>> /\ cut = [clips |-> <<>>, pending |-> <<>>] /\ Len(given) = 0
    BY DEF ActionInit, NoClips
  <2>2. Len(given) \div ClipFrames = 0
    BY <2>1, QuotientUnique
  <2>3. Whole(given, 0) = <<>> /\ From(given, 0 * ClipFrames) = <<>>
    BY <2>1 DEF Whole, From
  <2>4. QED BY <2>1, <2>2, <2>3 DEF ActionInv
<1>2. ActionInv /\ [Process]_<<given, cut>> => ActionInv'
  BY ShareCut DEF Process, ActionInv
<1>3. ActionInv => Finalized(cut) = Batched(given, ClipFrames)
  BY BatchedIs DEF ActionInv, Finalized
<1>4. QED BY <1>1, <1>2, <1>3, PTL DEF ActionLoop

===============================================================================
