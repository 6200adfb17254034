---------------------------- MODULE EvidenceProofs ----------------------------
(***************************************************************************)
(* Proofs about SearchFusion, for every list of hits, and EvidenceRange,   *)
(* for every piece of evidence.                                            *)
(*                                                                         *)
(* The list is read by a loop, so that what holds of the moments after any *)
(* number of hits is an invariant of the loop.                             *)
(***************************************************************************)
EXTENDS SearchFusion, EvidenceRange, TLAPS

CONSTANT Hits
VARIABLES read, moments

\* The hits a search joins: those of all its modalities, sorted.
Sorted == Hits \in Seq({h \in [media : Nat, start : Nat, end : Nat] : h.start < h.end}) /\ Ordered(Hits)

Init == read = 0 /\ moments = <<>>

Next ==
  /\ read < Len(Hits)
  /\ read' = read + 1
  /\ moments' = Extend(moments, Hits[read + 1], read + 1)

Loop == Init /\ [][Next]_<<read, moments>>

-----------------------------------------------------------------------------
Moment == [media : Nat, hits : SUBSET Nat, start : Nat, end : Nat]

Types == read \in 0..Len(Hits) /\ moments \in Seq(Moment)

\* A moment's hits are some of those read.
FromRead == \A i \in DOMAIN moments : moments[i].hits \subseteq 1..read

\* No moment is later than a hit that was read.
Behind ==
  \A i \in DOMAIN moments :
    \E n \in 1..read : Hits[n].media = moments[i].media /\ Hits[n].start = moments[i].start

\* Only the last moment can share anything with the hits to come.
Closed ==
  \A i, j \in DOMAIN moments :
    i < j => \/ moments[i].media < moments[j].media
             \/ moments[i].media = moments[j].media /\ moments[i].end <= moments[j].start

FusionInv ==
  /\ Types /\ FromRead /\ Behind /\ Closed
  /\ MomentsValid(Hits, moments) /\ HitsOnce(read, moments)

\* What the loop reads is a hit, no earlier than those before it.
LEMMA Read ==
  ASSUME Sorted, Types, read < Len(Hits)
  PROVE  /\ read + 1 \in DOMAIN Hits /\ IsHit(Hits[read + 1])
         /\ \A n \in 1..read :
              \/ Hits[n].media < Hits[read + 1].media
              \/ Hits[n].media = Hits[read + 1].media /\ Hits[n].start <= Hits[read + 1].start
PROOF
<1>1. read + 1 \in DOMAIN Hits /\ read \in Nat
  BY DEF Sorted, Types
<1>2. IsHit(Hits[read + 1])
  BY <1>1 DEF Sorted, IsHit
<1>3. ASSUME NEW n \in 1..read
      PROVE  \/ Hits[n].media < Hits[read + 1].media
             \/ Hits[n].media = Hits[read + 1].media /\ Hits[n].start <= Hits[read + 1].start
  <2>1. n \in DOMAIN Hits /\ n < read + 1
    BY <1>1 DEF Sorted
  <2>2. QED BY <1>1, <2>1 DEF Sorted, Ordered
<1>4. QED BY <1>1, <1>2, <1>3

\* A hit that overlaps the last moment joins it.
LEMMA JoinStep ==
  ASSUME Sorted, FusionInv, Next, moments # <<>>, Overlaps(moments[Len(moments)], Hits[read + 1])
  PROVE  FusionInv'
PROOF
<1> DEFINE l == Len(moments)
           h == Hits[read + 1]
           m == Joined(moments[l], h, read + 1)
<1>1. /\ read' = read + 1 /\ read \in Nat /\ read < Len(Hits) /\ moments \in Seq(Moment) /\ l \in 1..l
      /\ moments' = [moments EXCEPT ![l] = m]
  BY DEF Next, Extend, FusionInv, Types
<1>2. IsHit(h) /\ moments[l] \in Moment
  BY <1>1, Read DEF Next, FusionInv
<1>3. m \in Moment /\ m.start < m.end /\ h.media = m.media /\ m.media = moments[l].media
      /\ moments[l].start <= m.start /\ m.end <= moments[l].end /\ m.start = h.start
  <2>1. moments[l].start <= h.start
    <3>1. PICK n \in 1..read : Hits[n].media = moments[l].media /\ Hits[n].start = moments[l].start
      BY <1>1 DEF FusionInv, Behind
    <3>2. QED BY <1>2, <3>1, Read DEF Next, FusionInv, Overlaps, IsHit, Moment
  <2>2. moments[l].start < moments[l].end
    BY <1>1 DEF FusionInv, MomentsValid
  <2>3. h.media = moments[l].media /\ h.start < moments[l].end
    BY DEF Overlaps
  <2>4. /\ {h.media, h.start, h.end} \subseteq Nat /\ h.start < h.end
        /\ {moments[l].media, moments[l].start, moments[l].end} \subseteq Nat
        /\ moments[l].hits \subseteq Nat
    BY <1>2 DEF IsHit, Moment
  <2>5. /\ m.media = moments[l].media /\ m.hits = moments[l].hits \cup {read + 1}
        /\ m.start = h.start /\ m.end = Sooner(moments[l].end, h.end)
    <3>1. Later(moments[l].start, h.start) = h.start
      BY <2>1, <2>4 DEF Later
    <3>2. QED BY <3>1 DEF Joined
  <2>6. m.end \in Nat /\ m.end <= moments[l].end /\ h.start < m.end
    BY <2>3, <2>4, <2>5 DEF Sooner
  <2>7. m \in Moment
    <3>1. m = [media |-> m.media, hits |-> m.hits, start |-> m.start, end |-> m.end]
      BY DEF Joined
    <3>2. read + 1 \in Nat
      BY <1>1
    <3>3. m.media \in Nat /\ m.hits \in SUBSET Nat /\ m.start \in Nat /\ m.end \in Nat
      BY <2>4, <2>5, <2>6, <3>2
    <3> HIDE DEF m
    <3>4. QED BY <3>1, <3>3 DEF Moment
  <2>8. QED BY <2>1, <2>3, <2>5, <2>6, <2>7
<1>4. Types'
  BY <1>1, <1>3 DEF Types
<1>5. Len(moments') = l /\ DOMAIN moments' = 1..l /\ moments'[l] = m
      /\ \A i \in 1..l : i # l => moments'[i] = moments[i]
  BY <1>1
<1>6. m.hits = moments[l].hits \cup {read + 1} /\ DOMAIN moments = 1..l
  BY <1>1 DEF Joined
<1> HIDE DEF m, l
<1>7. FromRead'
  BY <1>1, <1>5, <1>6 DEF FusionInv, FromRead
<1>8. Behind'
  <2>1. SUFFICES ASSUME NEW i \in 1..l
                 PROVE  \E n \in 1..read' : Hits[n].media = moments'[i].media /\ Hits[n].start = moments'[i].start
    BY <1>5 DEF Behind
  <2>2. CASE i = l
    BY <2>2, <1>1, <1>3, <1>5
  <2>3. CASE i # l
    BY <2>3, <1>1, <1>5, <1>6 DEF FusionInv, Behind
  <2>4. QED BY <2>2, <2>3
<1>9. Closed'
  <2>1. SUFFICES ASSUME NEW i \in 1..l, NEW j \in 1..l, i < j
                 PROVE  \/ moments'[i].media < moments'[j].media
                        \/ moments'[i].media = moments'[j].media /\ moments'[i].end <= moments'[j].start
    BY <1>5 DEF Closed
  <2>2. i # l /\ moments'[i] = moments[i] /\ moments[i] \in Moment /\ moments[l] \in Moment
    BY <1>1, <1>5, <1>6, <2>1
  <2>3. \/ moments[i].media < moments[j].media
        \/ moments[i].media = moments[j].media /\ moments[i].end <= moments[j].start
    BY <1>6, <2>1 DEF FusionInv, Closed
  <2>4. CASE j = l
    BY <1>3, <1>5, <2>2, <2>3, <2>4 DEF Moment
  <2>5. CASE j # l
    BY <1>5, <2>2, <2>3, <2>5
  <2>6. QED BY <2>4, <2>5
<1>10. MomentsValid(Hits, moments)'
  <2>1. ASSUME NEW n \in m.hits
        PROVE  Hits[n].media = m.media /\ Hits[n].start <= m.start /\ m.end <= Hits[n].end
    <3>1. CASE n = read + 1
      BY <3>1, <1>2, <1>3 DEF m, l, Joined, Later, Sooner, Moment, IsHit
    <3>2. CASE n \in moments[l].hits
      <4>1. n \in 1..read /\ n \in DOMAIN Hits
        BY <1>1, <1>6, <3>2 DEF FusionInv, FromRead, Sorted
      <4>2. Hits[n].media = moments[l].media /\ Hits[n].start <= moments[l].start /\ moments[l].end <= Hits[n].end
        BY <1>1, <1>6, <3>2 DEF FusionInv, MomentsValid
      <4>3. Hits[n].start \in Nat /\ Hits[n].end \in Nat
        BY <4>1 DEF Sorted
      <4>4. {m.start, m.end, moments[l].start, moments[l].end} \subseteq Nat
        BY <1>2, <1>3 DEF Moment
      <4>5. m.media = moments[l].media /\ moments[l].start <= m.start /\ m.end <= moments[l].end
        BY <1>3
      <4>6. QED BY <4>2, <4>3, <4>4, <4>5
    <3>3. QED BY <3>1, <3>2, <1>6
  <2>2. QED BY <2>1, <1>1, <1>3, <1>5, <1>6 DEF FusionInv, MomentsValid
<1>11. HitsOnce(read, moments)'
  <2>1. ASSUME NEW k \in 1..read'
        PROVE  \E i \in 1..l : k \in moments'[i].hits
    <3>1. CASE k = read + 1
      <4>1. l \in 1..l /\ k \in moments'[l].hits
        BY <1>1, <1>5, <1>6, <3>1
      <4>2. QED BY <4>1
    <3>2. CASE k \in 1..read
      <4>1. PICK i \in 1..l : k \in moments[i].hits
        BY <1>6, <3>2 DEF FusionInv, HitsOnce
      <4>2. k \in moments'[i].hits
        BY <1>1, <1>5, <1>6, <4>1
      <4>3. QED BY <4>2
    <3>3. k = read + 1 \/ k \in 1..read
      <4>1. read' = read + 1 /\ read \in Nat
        BY <1>1
      <4>2. QED BY <4>1
    <3>4. QED BY <3>1, <3>2, <3>3
  <2>2. \A i \in DOMAIN moments : read + 1 \notin moments[i].hits
    BY <1>1 DEF FusionInv, FromRead
  <2>3. QED BY <1>1, <1>5, <1>6, <2>1, <2>2 DEF FusionInv, HitsOnce
<1>12. QED BY <1>4, <1>7, <1>8, <1>9, <1>10, <1>11 DEF FusionInv

\* A hit that does not overlap the last moment opens the next.
LEMMA OpenStep ==
  ASSUME Sorted, FusionInv, Next, ~(moments # <<>> /\ Overlaps(moments[Len(moments)], Hits[read + 1]))
  PROVE  FusionInv'
PROOF
<1> DEFINE l == Len(moments)
           h == Hits[read + 1]
           m == Opened(h, read + 1)
<1>1. /\ read' = read + 1 /\ read \in Nat /\ read < Len(Hits) /\ moments \in Seq(Moment) /\ l \in Nat
      /\ moments' = Append(moments, m)
  BY DEF Next, Extend, FusionInv, Types
<1>2. IsHit(h) /\ m \in Moment
  BY <1>1, Read DEF Next, FusionInv, IsHit, Moment, Opened
<1>3. m.hits = {read + 1} /\ m.media = h.media /\ m.start = h.start /\ m.end = h.end /\ h.start < h.end
  BY <1>2 DEF Opened, IsHit
<1>4. Types'
  BY <1>1, <1>2 DEF Types
<1>5. Len(moments') = l + 1 /\ DOMAIN moments' = 1..(l + 1) /\ moments'[l + 1] = m
      /\ DOMAIN moments = 1..l /\ \A i \in 1..l : moments'[i] = moments[i] /\ moments[i] \in Moment
  BY <1>1
<1> HIDE DEF m, l
<1>6. FromRead'
  BY <1>1, <1>3, <1>5 DEF FusionInv, FromRead
<1>7. Behind'
  <2>1. SUFFICES ASSUME NEW i \in 1..(l + 1)
                 PROVE  \E n \in 1..read' : Hits[n].media = moments'[i].media /\ Hits[n].start = moments'[i].start
    BY <1>5 DEF Behind
  <2>2. CASE i = l + 1
    BY <2>2, <1>1, <1>3, <1>5
  <2>3. CASE i \in 1..l
    <3>1. PICK n \in 1..read : Hits[n].media = moments[i].media /\ Hits[n].start = moments[i].start
      BY <1>5, <2>3 DEF FusionInv, Behind
    <3>2. n \in 1..read'
      BY <1>1
    <3>3. QED BY <1>5, <2>3, <3>1, <3>2
  <2>4. l \in Nat
    BY <1>1 DEF l
  <2>5. QED BY <2>1, <2>2, <2>3, <2>4
<1>8. ASSUME NEW i \in 1..l
      PROVE  moments[i].media < m.media \/ (moments[i].media = m.media /\ moments[i].end <= m.start)
  <2>1. l \in 1..l /\ l \in DOMAIN moments /\ moments # <<>>
    BY <1>1, <1>5
  <2>2. PICK n \in 1..read : Hits[n].media = moments[l].media /\ Hits[n].start = moments[l].start
    BY <2>1 DEF FusionInv, Behind
  <2>3. moments[l].media < m.media \/ (moments[l].media = m.media /\ moments[l].end <= m.start)
    <3>1. moments[l].media <= h.media
      <4>1. Hits[n].media < h.media \/ Hits[n].media = h.media
        BY <1>1, Read DEF FusionInv
      <4>2. h.media \in Nat /\ moments[l].media \in Nat
        BY <1>2, <1>5, <2>1 DEF IsHit, Moment
      <4>3. QED BY <2>2, <4>1, <4>2
    <3>2. ~Overlaps(moments[l], h)
      BY <2>1 DEF l
    <3>3. {h.media, h.start, moments[l].media, moments[l].end} \subseteq Nat
      BY <1>2, <1>5, <2>1 DEF IsHit, Moment
    <3>4. ~(h.media = moments[l].media /\ h.start < moments[l].end)
      BY <3>2 DEF Overlaps
    <3>5. m.media = h.media /\ m.start = h.start
      BY <1>3
    <3> HIDE DEF h
    <3>6. QED BY <3>1, <3>3, <3>4, <3>5
  <2>4. CASE i = l
    BY <2>3, <2>4
  <2>5. CASE i # l
    <3>1. moments[i].media < moments[l].media
          \/ (moments[i].media = moments[l].media /\ moments[i].end <= moments[l].start)
      <4>1. i < l /\ i \in DOMAIN moments
        BY <1>5, <2>1, <2>5
      <4>2. Closed
        BY DEF FusionInv
      <4>3. QED BY <2>1, <4>1, <4>2 DEF Closed
    <3>2. moments[l].start < moments[l].end
      BY <2>1 DEF FusionInv, MomentsValid
    <3>3. QED BY <1>2, <1>5, <2>1, <2>3, <3>1, <3>2 DEF Moment
  <2>6. QED BY <2>4, <2>5
<1>9. Closed'
  BY <1>1, <1>5, <1>8 DEF FusionInv, Closed
<1>10. MomentsValid(Hits, moments)'
  BY <1>1, <1>2, <1>3, <1>5 DEF FusionInv, MomentsValid, IsHit
<1>11. HitsOnce(read, moments)'
  <2>1. ASSUME NEW k \in 1..read'
        PROVE  \E i \in 1..(l + 1) : k \in moments'[i].hits
    <3>1. CASE k = read + 1
      <4>1. l + 1 \in 1..(l + 1) /\ k \in moments'[l + 1].hits
        BY <1>1, <1>3, <1>5, <3>1
      <4>2. QED BY <4>1
    <3>2. CASE k \in 1..read
      <4>1. PICK i \in 1..l : k \in moments[i].hits
        BY <1>5, <3>2 DEF FusionInv, HitsOnce
      <4>2. i \in 1..(l + 1) /\ moments'[i] = moments[i]
        BY <1>1, <1>5
      <4>3. QED BY <4>1, <4>2
    <3>3. k = read + 1 \/ k \in 1..read
      <4>1. read' = read + 1 /\ read \in Nat
        BY <1>1
      <4>2. QED BY <4>1
    <3>4. QED BY <3>1, <3>2, <3>3
  <2>2. \A i \in DOMAIN moments : read + 1 \notin moments[i].hits
    BY <1>1 DEF FusionInv, FromRead
  <2>3. QED BY <1>1, <1>3, <1>5, <2>1, <2>2 DEF FusionInv, HitsOnce
<1>12. QED BY <1>4, <1>6, <1>7, <1>9, <1>10, <1>11 DEF FusionInv

LEMMA Joining == Sorted => (Loop => []FusionInv)
PROOF
<1>1. SUFFICES ASSUME Sorted
               PROVE  Loop => []FusionInv
  OBVIOUS
<1>2. Init => FusionInv
  BY <1>1 DEF Init, FusionInv, Types, FromRead, Behind, Closed, MomentsValid, HitsOnce, Sorted, Moment
<1>3. FusionInv /\ [Next]_<<read, moments>> => FusionInv'
  <2>1. CASE Next
    BY <1>1, <2>1, JoinStep, OpenStep
  <2>2. CASE UNCHANGED <<read, moments>>
    <3>1. read' = read /\ moments' = moments
      BY <2>2
    <3>2. FusionInv => Types' /\ FromRead' /\ Behind' /\ Closed'
      BY <3>1 DEF FusionInv, Types, FromRead, Behind, Closed
    <3>3. FusionInv => MomentsValid(Hits, moments)' /\ HitsOnce(read, moments)'
      BY <3>1 DEF FusionInv, MomentsValid, HitsOnce
    <3>4. QED BY <3>2, <3>3 DEF FusionInv
  <2>3. QED BY <2>1, <2>2
<1>4. QED BY <1>2, <1>3, PTL DEF Loop

\* Whatever a search finds, every moment it forms is one that FusedMoment
\* accepts: an interval of positive length that all its hits share.
THEOREM FusionValid == Sorted => (Loop => []MomentsValid(Hits, moments))
PROOF BY Joining, PTL DEF FusionInv

\* Moments of one media do not overlap, and each hit is in exactly one.
THEOREM FusionPartitions == Sorted => (Loop => [](MomentsDisjoint(moments) /\ HitsOnce(read, moments)))
PROOF
<1>1. FusionInv => MomentsDisjoint(moments) /\ HitsOnce(read, moments)
  <2>1. SUFFICES ASSUME FusionInv, NEW i \in DOMAIN moments, NEW j \in DOMAIN moments,
                        i < j, moments[i].media = moments[j].media
                 PROVE  moments[i].end <= moments[j].start
    BY DEF FusionInv, MomentsDisjoint
  <2>2. moments[i].media \in Nat /\ moments[j].media \in Nat
    <3>1. moments[i] \in Moment /\ moments[j] \in Moment
      BY <2>1 DEF FusionInv, Types
    <3>2. QED BY <3>1 DEF Moment
  <2>3. QED BY <2>1, <2>2 DEF FusionInv, Closed
<1>2. QED BY <1>1, Joining, PTL
-----------------------------------------------------------------------------
LEMMA Halves ==
  ASSUME NEW x \in Nat
  PROVE  Half(x) \in Nat /\ 2 * Half(x) <= x /\ x <= 2 * Half(x) + 1
PROOF BY DEF Half

\* The evidence's interval lies in the media, and its representative before the
\* end of both, and no earlier than a frame before the interval starts.
LEMMA SourceRight ==
  ASSUME NEW e, IsEvidence(e)
  PROVE  /\ {Source(e).start, Source(e).end, Source(e).best} \subseteq Nat
         /\ Source(e).start <= Source(e).end /\ Source(e).end <= e.duration
         /\ Source(e).best < e.duration /\ Source(e).best <= Source(e).end
         /\ IsPoint(e) \/ Source(e).start < Source(e).best + Frame
PROOF
<1>1. Half(e.duration) \in Nat \ {0} /\ 2 * Half(e.duration) <= e.duration /\ Half(e.duration) < e.duration
  <2>1. e.duration \in Nat /\ e.duration >= 2
    BY DEF IsEvidence
  <2>2. Half(e.duration) \in Nat /\ 2 * Half(e.duration) <= e.duration
        /\ e.duration <= 2 * Half(e.duration) + 1
    BY <2>1, Halves
  <2>3. QED BY <2>1, <2>2
<1> DEFINE last == Most(0, e.duration - Least(Frame, Half(e.duration)))
<1>2. last \in Nat /\ last < e.duration /\ e.duration <= last + Frame
  BY <1>1, TickAssumption DEF IsEvidence, Least, Most
<1> HIDE DEF last
<1>3. /\ Source(e).start = Least(Most(e.start, 0), e.duration)
      /\ Source(e).end = Least(Most(e.end, Source(e).start), e.duration)
      /\ Source(e).best = Least(Least(Most(e.best, Source(e).start), Source(e).end), last)
  BY DEF Source, last
<1>4. Source(e).start \in Nat /\ Source(e).start <= e.duration
  BY <1>3 DEF IsEvidence, Least, Most
<1>5. Source(e).end \in Nat /\ Source(e).start <= Source(e).end /\ Source(e).end <= e.duration
  BY <1>3, <1>4 DEF IsEvidence, Least, Most
<1>6. Source(e).best \in Nat /\ Source(e).best <= last /\ Source(e).best <= Source(e).end
      /\ (Source(e).best < Source(e).start => Source(e).best = last)
  BY <1>2, <1>3, <1>4, <1>5 DEF IsEvidence, Least, Most
<1>7. QED BY <1>2, <1>4, <1>5, <1>6, TickAssumption DEF IsPoint, IsEvidence

\* With its padding the clip is still in the media and around the representative;
\* it is empty at most where no padding was asked for on one side of a point.
LEMMA PaddedRight ==
  ASSUME NEW e, IsEvidence(e)
  PROVE  /\ {Padded(e).start, Padded(e).end} \subseteq Nat
         /\ Padded(e).end <= e.duration
         /\ Padded(e).start < Source(e).best + Frame /\ Source(e).best <= Padded(e).end
         /\ Padded(e).start >= Padded(e).end => IsPoint(e)
         /\ ~IsPoint(e) => Padded(e).start <= Source(e).start /\ Source(e).end <= Padded(e).end
         /\ ~IsPoint(e) =>
              Padded(e).end - Padded(e).start
                <= Source(e).end - Source(e).start + e.before + e.after
PROOF
<1>1. Half(e.limit) \in Nat
  BY Halves DEF IsEvidence
<1>2. Padding(e).before \in Nat /\ Padding(e).after \in Nat
      /\ (~IsPoint(e) => Padding(e) = [before |-> e.before, after |-> e.after])
  BY <1>1, TickAssumption DEF Padding, IsEvidence, Least
<1>3. CASE IsPoint(e)
  <2>1. Padded(e) = [start |-> Most(0, Source(e).best - Padding(e).before),
                     end |-> Least(e.duration, Source(e).best + Padding(e).after)]
    BY <1>3 DEF Padded
  <2>2. QED BY <1>2, <1>3, <2>1, SourceRight, TickAssumption DEF IsEvidence, Least, Most
<1>4. CASE ~IsPoint(e)
  <2>1. Padded(e) = [start |-> Most(0, Source(e).start - e.before),
                     end |-> Least(e.duration, Source(e).end + e.after)]
    BY <1>2, <1>4 DEF Padded
  <2>2. Source(e).start < Source(e).end
    BY <1>4, SourceRight DEF IsPoint
  <2>3. QED BY <1>4, <2>1, <2>2, SourceRight, TickAssumption DEF IsEvidence, Least, Most
<1>5. QED BY <1>3, <1>4

\* A clip that was cut is as long as the limit.
LEMMA CutRight ==
  ASSUME NEW e, IsEvidence(e)
  PROVE  /\ {Cut(e).start, Cut(e).end} \subseteq Nat
         /\ Cut(e).end <= e.duration /\ Cut(e).end - Cut(e).start <= e.limit
         /\ Cut(e).start < Source(e).best + Frame /\ Source(e).best <= Cut(e).end
         /\ Cut(e) = Padded(e) \/ Padded(e).end - Padded(e).start > e.limit
PROOF
<1>1. CASE ~(Padded(e).end - Padded(e).start > e.limit)
  BY <1>1, PaddedRight DEF Cut, IsEvidence
<1>2. CASE Padded(e).end - Padded(e).start > e.limit
  <2> DEFINE half == Half(e.limit)
             start == Most(0, Source(e).best - half)
             over == Most(0, start + e.limit - e.duration)
  <2>1. half \in Nat /\ 2 * half <= e.limit /\ e.limit <= 2 * half + 1
    BY Halves DEF IsEvidence
  <2>2. e.limit < e.duration /\ e.limit \in Nat /\ e.duration \in Nat
    BY <1>2, PaddedRight DEF IsEvidence
  <2>3. Cut(e) = [start |-> Most(0, start - over), end |-> start + e.limit - over]
    BY <1>2 DEF Cut
  <2> HIDE DEF half
  <2>4. start \in Nat /\ start <= Source(e).best /\ Source(e).best <= start + half
    BY <2>1, SourceRight DEF Most
  <2> HIDE DEF start
  <2>5. /\ over \in Nat /\ over <= start
        /\ start + e.limit - over <= e.duration
        /\ over = 0 \/ start + e.limit - over = e.duration
    <3>1. start < e.duration
      BY <2>4, SourceRight, <2>2 DEF IsEvidence
    <3>2. start + e.limit <= e.duration + start
      BY <2>2, <2>4
    <3>3. QED BY <2>2, <2>4, <3>2 DEF Most
  <2> HIDE DEF over
  <2>6. Cut(e).start = start - over /\ Cut(e).end = start + e.limit - over
    BY <2>3, <2>4, <2>5 DEF Most
  <2>7. half <= e.limit
    BY <2>1, <2>2
  <2>8. QED BY <1>2, <2>1, <2>2, <2>4, <2>5, <2>6, <2>7, SourceRight, TickAssumption
<1>3. QED BY <1>1, <1>2

\* Whatever the evidence, its clip is part of the media, not empty, no longer
\* than the limit and at the representative: the error that says otherwise is
\* never raised, and create_snippet refuses no clip for its length.
THEOREM ClipsAreRight == \A e : IsEvidence(e) => ClipRight(e)
PROOF
<1>1. SUFFICES ASSUME NEW e, IsEvidence(e)
               PROVE  ClipRight(e)
  OBVIOUS
<1>2. CASE Cut(e).start < Cut(e).end
  BY <1>1, <1>2, CutRight, SourceRight DEF Clip, ClipRight
<1>3. CASE ~(Cut(e).start < Cut(e).end)
  <2> DEFINE length == Least(Least(e.duration, e.limit), Tenth)
             start == Least(Most(0, Source(e).best - Half(length)), e.duration)
             end == Least(e.duration, start + length)
  <2>1. length \in Nat \ {0} /\ length <= e.limit /\ length <= e.duration
    BY <1>1, TickAssumption DEF IsEvidence, Least
  <2>2. Half(length) \in Nat /\ 2 * Half(length) <= length
    BY <2>1, Halves
  <2>3. Clip(e) = IF start < end THEN [start |-> start, end |-> end]
                  ELSE [start |-> Most(0, e.duration - length), end |-> e.duration]
    BY <1>3 DEF Clip
  <2> HIDE DEF length
  <2>4. start \in Nat /\ start <= Source(e).best /\ Source(e).best <= start + Half(length)
    BY <1>1, <2>1, <2>2, SourceRight DEF IsEvidence, Least, Most
  <2> HIDE DEF start
  <2>5. start < end /\ end <= e.duration /\ end - start <= length /\ Source(e).best <= end /\ end \in Nat
    BY <1>1, <2>1, <2>2, <2>4, SourceRight DEF IsEvidence, Least
  <2> HIDE DEF end
  <2>6. QED BY <1>1, <2>1, <2>3, <2>4, <2>5, SourceRight, TickAssumption DEF ClipRight, IsEvidence
<1>4. QED BY <1>2, <1>3

\* Evidence that fits into the limit with its padding is shown whole.
THEOREM ClipsAreWhole == \A e : IsEvidence(e) => ClipWhole(e)
PROOF
<1>1. SUFFICES ASSUME NEW e, IsEvidence(e), ~IsPoint(e),
                      Source(e).end - Source(e).start + e.before + e.after <= e.limit
               PROVE  Clip(e).start <= Source(e).start /\ Source(e).end <= Clip(e).end
  BY DEF ClipWhole
<1>2. ~(Padded(e).end - Padded(e).start > e.limit)
  BY <1>1, PaddedRight, SourceRight DEF IsEvidence
<1>3. Cut(e) = Padded(e)
  BY <1>1, <1>2, CutRight
<1>4. Cut(e).start < Cut(e).end
  BY <1>1, <1>3, PaddedRight
<1>5. QED BY <1>1, <1>3, <1>4, PaddedRight DEF Clip
===============================================================================
