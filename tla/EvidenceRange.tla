---------------------------- MODULE EvidenceRange ----------------------------
(***************************************************************************)
(* The clip that shows a piece of evidence: resolve_evidence_range of      *)
(* evidence_delivery.py.                                                   *)
(*                                                                         *)
(* Times are whole ticks, at least two to a media; a half is rounded down. *)
(* Arithmetic is exact, where the code's floating point rounds.            *)
(***************************************************************************)
EXTENDS Integers

CONSTANTS
  Frame,   \* ticks in a millisecond, the distance kept from the media's end
  Tenth,   \* in a tenth of a second, the shortest clip
  Second   \* in a second, the padding of a point without padding

ASSUME TickAssumption == {Frame, Tenth, Second} \subseteq Nat \ {0}

Least(a, b) == IF a < b THEN a ELSE b
Most(a, b) == IF a > b THEN a ELSE b
Half(x) == x \div 2

\* The evidence's interval and its representative time, within the media; the
\* representative stays clear of the end, where there is no frame.
Source(e) ==
  LET start == Least(Most(e.start, 0), e.duration)
      end == Least(Most(e.end, start), e.duration)
      last == Most(0, e.duration - Least(Frame, Half(e.duration)))
  IN [start |-> start, end |-> end,
      best |-> Least(Least(Most(e.best, start), end), last)]

IsPoint(e) == Source(e).end <= Source(e).start

\* A point that is to have no padding gets some.
Padding(e) ==
  IF IsPoint(e) /\ e.before + e.after = 0
  THEN [before |-> Least(Second, Half(e.limit)), after |-> Least(Second, Half(e.limit))]
  ELSE [before |-> e.before, after |-> e.after]

Padded(e) ==
  LET from == IF IsPoint(e) THEN Source(e).best ELSE Source(e).start
      to == IF IsPoint(e) THEN Source(e).best ELSE Source(e).end
  IN [start |-> Most(0, from - Padding(e).before),
      end |-> Least(e.duration, to + Padding(e).after)]

\* A clip that is too long becomes one around the representative, moved into
\* the media.
Cut(e) ==
  LET start == Most(0, Source(e).best - Half(e.limit))
      over == Most(0, start + e.limit - e.duration)
  IN IF Padded(e).end - Padded(e).start > e.limit
     THEN [start |-> Most(0, start - over), end |-> start + e.limit - over]
     ELSE Padded(e)

\* One that is empty becomes a short one.
Clip(e) ==
  LET length == Least(Least(e.duration, e.limit), Tenth)
      start == Least(Most(0, Source(e).best - Half(length)), e.duration)
      end == Least(e.duration, start + length)
  IN IF Cut(e).start < Cut(e).end THEN Cut(e)
     ELSE IF start < end THEN [start |-> start, end |-> end]
     ELSE [start |-> Most(0, e.duration - length), end |-> e.duration]

\* What the code may be asked: a media that is not empty, a positive limit and
\* paddings that are not negative; the evidence may lie anywhere.
IsEvidence(e) ==
  /\ {e.start, e.end, e.best} \subseteq Int
  /\ {e.before, e.after} \subseteq Nat
  /\ e.limit \in Nat \ {0} /\ e.duration \in Nat \ {0, 1}

\* The clip is a part of the media that is not empty, is no longer than the
\* limit, so that create_snippet does not refuse it, and shows the representative
\* or starts within a millisecond of it; the media has a frame there.
ClipRight(e) ==
  /\ 0 <= Clip(e).start /\ Clip(e).start < Clip(e).end /\ Clip(e).end <= e.duration
  /\ Clip(e).end - Clip(e).start <= e.limit
  /\ Clip(e).start < Source(e).best + Frame /\ Source(e).best <= Clip(e).end
  /\ 0 <= Source(e).best /\ Source(e).best < e.duration

\* Evidence that fits with its padding is shown whole.
ClipWhole(e) ==
  ~IsPoint(e) /\ Source(e).end - Source(e).start + e.before + e.after <= e.limit =>
    Clip(e).start <= Source(e).start /\ Source(e).end <= Clip(e).end
===============================================================================
