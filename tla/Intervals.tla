------------------------------ MODULE Intervals ------------------------------
(***************************************************************************)
(* Intervals of a media's time, as the capabilities record them.           *)
(***************************************************************************)
EXTENDS Integers, Sequences

Lesser(a, b) == IF a < b THEN a ELSE b
Greater(a, b) == IF a > b THEN a ELSE b

\* How many pieces of a size make up the whole, the last of which may be smaller.
Pieces(whole, size) == (whole + size - 1) \div size

\* Intervals that are not empty and follow each other without a gap.
Adjoin(intervals) ==
  \A i \in DOMAIN intervals :
    /\ intervals[i].start < intervals[i].end
    /\ i > 1 => intervals[i].start = intervals[i - 1].end

\* Intervals that are the whole from start to end.
Tile(intervals, start, end) ==
  /\ intervals # <<>> /\ Adjoin(intervals)
  /\ intervals[1].start = start /\ intervals[Len(intervals)].end = end
===============================================================================
