----------------------------- MODULE VisualStream -----------------------------
(***************************************************************************)
(* How one pass over a video serves several capabilities: the batches of   *)
(* core/video.py, their distribution in capabilities/visual.py and the     *)
(* clips that capabilities/action cuts from its share.                     *)
(*                                                                         *)
(* Frames are their numbers.  A batch holds the frames any capability      *)
(* wants, and is as large as the most demanding one asks for.              *)
(***************************************************************************)
EXTENDS FrameSampling, SequencesExt

Wanted(samplings, i) == \E s \in samplings : Includes(s, i)

\* One turn of iter_frame_batches: a frame is read, or only skipped.
Turn(samplings, size, stream, i) ==
  LET batch == Append(stream.batch, i) IN
    CASE ~Wanted(samplings, i) -> stream
      [] Wanted(samplings, i) /\ Len(batch) = size ->
           [batch |-> <<>>, out |-> Append(stream.out, batch)]
      [] OTHER -> [stream EXCEPT !.batch = batch]

\* At the end of the video what is left is a batch.
Flushed(stream) ==
  IF stream.batch = <<>> THEN stream.out ELSE Append(stream.out, stream.batch)

NoBatch == [batch |-> <<>>, out |-> <<>>]

Frames(count) == [i \in 1 .. count |-> i - 1]

Batches(samplings, size, count) ==
  Flushed(FoldLeft(LAMBDA stream, i : Turn(samplings, size, stream, i), NoBatch, Frames(count)))

\* _consume_visual_stream: what a capability is given of each batch; it is not
\* called for a batch that holds nothing of its own.
Shares(s, batches) ==
  SelectSeq([b \in DOMAIN batches |-> SelectSeq(batches[b], LAMBDA i : Includes(s, i))],
            LAMBDA share : share # <<>>)

\* _expected_sample_count, the total of the progress shown.
Expected(samplings, n) == Cardinality({i \in 0 .. (n - 1) : Wanted(samplings, i)})

\* Groups of a given size, the last one smaller.
Batched(items, size) ==
  [g \in 1 .. ((Len(items) + size - 1) \div size) |->
     SubSeq(items, (g - 1) * size + 1, Min({g * size, Len(items)}))]

\* process_videoprism_samples: whole clips are cut from what is pending, the
\* rest waits for the next share.
CutClips(length, state, share) ==
  LET pending == state.pending \o share
      whole == (Len(pending) \div length) * length
  IN [clips |-> state.clips \o Batched(SubSeq(pending, 1, whole), length),
      pending |-> SubSeq(pending, whole + 1, Len(pending))]

\* finalize: what is still pending is a shorter clip.
Finalized(state) ==
  IF state.pending = <<>> THEN state.clips ELSE Append(state.clips, state.pending)

NoClips == [clips |-> <<>>, pending |-> <<>>]

Clips(length, shares) ==
  Finalized(FoldLeft(LAMBDA cut, share : CutClips(length, cut, share), NoClips, shares))

-----------------------------------------------------------------------------
\* The batches hold every wanted frame of the first ones once, no other, and in order.
Holds(samplings, count, batches) ==
  /\ \A i \in 0 .. (count - 1) :
       Wanted(samplings, i) =>
         \E b \in DOMAIN batches : \E k \in DOMAIN batches[b] : batches[b][k] = i
  /\ \A b \in DOMAIN batches : \A k \in DOMAIN batches[b] :
       batches[b][k] \in 0 .. (count - 1) /\ Wanted(samplings, batches[b][k])
  /\ \A b, c \in DOMAIN batches : \A k \in DOMAIN batches[b], l \in DOMAIN batches[c] :
       b < c \/ (b = c /\ k < l) => batches[b][k] < batches[c][l]

\* No batch is empty, and each but the last is as large as was asked for.
BatchesRight(samplings, size, count, batches) ==
  /\ Holds(samplings, count, batches)
  /\ \A b \in DOMAIN batches :
       /\ Len(batches[b]) \in 1 .. size
       /\ b < Len(batches) => Len(batches[b]) = size

\* The frames of a sampling, in order.
Own(s, count) == SelectSeq(Frames(count), LAMBDA i : Includes(s, i))

\* Whatever else is indexed in the same pass and however large the batches are, a
\* capability gets each frame of its sampling once and in order; what is shown as
\* the total of the progress is reached.
SharesRight(samplings, size, count) ==
  LET batches == Batches(samplings, size, count) IN
    /\ BatchesRight(samplings, size, count, batches)
    /\ \A s \in samplings : FlattenSeq(Shares(s, batches)) = Own(s, count)
    /\ Len(FlattenSeq(batches)) = Expected(samplings, count)

\* The clips, and with them the names of their records, are the same however the
\* frames were shared out: the same video indexed with other capabilities gets the
\* same records of this one.
ClipsRight(length, samplings, size, count) ==
  \A s \in samplings :
    Clips(length, Shares(s, Batches(samplings, size, count)))
      = Batched(Own(s, count), length)
===============================================================================
