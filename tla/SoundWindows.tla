----------------------------- MODULE SoundWindows -----------------------------
(***************************************************************************)
(* How the sound of a media is cut into windows, and a window into the     *)
(* activations of its dense embedding: iter_audio_windows and              *)
(* sound_records of capabilities/sound/indexing.py.                        *)
(*                                                                         *)
(* Sound is counted in samples; the PCM itself is left out.  Blocks of     *)
(* samples come from the decoder, one at a time, and from the resampler    *)
(* when it is flushed at the end.                                          *)
(***************************************************************************)
EXTENDS Intervals

CONSTANTS
  Window,   \* samples of a window
  Dense     \* samples from one activation to the next

ASSUME WindowAssumption == Window \in Nat \ {0} /\ Dense \in Nat \ {0}

\* The container does not say how long it lasts.
Unknown == -1

\* The samples the container lasts, those that wait, those already in a window,
\* and the windows.
Silence(limit) == [limit |-> limit, pending |-> 0, emitted |-> 0, windows |-> <<>>]

\* append_pcm: sound beyond the container's duration is dropped.
Added(sound, block) ==
  LET room == Greater(0, sound.limit - sound.emitted - sound.pending) IN
    [sound EXCEPT !.pending = @ + IF sound.limit = Unknown THEN block ELSE Lesser(block, room)]

\* A window is cut from what waits.
Emitted(sound) ==
  [sound EXCEPT !.pending = @ - Window,
                !.emitted = @ + Window,
                !.windows = Append(@, [start |-> sound.emitted, end |-> sound.emitted + Window])]

\* The whole windows are cut after each block of the decoder; a block of the
\* resampler's flush is only added.
Decoded(sound, block) ==
  LET cut[n \in 0 .. (Added(sound, block).pending \div Window)] ==
        IF n = 0 THEN Added(sound, block) ELSE Emitted(cut[n - 1])
  IN cut[Added(sound, block).pending \div Window]

\* What waits at the end is the last window.
Ended(sound) ==
  IF sound.pending = 0 THEN sound.windows
  ELSE Append(sound.windows,
              [start |-> sound.emitted, end |-> sound.emitted + sound.pending])

\* sound_records: the activations of a window, of the many the model returns.
Activations(window, many) ==
  LET from(a) == window.start + (a - 1) * Dense IN
    [a \in 1 .. Lesser(many, Pieces(window.end - window.start, Dense)) |->
       [start |-> from(a), end |-> Lesser(window.end, from(a) + Dense)]]

-----------------------------------------------------------------------------
\* The windows are the sound from its beginning to all that was counted of it,
\* which is what was decoded as far as the container lasts.
WindowsRight(limit, heard, windows) ==
  LET counted == IF limit = Unknown THEN heard ELSE Lesser(heard, limit) IN
    IF counted = 0 THEN windows = <<>> ELSE Tile(windows, 0, counted)

\* The activations are the window from its beginning, and all of it if the model
\* returns enough.
ActivationsRight(window, many) ==
  LET parts == Activations(window, many) IN
    /\ Adjoin(parts) /\ (many > 0 => parts # <<>>)
    /\ parts # <<>> => parts[1].start = window.start /\ parts[Len(parts)].end <= window.end
    /\ many * Dense >= window.end - window.start => Tile(parts, window.start, window.end)
===============================================================================
