---------------------------- MODULE SpeechPhrases ----------------------------
(***************************************************************************)
(* The phrases of a transcript: build_dialogue_phrases of                  *)
(* capabilities/speech/indexing.py.                                        *)
(*                                                                         *)
(* A segment has a start and an end; it has words or not; those of its     *)
(* words that have times, each with a start and an end; and the number of  *)
(* tokens of its text.  The text itself is left out.                       *)
(***************************************************************************)
EXTENDS Intervals

Groups(count, size) == 1 .. Pieces(count, size)
FirstOf(g, size) == (g - 1) * size
LastOf(g, size, count) == Lesser(g * size, count)

\* Words are grouped; a group lasts from its first word's start to its last one's end.
WordPhrases(words, size) ==
  [g \in Groups(Len(words), size) |->
     [start |-> words[FirstOf(g, size) + 1].start,
      end |-> words[LastOf(g, size, Len(words))].end]]

\* Tokens without times share the segment evenly.  A phrase's times are counted in
\* parts of the segment, of which there is one for each token.
TokenPhrases(segment, size) ==
  LET at(token) == segment.start * segment.tokens + (segment.end - segment.start) * token IN
    [g \in Groups(segment.tokens, size) |->
       [start |-> at(FirstOf(g, size)), end |-> at(LastOf(g, size, segment.tokens))]]

\* _valid_interval: any other refuses the whole transcript.
IsInterval(i) == i.start >= 0 /\ i.end > i.start

\* A segment with words, even if none of them has times, is not looked at again.
Accepted(segment, size) ==
  IF segment.worded
  THEN LET phrases == WordPhrases(segment.words, size)
       IN \A g \in DOMAIN phrases : IsInterval(phrases[g])
  ELSE segment.tokens > 0 => IsInterval(segment)

Phrases(segment, size) ==
  IF segment.worded THEN WordPhrases(segment.words, size) ELSE TokenPhrases(segment, size)

-----------------------------------------------------------------------------
\* Every token of an accepted segment without words is in one phrase, and the
\* phrases are the whole segment: nothing said in it is at no time, or at two.
TokensRight(segment, size) ==
  Accepted(segment, size) /\ ~segment.worded /\ segment.tokens > 0 =>
    Tile(Phrases(segment, size),
         segment.start * segment.tokens, segment.end * segment.tokens)

\* Words in order, each of which takes time, are accepted; their phrases are in
\* order, and each word is in one of them.
WordsRight(segment, size) ==
  LET words == segment.words
      phrases == Phrases(segment, size)
  IN /\ segment.worded
     /\ \A w \in DOMAIN words : IsInterval(words[w])
     /\ \A v, w \in DOMAIN words : v < w => words[v].end <= words[w].start
     => /\ Accepted(segment, size)
        /\ \A g, h \in DOMAIN phrases : g < h => phrases[g].end <= phrases[h].start
        /\ \A w \in DOMAIN words : \E g \in DOMAIN phrases :
             phrases[g].start <= words[w].start /\ words[w].end <= phrases[g].end
===============================================================================
