----------------------------- MODULE AsrChunks ------------------------------
(***************************************************************************)
(* How a long recording is transcribed in pieces: the overlapping chunks   *)
(* of services/chunking_service.py, the split of a long segment at its     *)
(* words (services/asr_segments.py), and the assembly of the rows in       *)
(* api/transcribe.py.  Times are in units of 10 milliseconds.              *)
(*                                                                         *)
(* A word has a start, an end, a text ("" when it is blank), and stop when *)
(* the text ends with punctuation.  A row has a start, an end, the texts   *)
(* of its words and a confidence.  The recogniser is outside this code.    *)
(***************************************************************************)
EXTENDS Integers, Sequences, FiniteSets, SequencesExt, FiniteSetsExt

SameRow == 50   \* DEDUPLICATE_THRESHOLD_SECONDS
Sliver  == 5

-----------------------------------------------------------------------------
(* The chunks of a recording.                                              *)

\* Faulty variant: the chunks do not overlap.
ChunksApart(duration, chunk, overlap) ==
  LET count == ((duration - 1) \div chunk) + 1
      First(n) == (n - 1) * chunk
  IN [n \in 1..count |-> [start |-> First(n), end |-> First(n) + Min({chunk, duration - First(n)})]]

\* split_audio; for an overlap shorter than the chunks, else it does not end.
Chunks(duration, chunk, overlap) ==
  LET count == ((duration - 1) \div (chunk - overlap)) + 1
      First(n) == (n - 1) * (chunk - overlap)
  IN [n \in 1..count |-> [start |-> First(n), end |-> First(n) + Min({chunk, duration - First(n)})]]

-----------------------------------------------------------------------------
(* The split of a segment.                                                 *)

\* The words cannot be trusted unless they are in order and in the segment.
Usable(segment) ==
  LET words == segment.words
  IN /\ words # <<>> /\ words[1].start >= segment.start /\ Last(words).end <= segment.end
     /\ \A n \in DOMAIN words : words[n].start < words[n].end
     /\ \A n \in 1..Len(words) - 1 : words[n].end <= words[n + 1].start

Whole(segment) ==
  [start |-> segment.start, end |-> segment.end, confidence |-> segment.confidence,
   words |-> [n \in DOMAIN segment.words |-> segment.words[n].text]]

Fitting(words, n, limit) ==
  {m \in n..Len(words) : \A k \in n..m : words[k].end <= words[n].start + limit}

\* The last word of the row that begins with word n: the last punctuation that
\* fits, else the last word that fits, and at least the word itself.
LastOfRow(words, n, limit) ==
  LET fitting == Fitting(words, n, limit)
      stops   == {m \in fitting : words[m].stop}
  IN IF stops # {} THEN Max(stops) ELSE Max(fitting \cup {n})

RowOf(segment, n, m) ==
  [start |-> segment.words[n].start, end |-> segment.words[m].end, confidence |-> segment.confidence,
   words |-> [k \in 1..m - n + 1 |-> segment.words[n + k - 1].text]]

\* The rows of the words, after each word, and the last word that they have.
Splitting(segment, limit) ==
  LET after[n \in 0..Len(segment.words)] ==
        IF n = 0 THEN [rows |-> <<>>, last |-> 0]
        ELSE LET acc == after[n - 1]
                 m   == LastOfRow(segment.words, n, limit)
             IN IF acc.last >= n THEN acc
                ELSE [rows |-> Append(acc.rows, RowOf(segment, n, m)), last |-> m]
  IN after

\* _split_words.
SplitWords(segment, limit) == Splitting(segment, limit)[Len(segment.words)].rows

BlankRow(row) == \A n \in DOMAIN row.words : row.words[n] = ""

\* split_faster_whisper_segments, for one segment.
Split(segment, limit) ==
  IF /\ segment.end - segment.start > limit /\ Usable(segment)
     /\ \A n \in DOMAIN SplitWords(segment, limit) : ~BlankRow(SplitWords(segment, limit)[n])
  THEN SplitWords(segment, limit)
  ELSE <<Whole(segment)>>

-----------------------------------------------------------------------------
(* The assembly of the rows.                                               *)

Shifted(rows, offset) ==
  [n \in DOMAIN rows |-> [rows[n] EXCEPT !.start = rows[n].start + offset, !.end = rows[n].end + offset]]

Magnitude(n) == IF n < 0 THEN -n ELSE n

\* The text of a row without the blanks around it.
Stripped(words) ==
  LET said == {n \in DOMAIN words : words[n] # ""}
  IN IF said = {} THEN <<>> ELSE SubSeq(words, Min(said), Max(said))

\* The same text at nearly the same time.
Doubled(row, kept) ==
  /\ Magnitude(row.start - kept.start) < SameRow
  /\ ~BlankRow(row) /\ Stripped(row.words) = Stripped(kept.words)
  /\ Min({row.end, kept.end}) > Max({row.start, kept.start})

AddUnlessDoubled(kept, row) ==
  IF kept # <<>> /\ Doubled(row, Last(kept))
  THEN IF row.confidence > Last(kept).confidence THEN [kept EXCEPT ![Len(kept)] = row] ELSE kept
  ELSE Append(kept, row)

\* A stable sort by start.
Inserted(sorted, row) ==
  InsertAt(sorted, Cardinality({n \in DOMAIN sorted : sorted[n].start <= row.start}) + 1, row)
Sorting(rows) ==
  LET after[n \in 0..Len(rows)] == IF n = 0 THEN <<>> ELSE Inserted(after[n - 1], rows[n])
  IN after
InOrder(rows) == Sorting(rows)[Len(rows)]

\* deduplicate_segments, after each row.
Deduplicating(rows) ==
  LET after[n \in 0..Len(rows)] == IF n = 0 THEN <<>> ELSE AddUnlessDoubled(after[n - 1], rows[n])
  IN after
Deduplicated(rows) == Deduplicating(InOrder(rows))[Len(rows)]

\* bound_segments_to_duration, after each row.
Cut(row, duration) == [row EXCEPT !.start = Max({0, row.start}), !.end = Min({duration, row.end})]
Keeps(row, duration) ==
  LET cut == Cut(row, duration)
  IN cut.start < cut.end /\ ~(row.end > duration /\ cut.end - cut.start < Sliver)

Bounding(rows, duration) ==
  LET after[n \in 0..Len(rows)] ==
        IF n = 0 THEN <<>>
        ELSE IF Keeps(rows[n], duration) THEN Append(after[n - 1], Cut(rows[n], duration)) ELSE after[n - 1]
  IN after
Bounded(rows, duration) == Bounding(rows, duration)[Len(rows)]

\* run_transcription_task: a short recording is one piece.
Pieces(duration, threshold, overlap) ==
  IF duration > threshold THEN Chunks(duration, threshold, overlap) ELSE <<[start |-> 0, end |-> duration]>>

\* heard[n] is what the recogniser says of the n-th piece, in its own time.
Transcribed(pieces, heard, duration, threshold, limit) ==
  LET Rows(n) == FlattenSeq([k \in DOMAIN heard[n] |-> Split(heard[n][k], limit)])
  IN Bounded(IF duration > threshold
             THEN Deduplicated(FlattenSeq([n \in DOMAIN pieces |-> Shifted(Rows(n), pieces[n].start)]))
             ELSE Rows(1), duration)

-----------------------------------------------------------------------------
(* Properties, for any recording.                                          *)

\* The chunks cover the recording, and a word no longer than the overlap is
\* whole in one of them.
ChunksCover(duration, chunk, overlap) ==
  LET chunks == Chunks(duration, chunk, overlap)
  IN /\ \A n \in DOMAIN chunks : chunks[n].end - chunks[n].start <= chunk
     /\ \A s \in 0..duration - 1 : \A e \in {s + 1, Min({s + overlap, duration})} :
          \E n \in DOMAIN chunks : chunks[n].start <= s /\ e <= chunks[n].end

\* A split keeps every word once and in order; its rows follow each other in
\* the segment, and none but a single word is longer than the limit.
SplitKeepsWords(segment, limit) ==
  LET rows == Split(segment, limit)
  IN /\ FlattenSeq([n \in DOMAIN rows |-> rows[n].words]) = Whole(segment).words
     /\ \A n \in DOMAIN rows : segment.start <= rows[n].start /\ rows[n].end <= segment.end
     /\ Len(rows) > 1 => \A n \in DOMAIN rows :
          /\ rows[n].end - rows[n].start <= limit \/ Len(rows[n].words) = 1
          /\ n > 1 => rows[n - 1].end <= rows[n].start

\* What the recogniser hears of a chunk when it hears well: one segment of the
\* words that are whole in it, and at the end a sound that runs on into the
\* padding of the audio.
Heard(speech, c, confidence) ==
  LET whole == {n \in DOMAIN speech : c.start <= speech[n].start /\ speech[n].end <= c.end}
      Own(w) == [w EXCEPT !.start = w.start - c.start, !.end = w.end - c.start]
      mine  == [n \in 1..Max(whole) - Min(whole) + 1 |-> Own(speech[Min(whole) + n - 1])]
      noise == [start |-> c.end - c.start - Sliver + 1, end |-> c.end - c.start + SameRow,
                words |-> <<[start |-> 0, end |-> 0, text |-> "noise", stop |-> FALSE]>>, confidence |-> confidence]
  IN IF whole = {} THEN <<noise>>
     ELSE <<[start |-> mine[1].start, end |-> Last(mine).end, words |-> mine, confidence |-> confidence], noise>>

\* Speech of different words: every word that is not blank is in the saved
\* transcription, at its time, whichever of its doubles is kept; the rows are
\* in order and in the recording.
WordsAreKept(speech, duration, chunk, overlap, limit) ==
  /\ speech = <<>> => ChunksCover(duration, chunk, overlap)
  /\ \A steady \in BOOLEAN :
       LET pieces == Pieces(duration, chunk, overlap)
           heard  == [p \in DOMAIN pieces |-> Heard(speech, pieces[p], IF steady THEN 0 ELSE pieces[p].start)]
           rows   == Transcribed(pieces, heard, duration, chunk, limit)
       IN /\ \A n \in DOMAIN rows : /\ 0 <= rows[n].start /\ rows[n].end <= duration
                                    /\ n > 1 => rows[n - 1].start <= rows[n].start
          /\ \A k \in DOMAIN speech : speech[k].text # "" => \E n \in DOMAIN rows :
               /\ rows[n].start <= speech[k].start /\ speech[k].end <= rows[n].end
               /\ \E m \in DOMAIN rows[n].words : rows[n].words[m] = speech[k].text
          /\ \A p \in DOMAIN heard : \A n \in DOMAIN heard[p] : SplitKeepsWords(heard[p][n], limit)
=============================================================================
