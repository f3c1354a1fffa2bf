--------------------------- MODULE SubtitleTiming ---------------------------
(***************************************************************************)
(* The repair of overlapping subtitle rows: services/subtitle_timing.py.   *)
(*                                                                         *)
(* A track is a sequence of rows, with times in units of 10 milliseconds;  *)
(* a time that is not finite is a negative one.  tracks[1] is the source   *)
(* and the others are its translations, which share its times.             *)
(***************************************************************************)
EXTENDS Integers, Sequences, FiniteSets

MaxOverlap == 12   \* 120 ms
MinSpan    == 20   \* 200 ms
\* At least 90% of the row that is trimmed remains.
KeepsMost(overlap, span) == 10 * overlap <= span

Row == [start: Int, end: Int, text: STRING, edited: BOOLEAN]

LowerOf(a, b)  == IF a <= b THEN a ELSE b
HigherOf(a, b) == IF a >= b THEN a ELSE b

Valid(row) == 0 <= row.start /\ row.start < row.end
ValidRows(track) == {i \in DOMAIN track : Valid(track[i])}

\* More than a millisecond in common.
Overlap(track, i, j) ==
  LowerOf(track[i].end, track[j].end) - HigherOf(track[i].start, track[j].start) > 0

Conflicts(track, i) == {j \in ValidRows(track) \ {i} : Overlap(track, i, j)}
Overlaps(track) ==
  {p \in ValidRows(track) \X ValidRows(track) : p[1] < p[2] /\ Overlap(track, p[1], p[2])}

\* A connected component of the overlaps that has just these two rows.
Isolated(track, i, j) == Conflicts(track, i) = {j} /\ Conflicts(track, j) = {i}

\* Two rows of a component that has more.
Complex(track, i, j) == <<i, j>> \in Overlaps(track) /\ ~Isolated(track, i, j)

UnorderedRows(track) ==
  {i \in ValidRows(track) : \E j \in ValidRows(track) :
     LET a == LowerOf(i, j)  b == HigherOf(i, j)
     IN /\ a # b /\ track[b].start < track[a].start
        /\ \A k \in a + 1..b - 1 : k \notin ValidRows(track)}

\* _aligned: the translations have the source's rows and times.
Aligned(tracks) ==
  \A t \in DOMAIN tracks :
    /\ Len(tracks[t]) = Len(tracks[1])
    /\ \A i \in DOMAIN tracks[1] : /\ tracks[t][i].start = tracks[1][i].start
                                   /\ tracks[t][i].end = tracks[1][i].end

\* Faulty variant: a trimmed row may become as short as it likes.
ReasonWithoutMinimum(track, i, j) ==
  LET a == track[i]  b == track[j]
  IN IF a.start = b.start THEN "same_start"
     ELSE IF b.end <= a.end \/ b.start < a.start THEN "nested_overlap"
     ELSE IF j # i + 1 THEN "non_adjacent"
     ELSE "none"

\* Why the overlap of an isolated pair needs a review, in the order of the code.
Reason(track, i, j) ==
  LET a == track[i]  b == track[j]
  IN IF a.start = b.start THEN "same_start"
     ELSE IF b.end <= a.end \/ b.start < a.start THEN "nested_overlap"
     ELSE IF j # i + 1 THEN "non_adjacent"
     ELSE IF a.edited \/ b.edited THEN "source_edited"
     ELSE IF a.end - b.start > MaxOverlap THEN "large_overlap"
     ELSE IF b.start - a.start < MinSpan THEN "minimum_duration"
     ELSE IF ~KeepsMost(a.end - b.start, a.end - a.start) THEN "large_fraction"
     ELSE "none"

\* Every row is valid, in order, and the same in each track.
Sound(tracks) ==
  /\ ValidRows(tracks[1]) = DOMAIN tracks[1] /\ UnorderedRows(tracks[1]) = {}
  /\ Aligned(tracks)

\* plan_subtitle_timing: the changes and the issues.  Only the end of the first
\* row of an isolated pair is moved, to the start of the second.
Changes(tracks) ==
  LET track == tracks[1]
  IN {[index |-> p[1], start |-> track[p[1]].start, end |-> track[p[1]].end, newEnd |-> track[p[2]].start] :
        p \in {q \in Overlaps(track) : /\ Isolated(track, q[1], q[2])
                                       /\ Reason(track, q[1], q[2]) = "none" /\ Sound(tracks)}}

\* Isolated pairs that are not repaired, and why.
Refused(tracks) ==
  {p \in Overlaps(tracks[1]) : /\ Isolated(tracks[1], p[1], p[2])
                               /\ Reason(tracks[1], p[1], p[2]) # "none" \/ ~Sound(tracks)}
Refusal(tracks, p) ==
  LET why == Reason(tracks[1], p[1], p[2])
  IN IF why = "none" THEN "blocked_by_invalid_track" ELSE why

\* A pair is reported at both its rows.
Reported(reason, p) == {[reason |-> reason, row |-> p[1]], [reason |-> reason, row |-> p[2]]}

Issues(tracks) ==
  LET track == tracks[1]
  IN {[reason |-> "invalid_timing", row |-> i] : i \in DOMAIN track \ ValidRows(track)}
     \cup {[reason |-> "unordered", row |-> i] : i \in UnorderedRows(track)}
     \cup {[reason |-> "translation_mismatch", row |-> 0] : x \in {y \in {0} : ~Aligned(tracks)}}
     \cup (UNION {Reported("complex_overlap", p) : p \in {q \in Overlaps(track) : Complex(track, q[1], q[2])}})
     \cup (UNION {Reported(Refusal(tracks, p), p) : p \in Refused(tracks)})

Plan(tracks) == [tracks |-> tracks, changes |-> Changes(tracks), issues |-> Issues(tracks)]

Retimed(track, ends) ==
  [i \in DOMAIN track |->
     IF \E c \in DOMAIN ends : c.index = i
     THEN [track[i] EXCEPT !.end = ends[CHOOSE c \in DOMAIN ends : c.index = i]]
     ELSE track[i]]

\* apply_timing_plan, and what SubtitleTimingVersions.apply writes.
Trimmed(track, changes)  == Retimed(track, [c \in changes |-> c.newEnd])
\* undo_timing_plan, and the undo point of a generated translation.
Restored(track, changes) == Retimed(track, [c \in changes |-> c.end])

ApplyPlan(tracks, changes) == [t \in DOMAIN tracks |-> Trimmed(tracks[t], changes)]
UndoPlan(tracks, changes)  == [t \in DOMAIN tracks |-> Restored(tracks[t], changes)]

\* undo_timing_plan's check: the tracks are what the plan was applied to.
Undoable(tracks, plan) ==
  /\ \A c \in plan.changes, t \in DOMAIN tracks :
       /\ c.index \in DOMAIN tracks[t]
       /\ tracks[t][c.index].start = c.start /\ tracks[t][c.index].end = c.newEnd
  /\ Plan(UndoPlan(tracks, plan.changes)) = plan

-----------------------------------------------------------------------------
(* Properties, for any tracks.                                             *)

\* A repair is harmless and complete: no row becomes shorter than 200 ms or
\* loses more than a tenth; all starts and texts stay; no new overlap appears,
\* the repaired ones are gone and nothing is left for a second repair; every
\* overlap that stays is reported; and undoing it gives the tracks back.
RepairIsSafe(tracks) ==
  LET plan  == Plan(tracks)
      after == ApplyPlan(tracks, plan.changes)
      old   == tracks[1]
      new   == after[1]
  IN /\ \A t \in DOMAIN tracks : \A i \in DOMAIN tracks[t] :
          after[t][i] = [tracks[t][i] EXCEPT !.end = after[t][i].end]
     /\ \A i \in DOMAIN old : new[i].end # old[i].end =>
          /\ new[i].end - new[i].start >= MinSpan
          /\ old[i].end - new[i].end <= MaxOverlap
          /\ 10 * (new[i].end - new[i].start) >= 9 * (old[i].end - old[i].start)
     /\ Overlaps(new) = {p \in Overlaps(old) : \A c \in plan.changes : c.index # p[1]}
     /\ \A p \in Overlaps(new) : \E issue \in plan.issues : issue.row \in {p[1], p[2]}
     /\ Changes(after) = {}
     /\ Aligned(tracks) => Aligned(after)
     /\ plan.changes # {} => Undoable(after, plan) /\ UndoPlan(after, plan.changes) = tracks
=============================================================================
