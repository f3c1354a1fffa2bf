------------------------ MODULE SubtitleVersionsProofs ------------------------
(***************************************************************************)
(* Proofs about SubtitleTiming and SubtitleVersions: a repair of any       *)
(* tracks is harmless, complete and reversible, and the versions that it   *)
(* makes keep what UndoPoint promises, for any files, any tracks that      *)
(* speech recognition returns, any edits, and a crash between any two      *)
(* writes.                                                                 *)
(***************************************************************************)
EXTENDS SubtitleVersions, MCAlgorithms, FiniteSetTheorems, SequenceTheorems, TLAPS

-----------------------------------------------------------------------------
(* The repair of one track.                                                *)

Track == Seq(Row)

\* A row with another end.
Ending(row, end) == [row EXCEPT !.end = end]

\* Only the ends of rows are written.
LEMMA RetimedRows ==
  ASSUME NEW track \in Track, NEW changes, NEW ends \in [changes -> Int]
  PROVE  /\ Retimed(track, ends) \in Track /\ Len(Retimed(track, ends)) = Len(track)
         /\ DOMAIN Retimed(track, ends) = DOMAIN track
         /\ \A i \in DOMAIN track :
              /\ Retimed(track, ends)[i] = Ending(track[i], Retimed(track, ends)[i].end)
              /\ Retimed(track, ends)[i].start = track[i].start
              /\ Retimed(track, ends)[i].edited = track[i].edited
              /\ (\A c \in changes : c.index # i) => Retimed(track, ends)[i] = track[i]
              /\ (\E c \in changes : c.index = i) =>
                   \E c \in changes : c.index = i /\ Retimed(track, ends)[i].end = ends[c]
  <1> DEFINE new == Retimed(track, ends)
             At(i) == CHOOSE c \in changes : c.index = i
  <1>1. Len(track) \in Nat /\ DOMAIN track = 1..Len(track) /\ track \in [1..Len(track) -> Row]
    BY LenProperties DEF Track
  <1>2. /\ DOMAIN new = DOMAIN track
        /\ \A i \in DOMAIN track :
             new[i] = IF \E c \in changes : c.index = i THEN Ending(track[i], ends[At(i)]) ELSE track[i]
    BY DEF Retimed, Ending
  <1> HIDE DEF new
  <1>3. ASSUME NEW i \in DOMAIN track, NEW d \in changes, d.index = i
        PROVE  /\ At(i) \in changes /\ At(i).index = i /\ ends[At(i)] \in Int
    BY <1>3
  <1>4. ASSUME NEW row \in Row, NEW end \in Int
        PROVE  LET r == Ending(row, end)
               IN  r \in Row /\ r.end = end /\ r.start = row.start /\ r.edited = row.edited
    BY DEF Row, Ending
  <1>5. ASSUME NEW row \in Row PROVE row = Ending(row, row.end)
    BY DEF Row, Ending
  <1> HIDE DEF At
  <1>6. ASSUME NEW i \in DOMAIN track
        PROVE  /\ new[i] \in Row /\ new[i].start = track[i].start /\ new[i].edited = track[i].edited
               /\ new[i] = Ending(track[i], new[i].end)
               /\ (\A c \in changes : c.index # i) => new[i] = track[i]
               /\ (\E c \in changes : c.index = i) => \E c \in changes : c.index = i /\ new[i].end = ends[c]
    <2>1. track[i] \in Row
      BY <1>1
    <2>2. CASE \E c \in changes : c.index = i
      <3>1. At(i) \in changes /\ At(i).index = i /\ ends[At(i)] \in Int
        BY <1>3, <2>2
      <3>2. new[i] = Ending(track[i], ends[At(i)])
        BY <1>2, <2>2
      <3>3. /\ new[i] \in Row /\ new[i].end = ends[At(i)] /\ new[i].start = track[i].start
            /\ new[i].edited = track[i].edited
        BY <1>4, <2>1, <3>1, <3>2
      <3>4. QED
        BY <2>2, <3>1, <3>2, <3>3
    <2>3. CASE ~\E c \in changes : c.index = i
      BY <1>2, <1>5, <2>1, <2>3
    <2>4. QED
      BY <2>2, <2>3
  <1>7. new \in Track /\ Len(new) = Len(track)
    <2>1. new \in [1..Len(track) -> Row]
      BY <1>1, <1>2, <1>6 DEF Retimed, new
    <2>2. QED
      BY <1>1, <2>1 DEF Track
  <1>8. QED
    BY <1>2, <1>6, <1>7 DEF new

\* A change trims the first of two rows that follow each other, by little, to
\* the start of the second, which ends later; no other row overlaps them.
LEMMA ChangeOfPair ==
  ASSUME NEW tracks, tracks[1] \in Track, NEW c \in Changes(tracks)
  PROVE  LET old == tracks[1]  i == c.index
         IN  /\ c \in Change /\ i \in DOMAIN old /\ i + 1 \in DOMAIN old /\ Sound(tracks)
             /\ c.start = old[i].start /\ c.end = old[i].end /\ c.newEnd = old[i + 1].start
             /\ Valid(old[i]) /\ Valid(old[i + 1])
             /\ c.newEnd < c.end /\ c.end < old[i + 1].end
             /\ c.newEnd - c.start >= MinSpan /\ c.end - c.newEnd <= MaxOverlap
             /\ 10 * (c.newEnd - c.start) >= 9 * (c.end - c.start)
             /\ Conflicts(old, i) = {i + 1} /\ Conflicts(old, i + 1) = {i}
  <1> DEFINE old == tracks[1]
  <1>1. PICK p \in Overlaps(old) :
          /\ Isolated(old, p[1], p[2]) /\ Reason(old, p[1], p[2]) = "none" /\ Sound(tracks)
          /\ c = [index |-> p[1], start |-> old[p[1]].start, end |-> old[p[1]].end, newEnd |-> old[p[2]].start]
    BY DEF Changes
  <1>2. DOMAIN old = 1..Len(old) /\ Len(old) \in Nat /\ old \in [1..Len(old) -> Row]
    BY LenProperties DEF Track
  <1>3. /\ p[1] \in DOMAIN old /\ p[2] \in DOMAIN old /\ Valid(old[p[1]]) /\ Valid(old[p[2]])
        /\ p[1] \in Nat /\ p[2] \in Nat /\ Overlap(old, p[1], p[2])
    BY <1>2 DEF Overlaps, ValidRows
  <1> HIDE DEF old
  <1>4. /\ old[p[1]] \in Row /\ old[p[2]] \in Row
    BY <1>2, <1>3
  <1>5. /\ old[p[1]].start \in Int /\ old[p[1]].end \in Int /\ old[p[2]].start \in Int /\ old[p[2]].end \in Int
    BY <1>4 DEF Row
  <1> DEFINE i == p[1]
             j == p[2]
             si == old[p[1]].start
             ei == old[p[1]].end
             sj == old[p[2]].start
             ej == old[p[2]].end
  <1>6. /\ si # sj /\ ~(ej <= ei \/ sj < si) /\ j = i + 1
        /\ ~(ei - sj > MaxOverlap) /\ ~(sj - si < MinSpan) /\ KeepsMost(ei - sj, ei - si)
    BY <1>1 DEF Reason
  <1>7. LowerOf(ei, ej) - HigherOf(si, sj) > 0
    BY <1>3 DEF Overlap
  <1>8. c.index = i /\ c.start = si /\ c.end = ei /\ c.newEnd = sj /\ c \in Change
    BY <1>1, <1>3, <1>5 DEF Change
  <1>9. Conflicts(old, i) = {j} /\ Conflicts(old, j) = {i}
    BY <1>1 DEF Isolated
  <1> HIDE DEF si, ei, sj, ej
  <1>10. si \in Int /\ ei \in Int /\ sj \in Int /\ ej \in Int
    BY <1>5 DEF si, ei, sj, ej
  <1>11. /\ sj < ei /\ ei < ej /\ sj - si >= MinSpan /\ ei - sj <= MaxOverlap /\ 10 * (sj - si) >= 9 * (ei - si)
    BY <1>6, <1>7, <1>10 DEF LowerOf, HigherOf, MaxOverlap, MinSpan, KeepsMost
  <1>12. QED
    BY <1>1, <1>3, <1>6, <1>8, <1>9, <1>11 DEF old, si, ei, sj, ej

\* Applying changes writes ends of rows, and only of those that a change names.
LEMMA TrimmedRows ==
  ASSUME NEW changes \in SUBSET Change, NEW track \in Track
  PROVE  LET new == Trimmed(track, changes)
         IN  /\ new \in Track /\ Len(new) = Len(track) /\ DOMAIN new = DOMAIN track
             /\ \A i \in DOMAIN track :
                  /\ new[i] = Ending(track[i], new[i].end)
                  /\ new[i].start = track[i].start /\ new[i].edited = track[i].edited
                  /\ (\A c \in changes : c.index # i) => new[i] = track[i]
                  /\ (\E c \in changes : c.index = i) => \E c \in changes : c.index = i /\ new[i].end = c.newEnd
  <1> DEFINE ends == [c \in changes |-> c.newEnd]
  <1>1. ends \in [changes -> Int]
    BY DEF Change
  <1>2. \A c \in changes : ends[c] = c.newEnd
    OBVIOUS
  <1>3. Trimmed(track, changes) = Retimed(track, ends)
    BY DEF Trimmed
  <1> HIDE DEF ends
  <1>4. QED
    BY <1>1, <1>2, <1>3, RetimedRows

\* So does taking them back.
LEMMA RestoredRows ==
  ASSUME NEW changes \in SUBSET Change, NEW track \in Track
  PROVE  LET old == Restored(track, changes)
         IN  /\ old \in Track /\ Len(old) = Len(track) /\ DOMAIN old = DOMAIN track
             /\ \A i \in DOMAIN track :
                  /\ old[i] = Ending(track[i], old[i].end)
                  /\ old[i].start = track[i].start
                  /\ (\A c \in changes : c.index # i) => old[i] = track[i]
                  /\ (\E c \in changes : c.index = i) => \E c \in changes : c.index = i /\ old[i].end = c.end
  <1> DEFINE ends == [c \in changes |-> c.end]
  <1>1. ends \in [changes -> Int]
    BY DEF Change
  <1>2. \A c \in changes : ends[c] = c.end
    OBVIOUS
  <1> DEFINE old == Restored(track, changes)
  <1>3. old = Retimed(track, ends)
    BY DEF Restored
  <1> HIDE DEF ends, old
  <1>4. /\ old \in Track /\ Len(old) = Len(track) /\ DOMAIN old = DOMAIN track
        /\ \A i \in DOMAIN track :
             /\ old[i] = Ending(track[i], old[i].end)
             /\ old[i].start = track[i].start
             /\ (\A c \in changes : c.index # i) => old[i] = track[i]
             /\ (\E c \in changes : c.index = i) => \E c \in changes : c.index = i /\ old[i].end = ends[c]
    BY <1>1, <1>3, RetimedRows
  <1>5. QED
    BY <1>2, <1>4 DEF old

\* Every planned change has the type of one.
LEMMA ChangesType ==
  ASSUME NEW tracks, tracks[1] \in Track
  PROVE  Changes(tracks) \in SUBSET Change
  BY ChangeOfPair

\* The repaired tracks keep the times of the source; and a repair that has a
\* change makes another source.
LEMMA AppliedTracks ==
  ASSUME NEW tracks \in Seq(Track), tracks # <<>>
  PROVE  LET changes == Changes(tracks)  after == ApplyPlan(tracks, changes)
         IN  /\ changes \in SUBSET Change
             /\ after \in Seq(Track) /\ Len(after) = Len(tracks) /\ DOMAIN after = DOMAIN tracks
             /\ \A t \in DOMAIN tracks : after[t] = Trimmed(tracks[t], changes)
             /\ changes # {} => Aligned(tracks) /\ after[1] # tracks[1]
             /\ Aligned(tracks) => Aligned(after)
  <1> DEFINE changes == Changes(tracks)
             after == ApplyPlan(tracks, changes)
             old == tracks[1]
             new == after[1]
  <1>1. /\ Len(tracks) \in Nat /\ DOMAIN tracks = 1..Len(tracks) /\ 1 \in DOMAIN tracks
        /\ tracks \in [1..Len(tracks) -> Track] /\ old \in Track
    <2>1. Len(tracks) \in Nat /\ Len(tracks) # 0 /\ tracks \in [1..Len(tracks) -> Track]
      BY LenProperties, EmptySeq
    <2>2. QED
      BY <2>1
  <1>2. changes \in SUBSET Change
    BY <1>1, ChangesType
  <1>3. DOMAIN after = DOMAIN tracks /\ \A t \in DOMAIN tracks : after[t] = Trimmed(tracks[t], changes)
    BY DEF ApplyPlan
  <1>4. \A c \in changes : /\ c.index \in DOMAIN old /\ Sound(tracks) /\ c.end = old[c.index].end
                           /\ c.newEnd = old[c.index + 1].start /\ c.newEnd < c.end /\ c.end \in Int /\ c.newEnd \in Int
    <2>1. SUFFICES ASSUME NEW c \in changes
                   PROVE  /\ c.index \in DOMAIN old /\ Sound(tracks) /\ c.end = old[c.index].end
                          /\ c.newEnd = old[c.index + 1].start /\ c.newEnd < c.end /\ c.end \in Int /\ c.newEnd \in Int
      OBVIOUS
    <2>2. c.end \in Int /\ c.newEnd \in Int
      BY <1>2 DEF Change
    <2>3. QED
      BY <1>1, <2>2, ChangeOfPair
  <1>5. new = Trimmed(old, changes)
    BY <1>1, <1>3
  <1> HIDE DEF changes, after
  <1>6. after \in Seq(Track) /\ Len(after) = Len(tracks)
    <2>1. \A t \in DOMAIN tracks : after[t] \in Track
      BY <1>1, <1>2, <1>3, TrimmedRows
    <2>2. after = [t \in DOMAIN tracks |-> after[t]]
      BY DEF ApplyPlan, after
    <2>3. after \in [1..Len(tracks) -> Track]
      BY <1>1, <2>1, <2>2
    <2>4. QED
      BY <1>1, <2>3
  <1> HIDE DEF old, new
  <1>7. /\ old \in Track /\ new \in Track /\ Len(new) = Len(old) /\ DOMAIN new = DOMAIN old
        /\ \A i \in DOMAIN old :
             /\ new[i] = Ending(old[i], new[i].end)
             /\ new[i].start = old[i].start
             /\ (\A c \in changes : c.index # i) => new[i] = old[i]
             /\ (\E c \in changes : c.index = i) => \E c \in changes : c.index = i /\ new[i].end = c.newEnd
    <2> DEFINE x == Trimmed(old, changes)
    <2>1. old \in Track
      BY <1>1
    <2>2. /\ x \in Track /\ Len(x) = Len(old) /\ DOMAIN x = DOMAIN old
          /\ \A i \in DOMAIN old :
               /\ x[i] = Ending(old[i], x[i].end)
               /\ x[i].start = old[i].start /\ x[i].edited = old[i].edited
               /\ (\A c \in changes : c.index # i) => x[i] = old[i]
               /\ (\E c \in changes : c.index = i) => \E c \in changes : c.index = i /\ x[i].end = c.newEnd
      BY <1>2, <2>1, TrimmedRows, Zenon
    <2>3. x = new
      BY <1>5
    <2> HIDE DEF x
    <2>4. QED
      BY <2>1, <2>2, <2>3
  <1>8. ASSUME changes # {} PROVE Aligned(tracks) /\ new # old
    <2>1. PICK c \in changes : TRUE
      BY <1>8
    <2>2. \E d \in changes : d.index = c.index /\ new[c.index].end = d.newEnd
      BY <1>4, <1>7, <2>1
    <2>3. new[c.index].end # old[c.index].end
      BY <1>4, <2>1, <2>2
    <2>4. QED
      BY <1>4, <2>1, <2>3 DEF Sound
  <1>9. ASSUME Aligned(tracks), NEW t \in DOMAIN tracks
        PROVE  /\ Len(after[t]) = Len(new)
               /\ \A i \in DOMAIN new : after[t][i].start = new[i].start /\ after[t][i].end = new[i].end
    <2> DEFINE track == tracks[t]
    <2>1. track \in Track /\ after[t] = Trimmed(track, changes)
      BY <1>1, <1>3
    <2>2. Len(track) = Len(old) /\ \A i \in DOMAIN old : track[i].start = old[i].start /\ track[i].end = old[i].end
      BY <1>9 DEF Aligned, old
    <2> HIDE DEF track
    <2>3. DOMAIN track = DOMAIN old
      BY <1>7, <2>1, <2>2, LenProperties DEF Track
    <2>4. /\ Len(after[t]) = Len(track) /\ DOMAIN after[t] = DOMAIN track
          /\ \A i \in DOMAIN track :
               /\ after[t][i].start = track[i].start
               /\ (\A c \in changes : c.index # i) => after[t][i] = track[i]
               /\ (\E c \in changes : c.index = i) => \E c \in changes : c.index = i /\ after[t][i].end = c.newEnd
      BY <1>2, <2>1, TrimmedRows
    <2>5. ASSUME NEW i \in DOMAIN old
          PROVE  after[t][i].start = new[i].start /\ after[t][i].end = new[i].end
      <3>1. after[t][i].start = new[i].start
        BY <1>7, <2>2, <2>3, <2>4
      <3>2. CASE \E c \in changes : c.index = i
        <4>1. PICK c \in changes : c.index = i /\ after[t][i].end = c.newEnd
          BY <2>3, <2>4, <3>2
        <4>2. PICK d \in changes : d.index = i /\ new[i].end = d.newEnd
          BY <1>7, <3>2
        <4>3. c.newEnd = d.newEnd
          BY <1>4, <4>1, <4>2
        <4>4. QED
          BY <3>1, <4>1, <4>2, <4>3
      <3>3. CASE ~\E c \in changes : c.index = i
        <4>1. after[t][i] = track[i]
          BY <2>3, <2>4, <3>3
        <4>2. new[i] = old[i]
          BY <1>7, <3>3
        <4>3. QED
          BY <2>2, <4>1, <4>2
      <3>4. QED
        BY <3>2, <3>3
    <2>6. QED
      BY <1>7, <2>2, <2>4, <2>5
  <1>10. Aligned(tracks) => Aligned(after)
    BY <1>3, <1>9 DEF Aligned, new
  <1>11. QED
    BY <1>2, <1>3, <1>6, <1>8, <1>10 DEF changes, after, old, new

-----------------------------------------------------------------------------
(* The repair of any tracks.                                               *)

\* A source track and what a repair by these changes makes of it.
Repairs(old, new, changes) ==
  /\ old \in Track /\ new \in Track /\ DOMAIN new = DOMAIN old
  /\ \A i \in DOMAIN old :
       /\ new[i].start = old[i].start /\ new[i].edited = old[i].edited
       /\ Valid(old[i]) => new[i].start < new[i].end
       /\ new[i].end <= old[i].end
       /\ (\A c \in changes : c.index # i) => new[i] = old[i]
  /\ \A c \in changes :
       /\ c.index \in DOMAIN old /\ c.index + 1 \in DOMAIN old
       /\ new[c.index].end = old[c.index + 1].start
       /\ Conflicts(old, c.index) = {c.index + 1} /\ Conflicts(old, c.index + 1) = {c.index}

\* A row of a track has times.
LEMMA RowHasTimes ==
  ASSUME NEW track \in Track, NEW i \in DOMAIN track
  PROVE  track[i] \in Row /\ track[i].start \in Int /\ track[i].end \in Int /\ i \in Nat
  <1>1. DOMAIN track = 1..Len(track) /\ Len(track) \in Nat /\ track \in [1..Len(track) -> Row]
    BY LenProperties DEF Track
  <1>2. track[i] \in Row /\ i \in Nat
    BY <1>1
  <1>3. QED
    BY <1>2 DEF Row

\* Two rows overlap when each begins before the other ends.
LEMMA OverlapMeans ==
  ASSUME NEW track \in Track, NEW i \in DOMAIN track, NEW j \in DOMAIN track
  PROVE  Overlap(track, i, j) <=>
           /\ track[i].start < track[i].end /\ track[i].start < track[j].end
           /\ track[j].start < track[i].end /\ track[j].start < track[j].end
  <1>1. /\ track[i].start \in Int /\ track[i].end \in Int
        /\ track[j].start \in Int /\ track[j].end \in Int
    BY RowHasTimes
  <1>2. QED
    BY <1>1 DEF Overlap, LowerOf, HigherOf

\* A row is in conflict with those that it overlaps.
LEMMA ConflictMeans ==
  ASSUME NEW track \in Track, NEW i \in ValidRows(track), NEW j \in ValidRows(track)
  PROVE  /\ j \in Conflicts(track, i) <=> i # j /\ Overlap(track, i, j)
         /\ Overlap(track, i, j) <=> Overlap(track, j, i)
         /\ i \in Nat /\ j \in Nat /\ i \in DOMAIN track /\ j \in DOMAIN track
  <1>1. i \in DOMAIN track /\ j \in DOMAIN track /\ i \in Nat /\ j \in Nat
    BY LenProperties DEF Track, ValidRows
  <1>2. j \in Conflicts(track, i) <=> i # j /\ Overlap(track, i, j)
    BY DEF Conflicts
  <1>3. Overlap(track, i, j) <=> Overlap(track, j, i)
    BY <1>1, OverlapMeans
  <1>4. QED
    BY <1>1, <1>2, <1>3

\* A repair leaves valid what was valid, and trims no row that overlaps another
\* one but its own.
LEMMA RepairedRows ==
  ASSUME NEW old, NEW new, NEW changes, Repairs(old, new, changes)
  PROVE  /\ ValidRows(new) = ValidRows(old)
         /\ \A i \in DOMAIN old, j \in DOMAIN old :
              Overlap(new, i, j) => Overlap(old, i, j)
         /\ \A c \in changes : ~Overlap(new, c.index, c.index + 1)
  <1>1. old \in Track /\ new \in Track /\ DOMAIN new = DOMAIN old
    BY DEF Repairs
  <1>2. ASSUME NEW i \in DOMAIN old
        PROVE  /\ old[i].start \in Int /\ old[i].end \in Int
               /\ new[i].start \in Int /\ new[i].end \in Int
               /\ new[i].start = old[i].start /\ new[i].end <= old[i].end
               /\ Valid(new[i]) <=> Valid(old[i])
    <2>1. /\ old[i].start \in Int /\ old[i].end \in Int /\ new[i].start \in Int /\ new[i].end \in Int
      BY <1>1, RowHasTimes
    <2>2. /\ new[i].start = old[i].start /\ new[i].end <= old[i].end
          /\ Valid(old[i]) => new[i].start < new[i].end
      BY DEF Repairs
    <2>3. QED
      BY <2>1, <2>2 DEF Valid
  <1>3. ValidRows(new) = ValidRows(old)
    BY <1>1, <1>2 DEF ValidRows
  <1>4. ASSUME NEW i \in DOMAIN old, NEW j \in DOMAIN old, Overlap(new, i, j)
        PROVE  Overlap(old, i, j)
    <2>1. /\ new[i].start < new[i].end /\ new[i].start < new[j].end
          /\ new[j].start < new[i].end /\ new[j].start < new[j].end
      BY <1>1, <1>4, OverlapMeans
    <2>2. /\ old[i].start < old[i].end /\ old[i].start < old[j].end
          /\ old[j].start < old[i].end /\ old[j].start < old[j].end
      BY <1>2, <2>1
    <2>3. QED
      BY <1>1, <2>2, OverlapMeans
  <1>5. ASSUME NEW c \in changes PROVE ~Overlap(new, c.index, c.index + 1)
    <2>1. /\ c.index \in DOMAIN old /\ c.index + 1 \in DOMAIN old
          /\ new[c.index].end = old[c.index + 1].start
      BY DEF Repairs
    <2>2. new[c.index + 1].start = old[c.index + 1].start /\ old[c.index + 1].start \in Int
      BY <1>2, <2>1
    <2>3. ~(new[c.index + 1].start < new[c.index].end)
      BY <2>1, <2>2
    <2>4. QED
      BY <1>1, <2>1, <2>3, OverlapMeans
  <1>6. QED
    BY <1>3, <1>4, <1>5

\* Whoever overlaps a trimmed row was trimmed with it, or is its neighbour.
LEMMA TrimmedPair ==
  ASSUME NEW old, NEW new, NEW changes, Repairs(old, new, changes), NEW c \in changes,
         NEW i \in ValidRows(old), NEW j \in ValidRows(old), i < j, Overlap(old, i, j),
         c.index = i \/ c.index = j
  PROVE  c.index = i /\ j = i + 1
  <1>1. old \in Track /\ Conflicts(old, c.index) = {c.index + 1}
    BY DEF Repairs
  <1>2. j \in Conflicts(old, i) /\ i \in Conflicts(old, j) /\ i \in Nat /\ j \in Nat
    BY <1>1, ConflictMeans
  <1>3. QED
    BY <1>1, <1>2

\* The overlaps that are repaired are gone, the others stay with both their rows.
LEMMA OverlapsThatStay ==
  ASSUME NEW old, NEW new, NEW changes, Repairs(old, new, changes)
  PROVE  /\ Overlaps(new) = {p \in Overlaps(old) : \A c \in changes : c.index # p[1]}
         /\ \A p \in Overlaps(new) : new[p[1]] = old[p[1]] /\ new[p[2]] = old[p[2]]
  <1> DEFINE stay == {p \in Overlaps(old) : \A c \in changes : c.index # p[1]}
  <1>1. old \in Track /\ DOMAIN new = DOMAIN old /\ ValidRows(new) = ValidRows(old)
    BY RepairedRows DEF Repairs
  <1>2. \A i \in DOMAIN old : (\A c \in changes : c.index # i) => new[i] = old[i]
    BY DEF Repairs
  <1>3. ASSUME NEW p \in Overlaps(old)
        PROVE  /\ p \in ValidRows(old) \X ValidRows(old) /\ p[1] \in ValidRows(old) /\ p[2] \in ValidRows(old)
               /\ p[1] \in DOMAIN old /\ p[2] \in DOMAIN old
               /\ p[1] < p[2] /\ Overlap(old, p[1], p[2])
    BY DEF Overlaps, ValidRows
  <1>4. ASSUME NEW p \in stay
        PROVE  new[p[1]] = old[p[1]] /\ new[p[2]] = old[p[2]] /\ p \in Overlaps(new)
    <2>1. p \in Overlaps(old) /\ \A c \in changes : c.index # p[1]
      OBVIOUS
    <2>2. /\ p[1] \in ValidRows(old) /\ p[2] \in ValidRows(old) /\ p[1] \in DOMAIN old /\ p[2] \in DOMAIN old
          /\ p[1] < p[2] /\ Overlap(old, p[1], p[2]) /\ p \in ValidRows(old) \X ValidRows(old)
      BY <1>3, <2>1
    <2>3. \A c \in changes : c.index # p[2]
      BY <2>1, <2>2, TrimmedPair
    <2>4. new[p[1]] = old[p[1]] /\ new[p[2]] = old[p[2]]
      BY <1>2, <2>1, <2>2, <2>3
    <2>5. Overlap(new, p[1], p[2])
      BY <2>2, <2>4 DEF Overlap
    <2>6. QED
      BY <1>1, <2>2, <2>4, <2>5 DEF Overlaps
  <1>5. ASSUME NEW p \in Overlaps(new)
        PROVE  p \in stay
    <2>1. /\ p \in ValidRows(old) \X ValidRows(old) /\ p[1] \in ValidRows(old) /\ p[2] \in ValidRows(old)
          /\ p[1] < p[2] /\ Overlap(new, p[1], p[2])
      BY <1>1 DEF Overlaps
    <2>2. p[1] \in DOMAIN old /\ p[2] \in DOMAIN old
      BY <2>1 DEF ValidRows
    <2>3. Overlap(old, p[1], p[2])
      BY <2>1, <2>2, RepairedRows
    <2>4. p \in Overlaps(old)
      BY <2>1, <2>3 DEF Overlaps
    <2>5. ASSUME NEW c \in changes, c.index = p[1] PROVE FALSE
      <3>1. p[2] = p[1] + 1
        BY <2>1, <2>3, <2>5, TrimmedPair
      <3>2. ~Overlap(new, p[1], p[2])
        BY <2>5, <3>1, RepairedRows
      <3>3. QED
        BY <2>1, <3>2
    <2>6. QED
      BY <2>4, <2>5
  <1>6. QED
    BY <1>4, <1>5

\* A row in conflict with another is the first or the second of an overlap.
LEMMA ConflictIsOverlap ==
  ASSUME NEW track \in Track, NEW i \in ValidRows(track), NEW j \in Conflicts(track, i)
  PROVE  /\ j \in ValidRows(track) /\ i # j /\ i \in Nat /\ j \in Nat
         /\ i < j => <<i, j>> \in Overlaps(track)
         /\ j < i => <<j, i>> \in Overlaps(track)
  <1>1. j \in ValidRows(track)
    BY DEF Conflicts
  <1>2. i # j /\ Overlap(track, i, j) /\ Overlap(track, j, i) /\ i \in Nat /\ j \in Nat
    BY <1>1, ConflictMeans
  <1>3. i < j => <<i, j>> \in Overlaps(track)
    BY <1>1, <1>2 DEF Overlaps
  <1>4. j < i => <<j, i>> \in Overlaps(track)
    BY <1>1, <1>2 DEF Overlaps
  <1>5. QED
    BY <1>1, <1>2, <1>3, <1>4

\* A pair that nothing else overlaps after a repair was one before it.
LEMMA PairThatStays ==
  ASSUME NEW old, NEW new, NEW changes, Repairs(old, new, changes),
         NEW p \in Overlaps(new), Isolated(new, p[1], p[2])
  PROVE  Isolated(old, p[1], p[2])
  <1>1. old \in Track /\ new \in Track /\ ValidRows(new) = ValidRows(old) /\ p \in Overlaps(old)
    <2>1. old \in Track /\ new \in Track
      BY DEF Repairs
    <2>2. p \in Overlaps(old)
      BY OverlapsThatStay
    <2>3. QED
      BY <2>1, <2>2, RepairedRows
  <1>2. /\ p[1] \in ValidRows(old) /\ p[2] \in ValidRows(old) /\ p[1] < p[2]
        /\ Overlap(old, p[1], p[2])
    BY <1>1 DEF Overlaps
  <1>3. p[2] \in Conflicts(old, p[1]) /\ p[1] \in Conflicts(old, p[2]) /\ p[1] \in Nat /\ p[2] \in Nat
    BY <1>1, <1>2, ConflictMeans
  <1>4. Conflicts(new, p[1]) = {p[2]} /\ Conflicts(new, p[2]) = {p[1]}
    BY DEF Isolated
  <1>5. ASSUME NEW i \in ValidRows(old), NEW j \in Conflicts(old, i), NEW k \in Conflicts(old, i), j # k,
               NEW c \in changes
        PROVE  c.index # i /\ (j < i => c.index # j)
    <2>1. \A d \in changes : Conflicts(old, d.index) = {d.index + 1} /\ Conflicts(old, d.index + 1) = {d.index}
      BY DEF Repairs
    <2>2. c.index # i
      BY <1>5, <2>1
    <2>3. ASSUME j < i, c.index = j PROVE FALSE
      <3>1. <<j, i>> \in Overlaps(old)
        BY <1>1, <2>3, ConflictIsOverlap
      <3>2. j \in ValidRows(old) /\ Overlap(old, j, i)
        BY <3>1 DEF Overlaps
      <3>3. i = j + 1
        BY <2>3, <3>2, TrimmedPair
      <3>4. QED
        BY <1>5, <2>1, <2>3, <3>3
    <2>4. QED
      BY <2>2, <2>3
  <1>6. ASSUME NEW i \in ValidRows(old), NEW j \in Conflicts(old, i), NEW k \in Conflicts(old, i), j # k
        PROVE  k \in Conflicts(new, i)
    <2>1. /\ k \in ValidRows(old) /\ i # k /\ i \in Nat /\ k \in Nat
          /\ i < k => <<i, k>> \in Overlaps(old)
          /\ k < i => <<k, i>> \in Overlaps(old)
      BY <1>1, ConflictIsOverlap
    <2>2. \A c \in changes : c.index # i /\ (k < i => c.index # k)
      BY <1>5, <1>6
    <2>3. /\ i < k => <<i, k>> \in Overlaps(new)
          /\ k < i => <<k, i>> \in Overlaps(new)
      BY <2>1, <2>2, OverlapsThatStay
    <2>4. Overlap(new, i, k) \/ Overlap(new, k, i)
      BY <2>1, <2>3 DEF Overlaps
    <2>5. QED
      BY <1>1, <2>1, <2>4, ConflictMeans
  <1>7. ASSUME NEW k \in Conflicts(old, p[1]) PROVE k = p[2]
    BY <1>2, <1>3, <1>4, <1>6, <1>7
  <1>8. ASSUME NEW k \in Conflicts(old, p[2]) PROVE k = p[1]
    BY <1>2, <1>3, <1>4, <1>6, <1>8
  <1>9. QED
    BY <1>3, <1>7, <1>8 DEF Isolated

\* What a repair makes of the source.
LEMMA SourceIsRepaired ==
  ASSUME NEW tracks \in Seq(Track), tracks # <<>>
  PROVE  /\ Repairs(tracks[1], ApplyPlan(tracks, Changes(tracks))[1], Changes(tracks))
         /\ \A i \in DOMAIN tracks[1] :
              LET old == tracks[1]  new == ApplyPlan(tracks, Changes(tracks))[1]
              IN  new[i].end # old[i].end =>
                    /\ new[i].end - new[i].start >= MinSpan
                    /\ old[i].end - new[i].end <= MaxOverlap
                    /\ 10 * (new[i].end - new[i].start) >= 9 * (old[i].end - old[i].start)
  <1> DEFINE changes == Changes(tracks)
             old == tracks[1]
             new == ApplyPlan(tracks, changes)[1]
  <1>1. 1 \in DOMAIN tracks /\ old \in Track
    <2>1. Len(tracks) \in Nat /\ Len(tracks) # 0 /\ tracks \in [1..Len(tracks) -> Track]
      BY LenProperties, EmptySeq
    <2>2. QED
      BY <2>1
  <1>2. changes \in SUBSET Change /\ new = Trimmed(old, changes)
    BY <1>1, AppliedTracks
  <1>3. ASSUME NEW c \in changes
        PROVE  /\ c.index \in DOMAIN old /\ c.index + 1 \in DOMAIN old
               /\ c.start = old[c.index].start /\ c.end = old[c.index].end
               /\ c.newEnd = old[c.index + 1].start /\ c.newEnd < c.end
               /\ c.newEnd - c.start >= MinSpan /\ c.end - c.newEnd <= MaxOverlap
               /\ 10 * (c.newEnd - c.start) >= 9 * (c.end - c.start)
               /\ Conflicts(old, c.index) = {c.index + 1} /\ Conflicts(old, c.index + 1) = {c.index}
    BY <1>1, ChangeOfPair
  <1> DEFINE trimmed == Trimmed(old, changes)
  <1>4. /\ trimmed \in Track /\ DOMAIN trimmed = DOMAIN old
        /\ \A i \in DOMAIN old :
             /\ trimmed[i].start = old[i].start /\ trimmed[i].edited = old[i].edited
             /\ (\A c \in changes : c.index # i) => trimmed[i] = old[i]
             /\ (\E c \in changes : c.index = i) => \E c \in changes : c.index = i /\ trimmed[i].end = c.newEnd
    BY <1>1, <1>2, TrimmedRows, Zenon
  <1>5. new = trimmed
    BY <1>2
  <1> HIDE DEF trimmed, new, changes, old
  <1>6. ASSUME NEW i \in DOMAIN old
        PROVE  /\ Valid(old[i]) => new[i].start < new[i].end
               /\ new[i].end <= old[i].end
               /\ new[i].end # old[i].end =>
                    /\ new[i].end - new[i].start >= MinSpan
                    /\ old[i].end - new[i].end <= MaxOverlap
                    /\ 10 * (new[i].end - new[i].start) >= 9 * (old[i].end - old[i].start)
    <2>1. /\ old[i].start \in Int /\ old[i].end \in Int
      BY <1>1, RowHasTimes
    <2>2. CASE \A c \in changes : c.index # i
      <3>1. new[i] = old[i]
        BY <1>4, <1>5, <2>2
      <3>2. QED
        BY <2>1, <3>1 DEF Valid
    <2>3. CASE \E c \in changes : c.index = i
      <3>1. PICK c \in changes : c.index = i /\ new[i].end = c.newEnd
        BY <1>4, <1>5, <2>3
      <3>2. new[i].start = old[i].start /\ new[i].end \in Int
        BY <1>4, <1>5, RowHasTimes
      <3>3. /\ new[i].end < old[i].end /\ new[i].end - new[i].start >= MinSpan
            /\ old[i].end - new[i].end <= MaxOverlap
            /\ 10 * (new[i].end - new[i].start) >= 9 * (old[i].end - old[i].start)
        BY <1>3, <3>1, <3>2
      <3>4. new[i].start < new[i].end /\ new[i].end <= old[i].end
        BY <2>1, <3>2, <3>3 DEF MinSpan
      <3>5. QED
        BY <3>3, <3>4
    <2>4. QED
      BY <2>2, <2>3
  <1>7. ASSUME NEW c \in changes PROVE new[c.index].end = old[c.index + 1].start
    <2>1. \E d \in changes : d.index = c.index /\ new[c.index].end = d.newEnd
      BY <1>3, <1>4, <1>5
    <2>2. QED
      BY <1>3, <2>1
  <1>8. Repairs(old, new, changes)
    BY <1>1, <1>3, <1>4, <1>5, <1>6, <1>7 DEF Repairs
  <1>9. QED
    BY <1>6, <1>8 DEF new, changes, old

\* Undoing a repair gives the tracks back.
LEMMA UndoneTracks ==
  ASSUME NEW tracks \in Seq(Track), tracks # <<>>
  PROVE  LET changes == Changes(tracks)  after == ApplyPlan(tracks, changes)
         IN  /\ UndoPlan(after, changes) = tracks
             /\ \A c \in changes, t \in DOMAIN tracks :
                  /\ c.index \in DOMAIN after[t] /\ after[t][c.index].start = c.start
                  /\ after[t][c.index].end = c.newEnd
  <1> DEFINE changes == Changes(tracks)
             after == ApplyPlan(tracks, changes)
             old == tracks[1]
  <1>1. /\ Len(tracks) \in Nat /\ DOMAIN tracks = 1..Len(tracks) /\ 1 \in DOMAIN tracks
        /\ tracks \in [1..Len(tracks) -> Track] /\ old \in Track
    <2>1. Len(tracks) \in Nat /\ Len(tracks) # 0 /\ tracks \in [1..Len(tracks) -> Track]
      BY LenProperties, EmptySeq
    <2>2. QED
      BY <2>1
  <1>2. changes \in SUBSET Change /\ DOMAIN after = DOMAIN tracks
        /\ \A t \in DOMAIN tracks : after[t] = Trimmed(tracks[t], changes)
    BY AppliedTracks
  <1>3. ASSUME NEW c \in changes
        PROVE  /\ c.index \in DOMAIN old /\ Aligned(tracks)
               /\ c.start = old[c.index].start /\ c.end = old[c.index].end /\ c.newEnd = old[c.index + 1].start
    BY <1>1, ChangeOfPair DEF Sound
  <1>4. UndoPlan(after, changes) = [t \in DOMAIN tracks |-> Restored(after[t], changes)]
    BY <1>2 DEF UndoPlan
  <1> HIDE DEF changes, after
  <1>5. ASSUME NEW t \in DOMAIN tracks
        PROVE  /\ Restored(after[t], changes) = tracks[t]
               /\ \A c \in changes :
                    /\ c.index \in DOMAIN after[t] /\ after[t][c.index].start = c.start
                    /\ after[t][c.index].end = c.newEnd
    <2> DEFINE track == tracks[t]
               new == after[t]
               back == Restored(new, changes)
    <2>1. track \in Track /\ new = Trimmed(track, changes)
      BY <1>1, <1>2
    <2>2. ASSUME NEW c \in changes
          PROVE  c.index \in DOMAIN track /\ c.start = track[c.index].start /\ c.end = track[c.index].end
      <3>1. /\ Len(track) = Len(old)
            /\ \A i \in DOMAIN old : track[i].start = old[i].start /\ track[i].end = old[i].end
        BY <1>3 DEF Aligned
      <3> HIDE DEF track, old
      <3>2. DOMAIN track = DOMAIN old
        BY <1>1, <2>1, <3>1, LenProperties DEF Track
      <3>3. QED
        BY <1>3, <3>1, <3>2
    <2> HIDE DEF track, old
    <2>3. /\ new \in Track /\ Len(new) = Len(track) /\ DOMAIN new = DOMAIN track
          /\ \A i \in DOMAIN track :
               /\ new[i] = Ending(track[i], new[i].end) /\ new[i].start = track[i].start
               /\ (\A c \in changes : c.index # i) => new[i] = track[i]
               /\ (\E c \in changes : c.index = i) => \E c \in changes : c.index = i /\ new[i].end = c.newEnd
      BY <1>2, <2>1, TrimmedRows
    <2> HIDE DEF new
    <2>4. /\ back \in Track /\ Len(back) = Len(new) /\ DOMAIN back = DOMAIN new
          /\ \A i \in DOMAIN new :
               /\ back[i] = Ending(new[i], back[i].end)
               /\ (\A c \in changes : c.index # i) => back[i] = new[i]
               /\ (\E c \in changes : c.index = i) => \E c \in changes : c.index = i /\ back[i].end = c.end
      BY <1>2, <2>3, RestoredRows
    <2> HIDE DEF back
    <2>5. ASSUME NEW row \in Row, NEW a, NEW b, b = row.end PROVE Ending(Ending(row, a), b) = row
      BY <2>5 DEF Ending, Row
    <2>6. ASSUME NEW i \in DOMAIN track PROVE back[i] = track[i]
      <3>1. CASE \A c \in changes : c.index # i
        BY <2>3, <2>4, <3>1
      <3>2. CASE \E c \in changes : c.index = i
        <4>1. back[i].end = track[i].end
          BY <2>2, <2>3, <2>4, <3>2
        <4>2. track[i] \in Row
          BY <2>1, RowHasTimes
        <4>3. back[i] = Ending(Ending(track[i], new[i].end), back[i].end)
          BY <2>3, <2>4
        <4>4. QED
          BY <2>5, <4>1, <4>2, <4>3
      <3>3. QED
        BY <3>1, <3>2
    <2>7. back = track
      <3>1. /\ Len(back) = Len(track) /\ back \in [1..Len(back) -> Row]
            /\ track \in [1..Len(track) -> Row] /\ DOMAIN track = 1..Len(track)
        BY <2>1, <2>3, <2>4, LenProperties DEF Track
      <3>2. QED
        BY <2>6, <3>1
    <2>8. ASSUME NEW c \in changes
          PROVE  c.index \in DOMAIN new /\ new[c.index].start = c.start /\ new[c.index].end = c.newEnd
      <3>1. c.index \in DOMAIN new /\ new[c.index].start = c.start
        BY <2>2, <2>3
      <3>2. PICK d \in changes : d.index = c.index /\ new[c.index].end = d.newEnd
        BY <2>2, <2>3
      <3>3. c.newEnd = d.newEnd
        BY <1>3, <3>2
      <3>4. QED
        BY <3>1, <3>2, <3>3
    <2>9. QED
      BY <2>7, <2>8 DEF back, new, track
  <1>6. UndoPlan(after, changes) = tracks
    BY <1>1, <1>4, <1>5
  <1>7. QED
    BY <1>5, <1>6 DEF changes, after

\* Without a change a track is what it was.
LEMMA NothingToTrim ==
  ASSUME NEW track \in Track
  PROVE  Trimmed(track, {}) = track
  <1>1. track \in [1..Len(track) -> Row] /\ DOMAIN track = 1..Len(track)
    BY LenProperties DEF Track
  <1>2. Trimmed(track, {}) = [i \in DOMAIN track |-> track[i]]
    BY DEF Trimmed, Retimed
  <1>3. QED
    BY <1>1, <1>2

\* plan_subtitle_timing and apply_timing_plan, for any tracks at any times: only
\* ends of rows are moved, by at most 120 ms and a tenth of the row, and no row
\* is left shorter than 200 ms; no overlap is made, and one that stays is
\* reported for review; a second analysis has nothing to repair; translations
\* keep the times of their source; and undo_timing_plan accepts the result and
\* gives the tracks back.
THEOREM AnyRepairIsSafe ==
  ASSUME NEW tracks \in Seq(Seq(Row)), tracks # <<>>
  PROVE  RepairIsSafe(tracks)
  <1> DEFINE plan == Plan(tracks)
             changes == Changes(tracks)
             after == ApplyPlan(tracks, changes)
             old == tracks[1]
             new == after[1]
  <1>1. plan.changes = changes /\ plan.issues = Issues(tracks)
    BY DEF Plan
  <1>2. tracks \in Seq(Track) /\ Track = Seq(Row)
    BY DEF Track
  <1>3. /\ Len(tracks) \in Nat /\ DOMAIN tracks = 1..Len(tracks) /\ 1 \in DOMAIN tracks
        /\ tracks \in [1..Len(tracks) -> Track] /\ old \in Track
    <2>1. Len(tracks) \in Nat /\ Len(tracks) # 0 /\ tracks \in [1..Len(tracks) -> Track]
      BY <1>2, LenProperties, EmptySeq
    <2>2. QED
      BY <2>1
  <1>4. /\ changes \in SUBSET Change /\ after \in Seq(Track) /\ after # <<>> /\ DOMAIN after = DOMAIN tracks
        /\ \A t \in DOMAIN tracks : after[t] = Trimmed(tracks[t], changes)
        /\ Aligned(tracks) => Aligned(after)
    <2>1. /\ changes \in SUBSET Change /\ after \in Seq(Track) /\ DOMAIN after = DOMAIN tracks
          /\ \A t \in DOMAIN tracks : after[t] = Trimmed(tracks[t], changes)
          /\ Aligned(tracks) => Aligned(after)
      BY <1>2, AppliedTracks
    <2> HIDE DEF after
    <2>2. after # <<>>
      BY <1>3, <2>1
    <2>3. QED
      BY <2>1, <2>2
  <1>5. Repairs(old, new, changes)
    BY <1>2, SourceIsRepaired
  <1>6. \A i \in DOMAIN old : new[i].end # old[i].end =>
          /\ new[i].end - new[i].start >= MinSpan
          /\ old[i].end - new[i].end <= MaxOverlap
          /\ 10 * (new[i].end - new[i].start) >= 9 * (old[i].end - old[i].start)
    BY <1>2, SourceIsRepaired
  <1>7. /\ Overlaps(new) = {p \in Overlaps(old) : \A c \in changes : c.index # p[1]}
        /\ \A p \in Overlaps(new) : new[p[1]] = old[p[1]] /\ new[p[2]] = old[p[2]]
    BY <1>5, OverlapsThatStay
  <1>8. /\ UndoPlan(after, changes) = tracks
        /\ \A c \in changes, t \in DOMAIN tracks :
             /\ c.index \in DOMAIN after[t] /\ after[t][c.index].start = c.start
             /\ after[t][c.index].end = c.newEnd
    BY <1>2, UndoneTracks
  <1>9. ASSUME NEW t \in DOMAIN tracks, NEW i \in DOMAIN tracks[t]
        PROVE  after[t][i] = [tracks[t][i] EXCEPT !.end = after[t][i].end]
    <2>1. tracks[t] \in Track
      BY <1>3
    <2>2. after[t] = Trimmed(tracks[t], changes) /\ changes \in SUBSET Change
      BY <1>4
    <2> HIDE DEF after, changes
    <2>3. \A x \in Track : \A k \in DOMAIN x : Trimmed(x, changes)[k] = Ending(x[k], Trimmed(x, changes)[k].end)
      BY <2>2, TrimmedRows
    <2>4. QED
      BY <2>1, <2>2, <2>3 DEF Ending
  \* A pair that nothing else overlaps, and that the code would trim, is trimmed.
  <1>10. ASSUME NEW p \in Overlaps(old), Isolated(old, p[1], p[2]), Reason(old, p[1], p[2]) = "none", Sound(tracks)
         PROVE  \E c \in changes : c.index = p[1]
    <2> DEFINE c == [index |-> p[1], start |-> old[p[1]].start, end |-> old[p[1]].end, newEnd |-> old[p[2]].start]
    <2>1. c \in changes
      BY <1>10 DEF Changes
    <2>2. c.index = p[1]
      OBVIOUS
    <2>3. QED
      BY <2>1, <2>2
  <1> HIDE DEF plan, changes, after, old, new
  <1>11. ASSUME NEW p \in Overlaps(new)
         PROVE  \E issue \in plan.issues : issue.row \in {p[1], p[2]}
    <2>1. p \in Overlaps(old) /\ \A c \in changes : c.index # p[1]
      BY <1>7
    <2>2. p = <<p[1], p[2]>>
      BY <2>1 DEF Overlaps
    <2>3. ASSUME NEW reason, Reported(reason, p) \subseteq Issues(tracks)
          PROVE  \E issue \in plan.issues : issue.row \in {p[1], p[2]}
      <3> DEFINE issue == [reason |-> reason, row |-> p[1]]
      <3>1. issue \in Issues(tracks) /\ issue.row = p[1]
        BY <2>3 DEF Reported
      <3>2. QED
        BY <1>1, <3>1
    <2>4. CASE ~Isolated(old, p[1], p[2])
      <3>1. Complex(tracks[1], p[1], p[2]) /\ p \in Overlaps(tracks[1])
        BY <2>1, <2>2, <2>4 DEF Complex, old
      <3>2. Reported("complex_overlap", p) \subseteq Issues(tracks)
        BY <3>1, Zenon DEF Issues
      <3>3. QED
        BY <2>3, <3>2
    <2>5. CASE Isolated(old, p[1], p[2])
      <3>1. p \in Refused(tracks)
        BY <1>10, <2>1, <2>5 DEF Refused, old
      <3>2. Reported(Refusal(tracks, p), p) \subseteq Issues(tracks)
        BY <3>1, Zenon DEF Issues
      <3>3. QED
        BY <2>3, <3>2
    <2>6. QED
      BY <2>4, <2>5
  <1>12. Changes(after) = {}
    <2>1. SUFFICES ASSUME NEW c \in Changes(after) PROVE FALSE
      OBVIOUS
    <2>2. PICK p \in Overlaps(new) : Isolated(new, p[1], p[2]) /\ Reason(new, p[1], p[2]) = "none"
      BY <2>1 DEF Changes, new
    <2>3. Isolated(old, p[1], p[2])
      BY <1>5, <2>2, PairThatStays
    <2>4. Reason(old, p[1], p[2]) = "none"
      BY <1>7, <2>2 DEF Reason
    <2>5. p \in Overlaps(old) /\ \A d \in changes : d.index # p[1]
      BY <1>7
    <2>6. Sound(tracks)
      <3>1. CASE changes = {}
        <4>1. \A t \in DOMAIN tracks : after[t] = tracks[t]
          BY <1>3, <1>4, <3>1, NothingToTrim
        <4>2. after = tracks
          <5>1. after \in [DOMAIN tracks -> Track] /\ tracks \in [DOMAIN tracks -> Track]
            BY <1>3, <1>4, LenProperties
          <5>2. QED
            BY <4>1, <5>1
        <4>3. QED
          BY <2>1, <3>1, <4>2 DEF changes
      <3>2. CASE changes # {}
        BY <1>3, <3>2, ChangeOfPair DEF changes, old
      <3>3. QED
        BY <3>1, <3>2
    <2>7. QED
      BY <1>10, <2>3, <2>4, <2>5, <2>6
  <1>13. Undoable(after, plan)
    <2>1. Plan(UndoPlan(after, plan.changes)) = plan
      BY <1>1, <1>8 DEF plan
    <2>2. QED
      BY <1>1, <1>4, <1>8, <2>1 DEF Undoable
  <1>14. QED
    BY <1>1, <1>4, <1>6, <1>7, <1>8, <1>9, <1>11, <1>12, <1>13 DEF RepairIsSafe, plan, changes, after, old, new

\* A track is made of rows.
IsTrack == of = "repair" => input \in Seq(Row)

LEMMA InputsAreTracks == Inputs => []IsTrack
  <1>1. FirstInput => IsTrack
    BY DEF FirstInput, IsTrack
  <1>2. IsTrack /\ [NextInput]_<<of, input>> => IsTrack'
    <2> SUFFICES ASSUME IsTrack, [NextInput]_<<of, input>> PROVE IsTrack'
      OBVIOUS
    <2>1. CASE AddSubtitle
      <3>1. of' = of
        BY <2>1, Zenon DEF AddSubtitle, Extend
      <3>2. PICK times \in RowTimes, edited \in BOOLEAN :
              Extend([start |-> times[1], end |-> times[2], text |-> SourceText, edited |-> edited])
        BY <2>1, Zenon DEF AddSubtitle
      <3>3. times[1] \in Int /\ times[2] \in Int
        BY DEF RowTimes
      <3>4. [start |-> times[1], end |-> times[2], text |-> SourceText, edited |-> edited] \in Row
        BY <3>3, TextsAssumption DEF Row
      <3> QED
        BY <3>1, <3>2, <3>4, AppendProperties DEF IsTrack, Extend
    <2>2. CASE AddLine
      <3>1. of = "script" /\ of' = of
        BY <2>2, Zenon DEF AddLine, Extend
      <3> QED
        BY <3>1 DEF IsTrack
    <2>3. CASE AddWord
      <3>1. of = "speech" /\ of' = of
        BY <2>3, Zenon DEF AddWord, Extend
      <3> QED
        BY <3>1 DEF IsTrack
    <2>4. CASE AddEntry
      <3>1. of = "settings" /\ of' = of
        BY <2>4, Zenon DEF AddEntry, Extend
      <3> QED
        BY <3>1 DEF IsTrack
    <2>5. CASE AddEncoder
      <3>1. of = "video" /\ of' = of
        BY <2>5 DEF AddEncoder, Extend
      <3> QED
        BY <3>1 DEF IsTrack
    <2>6. CASE UNCHANGED <<of, input>>
      BY <2>6 DEF IsTrack
    <2> QED
      BY <2>1, <2>2, <2>3, <2>4, <2>5, <2>6 DEF NextInput
  <1> QED
    BY <1>1, <1>2, PTL DEF Inputs

\* What the run about the algorithms checks up to a length, for any length: the
\* repair (services/subtitle_timing.py) of a source, and of a source with a
\* translation that shares its times or does not, is harmless, complete and
\* reversible.
THEOREM RepairsAreSafeHolds == Inputs => []RepairsAreSafe
  <1>1. IsTrack => RepairsAreSafe
    <2> SUFFICES ASSUME IsTrack, of = "repair"
                 PROVE  /\ RepairIsSafe(<<input>>) /\ RepairIsSafe(<<input, Same>>)
                        /\ RepairIsSafe(<<input, Late>>)
      BY Zenon DEF RepairsAreSafe
    <2>1. input \in Seq(Row) /\ DOMAIN input = 1..Len(input) /\ Len(input) \in Nat
      BY LenProperties DEF IsTrack
    <2>2. \A i \in 1..Len(input) : input[i] \in Row
      BY <2>1
    <2>3. Same \in [1..Len(input) -> Row]
      <3>1. \A row \in Row : [row EXCEPT !.text = TargetText] \in Row
        BY TextsAssumption DEF Row
      <3> HIDE DEF Row
      <3>2. ASSUME NEW n \in 1..Len(input) PROVE [input[n] EXCEPT !.text = TargetText] \in Row
        BY <2>2, <3>1
      <3> QED
        BY <2>1, <3>2 DEF Same
    <2>4. Late \in [1..Len(input) -> Row]
      <3>1. \A row \in Row : [row EXCEPT !.end = @ + 1] \in Row
        BY DEF Row
      <3> HIDE DEF Row
      <3>2. ASSUME NEW n \in 1..Len(input) PROVE IF n = 1 THEN [Same[n] EXCEPT !.end = @ + 1] \in Row ELSE Same[n] \in Row
        BY <2>3, <3>1
      <3> QED
        BY <2>1, <3>2 DEF Late
    <2>5. Same \in Seq(Row) /\ Late \in Seq(Row)
      BY <2>1, <2>3, <2>4
    <2>6. /\ <<input>> \in Seq(Seq(Row)) /\ <<input, Same>> \in Seq(Seq(Row))
          /\ <<input, Late>> \in Seq(Seq(Row))
      BY <2>1, <2>5
    <2> QED
      BY <2>6, AnyRepairIsSafe
  <1> QED
    BY <1>1, InputsAreTracks, PTL

-----------------------------------------------------------------------------
(* The files.                                                              *)

Snapshots == 1..MaxFiles

\* There are enough names that nobody uses.
LEMMA FreshNames ==
  ASSUME NEW n \in Nat, Room(n)
  PROVE  /\ Fresh(n) \in [1..n -> Snapshots \ Used] /\ Fresh(n) \in Seq(Snapshots) /\ Len(Fresh(n)) = n
         /\ \A j, k \in 1..n : Fresh(n)[j] = Fresh(n)[k] => j = k
  <1> DEFINE free == (1..MaxFiles) \ Used
             m == Cardinality(free)
             Distinct(paths) == \A j, k \in 1..n : paths[j] = paths[k] => j = k
  <1>1. IsFiniteSet(1..MaxFiles) /\ Cardinality(1..MaxFiles) = MaxFiles /\ MaxFiles \in Nat
    BY VersionsAssumption, FS_Interval
  <1>2. Used \subseteq 1..MaxFiles /\ IsFiniteSet(Used)
    BY <1>1, FS_Subset DEF Used
  <1>3. IsFiniteSet(free) /\ m = MaxFiles - Cardinality(Used)
    <2> DEFINE all == 1..MaxFiles
    <2>1. all \cap Used = Used /\ IsFiniteSet(all) /\ Cardinality(all) = MaxFiles
      BY <1>1, <1>2
    <2> HIDE DEF all
    <2>2. IsFiniteSet(all \ Used) /\ Cardinality(all \ Used) = Cardinality(all) - Cardinality(all \cap Used)
      BY <2>1, FS_Difference, Zenon
    <2>3. QED
      BY <2>1, <2>2, Zenon DEF all
  <1>4. n <= m /\ m \in Nat
    <2>1. Cardinality(Used) + n <= MaxFiles
      BY DEF Room
    <2>2. Cardinality(Used) \in Nat /\ m \in Nat
      BY <1>2, <1>3, FS_CardinalityType
    <2> HIDE DEF m
    <2>3. QED
      BY <1>1, <1>3, <2>1, <2>2
  <1>5. PICK b : b \in Bijection(1..m, free)
    BY <1>3, FS_CardinalityType DEF ExistsBijection
  <1> HIDE DEF free, m
  <1>6. [k \in 1..n |-> b[k]] \in [1..n -> free] /\ Distinct([k \in 1..n |-> b[k]])
    <2>1. 1..n \subseteq 1..m
      BY <1>4
    <2>2. b \in [1..m -> free] /\ \A j, k \in 1..m : b[j] = b[k] => j = k
      BY <1>5 DEF Bijection, Injection, IsInjective
    <2>3. QED
      BY <2>1, <2>2
  <1>7. Fresh(n) = CHOOSE paths \in [1..n -> free] : Distinct(paths)
    BY DEF Fresh, free
  <1>8. Fresh(n) \in [1..n -> free] /\ Distinct(Fresh(n))
    BY <1>6, <1>7
  <1>9. Fresh(n) \in [1..n -> Snapshots \ Used]
    BY <1>8 DEF free, Snapshots
  <1>10. Fresh(n) \in Seq(Snapshots) /\ Len(Fresh(n)) = n
    <2>1. Fresh(n) \in [1..n -> Snapshots]
      BY <1>9
    <2> HIDE DEF Fresh
    <2>2. QED
      BY <2>1
  <1>11. QED
    BY <1>8, <1>9, <1>10

Distinct(paths) == \A j, k \in DOMAIN paths : paths[j] = paths[k] => j = k

\* The names in refs have a file, or are about to get one.
Covers(paths, refs) == \A f \in Names : f \in refs => files[f] # None \/ \E k \in DOMAIN paths : paths[k] = f

\* The files, new, are what contents was written to paths makes of them.
Wrote(new, paths, contents, refs) ==
  /\ new \in [Names -> Track \cup {None}]
  /\ \A f \in Names : new[f] # None <=> f \in refs
  /\ \A k \in DOMAIN paths : paths[k] \in refs => new[paths[k]] = contents[k]
  /\ \A f \in Names : f \in refs /\ (\A k \in DOMAIN paths : paths[k] # f) => new[f] = files[f]

\* What is in the files after a write: the new contents, what there was before,
\* and nothing that nobody refers to.
LEMMA StoredFiles ==
  ASSUME files \in [Names -> Track \cup {None}],
         NEW paths \in Seq(Names), NEW contents \in Seq(Track), Len(contents) = Len(paths), Distinct(paths),
         NEW t, NEW o, Covers(paths, Referenced(t, o))
  PROVE  Wrote(Stored(paths, contents, t, o), paths, contents, Referenced(t, o))
  <1> DEFINE new == Stored(paths, contents, t, o)
             At(f) == CHOOSE k \in DOMAIN paths : paths[k] = f
  <1>1. None \notin Track
    BY NoneAssumption DEF Track
  <1>2. /\ DOMAIN paths = DOMAIN contents /\ \A k \in DOMAIN paths : paths[k] \in Names /\ contents[k] \in Track
    BY LenProperties, ElementOfSeq
  <1>3. /\ new \in [Names -> {new[f] : f \in Names}]
        /\ \A f \in Names : new[f] = IF f \notin Referenced(t, o) THEN None
                                     ELSE IF \E k \in DOMAIN paths : paths[k] = f THEN contents[At(f)]
                                     ELSE files[f]
    BY DEF Stored
  <1> HIDE DEF new
  <1>4. ASSUME NEW k \in DOMAIN paths PROVE At(paths[k]) = k
    BY DEF Distinct
  <1> HIDE DEF At
  <1>5. ASSUME NEW f \in Names
        PROVE  new[f] \in Track \cup {None} /\ (new[f] # None <=> f \in Referenced(t, o))
    <2>1. CASE \E k \in DOMAIN paths : paths[k] = f
      <3>1. PICK k \in DOMAIN paths : paths[k] = f
        BY <2>1
      <3>2. contents[At(f)] \in Track
        BY <1>2, <1>4, <3>1
      <3>3. QED
        BY <1>1, <1>3, <2>1, <3>2
    <2>2. CASE ~\E k \in DOMAIN paths : paths[k] = f
      BY <1>3, <2>2 DEF Covers
    <2>3. QED
      BY <2>1, <2>2
  <1>6. ASSUME NEW k \in DOMAIN paths, paths[k] \in Referenced(t, o) PROVE new[paths[k]] = contents[k]
    BY <1>2, <1>3, <1>4, <1>6
  <1>7. ASSUME NEW f \in Names, f \in Referenced(t, o), \A k \in DOMAIN paths : paths[k] # f
        PROVE  new[f] = files[f]
    BY <1>3, <1>7
  <1>8. new \in [Names -> Track \cup {None}]
    BY <1>3, <1>5
  <1>9. QED
    BY <1>5, <1>6, <1>7, <1>8 DEF new, Wrote

-----------------------------------------------------------------------------
(* The invariant, of the files fs, the record t and what is staged, o.     *)

Tasks == [source: Snapshots \cup {None}, target: Names \cup {None}, original: Snapshots \cup {None},
          rounds: 0..MaxRounds, active: Version \cup {None}]

\* The types of the parts that the other conjuncts speak of.
Typed(fs, t, o) == fs \in [Names -> Track \cup {None}] /\ t \in Tasks /\ o \in Staged \cup {None}

\* A name has a file as long as somebody may still read it, and no longer.
Held(fs, t, o) == \A f \in Names : fs[f] # None <=> f \in Referenced(t, o)

\* The record's pointers are different files.
Apart(t) ==
  /\ t.source # None => t.source # t.target
  /\ t.target # None => t.source # None
  /\ t.original # None => t.original # t.source /\ t.original # t.target

\* The tracks under some names.
Keeps(fs, paths, tracks) ==
  DOMAIN paths = DOMAIN tracks /\ \A k \in DOMAIN paths : fs[paths[k]] = tracks[k]

\* What a version says of the tracks it is about.
Describes(v) ==
  /\ Len(v.before) \in 1..2 /\ Len(v.after) = Len(v.before) /\ Len(v.new) = Len(v.before)
  /\ Len(v.old) = Len(v.before) /\ Aligned(v.old)
  /\ v.new[1] = Trimmed(v.old[1], v.changes)
  /\ \A c \in v.changes : c.index \in DOMAIN v.old[1] /\ c.end = v.old[1][c.index].end

\* The backups have what they had when they were made, and no track is one.
Backed(fs, t) ==
  t.active # None =>
    /\ Describes(t.active) /\ Keeps(fs, t.active.before, t.active.old)
    /\ \A k \in DOMAIN t.active.before : /\ t.active.before[k] \in Snapshots
                                         /\ t.active.before[k] # t.source /\ t.active.before[k] # t.target

\* What is staged can be published: the tracks it brings are under names of
\* their own.
Brings(fs, t, o) ==
  o # None =>
    /\ t.source # None /\ Len(o.paths) \in 1..2 /\ Len(o.paths) = Len(o.digest.tracks)
    /\ \A j, k \in DOMAIN o.paths : o.paths[j] = o.paths[k] => j = k
    /\ \A k \in DOMAIN o.paths : o.paths[k] \in Snapshots /\ o.paths[k] \notin Referenced(t, None)
    /\ o.active # None =>
         /\ Describes(o.active) /\ o.active.after = o.paths /\ o.active.old = o.digest.tracks
         /\ Changes(o.active.old) # {} /\ o.active.new = ApplyPlan(o.active.old, Changes(o.active.old))
         /\ Keeps(fs, o.active.before, o.active.old) /\ Keeps(fs, o.paths, o.active.new)
         /\ \A k \in DOMAIN o.active.before :
              /\ o.active.before[k] \in Snapshots /\ o.active.before[k] \notin Referenced(t, None)
              /\ \A j \in DOMAIN o.paths : o.paths[j] # o.active.before[k]
    /\ o.active = None =>
         t.active # None /\ Keeps(fs, o.paths, t.active.old) /\ o.digest.tracks = t.active.new

\* What speech recognition returned is in the file that the record names for it.
Original(fs, t, heard) == t.original # None => fs[t.original] = heard

Consistent(fs, t, o, heard) ==
  Typed(fs, t, o) /\ Held(fs, t, o) /\ Apart(t) /\ Backed(fs, t) /\ Brings(fs, t, o) /\ Original(fs, t, heard)

IInv == Consistent(files, task, op, said) /\ view.current \in BOOLEAN

\* The tracks a record points to, in some files.
TracksOf(fs, t) == [k \in DOMAIN Paths(t) |-> fs[Paths(t)[k]]]

\* At first there are no files and nothing names one.
LEMMA InitIInv == Init => IInv
  <1> SUFFICES ASSUME Init PROVE IInv
    OBVIOUS
  <1>1. Typed(files, task, op)
    BY VersionsAssumption DEF Init, Typed, Tasks
  <1>2. Held(files, task, op)
    BY NoneAssumption DEF Init, Held, Referenced
  <1>3. Apart(task) /\ Backed(files, task) /\ Brings(files, task, op) /\ Original(files, task, said)
    BY DEF Init, Apart, Backed, Brings, Original
  <1>4. QED
    BY <1>1, <1>2, <1>3 DEF Init, IInv, Consistent, NoView

\* The files a record and a staged version refer to.
LEMMA Refers ==
  ASSUME NEW t, NEW o, NEW f
  PROVE  f \in Referenced(t, o) <=>
           \/ f = t.source \/ f = t.target \/ f = t.original
           \/ t.active # None /\ \E k \in DOMAIN t.active.before : t.active.before[k] = f
           \/ o # None /\ \E k \in DOMAIN o.paths : o.paths[k] = f
           \/ o # None /\ o.active # None /\ \E k \in DOMAIN o.active.before : o.active.before[k] = f
  BY DEF Referenced

\* The tracks of a record: the source, and a translation if there is one.
LEMMA TracksAre ==
  ASSUME NEW fs, NEW t, NEW o, Typed(fs, t, o), Held(fs, t, o), t.source # None
  PROVE  LET tracks == TracksOf(fs, t)
         IN  /\ tracks \in Seq(Track) /\ tracks # <<>> /\ tracks # None /\ tracks[1] = fs[t.source] /\ tracks[1] \in Track
             /\ Paths(t) \in Seq(Names) /\ Len(Paths(t)) = Len(tracks) /\ Len(tracks) \in 1..2
             /\ Paths(t)[1] = t.source /\ t.source \in Names
             /\ Len(tracks) = 1 <=> t.target = None
             /\ DOMAIN tracks = 1..Len(tracks) /\ DOMAIN Paths(t) = 1..Len(tracks)
             /\ t.target # None => /\ tracks[2] = fs[t.target] /\ tracks[2] \in Track
                                   /\ Paths(t)[2] = t.target /\ t.target \in Names
  <1>1. /\ t.source \in Names /\ t.target \in Names \cup {None}
    <2>1. Snapshots \subseteq Names
      BY VersionsAssumption DEF Snapshots, Names
    <2>2. QED
      BY <2>1 DEF Typed, Tasks
  <1>2. fs[t.source] \in Track /\ (t.target # None => fs[t.target] \in Track)
    BY <1>1, Refers DEF Typed, Held
  <1>3. CASE t.target = None
    <2>1. Paths(t) = <<t.source>>
      BY <1>3 DEF Paths
    <2>2. TracksOf(fs, t) = <<fs[t.source]>>
      BY <2>1 DEF TracksOf
    <2>3. <<fs[t.source]>> \in Seq(Track) /\ <<t.source>> \in Seq(Names)
      BY <1>1, <1>2
    <2>4. <<fs[t.source]>> # None
      BY <2>3, NoneAssumption DEF Track
    <2>5. QED
      BY <1>1, <1>2, <1>3, <2>1, <2>2, <2>3, <2>4
  <1>4. CASE t.target # None
    <2>1. Paths(t) = <<t.source, t.target>>
      BY <1>4 DEF Paths
    <2>2. TracksOf(fs, t) = <<fs[t.source], fs[t.target]>>
      BY <2>1 DEF TracksOf
    <2>3. <<fs[t.source], fs[t.target]>> \in Seq(Track) /\ <<t.source, t.target>> \in Seq(Names)
      BY <1>1, <1>2, <1>4
    <2>4. <<fs[t.source], fs[t.target]>> # None
      BY <2>3, NoneAssumption DEF Track
    <2>5. QED
      BY <1>1, <1>2, <1>4, <2>1, <2>2, <2>3, <2>4
  <1>5. QED
    BY <1>3, <1>4

\* A translation has the times of its source.
SameTimes(track, source) ==
  /\ Len(track) = Len(source)
  /\ \A i \in DOMAIN source : track[i].start = source[i].start /\ track[i].end = source[i].end

\* The translation, if there is one, has the times of the source.
Agree(fs, t) == t.source = None \/ t.target = None \/ SameTimes(fs[t.target], fs[t.source])

\* With one translation, the tracks agree when its rows have the times of the source's.
LEMMA AgreementOfTwo ==
  ASSUME NEW fs, NEW t, NEW o, Typed(fs, t, o), Held(fs, t, o), t.source # None
  PROVE  Aligned(TracksOf(fs, t)) <=> Agree(fs, t)
  <1> DEFINE tracks == TracksOf(fs, t)
  <1>1. /\ tracks[1] = fs[t.source] /\ DOMAIN tracks = 1..Len(tracks) /\ Len(tracks) \in 1..2
        /\ (Len(tracks) = 1 <=> t.target = None) /\ (t.target # None => tracks[2] = fs[t.target])
    BY TracksAre
  <1> HIDE DEF tracks
  <1>2. ASSUME t.target = None PROVE Aligned(tracks) <=> Agree(fs, t)
    <2>1. DOMAIN tracks = {1}
      BY <1>1, <1>2
    <2>2. QED
      BY <1>2, <2>1 DEF Aligned, Agree
  <1>3. ASSUME t.target # None PROVE Aligned(tracks) <=> Agree(fs, t)
    <2>1. DOMAIN tracks = {1, 2}
      BY <1>1, <1>3
    <2>2. Aligned(tracks) <=> SameTimes(tracks[2], tracks[1])
      BY <2>1 DEF Aligned, SameTimes
    <2>3. QED
      BY <1>1, <1>3, <2>2 DEF Agree
  <1>4. QED
    BY <1>2, <1>3 DEF tracks

\* That the tracks agree, in terms of the files and the record.
LEMMA AgreementNow == IInv => (TracksAgree <=> Agree(files, task))
  <1> SUFFICES ASSUME IInv PROVE TracksAgree <=> Agree(files, task)
    OBVIOUS
  <1>1. Typed(files, task, op) /\ Held(files, task, op)
    BY DEF IInv, Consistent
  <1>2. CASE task.source = None
    BY <1>2 DEF TracksAgree, Cur, Agree
  <1>3. CASE task.source # None
    <2>1. Cur = TracksOf(files, task)
      BY <1>3 DEF Cur, Read, TracksOf
    <2>2. TracksOf(files, task) # None
      BY <1>1, <1>3, TracksAre
    <2>3. QED
      BY <1>1, <1>3, <2>1, <2>2, AgreementOfTwo DEF TracksAgree
  <1>4. QED
    BY <1>2, <1>3

LEMMA AgreementThen == IInv' => (TracksAgree' <=> Agree(files', task'))
  <1> SUFFICES ASSUME IInv' PROVE TracksAgree' <=> Agree(files', task')
    OBVIOUS
  <1>1. Typed(files', task', op') /\ Held(files', task', op')
    BY DEF IInv, Consistent
  <1>2. CASE task'.source = None
    BY <1>2 DEF TracksAgree, Cur, Agree
  <1>3. CASE task'.source # None
    <2>1. Cur' = TracksOf(files', task')
      BY <1>3 DEF Cur, Read, TracksOf
    <2>2. TracksOf(files', task') # None
      BY <1>1, <1>3, TracksAre
    <2>3. QED
      BY <1>1, <1>3, <2>1, <2>2, AgreementOfTwo DEF TracksAgree
  <1>4. QED
    BY <1>2, <1>3

\* Snapshots and the translations beside them have different names.
LEMMA SnapshotsAreNames == Snapshots \subseteq Names /\ \A f \in Snapshots : TranslationOf(f) \in Names \ Snapshots
  BY VersionsAssumption DEF Snapshots, Names, TranslationOf

\* A fresh name is one that nobody refers to.
LEMMA FreshIsNew ==
  ASSUME Held(files, task, op), NEW f \in Snapshots \ Used
  PROVE  f \in Names /\ files[f] = None /\ f \notin Referenced(task, op)
  BY SnapshotsAreNames DEF Held, Used, Snapshots

LEMMA VersionRows ==
  ASSUME NEW v \in Version, Describes(v)
  PROVE  /\ v.changes \in SUBSET Change /\ v.old \in Seq(Track) /\ v.new \in Seq(Track)
         /\ v.before \in Seq(Names) /\ v.after \in Seq(Names)
         /\ Len(v.before) \in {1, 2}
         /\ DOMAIN v.before = 1..Len(v.before) /\ DOMAIN v.old = 1..Len(v.before) /\ DOMAIN v.new = 1..Len(v.before)
         /\ 1 \in DOMAIN v.before
         /\ v.old[1] \in Track /\ v.new[1] \in Track
         /\ Len(v.new[1]) = Len(v.old[1]) /\ DOMAIN v.new[1] = DOMAIN v.old[1]
         /\ \A i \in DOMAIN v.old[1] :
              /\ v.new[1][i].start = v.old[1][i].start
              /\ (\A c \in v.changes : c.index # i) => v.new[1][i].end = v.old[1][i].end
  <1>1. /\ v.changes \in SUBSET Change /\ v.old \in Seq(Track) /\ v.new \in Seq(Track)
        /\ v.before \in Seq(Names) /\ v.after \in Seq(Names) /\ Len(v.before) \in {1, 2}
        /\ Len(v.old) = Len(v.before) /\ Len(v.new) = Len(v.before)
    BY DEF Version, Describes, Track
  <1>2. /\ DOMAIN v.before = 1..Len(v.before) /\ DOMAIN v.old = 1..Len(v.before) /\ DOMAIN v.new = 1..Len(v.before)
    BY <1>1, LenProperties
  <1>3. 1 \in 1..Len(v.before)
    <2> DEFINE n == Len(v.before)
    <2>1. n = 1 \/ n = 2
      BY <1>1
    <2> HIDE DEF n
    <2>2. 1 \in 1..n
      BY <2>1
    <2>3. QED
      BY <2>2 DEF n
  <1>4. v.old[1] \in Track /\ v.new[1] \in Track
    BY <1>1, <1>2, <1>3, ElementOfSeq
  <1>5. v.new[1] = Trimmed(v.old[1], v.changes)
    BY DEF Describes
  <1> DEFINE changes == v.changes
             old == v.old[1]
             new == v.new[1]
  <1>6. /\ Len(new) = Len(old) /\ DOMAIN new = DOMAIN old
        /\ \A i \in DOMAIN old :
              /\ new[i].start = old[i].start
              /\ (\A c \in changes : c.index # i) => new[i].end = old[i].end
    <2>1. changes \in SUBSET Change /\ old \in Track /\ new = Trimmed(old, changes)
      BY <1>1, <1>4, <1>5
    <2> HIDE DEF changes, old, new
    <2>2. QED
      BY <2>1, TrimmedRows
  <1>7. QED
    BY <1>1, <1>2, <1>3, <1>4, <1>6

-----------------------------------------------------------------------------
(* The operations that write subtitles keep the invariant.                 *)

\* A transcription: what was recognised under one fresh name, its repair under another.
LEMMA TranscribeKeeps ==
  ASSUME IInv, NEW track \in Heard, Transcribe(track)
  PROVE  /\ IInv' /\ task'.rounds = task.rounds + 1
         /\ task'.active # None =>
              /\ Changes(<<track>>) # {} /\ task'.active.old = <<track>>
              /\ task'.active.new = ApplyPlan(<<track>>, Changes(<<track>>)) /\ Cur' = task'.active.new
  <1> DEFINE changes == IF task.target = None THEN Changes(<<track>>) ELSE {}
             result == Trimmed(track, changes)
             paths == Fresh(2)
             version == [automatic |-> TRUE, changes |-> changes, before |-> <<paths[1]>>, after |-> <<paths[2]>>,
                         old |-> <<track>>, new |-> <<result>>]
             contents == <<track, result>>
  <1>1. /\ Typed(files, task, op) /\ Held(files, task, op) /\ Apart(task) /\ Backed(files, task) /\ op = None
    BY DEF IInv, Consistent, Transcribe, Free
  <1>2. /\ paths \in [1..2 -> Snapshots \ Used] /\ paths \in Seq(Snapshots) /\ Len(paths) = 2
        /\ \A j, k \in 1..2 : paths[j] = paths[k] => j = k
    BY FreshNames DEF Transcribe
  <1>3. track \in Track /\ <<track>>[1] = track
    BY VersionsAssumption DEF Track
  <1>4. /\ changes \in SUBSET Change /\ result \in Track
        /\ \A c \in changes : c.index \in DOMAIN track /\ c.end = track[c.index].end
    <2>1. <<track>>[1] \in Track
      BY <1>3
    <2>2. /\ Changes(<<track>>) \in SUBSET Change
          /\ \A c \in Changes(<<track>>) : c.index \in DOMAIN <<track>>[1] /\ c.end = <<track>>[1][c.index].end
      BY <2>1, ChangesType, ChangeOfPair
    <2>3. changes \in SUBSET Change /\ \A c \in changes : c.index \in DOMAIN track /\ c.end = track[c.index].end
      BY <1>3, <2>2
    <2> HIDE DEF changes
    <2>4. QED
      BY <1>3, <2>3, TrimmedRows
  <1>5. /\ task' = [task EXCEPT !.source = paths[2], !.original = paths[1], !.rounds = @ + 1,
                               !.active = IF changes = {} THEN None ELSE version]
        /\ files' = Stored(paths, contents, task', op) /\ said' = track /\ op' = op
        /\ task.rounds < MaxRounds /\ view' = NoView
    BY DEF Transcribe, Revised
  <1> DEFINE a == paths[1]
             b == paths[2]
  <1>6. /\ a \in Snapshots \ Used /\ b \in Snapshots \ Used /\ a # b
        /\ a \in Names /\ files[a] = None /\ b \in Names /\ files[b] = None
    BY <1>1, <1>2, FreshIsNew
  <1> HIDE DEF changes, result, paths
  <1>7. version \in Version
    <2>1. <<a>> \in Seq(Names) /\ <<b>> \in Seq(Names) /\ <<track>> \in Seq(Track) /\ <<result>> \in Seq(Track)
      BY <1>3, <1>4, <1>6
    <2>2. QED
      BY <1>4, <2>1 DEF Version, Track
  <1>8. /\ version.before = <<a>> /\ version.after = <<b>> /\ version.old = <<track>> /\ version.new = <<result>>
        /\ version.changes = changes
    OBVIOUS
  <1> HIDE DEF version
  <1> DEFINE active == IF changes = {} THEN None ELSE version
  <1>9. /\ task' \in Tasks /\ task'.source = b /\ task'.target = task.target /\ task'.original = a
        /\ task'.active = active /\ task'.rounds = task.rounds + 1
    <2>1. task \in Tasks /\ a \in Snapshots /\ b \in Snapshots /\ active \in Version \cup {None}
      BY <1>1, <1>6, <1>7 DEF Typed
    <2>2. task.rounds + 1 \in 0..MaxRounds
      <3>1. task.rounds \in 0..MaxRounds /\ task.rounds < MaxRounds
        BY <1>5, <2>1 DEF Tasks
      <3> DEFINE n == task.rounds
      <3> HIDE DEF n
      <3>2. n \in 0..MaxRounds /\ n < MaxRounds => n + 1 \in 0..MaxRounds
        BY VersionsAssumption
      <3>3. QED
        BY <3>1, <3>2 DEF n
    <2> HIDE DEF active, a, b, version
    <2> DEFINE t1 == [task EXCEPT !.source = b]
               t2 == [t1 EXCEPT !.original = a]
               t3 == [t2 EXCEPT !.rounds = task.rounds + 1]
               t4 == [t3 EXCEPT !.active = active]
    <2>3. /\ t1 \in Tasks /\ t1.source = b /\ t1.target = task.target /\ t1.rounds = task.rounds
      BY <2>1 DEF Tasks
    <2> HIDE DEF t1
    <2>4. /\ t2 \in Tasks /\ t2.source = b /\ t2.target = task.target /\ t2.original = a /\ t2.rounds = task.rounds
      BY <2>1, <2>3 DEF Tasks
    <2> HIDE DEF t2
    <2>5. /\ t3 \in Tasks /\ t3.source = b /\ t3.target = task.target /\ t3.original = a
          /\ t3.rounds = task.rounds + 1
      BY <2>2, <2>4 DEF Tasks
    <2> HIDE DEF t3
    <2>6. /\ t4 \in Tasks /\ t4.source = b /\ t4.target = task.target /\ t4.original = a /\ t4.active = active
          /\ t4.rounds = task.rounds + 1
      BY <2>1, <2>5 DEF Tasks
    <2>7. task' = t4
      BY <1>5 DEF t3, t2, t1, active, version, a, b
    <2>8. QED
      BY <2>6, <2>7
  <1>10. /\ \A k \in DOMAIN <<a>> : k = 1 /\ <<a>>[k] = a
         /\ DOMAIN <<a>> = {1} /\ DOMAIN <<track>> = {1} /\ <<a>>[1] = a /\ <<track>>[1] = track
    OBVIOUS
  <1>11. \A f : f \in Referenced(task', op) <=> f \in {a, b, task.target}
    BY <1>1, <1>8, <1>9, <1>10, Refers
  <1>12. /\ paths \in Seq(Names) /\ contents \in Seq(Track) /\ Len(contents) = Len(paths)
         /\ DOMAIN paths = {1, 2} /\ paths[1] = a /\ paths[2] = b /\ contents[1] = track /\ contents[2] = result
    BY <1>2, <1>3, <1>4, SnapshotsAreNames
  <1> HIDE DEF a, b, contents
  <1>13. /\ files' \in [Names -> Track \cup {None}]
         /\ \A f \in Names : files'[f] # None <=> f \in Referenced(task', op)
         /\ files'[a] = track /\ files'[b] = result
    <2> DEFINE t == task'
               refs == Referenced(t, op)
    <2>1. Covers(paths, refs)
      BY <1>1, <1>11, <1>12, Refers DEF Held, Covers
    <2>2. files \in [Names -> Track \cup {None}]
      BY <1>1 DEF Typed
    <2>3. Distinct(paths)
      BY <1>6, <1>12 DEF Distinct
    <2> HIDE DEF t
    <2>4. Wrote(Stored(paths, contents, t, op), paths, contents, refs)
      BY <1>12, <2>1, <2>2, <2>3, StoredFiles
    <2>5. Wrote(files', paths, contents, Referenced(task', op))
      BY <1>5, <2>4 DEF t
    <2>6. a \in Referenced(task', op) /\ b \in Referenced(task', op)
      BY <1>11
    <2>7. QED
      BY <1>12, <2>5, <2>6 DEF Wrote
  <1>14. task.target # None => task.target # a /\ task.target # b
    BY <1>1, <1>6, FreshIsNew, Refers
  <1>15. op' = op /\ op' = None
    BY <1>1, <1>5
  <1>16. Typed(files', task', op') /\ Held(files', task', op')
    <2>1. Typed(files', task', op')
      BY <1>9, <1>13, <1>15 DEF Typed
    <2>2. Held(files', task', op')
      BY <1>13, <1>15, Zenon DEF Held
    <2>3. QED
      BY <2>1, <2>2
  <1>17. Apart(task')
    BY <1>6, <1>9, <1>14, NoneAssumption DEF Apart
  <1>18. Backed(files', task')
    <2>1. SUFFICES ASSUME task'.active # None PROVE Backed(files', task')
      BY DEF Backed
    <2>2. task'.active = version
      BY <1>9, <2>1
    <2>3. Describes(version)
      <3>1. Aligned(<<track>>)
        BY <1>10 DEF Aligned
      <3>2. <<result>>[1] = Trimmed(<<track>>[1], changes)
        BY DEF result
      <3>3. Len(<<a>>) = 1 /\ Len(<<b>>) = 1 /\ Len(<<track>>) = 1 /\ Len(<<result>>) = 1 /\ 1 \in 1..2
        OBVIOUS
      <3>4. QED
        BY <1>4, <1>8, <1>10, <3>1, <3>2, <3>3 DEF Describes
    <2>4. Keeps(files', version.before, version.old)
      BY <1>8, <1>10, <1>13 DEF Keeps
    <2>5. \A k \in DOMAIN version.before : version.before[k] = a
      BY <1>8, <1>10
    <2>6. a \in Snapshots /\ a # b /\ a # task.target
      BY <1>6, <1>14, SnapshotsAreNames, NoneAssumption
    <2>7. QED
      BY <1>9, <2>2, <2>3, <2>4, <2>5, <2>6 DEF Backed
  <1>19. Brings(files', task', op') /\ Original(files', task', said')
    <2>1. Brings(files', task', op')
      BY <1>15, Zenon DEF Brings
    <2>2. Original(files', task', said')
      <3>1. said' = track
        BY <1>5
      <3>2. task'.original = a /\ files'[a] = track
        BY <1>9, <1>13
      <3>3. QED
        BY <3>1, <3>2, Zenon DEF Original
    <2>3. QED
      BY <2>1, <2>2
  <1>20. IInv'
    BY <1>5, <1>16, <1>17, <1>18, <1>19 DEF IInv, Consistent, NoView
  <1>21. ASSUME task'.active # None
         PROVE  /\ Changes(<<track>>) # {} /\ task'.active.old = <<track>>
                /\ task'.active.new = ApplyPlan(<<track>>, Changes(<<track>>)) /\ Cur' = task'.active.new
    <2>1. changes # {} /\ task'.active = version
      BY <1>9, <1>21
    <2>2. task.target = None /\ changes = Changes(<<track>>)
      BY <2>1 DEF changes
    <2>3. ApplyPlan(<<track>>, changes) = <<result>>
      <3>1. DOMAIN <<track>> = {1} /\ <<track>>[1] = track
        OBVIOUS
      <3>2. ApplyPlan(<<track>>, changes) = [k \in {1} |-> result]
        BY <3>1 DEF ApplyPlan, result
      <3> HIDE DEF result
      <3>3. [k \in {1} |-> result] = <<result>>
        OBVIOUS
      <3>4. QED
        BY <3>2, <3>3
    <2>4. Cur' = <<result>>
      <3>1. /\ task'.source = b /\ task'.target = None /\ b # None
        BY <1>6, <1>9, <2>2, NoneAssumption
      <3>2. Paths(task') = <<b>>
        BY <3>1 DEF Paths
      <3>3. Cur' = [k \in DOMAIN Paths(task') |-> files'[Paths(task')[k]]]
        BY <3>1 DEF Cur, Read
      <3>4. DOMAIN <<b>> = {1} /\ <<b>>[1] = b
        OBVIOUS
      <3>5. Cur' = [k \in {1} |-> result]
        BY <1>13, <3>2, <3>3, <3>4
      <3>6. [k \in {1} |-> result] = <<result>>
        OBVIOUS
      <3>7. QED
        BY <3>5, <3>6
    <2>5. QED
      BY <1>8, <2>1, <2>2, <2>3, <2>4
  <1>22. QED
    BY <1>9, <1>20, <1>21

\* Edits write the source and the translation, and no backup.
LEMMA EditsKeep ==
  ASSUME IInv, op = None, UNCHANGED <<task, said, op>>, view'.current \in BOOLEAN,
         files' \in [Names -> Track \cup {None}],
         \A f \in Names : files'[f] # None <=> files[f] # None,
         \A f \in Names : f # task.source /\ f # task.target => files'[f] = files[f]
  PROVE  IInv'
  <1>1. /\ Typed(files, task, op) /\ Held(files, task, op) /\ Apart(task)
        /\ Backed(files, task) /\ Original(files, task, said)
    BY DEF IInv, Consistent
  <1>2. task' = task /\ op' = op /\ op' = None /\ said' = said
    OBVIOUS
  <1>3. Typed(files', task', op') /\ Held(files', task', op')
    <2>1. Typed(files', task, op)
      BY <1>1 DEF Typed
    <2>2. Held(files', task, op)
      BY <1>1, Zenon DEF Held
    <2>3. QED
      BY <1>2, <2>1, <2>2
  <1>4. Backed(files', task)
    <2>1. SUFFICES ASSUME task.active # None PROVE Backed(files', task)
      BY DEF Backed
    <2> DEFINE v == task.active
    <2>2. Keeps(files, v.before, v.old) /\ \A k \in DOMAIN v.before : /\ v.before[k] \in Snapshots
                                         /\ v.before[k] # task.source /\ v.before[k] # task.target
      BY <1>1, <2>1 DEF Backed
    <2> HIDE DEF v
    <2>3. \A k \in DOMAIN v.before : files'[v.before[k]] = files[v.before[k]]
      BY <2>2, SnapshotsAreNames
    <2>4. Keeps(files', v.before, v.old)
      BY <2>2, <2>3 DEF Keeps
    <2>5. QED
      BY <1>1, <2>4 DEF Backed, v
  <1>5. Original(files', task, said)
    <2>1. SUFFICES ASSUME task.original # None PROVE files'[task.original] = said
      BY DEF Original
    <2>2. task.original # task.source /\ task.original # task.target /\ files[task.original] = said
      BY <1>1, <2>1 DEF Apart, Original
    <2>3. task.original \in Names
      BY <1>1, <2>1, SnapshotsAreNames DEF Typed, Tasks
    <2>4. QED
      BY <2>2, <2>3
  <1>6. Brings(files', task', op')
    BY <1>2, Zenon DEF Brings
  <1>7. QED
    BY <1>1, <1>2, <1>3, <1>4, <1>5, <1>6 DEF IInv, Consistent

\* An edit of times reaches the source, and the translation unless it is cut off.
LEMMA EditTimesKeeps ==
  ASSUME IInv, NEW i, NEW span \in Spans, NEW crash \in BOOLEAN, EditTimes(i, span, crash)
  PROVE  IInv'
  <1> DEFINE Edited(track) == [track EXCEPT ![i].start = span[1], ![i].end = span[2]]
             written == IF crash THEN {task.source} ELSE {task.source, task.target}
  <1>1. /\ Typed(files, task, op) /\ Held(files, task, op) /\ view.current \in BOOLEAN
    BY DEF IInv, Consistent
  <1>2. /\ op = None /\ task.source # None /\ \A t \in DOMAIN Cur : i \in DOMAIN Cur[t]
        /\ files' = [f \in Names |-> IF f \in written THEN Edited(files[f]) ELSE files[f]]
        /\ UNCHANGED <<task, said, op>> /\ view'.current \in BOOLEAN
    <2>1. /\ op = None /\ task.source # None /\ \A t \in DOMAIN Cur : i \in DOMAIN Cur[t]
          /\ UNCHANGED <<task, said, op>> /\ (IF crash THEN UNCHANGED view ELSE Revised)
      BY Zenon DEF EditTimes, Free
    <2>2. files' = [f \in Names |-> IF f \in written THEN Edited(files[f]) ELSE files[f]]
      BY Zenon DEF EditTimes
    <2>3. view'.current \in BOOLEAN
      <3>1. CASE crash
        BY <1>1, <2>1, <3>1, Zenon
      <3>2. CASE ~crash
        <4>1. view' = NoView
          BY <2>1, <3>2, Zenon DEF Revised
        <4>2. QED
          BY <4>1 DEF NoView
      <3>3. QED
        BY <3>1, <3>2
    <2>4. QED
      BY <2>1, <2>2, <2>3
  <1>3. Cur = TracksOf(files, task)
    BY <1>2 DEF Cur, Read, TracksOf
  <1>4. ASSUME NEW f \in Names, f \in {task.source, task.target}
        PROVE  files[f] \in Track /\ i \in DOMAIN files[f]
    <2>1. \/ 1 \in DOMAIN Cur /\ Cur[1] = files[f] /\ files[f] \in Track
          \/ 2 \in DOMAIN Cur /\ Cur[2] = files[f] /\ files[f] \in Track
      BY <1>1, <1>2, <1>3, <1>4, TracksAre, NoneAssumption
    <2>2. QED
      BY <1>2, <2>1
  <1>5. ASSUME NEW track \in Track, i \in DOMAIN track PROVE Edited(track) \in Track
    <2>1. span[1] \in Int /\ span[2] \in Int
      BY VersionsAssumption
    <2>2. track[i] \in Row /\ track \in [1..Len(track) -> Row] /\ Len(track) \in Nat
      BY <1>5, ElementOfSeq DEF Track
    <2> DEFINE row == [[track[i] EXCEPT !.start = span[1]] EXCEPT !.end = span[2]]
               r1 == [track[i] EXCEPT !.start = span[1]]
    <2>3. r1 \in Row
      BY <2>1, <2>2 DEF Row
    <2> HIDE DEF r1
    <2>4. [r1 EXCEPT !.end = span[2]] \in Row
      BY <2>1, <2>3 DEF Row
    <2>5. row \in Row
      BY <2>4 DEF r1
    <2> HIDE DEF row
    <2>6. Edited(track) = [track EXCEPT ![i] = row]
      BY <1>5, <2>2 DEF row
    <2>7. [track EXCEPT ![i] = row] \in [1..Len(track) -> Row]
      BY <2>2, <2>5
    <2>8. QED
      BY <2>2, <2>6, <2>7 DEF Track
  <1> HIDE DEF Edited
  <1>6. files' \in [Names -> Track \cup {None}]
    BY <1>1, <1>2, <1>4, <1>5 DEF Typed
  <1>7. \A f \in Names : files'[f] # None <=> files[f] # None
    BY <1>2, <1>4, <1>5, NoneAssumption DEF Track
  <1>8. \A f \in Names : f # task.source /\ f # task.target => files'[f] = files[f]
    BY <1>2
  <1>9. QED
    BY <1>2, <1>6, <1>7, <1>8, EditsKeep

\* An edit of a text writes one row of one track.
LEMMA EditTextKeeps ==
  ASSUME IInv, NEW k \in 1..2, NEW i, NEW text \in Texts, EditText(k, i, text)
  PROVE  IInv'
  <1> DEFINE f == Paths(task)[k]
             row(r) == [r EXCEPT !.text = text, !.edited = @ \/ (k = 1 /\ Cur[1][i].text # text)]
  <1>1. /\ Typed(files, task, op) /\ Held(files, task, op) /\ view.current \in BOOLEAN
    BY DEF IInv, Consistent
  <1>2. /\ op = None /\ task.source # None /\ k \in DOMAIN Cur /\ i \in DOMAIN Cur[k]
        /\ files' = [files EXCEPT ![f][i] = row(@)]
        /\ UNCHANGED <<task, said, op>> /\ view'.current \in BOOLEAN
    <2>1. /\ op = None /\ task.source # None /\ k \in DOMAIN Cur /\ i \in DOMAIN Cur[k]
          /\ UNCHANGED <<task, said, op>> /\ Revised
      BY Zenon DEF EditText, Free
    <2>2. files' = [files EXCEPT ![f][i] = row(@)]
      BY Zenon DEF EditText
    <2>3. view'.current \in BOOLEAN
      BY <2>1 DEF Revised, NoView
    <2>4. QED
      BY <2>1, <2>2, <2>3
  <1>3. Cur = TracksOf(files, task)
    BY <1>2 DEF Cur, Read, TracksOf
  <1>4. f \in Names /\ f \in {task.source, task.target} /\ files[f] \in Track /\ i \in DOMAIN files[f]
    BY <1>1, <1>2, <1>3, TracksAre
  <1>5. [files[f] EXCEPT ![i] = row(@)] \in Track
    <2> DEFINE track == files[f]
    <2>1. track[i] \in Row /\ track \in [1..Len(track) -> Row] /\ Len(track) \in Nat /\ i \in 1..Len(track)
      BY <1>4, ElementOfSeq DEF Track
    <2>2. text \in STRING
      BY VersionsAssumption
    <2> DEFINE r1 == [track[i] EXCEPT !.text = text]
               e == track[i].edited \/ (k = 1 /\ Cur[1][i].text # text)
    <2>3. e \in BOOLEAN
      OBVIOUS
    <2> HIDE DEF e
    <2>4. r1 \in Row
      BY <2>1, <2>2 DEF Row
    <2> HIDE DEF r1
    <2>5. [r1 EXCEPT !.edited = e] \in Row
      BY <2>3, <2>4 DEF Row
    <2>6. row(track[i]) = [r1 EXCEPT !.edited = e]
      BY DEF r1, e
    <2> DEFINE r == row(track[i])
    <2>7. r \in Row
      BY <2>5, <2>6
    <2> HIDE DEF r, track
    <2>8. [track EXCEPT ![i] = r] \in [1..Len(track) -> Row]
      BY <2>1, <2>7
    <2>9. QED
      BY <2>1, <2>8 DEF Track, track, r
  <1> HIDE DEF row
  <1>6. files' = [files EXCEPT ![f] = [files[f] EXCEPT ![i] = row(@)]]
    BY <1>1, <1>2, <1>4 DEF Typed
  <1> DEFINE new == [files[f] EXCEPT ![i] = row(@)]
  <1> HIDE DEF new, f
  <1>7. new \in Track /\ new # None /\ files[f] # None
    BY <1>4, <1>5, NoneAssumption DEF Track, new
  <1>8. files' \in [Names -> Track \cup {None}] /\ \A g \in Names : files'[g] = IF g = f THEN new ELSE files[g]
    BY <1>1, <1>4, <1>6, <1>7 DEF Typed, new
  <1>9. QED
    BY <1>2, <1>4, <1>7, <1>8, EditsKeep

-----------------------------------------------------------------------------
(* The timing versions keep the invariant.                                 *)

\* An analysis only reads.
LEMMA AnalyzeKeeps == IInv /\ Analyze => IInv'
  <1> SUFFICES ASSUME IInv, Analyze PROVE IInv'
    OBVIOUS
  <1>1. Consistent(files, task, op, said) /\ files' = files /\ task' = task /\ op' = op /\ said' = said
    BY DEF IInv, Analyze
  <1>2. Consistent(files', task', op', said')
    BY <1>1
  <1>3. view'.current \in BOOLEAN
    BY DEF Analyze
  <1>4. QED
    BY <1>2, <1>3 DEF IInv

\* Another thread's write leaves a mark on what is staged, and nothing else.
LEMMA TouchKeeps == IInv /\ Touch => IInv'
  <1> SUFFICES ASSUME IInv, Touch PROVE IInv'
    OBVIOUS
  <1>1. /\ Typed(files, task, op) /\ Held(files, task, op) /\ Apart(task) /\ Backed(files, task)
        /\ Brings(files, task, op) /\ Original(files, task, said)
    BY DEF IInv, Consistent
  <1>2. files' = files /\ task' = task /\ said' = said /\ op' = (IF op = None THEN None ELSE [op EXCEPT !.stale = TRUE])
    BY DEF Touch
  <1>3. view'.current \in BOOLEAN
    BY DEF Touch, Revised, NoView
  <1>4. /\ op' \in Staged \cup {None} /\ (op = None <=> op' = None)
        /\ op # None => op'.paths = op.paths /\ op'.active = op.active /\ op'.digest = op.digest
    <2>1. CASE op = None
      BY <1>2, <2>1
    <2>2. CASE op # None
      <3> DEFINE o == [op EXCEPT !.stale = TRUE]
      <3>1. op \in Staged
        BY <1>1, <2>2 DEF Typed
      <3>2. o \in Staged /\ o.paths = op.paths /\ o.active = op.active /\ o.digest = op.digest
        BY <3>1 DEF Staged
      <3>3. op' = o /\ o # None
        BY <1>2, <2>2, <3>2, NoneAssumption
      <3>4. QED
        BY <2>2, <3>2, <3>3
    <2>3. QED
      BY <2>1, <2>2
  <1>5. \A f : f \in Referenced(task, op') <=> f \in Referenced(task, op)
    BY <1>4, Refers
  <1>6. Typed(files, task, op') /\ Held(files, task, op')
    <2>1. Typed(files, task, op')
      BY <1>1, <1>4 DEF Typed
    <2>2. Held(files, task, op')
      BY <1>1, <1>5, Zenon DEF Held
    <2>3. QED
      BY <2>1, <2>2
  <1>7. Brings(files, task, op')
    <2>1. CASE op = None
      BY <1>4, <2>1, Zenon DEF Brings
    <2>2. CASE op # None
      BY <1>1, <1>4, <2>2, Zenon DEF Brings
    <2>3. QED
      BY <2>1, <2>2
  <1>8. Consistent(files, task, op', said)
    BY <1>1, <1>6, <1>7 DEF Consistent
  <1>9. QED
    BY <1>2, <1>3, <1>8 DEF IInv

\* What the record refers to stays as it was when some other files are written.
LEMMA RecordStays ==
  ASSUME Typed(files, task, op), Held(files, task, op), Backed(files, task), Original(files, task, said),
         NEW fs, \A f \in Snapshots : f \in Referenced(task, None) => fs[f] = files[f]
  PROVE  Backed(fs, task) /\ Original(fs, task, said)
  <1>1. Backed(fs, task)
    <2>1. SUFFICES ASSUME task.active # None PROVE Backed(fs, task)
      BY DEF Backed
    <2> DEFINE v == task.active
    <2>2. Keeps(files, v.before, v.old) /\ \A k \in DOMAIN v.before : v.before[k] \in Snapshots
      BY <2>1 DEF Backed
    <2>3. \A k \in DOMAIN v.before : v.before[k] \in Referenced(task, None)
      BY <2>1, Refers
    <2> HIDE DEF v
    <2>4. \A k \in DOMAIN v.before : fs[v.before[k]] = files[v.before[k]]
      BY <2>2, <2>3
    <2>5. Keeps(fs, v.before, v.old)
      BY <2>2, <2>4 DEF Keeps
    <2>6. QED
      BY <2>5 DEF Backed, v
  <1>2. Original(fs, task, said)
    <2>1. SUFFICES ASSUME task.original # None PROVE fs[task.original] = said
      BY DEF Original
    <2>2. files[task.original] = said
      BY <2>1 DEF Original
    <2>3. task.original \in Snapshots
      BY <2>1 DEF Typed, Tasks
    <2>4. task.original \in Referenced(task, None)
      BY Refers
    <2>5. QED
      BY <2>2, <2>3, <2>4
  <1>3. QED
    BY <1>1, <1>2

\* The files that are left when nothing is staged any more.
LEMMA ClearedFiles ==
  ASSUME IInv, NEW t, \A f \in Names : f \in Referenced(t, None) => f \in Referenced(task, op)
  PROVE  LET new == Stored(<<>>, <<>>, t, None)
         IN  /\ new \in [Names -> Track \cup {None}]
             /\ \A f \in Names : new[f] # None <=> f \in Referenced(t, None)
             /\ \A f \in Names : f \in Referenced(t, None) => new[f] = files[f]
  <1> DEFINE none == <<>>
             refs == Referenced(t, None)
             new == Stored(none, none, t, None)
  <1>1. files \in [Names -> Track \cup {None}] /\ \A f \in Names : files[f] # None <=> f \in Referenced(task, op)
    BY DEF IInv, Consistent, Typed, Held
  <1>2. none \in Seq(Names) /\ none \in Seq(Track) /\ DOMAIN none = {}
    OBVIOUS
  <1> HIDE DEF none
  <1>3. Distinct(none) /\ Covers(none, refs)
    BY <1>1, <1>2 DEF Distinct, Covers
  <1> HIDE DEF new
  <1>4. Wrote(new, none, none, refs)
    BY <1>1, <1>2, <1>3, StoredFiles DEF new
  <1>5. QED
    BY <1>2, <1>4 DEF Wrote, new, none

\* Giving up what is staged leaves the files that the record names.
LEMMA AbandonKeeps == IInv /\ Abandon => IInv'
  <1> SUFFICES ASSUME IInv, Abandon PROVE IInv'
    OBVIOUS
  <1>1. /\ Typed(files, task, op) /\ Held(files, task, op) /\ Apart(task) /\ Backed(files, task)
        /\ Original(files, task, said) /\ view.current \in BOOLEAN
    BY DEF IInv, Consistent
  <1>2. /\ op' = None /\ task' = task /\ said' = said /\ view' = view /\ files' = Stored(<<>>, <<>>, task, None)
    BY DEF Abandon
  <1>3. \A f \in Names : f \in Referenced(task, None) => f \in Referenced(task, op)
    BY Refers
  <1>4. /\ files' \in [Names -> Track \cup {None}]
        /\ \A f \in Names : files'[f] # None <=> f \in Referenced(task, None)
        /\ \A f \in Names : f \in Referenced(task, None) => files'[f] = files[f]
    BY <1>2, <1>3, ClearedFiles
  <1>5. Typed(files', task, None) /\ Held(files', task, None)
    <2>1. Typed(files', task, None)
      BY <1>1, <1>4 DEF Typed
    <2>2. Held(files', task, None)
      BY <1>4, Zenon DEF Held
    <2>3. QED
      BY <2>1, <2>2
  <1>6. Backed(files', task) /\ Original(files', task, said)
    <2> DEFINE fs == files'
    <2>1. \A f \in Snapshots : f \in Referenced(task, None) => fs[f] = files[f]
      BY <1>4, SnapshotsAreNames
    <2> HIDE DEF fs
    <2>2. Backed(fs, task) /\ Original(fs, task, said)
      BY <1>1, <2>1, RecordStays
    <2>3. QED
      BY <2>2 DEF fs
  <1>7. Brings(files', task, None)
    BY Zenon DEF Brings
  <1>8. Consistent(files', task, None, said)
    BY <1>1, <1>5, <1>6, <1>7 DEF Consistent
  <1>9. QED
    BY <1>1, <1>2, <1>8, Zenon DEF IInv

\* What a publication makes of the record.
Published(t, o) ==
  LET target == IF Len(o.paths) = 2 THEN o.paths[2] ELSE t.target
  IN  [t EXCEPT !.source = o.paths[1], !.target = target, !.active = o.active]

\* The record after the one write that publishes what is staged.
LEMMA PublishedTask ==
  ASSUME IInv, op # None
  PROVE  LET t == Published(task, op)
         IN  /\ t \in Tasks /\ t.source = op.paths[1] /\ t.active = op.active /\ t.original = task.original
             /\ t.target = (IF Len(op.paths) = 2 THEN op.paths[2] ELSE task.target) /\ t.rounds = task.rounds
  <1> DEFINE source == op.paths[1]
             target == IF Len(op.paths) = 2 THEN op.paths[2] ELSE task.target
             active == op.active
             t1 == [task EXCEPT !.source = source]
             t2 == [t1 EXCEPT !.target = target]
             t3 == [t2 EXCEPT !.active = active]
  <1>1. task \in Tasks /\ op \in Staged
    BY DEF IInv, Consistent, Typed
  <1>2. Len(op.paths) \in 1..2 /\ \A k \in DOMAIN op.paths : op.paths[k] \in Snapshots
    BY DEF IInv, Consistent, Brings
  <1>3. active \in Version \cup {None} /\ op.paths \in Seq(Names)
    BY <1>1 DEF Staged
  <1>4. source \in Snapshots /\ target \in Names \cup {None}
    <2> DEFINE n == Len(op.paths)
    <2>1. DOMAIN op.paths = 1..n /\ (n = 1 \/ n = 2) /\ task.target \in Names \cup {None}
      BY <1>1, <1>2, <1>3, LenProperties DEF Tasks
    <2> HIDE DEF n
    <2>2. 1 \in 1..n /\ (n = 2 => 2 \in 1..n)
      BY <2>1
    <2>3. source \in Snapshots /\ (n = 2 => op.paths[2] \in Names)
      BY <1>2, <2>1, <2>2, SnapshotsAreNames
    <2>4. QED
      BY <2>1, <2>3 DEF n
  <1> HIDE DEF source, target, active
  <1>5. /\ t1 \in Tasks /\ t1.source = source /\ t1.original = task.original /\ t1.rounds = task.rounds
    BY <1>1, <1>4 DEF Tasks
  <1> HIDE DEF t1
  <1>6. /\ t2 \in Tasks /\ t2.source = source /\ t2.target = target
        /\ t2.original = task.original /\ t2.rounds = task.rounds
    BY <1>4, <1>5 DEF Tasks
  <1> HIDE DEF t2
  <1>7. /\ t3 \in Tasks /\ t3.source = source /\ t3.target = target /\ t3.active = active
        /\ t3.original = task.original /\ t3.rounds = task.rounds
    BY <1>3, <1>6 DEF Tasks
  <1>8. Published(task, op) = t3
    BY DEF Published, t2, t1, source, target, active
  <1>9. QED
    BY <1>7, <1>8 DEF source, target, active

\* The tracks that a publication brings.
Brought == IF op.active = None THEN task.active.old ELSE op.active.new

\* Publishing: the tracks that were staged are under names of their own, so the backups stay what they are.
LEMMA PublishKeeps ==
  ASSUME IInv, Publish
  PROVE  IInv' /\ Cur' = Brought /\ task' = Published(task, op)
  <1> DEFINE n == Len(op.paths)
             t == Published(task, op)
  <1>1. /\ Typed(files, task, op) /\ Held(files, task, op) /\ Apart(task) /\ Backed(files, task)
        /\ Brings(files, task, op) /\ Original(files, task, said)
    BY DEF IInv, Consistent
  <1>2. /\ op # None /\ op.digest = Digest /\ op' = None /\ said' = said
        /\ files' = Stored(<<>>, <<>>, task', None) /\ view' = NoView
    BY DEF Publish, Revised
  <1>3. task' = t
    BY DEF Publish, Published
  <1>4. task.source # None /\ op \in Staged /\ n \in 1..2
    BY <1>1, <1>2 DEF Brings, Typed
  <1>5. op.digest.tracks = TracksOf(files, task) /\ n = Len(TracksOf(files, task))
    <2>1. Digest.tracks = Cur /\ Cur = TracksOf(files, task)
      BY <1>4 DEF Digest, Cur, Read, TracksOf
    <2>2. n = Len(op.digest.tracks)
      BY <1>1, <1>2 DEF Brings
    <2>3. QED
      BY <1>2, <2>1, <2>2
  <1>6. n = 1 <=> task.target = None
    BY <1>1, <1>4, <1>5, TracksAre
  <1>7. /\ t \in Tasks /\ t.source = op.paths[1] /\ t.active = op.active /\ t.original = task.original
        /\ t.target = IF n = 2 THEN op.paths[2] ELSE None
    <2>1. /\ t \in Tasks /\ t.source = op.paths[1] /\ t.active = op.active /\ t.original = task.original
          /\ t.target = IF n = 2 THEN op.paths[2] ELSE task.target
      BY <1>2, PublishedTask
    <2>2. n = 1 \/ n = 2
      BY <1>4
    <2>3. QED
      BY <1>6, <2>1, <2>2
  <1>8. /\ DOMAIN op.paths = 1..n /\ 1 \in 1..n /\ (n = 2 => 2 \in 1..n)
    <2>1. op.paths \in Seq(Names)
      BY <1>4 DEF Staged
    <2>2. DOMAIN op.paths = 1..n
      BY <2>1, LenProperties
    <2> HIDE DEF n
    <2>3. QED
      BY <1>4, <2>2
  <1> HIDE DEF n, t
  <1>9. \A f \in Names : f \in Referenced(t, None) =>
          \/ \E k \in DOMAIN op.paths : op.paths[k] = f
          \/ f = t.original
          \/ op.active # None /\ \E k \in DOMAIN op.active.before : op.active.before[k] = f
    <2>1. SUFFICES ASSUME NEW f \in Names, f \in Referenced(t, None)
                   PROVE  \/ \E k \in DOMAIN op.paths : op.paths[k] = f
                          \/ f = t.original
                          \/ op.active # None /\ \E k \in DOMAIN op.active.before : op.active.before[k] = f
      OBVIOUS
    <2>2. \/ f = t.source \/ f = t.target \/ f = t.original
          \/ t.active # None /\ \E k \in DOMAIN t.active.before : t.active.before[k] = f
      BY <2>1, Refers
    <2>3. CASE f = t.source
      BY <1>7, <1>8, <2>3
    <2>4. CASE f = t.target
      BY <1>7, <1>8, <2>4, NoneAssumption
    <2>5. QED
      BY <1>7, <2>2, <2>3, <2>4
  <1>10. \A f \in Names : f \in Referenced(t, None) => f \in Referenced(task, op)
    BY <1>2, <1>7, <1>9, Refers
  <1>11. /\ files' \in [Names -> Track \cup {None}]
         /\ \A f \in Names : files'[f] # None <=> f \in Referenced(t, None)
         /\ \A f \in Names : f \in Referenced(t, None) => files'[f] = files[f]
    BY <1>2, <1>3, <1>10, ClearedFiles
  <1>12. Typed(files', t, None) /\ Held(files', t, None)
    <2>1. Typed(files', t, None)
      BY <1>7, <1>11 DEF Typed
    <2>2. Held(files', t, None)
      BY <1>11, Zenon DEF Held
    <2>3. QED
      BY <2>1, <2>2
  <1>13. /\ \A j, k \in DOMAIN op.paths : op.paths[j] = op.paths[k] => j = k
         /\ \A k \in DOMAIN op.paths : op.paths[k] \in Snapshots /\ op.paths[k] \notin Referenced(task, None)
    BY <1>1, <1>2 DEF Brings
  <1>14. Apart(t)
    <2>1. t.source # None /\ t.source # t.target
      <3>1. op.paths[1] \in Snapshots /\ (n = 2 => op.paths[1] # op.paths[2])
        BY <1>8, <1>13
      <3>2. QED
        BY <1>7, <3>1, SnapshotsAreNames, NoneAssumption
    <2>2. t.original # None => t.original # t.source /\ t.original # t.target
      <3>1. \A k \in DOMAIN op.paths : op.paths[k] # task.original
        BY <1>13, Refers
      <3>2. QED
        BY <1>7, <1>8, <3>1
    <2>3. QED
      BY <2>1, <2>2 DEF Apart
  <1>15. Backed(files', t)
    <2>1. SUFFICES ASSUME t.active # None PROVE Backed(files', t)
      BY DEF Backed
    <2> DEFINE v == op.active
    <2>2. t.active = v /\ v # None
      BY <1>7, <2>1
    <2>3. /\ Describes(v) /\ Keeps(files, v.before, v.old)
          /\ \A k \in DOMAIN v.before : /\ v.before[k] \in Snapshots /\ \A j \in DOMAIN op.paths : op.paths[j] # v.before[k]
      BY <1>1, <1>2, <2>2 DEF Brings
    <2> HIDE DEF v
    <2>4. \A k \in DOMAIN v.before : v.before[k] \in Names /\ v.before[k] \in Referenced(t, None)
      BY <2>2, <2>3, SnapshotsAreNames, Refers
    <2>5. Keeps(files', v.before, v.old)
      BY <1>11, <2>3, <2>4 DEF Keeps
    <2>6. \A k \in DOMAIN v.before : v.before[k] # t.source /\ v.before[k] # t.target
      BY <1>7, <1>8, <2>3, <2>4, NoneAssumption
    <2>7. QED
      BY <2>2, <2>3, <2>5, <2>6 DEF Backed
  <1>16. Original(files', t, said)
    <2>1. SUFFICES ASSUME t.original # None PROVE files'[t.original] = said
      BY DEF Original
    <2>2. t.original = task.original /\ files[t.original] = said
      BY <1>1, <1>7, <2>1 DEF Original
    <2>3. t.original \in Names
      BY <1>7, <2>1, SnapshotsAreNames DEF Tasks
    <2>4. t.original \in Referenced(t, None)
      BY Refers
    <2>5. QED
      BY <1>11, <2>2, <2>3, <2>4
  <1>17. Brings(files', t, None)
    BY Zenon DEF Brings
  <1>18. Consistent(files', t, None, said)
    BY <1>12, <1>14, <1>15, <1>16, <1>17 DEF Consistent
  <1>19. view'.current \in BOOLEAN
    BY <1>2 DEF NoView
  <1>20. IInv'
    BY <1>2, <1>3, <1>18, <1>19, Zenon DEF IInv
  <1>21. Paths(t) = op.paths
    <2>1. op.paths \in Seq(Names)
      BY <1>4 DEF Staged
    <2>2. CASE n = 1
      <3>1. Paths(t) = <<op.paths[1]>>
        BY <1>7, <2>2 DEF Paths
      <3>2. <<op.paths[1]>> = op.paths
        BY <2>1, <2>2 DEF n
      <3>3. QED
        BY <3>1, <3>2
    <2>3. CASE n = 2
      <3>1. op.paths[2] # None
        BY <1>8, <1>13, <2>3, SnapshotsAreNames, NoneAssumption
      <3>2. Paths(t) = <<op.paths[1], op.paths[2]>>
        BY <1>7, <2>3, <3>1 DEF Paths
      <3>3. <<op.paths[1], op.paths[2]>> = op.paths
        BY <2>1, <2>3 DEF n
      <3>4. QED
        BY <3>2, <3>3
    <2>4. QED
      BY <1>4, <2>2, <2>3
  <1>22. Cur' = Brought
    <2>1. Keeps(files, op.paths, Brought)
      BY <1>1, <1>2 DEF Brings, Brought
    <2>2. \A k \in DOMAIN op.paths : op.paths[k] \in Names /\ op.paths[k] \in Referenced(t, None)
      <3>1. ASSUME NEW k \in 1..n PROVE op.paths[k] \in Referenced(t, None)
        <4>1. k = 1 \/ (k = 2 /\ n = 2)
          BY <1>4, <3>1
        <4>2. op.paths[k] = t.source \/ op.paths[k] = t.target
          BY <1>7, <4>1
        <4>3. QED
          BY <4>2, Refers
      <3>2. QED
        BY <1>8, <1>13, <3>1, SnapshotsAreNames
    <2>3. t.source # None
      BY <1>7, <1>8, <1>13, SnapshotsAreNames, NoneAssumption
    <2>4. Cur' = [k \in DOMAIN op.paths |-> files'[op.paths[k]]]
      BY <1>3, <1>21, <2>3 DEF Cur, Read
    <2>5. Brought = [k \in DOMAIN Brought |-> Brought[k]]
      <3>1. Brought \in Seq(Track)
        BY <1>1, <1>2 DEF Brings, Brought, Typed, Tasks, Staged, Version, Track
      <3>2. QED
        BY <3>1
    <2>6. DOMAIN op.paths = DOMAIN Brought /\ \A k \in DOMAIN op.paths : files'[op.paths[k]] = Brought[k]
      BY <1>11, <2>1, <2>2 DEF Keeps
    <2> HIDE DEF Brought
    <2>7. QED
      BY <2>4, <2>5, <2>6
  <1>23. QED
    BY <1>3, <1>20, <1>22 DEF t

\* Staging writes files with names of their own, and the rest stays.
LEMMA StagedFiles ==
  ASSUME IInv, op = None,
         NEW paths \in Seq(Snapshots), Distinct(paths), \A k \in DOMAIN paths : paths[k] \notin Used,
         NEW contents \in Seq(Track), Len(contents) = Len(paths),
         NEW o \in Staged, \A k \in DOMAIN paths : paths[k] \in Referenced(task, o),
         \A f \in Names : f \in Referenced(task, o) => f \in Referenced(task, None) \/ \E k \in DOMAIN paths : paths[k] = f
  PROVE  LET fs == Stored(paths, contents, task, o)
         IN  /\ Typed(fs, task, o) /\ Held(fs, task, o) /\ Apart(task) /\ Backed(fs, task) /\ Original(fs, task, said)
             /\ Keeps(fs, paths, contents) /\ \A k \in DOMAIN paths : paths[k] \notin Referenced(task, None)
  <1> DEFINE refs == Referenced(task, o)
             fs == Stored(paths, contents, task, o)
  <1>1. /\ Typed(files, task, op) /\ Held(files, task, op) /\ Apart(task) /\ Backed(files, task) /\ Original(files, task, said)
    BY DEF IInv, Consistent
  <1>2. \A f \in Names : f \in Referenced(task, None) => files[f] # None
    BY <1>1 DEF Held
  <1>3. \A k \in DOMAIN paths : paths[k] \in Snapshots \ Used
    BY ElementOfSeq, LenProperties
  <1>4. \A k \in DOMAIN paths : /\ paths[k] \in Names /\ files[paths[k]] = None /\ paths[k] \notin Referenced(task, None)
    BY <1>1, <1>3, FreshIsNew
  <1>5. Covers(paths, refs)
    BY <1>2 DEF Covers
  <1>6. paths \in Seq(Names)
    BY SnapshotsAreNames
  <1> HIDE DEF fs
  <1>7. Wrote(fs, paths, contents, refs)
    <2>1. files \in [Names -> Track \cup {None}]
      BY <1>1 DEF Typed
    <2>2. QED
      BY <1>5, <1>6, <2>1, StoredFiles DEF fs
  <1>8. Typed(fs, task, o) /\ Held(fs, task, o)
    <2>1. Typed(fs, task, o)
      BY <1>1, <1>7 DEF Typed, Wrote
    <2>2. Held(fs, task, o)
      BY <1>7, Zenon DEF Held, Wrote
    <2>3. QED
      BY <2>1, <2>2
  <1>9. \A f : f \in Referenced(task, None) => f \in refs
    BY Refers
  <1>10. \A f \in Names : f \in Referenced(task, None) => fs[f] = files[f]
    BY <1>4, <1>7, <1>9 DEF Wrote
  <1>11. Backed(fs, task) /\ Original(fs, task, said)
    BY <1>1, <1>10, SnapshotsAreNames, RecordStays
  <1>12. Keeps(fs, paths, contents)
    <2>1. DOMAIN paths = DOMAIN contents
      BY LenProperties
    <2>2. QED
      BY <1>7, <2>1 DEF Keeps, Wrote
  <1>13. QED
    BY <1>1, <1>4, <1>8, <1>11, <1>12 DEF fs

\* What is analysed has the types of what is staged.
LEMMA DigestType ==
  ASSUME IInv, task.source # None
  PROVE  /\ Digest \in Digests /\ Digest.tracks = Cur /\ Cur = TracksOf(files, task)
         /\ Cur \in Seq(Track) /\ Cur # <<>> /\ Len(Cur) \in 1..2 /\ DOMAIN Cur = 1..Len(Cur)
  <1>1. Typed(files, task, op) /\ Held(files, task, op)
    BY DEF IInv, Consistent
  <1>2. Cur = TracksOf(files, task)
    BY DEF Cur, Read, TracksOf
  <1>3. /\ Cur \in Seq(Track) /\ Cur # <<>> /\ Len(Cur) \in 1..2 /\ DOMAIN Cur = 1..Len(Cur) /\ Paths(task) \in Seq(Names)
    BY <1>1, <1>2, TracksAre
  <1>4. Digest \in Digests /\ Digest.tracks = Cur
    BY <1>3 DEF Digest, Digests, Track
  <1>5. QED
    BY <1>2, <1>3, <1>4

\* An undoing stages copies of the backups, under names that nobody uses.
LEMMA UndoKeeps == IInv /\ Undo => IInv'
  <1> SUFFICES ASSUME IInv, Undo PROVE IInv'
    OBVIOUS
  <1> DEFINE v == task.active
             n == Len(v.before)
             paths == Fresh(n)
             contents == Read(v.before)
             o == [stale |-> FALSE, digest |-> Digest, paths |-> paths, active |-> None]
  <1>1. /\ Typed(files, task, op) /\ Backed(files, task)
    BY DEF IInv, Consistent
  <1>2. /\ op = None /\ v # None /\ Room(n) /\ MayUndo(v) /\ op' = o
        /\ files' = Stored(paths, contents, task, op')
        /\ UNCHANGED <<task, said, view>>
    BY Zenon DEF Undo, Free, CopiesOf
  <1>3. v \in Version /\ Describes(v)
    BY <1>1, <1>2 DEF Typed, Tasks, Backed
  <1>4. /\ v.old \in Seq(Track) /\ v.new \in Seq(Track) /\ Len(v.old) = n /\ Len(v.new) = n
        /\ n \in 1..2
    BY <1>3, VersionRows DEF Describes
  <1>5. Cur = v.new /\ contents = v.old
    BY <1>2 DEF MayUndo, Untouched
  <1>6. task.source # None
    BY <1>4, <1>5, NoneAssumption DEF Cur, Track
  <1>7. Digest \in Digests /\ Digest.tracks = v.new
    BY <1>5, <1>6, DigestType
  <1> HIDE DEF v
  <1>8. /\ paths \in [1..n -> Snapshots \ Used] /\ paths \in Seq(Snapshots) /\ Len(paths) = n
        /\ \A j, k \in 1..n : paths[j] = paths[k] => j = k
    <2> HIDE DEF n
    <2>1. n \in Nat
      BY <1>4
    <2>2. QED
      BY <1>2, <2>1, FreshNames
  <1> HIDE DEF n, paths
  <1>9. /\ Distinct(paths) /\ \A k \in DOMAIN paths : paths[k] \notin Used
    BY <1>8 DEF Distinct
  <1>10. /\ o \in Staged /\ o.paths = paths /\ o.active = None /\ o.digest = Digest /\ o # None
    <2>1. paths \in Seq(Names)
      BY <1>8, SnapshotsAreNames
    <2>2. o \in Staged
      BY <1>7, <2>1 DEF Staged
    <2>3. o.paths = paths /\ o.active = None /\ o.digest = Digest
      OBVIOUS
    <2> HIDE DEF o
    <2>4. QED
      BY <2>2, <2>3, NoneAssumption
  <1> HIDE DEF o, contents
  <1>11. \A f : f \in Referenced(task, o) <=> f \in Referenced(task, None) \/ \E k \in DOMAIN paths : paths[k] = f
    BY <1>10, Refers
  <1>12. contents \in Seq(Track) /\ Len(contents) = Len(paths)
    BY <1>4, <1>5, <1>8 DEF n
  <1> DEFINE fs == Stored(paths, contents, task, o)
  <1> HIDE DEF fs
  <1>13. /\ Typed(fs, task, o) /\ Held(fs, task, o) /\ Apart(task) /\ Backed(fs, task) /\ Original(fs, task, said)
         /\ Keeps(fs, paths, contents) /\ \A k \in DOMAIN paths : paths[k] \notin Referenced(task, None)
    BY <1>2, <1>8, <1>9, <1>10, <1>11, <1>12, StagedFiles DEF fs
  <1>14. Brings(fs, task, o)
    <2>1. Len(o.paths) \in 1..2 /\ Len(o.paths) = Len(o.digest.tracks)
      BY <1>4, <1>7, <1>8, <1>10 DEF n
    <2>2. \A k \in DOMAIN paths : paths[k] \in Snapshots
      BY <1>8
    <2>3. task.active # None /\ Keeps(fs, o.paths, task.active.old) /\ o.digest.tracks = task.active.new
      BY <1>2, <1>5, <1>7, <1>10, <1>13 DEF v
    <2>4. QED
      BY <1>6, <1>9, <1>10, <1>13, <2>1, <2>2, <2>3 DEF Brings, Distinct
  <1>15. Consistent(fs, task, o, said)
    BY <1>13, <1>14 DEF Consistent
  <1>16. files' = fs /\ task' = task /\ op' = o /\ said' = said /\ view' = view
    BY <1>2 DEF fs
  <1>17. QED
    BY <1>15, <1>16, Zenon DEF IInv

\* Two halves of a sequence of names.
Halved(paths, n, S, first, second) ==
  /\ first \in Seq(S) /\ Len(first) = n /\ second \in Seq(S) /\ Len(second) = n
  /\ DOMAIN first = 1..n /\ DOMAIN second = 1..n
  /\ \A k \in 1..n : first[k] = paths[k] /\ second[k] = paths[n + k]
  /\ Distinct(first) /\ Distinct(second) /\ \A j, k \in 1..n : first[j] # second[k]
  /\ \A f : (\E k \in DOMAIN paths : paths[k] = f)
              <=> (\E k \in DOMAIN first : first[k] = f) \/ (\E k \in DOMAIN second : second[k] = f)

\* Cutting the fresh names in two: those of the backups, and those of the tracks.
LEMMA Halves ==
  ASSUME NEW S, NEW n \in 1..2, NEW paths \in [1..2 * n -> S], Distinct(paths)
  PROVE  Halved(paths, n, S, SubSeq(paths, 1, n), SubSeq(paths, n + 1, 2 * n))
  <1> DEFINE first == SubSeq(paths, 1, n)
             second == SubSeq(paths, n + 1, 2 * n)
  <1>1. n \in Nat /\ paths \in Seq(S) /\ Len(paths) = 2 * n /\ DOMAIN paths = 1..2 * n /\ n >= 1
    OBVIOUS
  <1>2. /\ first \in Seq(S) /\ Len(first) = n /\ DOMAIN first = 1..n
        /\ \A k \in 1..n : first[k] = paths[k]
    BY <1>1, SubSeqProperties
  <1>3. /\ second \in Seq(S) /\ Len(second) = n /\ DOMAIN second = 1..n
        /\ \A k \in 1..n : second[k] = paths[n + k]
    BY <1>1, SubSeqProperties
  <1> HIDE DEF first, second
  <1>4. Distinct(first) /\ Distinct(second) /\ \A j, k \in 1..n : first[j] # second[k]
    <2>1. ASSUME NEW j \in 1..n, NEW k \in 1..n
          PROVE  /\ first[j] = first[k] => j = k
                 /\ second[j] = second[k] => j = k
                 /\ first[j] # second[k]
      <3>1. /\ j \in 1..2 * n /\ k \in 1..2 * n /\ n + j \in 1..2 * n /\ n + k \in 1..2 * n
            /\ j # n + k /\ (n + j = n + k => j = k)
        BY <1>1
      <3>2. \A x, y \in 1..2 * n : paths[x] = paths[y] => x = y
        BY <1>1 DEF Distinct
      <3>3. first[j] = paths[j] /\ first[k] = paths[k] /\ second[j] = paths[n + j] /\ second[k] = paths[n + k]
        BY <1>2, <1>3
      <3>4. QED
        BY <3>1, <3>2, <3>3
    <2>2. QED
      BY <1>2, <1>3, <2>1 DEF Distinct
  <1>5. ASSUME NEW f
        PROVE  (\E k \in DOMAIN paths : paths[k] = f)
                 <=> (\E k \in DOMAIN first : first[k] = f) \/ (\E k \in DOMAIN second : second[k] = f)
    <2>1. ASSUME NEW k \in DOMAIN paths PROVE k \in 1..n \/ \E j \in 1..n : k = n + j
      <3>1. k \in 1..n \/ (k - n \in 1..n /\ k = n + (k - n))
        BY <1>1
      <3>2. QED
        BY <3>1
    <2>2. ASSUME NEW k \in 1..n PROVE k \in DOMAIN paths /\ n + k \in DOMAIN paths
      BY <1>1
    <2>3. QED
      BY <1>2, <1>3, <2>1, <2>2
  <1>6. QED
    BY <1>2, <1>3, <1>4, <1>5 DEF first, second, Halved

\* The contents of the backups and of the tracks, one after the other.
LEMMA Joined ==
  ASSUME NEW S, NEW n \in Nat, NEW s \in Seq(S), NEW t \in Seq(S), Len(s) = n, Len(t) = n
  PROVE  /\ s \o t \in Seq(S) /\ Len(s \o t) = 2 * n
         /\ \A k \in 1..n : (s \o t)[k] = s[k] /\ (s \o t)[n + k] = t[k]
  <1>1. s \o t \in Seq(S) /\ Len(s \o t) = n + n
    BY ConcatProperties
  <1>2. ASSUME NEW k \in 1..n PROVE (s \o t)[k] = s[k] /\ (s \o t)[n + k] = t[k]
    <2>1. k \in 1..Len(s) + Len(t) /\ n + k \in 1..Len(s) + Len(t) /\ k <= Len(s) /\ ~(n + k <= Len(s)) /\ n + k - Len(s) = k
      OBVIOUS
    <2>2. QED
      BY <2>1, ConcatProperties
  <1>3. QED
    BY <1>1, <1>2

\* A repair stages copies of the tracks before and after it, under names that nobody uses.
LEMMA ApplyKeeps == IInv /\ Apply => IInv'
  <1> SUFFICES ASSUME IInv, Apply PROVE IInv'
    OBVIOUS
  <1> DEFINE changes == Changes(Cur)
             n == Len(Cur)
             paths == Fresh(2 * n)
             after == ApplyPlan(Cur, changes)
             first == SubSeq(paths, 1, n)
             second == SubSeq(paths, n + 1, 2 * n)
             contents == Cur \o after
             v == [automatic |-> FALSE, changes |-> changes, before |-> first, after |-> second,
                   old |-> Cur, new |-> after]
             o == [stale |-> FALSE, digest |-> Digest, paths |-> second, active |-> v]
  <1>1. /\ Typed(files, task, op) /\ Held(files, task, op)
    BY DEF IInv, Consistent
  <1>2. /\ op = None /\ task.source # None /\ Room(2 * n) /\ changes # {} /\ op' = o
        /\ files' = Stored(paths, contents, task, op')
        /\ UNCHANGED <<task, said, view>>
    BY Zenon DEF Apply, Free
  <1>3. /\ Digest \in Digests /\ Digest.tracks = Cur /\ Cur \in Seq(Track) /\ Cur # <<>> /\ n \in 1..2
        /\ DOMAIN Cur = 1..n
    BY <1>2, DigestType
  <1>4. /\ changes \in SUBSET Change /\ after \in Seq(Track) /\ Len(after) = n /\ DOMAIN after = 1..n
        /\ after[1] = Trimmed(Cur[1], changes) /\ Aligned(Cur)
    <2>1. 1 \in DOMAIN Cur
      BY <1>3, EmptySeq, LenProperties
    <2>2. QED
      BY <1>2, <1>3, <2>1, AppliedTracks
  <1>5. Cur[1] \in Track /\ \A c \in changes : c.index \in DOMAIN Cur[1] /\ c.end = Cur[1][c.index].end
    <2>1. Cur[1] \in Track
      BY <1>3, EmptySeq, LenProperties
    <2>2. QED
      BY <2>1, ChangeOfPair
  <1> HIDE DEF changes, after
  <1>6. /\ paths \in [1..2 * n -> Snapshots \ Used] /\ paths \in Seq(Snapshots) /\ Len(paths) = 2 * n
        /\ \A j, k \in 1..2 * n : paths[j] = paths[k] => j = k
    <2> DEFINE m == 2 * n
    <2>1. m \in Nat
      <3> HIDE DEF n
      <3>1. QED
        BY <1>3
    <2> HIDE DEF m, n
    <2>2. Room(m)
      BY <1>2 DEF m
    <2>3. /\ Fresh(m) \in [1..m -> Snapshots \ Used] /\ Fresh(m) \in Seq(Snapshots) /\ Len(Fresh(m)) = m
          /\ \A j, k \in 1..m : Fresh(m)[j] = Fresh(m)[k] => j = k
      BY <2>1, <2>2, FreshNames
    <2>4. QED
      BY <2>3 DEF m
  <1> HIDE DEF n, paths
  <1>7. /\ first \in Seq(Snapshots) /\ Len(first) = n /\ second \in Seq(Snapshots) /\ Len(second) = n
        /\ DOMAIN first = 1..n /\ DOMAIN second = 1..n
        /\ \A k \in 1..n : first[k] = paths[k] /\ second[k] = paths[n + k]
        /\ Distinct(first) /\ Distinct(second) /\ \A j, k \in 1..n : first[j] # second[k]
        /\ \A f : (\E k \in DOMAIN paths : paths[k] = f)
                    <=> (\E k \in DOMAIN first : first[k] = f) \/ (\E k \in DOMAIN second : second[k] = f)
    <2>1. Distinct(paths) /\ paths \in [1..2 * n -> Snapshots]
      BY <1>6 DEF Distinct
    <2>2. Halved(paths, n, Snapshots, first, second)
      BY <1>3, <2>1, Halves
    <2> HIDE DEF first, second
    <2>3. QED
      BY <2>2 DEF Halved
  <1> HIDE DEF first, second
  <1>8. /\ v \in Version /\ v.changes = changes /\ v.before = first /\ v.after = second /\ v.old = Cur /\ v.new = after
    <2>1. first \in Seq(Names) /\ second \in Seq(Names)
      BY <1>7, SnapshotsAreNames
    <2>2. v \in Version
      BY <1>3, <1>4, <2>1 DEF Version, Track
    <2>3. QED
      BY <2>2
  <1> HIDE DEF v
  <1>9. v # None
    BY <1>8, NoneAssumption
  <1>10. /\ o \in Staged /\ o.paths = second /\ o.active = v /\ o.digest = Digest /\ o # None
    <2>1. second \in Seq(Names)
      BY <1>7, SnapshotsAreNames
    <2>2. o \in Staged
      BY <1>3, <1>8, <2>1 DEF Staged
    <2>3. o.paths = second /\ o.active = v /\ o.digest = Digest
      OBVIOUS
    <2> HIDE DEF o
    <2>4. QED
      BY <2>2, <2>3, NoneAssumption
  <1> HIDE DEF o
  <1>11. \A f : f \in Referenced(task, o) <=> f \in Referenced(task, None) \/ \E k \in DOMAIN paths : paths[k] = f
    <2>1. \A f : f \in Referenced(task, o) <=> \/ f \in Referenced(task, None)
                                               \/ \E k \in DOMAIN o.paths : o.paths[k] = f
                                               \/ \E k \in DOMAIN v.before : v.before[k] = f
      BY <1>9, <1>10, Refers
    <2>2. o.paths = second /\ v.before = first
      BY <1>8, <1>10
    <2>3. QED
      BY <1>7, <2>1, <2>2
  <1>12. /\ Distinct(paths) /\ \A k \in DOMAIN paths : paths[k] \notin Used
    BY <1>6 DEF Distinct
  <1>13. /\ contents \in Seq(Track) /\ Len(contents) = Len(paths)
         /\ \A k \in 1..n : contents[k] = Cur[k] /\ contents[n + k] = after[k]
    <2>1. n \in Nat /\ Len(Cur) = n
      BY <1>3 DEF n
    <2>2. QED
      BY <1>3, <1>4, <1>6, <2>1, Joined
  <1> HIDE DEF contents
  <1> DEFINE fs == Stored(paths, contents, task, o)
  <1> HIDE DEF fs
  <1>14. /\ Typed(fs, task, o) /\ Held(fs, task, o) /\ Apart(task) /\ Backed(fs, task) /\ Original(fs, task, said)
         /\ Keeps(fs, paths, contents) /\ \A k \in DOMAIN paths : paths[k] \notin Referenced(task, None)
    BY <1>2, <1>6, <1>10, <1>11, <1>12, <1>13, StagedFiles DEF fs
  <1>15. Keeps(fs, first, Cur) /\ Keeps(fs, second, after)
    <2>1. \A k \in 1..n : k \in DOMAIN paths /\ n + k \in DOMAIN paths
      BY <1>3, <1>6
    <2>2. QED
      BY <1>3, <1>4, <1>7, <1>13, <1>14, <2>1 DEF Keeps
  <1>16. \A k \in 1..n : /\ first[k] \in Snapshots /\ first[k] \notin Referenced(task, None)
                         /\ second[k] \in Snapshots /\ second[k] \notin Referenced(task, None)
    <2>1. \A k \in 1..n : k \in DOMAIN paths /\ n + k \in DOMAIN paths
      BY <1>3, <1>6
    <2>2. \A k \in DOMAIN paths : paths[k] \in Snapshots
      BY <1>6
    <2>3. QED
      BY <1>7, <1>14, <2>1, <2>2
  <1>17. Describes(v)
    BY <1>3, <1>4, <1>5, <1>7, <1>8 DEF Describes, n
  <1>18. Brings(fs, task, o)
    <2>1. Len(o.paths) \in 1..2 /\ Len(o.paths) = Len(o.digest.tracks)
      BY <1>3, <1>7, <1>10 DEF n
    <2>2. /\ \A j, k \in DOMAIN o.paths : o.paths[j] = o.paths[k] => j = k
          /\ \A k \in DOMAIN o.paths : o.paths[k] \in Snapshots /\ o.paths[k] \notin Referenced(task, None)
      BY <1>7, <1>10, <1>16 DEF Distinct
    <2>3. /\ Describes(o.active) /\ o.active.after = o.paths /\ o.active.old = o.digest.tracks
          /\ Changes(o.active.old) # {} /\ o.active.new = ApplyPlan(o.active.old, Changes(o.active.old))
      BY <1>2, <1>3, <1>8, <1>10, <1>17 DEF changes, after
    <2>4. /\ Keeps(fs, o.active.before, o.active.old) /\ Keeps(fs, o.paths, o.active.new)
          /\ \A k \in DOMAIN o.active.before :
               /\ o.active.before[k] \in Snapshots /\ o.active.before[k] \notin Referenced(task, None)
               /\ \A j \in DOMAIN o.paths : o.paths[j] # o.active.before[k]
      BY <1>7, <1>8, <1>10, <1>15, <1>16
    <2>5. QED
      BY <1>2, <1>9, <1>10, <2>1, <2>2, <2>3, <2>4, Zenon DEF Brings
  <1>19. Consistent(fs, task, o, said)
    BY <1>14, <1>18 DEF Consistent
  <1>20. files' = fs /\ task' = task /\ op' = o /\ said' = said /\ view' = view
    BY <1>2 DEF fs
  <1>21. QED
    BY <1>19, <1>20, Zenon DEF IInv

\* A new translation of the repaired source joins the repair: what undoing it
\* brings back is the translation with the times that the source had.
LEMMA JoinedVersion ==
  ASSUME NEW v \in Version, Describes(v), NEW track \in Track, SameTimes(track, v.new[1]),
         NEW backup \in Names, NEW f \in Names
  PROVE  LET w == With(v, track, backup, f)
         IN  /\ w \in Version /\ Describes(w) /\ w.changes = v.changes
             /\ w.before = <<v.before[1], backup>> /\ w.after = <<v.after[1], f>>
             /\ w.old = <<v.old[1], Restored(track, v.changes)>> /\ w.new = <<v.new[1], track>>
             /\ Restored(track, v.changes) \in Track
             /\ SameTimes(Restored(track, v.changes), v.old[1])
             /\ DOMAIN Restored(track, v.changes) = DOMAIN track
             /\ \A i \in DOMAIN track : Restored(track, v.changes)[i] = Ending(track[i], v.old[1][i].end)
  <1> DEFINE restored == Restored(track, v.changes)
             changes == v.changes
             old == v.old[1]
             new == v.new[1]
             w1 == [v EXCEPT !.before = <<v.before[1], backup>>]
             w2 == [w1 EXCEPT !.after = <<v.after[1], f>>]
             w3 == [w2 EXCEPT !.old = <<old, restored>>]
             w4 == [w3 EXCEPT !.new = <<new, track>>]
  <1>1. /\ changes \in SUBSET Change /\ old \in Track /\ new \in Track /\ v.before[1] \in Names
        /\ Len(new) = Len(old) /\ DOMAIN new = DOMAIN old
        /\ \A i \in DOMAIN old : /\ new[i].start = old[i].start
                                 /\ (\A c \in changes : c.index # i) => new[i].end = old[i].end
    BY VersionRows, ElementOfSeq
  <1>2. v.after[1] \in Names
    <2>1. v.after \in Seq(Names) /\ Len(v.after) = Len(v.before) /\ 1 \in DOMAIN v.before /\ v.before \in Seq(Names)
      BY VersionRows DEF Describes
    <2>2. 1 \in DOMAIN v.after
      BY <2>1, LenProperties
    <2>3. QED
      BY <2>1, <2>2, ElementOfSeq, LenProperties
  <1>3. \A c \in changes : c.index \in DOMAIN old /\ c.end = old[c.index].end
    BY DEF Describes
  <1>4. /\ restored \in Track /\ Len(restored) = Len(track) /\ DOMAIN restored = DOMAIN track
        /\ \A i \in DOMAIN track :
             /\ restored[i] = Ending(track[i], restored[i].end)
             /\ restored[i].start = track[i].start
             /\ (\A c \in changes : c.index # i) => restored[i] = track[i]
             /\ (\E c \in changes : c.index = i) => \E c \in changes : c.index = i /\ restored[i].end = c.end
    BY <1>1, RestoredRows
  <1>5. Len(track) = Len(new) /\ \A i \in DOMAIN new : track[i].start = new[i].start /\ track[i].end = new[i].end
    BY DEF SameTimes
  <1>6. v.new[1] = Trimmed(v.old[1], v.changes)
    BY DEF Describes
  <1> HIDE DEF restored, changes, old, new
  <1>7. DOMAIN track = DOMAIN old
    BY <1>1, <1>5, LenProperties DEF Track
  <1>8. SameTimes(restored, old)
    <2>1. ASSUME NEW i \in DOMAIN old PROVE restored[i].start = old[i].start /\ restored[i].end = old[i].end
      <3>1. restored[i].start = old[i].start
        BY <1>1, <1>4, <1>5, <1>7
      <3>2. CASE \E c \in changes : c.index = i
        BY <1>3, <1>4, <1>7, <3>1, <3>2
      <3>3. CASE ~\E c \in changes : c.index = i
        <4>1. restored[i] = track[i] /\ new[i].end = old[i].end
          BY <1>1, <1>4, <1>7, <3>3
        <4>2. QED
          BY <1>1, <1>5, <3>1, <4>1
      <3>4. QED
        BY <3>2, <3>3
    <2>2. QED
      BY <1>1, <1>4, <1>5, <2>1 DEF SameTimes
  <1>9. /\ <<v.before[1], backup>> \in Seq(Names) /\ <<v.after[1], f>> \in Seq(Names)
        /\ <<old, restored>> \in Seq(Track) /\ <<new, track>> \in Seq(Track)
    BY <1>1, <1>2, <1>4
  <1>10. /\ w1 \in Version /\ w1.before = <<v.before[1], backup>> /\ w1.changes = changes
    BY <1>9 DEF Version, changes
  <1> HIDE DEF w1
  <1>11. /\ w2 \in Version /\ w2.before = <<v.before[1], backup>> /\ w2.changes = changes
         /\ w2.after = <<v.after[1], f>>
    BY <1>9, <1>10 DEF Version
  <1> HIDE DEF w2
  <1>12. /\ w3 \in Version /\ w3.before = <<v.before[1], backup>> /\ w3.changes = changes
         /\ w3.after = <<v.after[1], f>> /\ w3.old = <<old, restored>>
    BY <1>9, <1>11 DEF Version, Track
  <1> HIDE DEF w3
  <1>13. /\ w4 \in Version /\ w4.before = <<v.before[1], backup>> /\ w4.changes = changes
         /\ w4.after = <<v.after[1], f>> /\ w4.old = <<old, restored>> /\ w4.new = <<new, track>>
    BY <1>9, <1>12 DEF Version, Track
  <1>14. With(v, track, backup, f) = w4
    BY DEF With, RestoredTranslation, w3, w2, w1, restored, old, new
  <1> HIDE DEF w4
  <1>15. Describes(w4)
    <2>1. /\ Len(<<v.before[1], backup>>) = 2 /\ Len(<<v.after[1], f>>) = 2
          /\ Len(<<old, restored>>) = 2 /\ Len(<<new, track>>) = 2 /\ 2 \in 1..2
          /\ <<new, track>>[1] = new /\ <<old, restored>>[1] = old /\ <<old, restored>>[2] = restored
          /\ DOMAIN <<old, restored>> = {1, 2}
      OBVIOUS
    <2>2. Aligned(<<old, restored>>)
      BY <1>8, <2>1 DEF Aligned, SameTimes
    <2>3. new = Trimmed(old, changes)
      BY <1>6 DEF new, old, changes
    <2>4. QED
      BY <1>3, <1>13, <2>1, <2>2, <2>3 DEF Describes
  <1>16. \A i \in DOMAIN track : restored[i] = Ending(track[i], old[i].end)
    BY <1>4, <1>7, <1>8 DEF SameTimes
  <1>17. QED
    BY <1>4, <1>8, <1>13, <1>14, <1>15, <1>16 DEF changes, restored, old, new

-----------------------------------------------------------------------------
(* A new translation keeps the invariant.                                  *)

\* The rows of the translation.
Translated(source, text) == [i \in DOMAIN source |-> [source[i] EXCEPT !.text = text, !.edited = FALSE]]

\* A translation has the times of its source.
LEMMA TranslatedTrack ==
  ASSUME NEW source \in Track, NEW text \in Texts
  PROVE  Translated(source, text) \in Track /\ SameTimes(Translated(source, text), source)
  <1> DEFINE track == Translated(source, text)
  <1>1. /\ Len(source) \in Nat /\ DOMAIN source = 1..Len(source) /\ source \in [1..Len(source) -> Row] /\ text \in STRING
    BY LenProperties, VersionsAssumption DEF Track
  <1>2. ASSUME NEW i \in DOMAIN source
        PROVE  track[i] \in Row /\ track[i].start = source[i].start /\ track[i].end = source[i].end
    <2> DEFINE r0 == source[i]
               r1 == [r0 EXCEPT !.text = text]
               r2 == [r1 EXCEPT !.edited = FALSE]
    <2>1. track[i] = r2
      BY DEF Translated
    <2>2. r0 \in Row
      BY <1>1
    <2> HIDE DEF r0
    <2>3. r1 \in Row /\ r1.start = r0.start /\ r1.end = r0.end
      BY <1>1, <2>2 DEF Row
    <2> HIDE DEF r1
    <2>4. r2 \in Row /\ r2.start = r1.start /\ r2.end = r1.end
      BY <2>3 DEF Row
    <2>5. QED
      BY <2>1, <2>3, <2>4 DEF r0
  <1>3. track = [i \in DOMAIN source |-> track[i]]
    BY DEF Translated
  <1> HIDE DEF track
  <1>4. track \in [1..Len(source) -> Row]
    BY <1>1, <1>2, <1>3
  <1>5. track \in Track /\ Len(track) = Len(source)
    BY <1>1, <1>4 DEF Track
  <1>6. QED
    BY <1>2, <1>5 DEF SameTimes, track

\* The repair takes the new translation in.
TakesIn(text) ==
  LET v     == task.active
      track == Translated(Cur[1], text)
  IN  /\ v # None /\ Cur = v.new /\ task'.active # None
      /\ Cur' = <<Cur[1], track>> /\ task'.active.new = Cur'
      /\ task'.active.old = <<v.old[1], [i \in DOMAIN track |-> Ending(track[i], v.old[1][i].end)]>>

\* A translation, which joins the automatic repair if nothing was edited since, or is cut off.
LEMMA TranslateKeeps ==
  ASSUME IInv, NEW text \in Texts, NEW crash \in BOOLEAN, Translate(text, crash)
  PROVE  /\ IInv' /\ task'.rounds = task.rounds /\ (Agree(files, task) => Agree(files', task'))
         /\ task'.active = task.active \/ TakesIn(text)
  <1> DEFINE track == Translated(Cur[1], text)
             f == TranslationOf(task.source)
             backup == Fresh(1)[1]
             v == task.active
             w == With(v, track, backup, f)
             joins == v # None /\ v.automatic /\ Untouched(v)
             record == IF joins THEN w ELSE v
  <1>1. /\ Typed(files, task, op) /\ Held(files, task, op) /\ Apart(task) /\ Backed(files, task)
        /\ Original(files, task, said) /\ view.current \in BOOLEAN
    BY DEF IInv, Consistent
  <1>2. /\ op = None /\ task.source # None /\ Room(1)
        /\ IF crash THEN UNCHANGED <<task, view>> ELSE task' = [task EXCEPT !.target = f, !.active = record] /\ Revised
        /\ files' = IF joins /\ ~crash THEN Stored(<<f, backup>>, <<track, record.old[2]>>, task', op)
                    ELSE Stored(<<f>>, <<track>>, task', op)
        /\ UNCHANGED <<said, op>>
    BY Zenon DEF Translate, Free, Translated
  <1>3. view'.current \in BOOLEAN
    <2>1. CASE crash
      BY <1>1, <1>2, <2>1, Zenon
    <2>2. CASE ~crash
      <3>1. view' = NoView
        BY <1>2, <2>2, Zenon DEF Revised
      <3>2. QED
        BY <3>1 DEF NoView
    <2>3. QED
      BY <2>1, <2>2
  <1>4. /\ Cur[1] \in Track /\ task.source \in Snapshots /\ Cur[1] = files[task.source]
    <2>1. TracksOf(files, task)[1] \in Track /\ TracksOf(files, task)[1] = files[task.source]
      BY <1>1, <1>2, TracksAre
    <2>2. Cur = TracksOf(files, task)
      BY <1>2 DEF Cur, Read, TracksOf
    <2>3. QED
      BY <1>1, <1>2, <2>1, <2>2 DEF Typed, Tasks
  <1>5. track \in Track /\ SameTimes(track, Cur[1]) /\ f \in Names \ Snapshots
    BY <1>4, TranslatedTrack, SnapshotsAreNames
  <1>6. /\ backup \in Snapshots \ Used /\ backup \in Names /\ files[backup] = None /\ backup \notin Referenced(task, op)
    <2>1. Fresh(1) \in [1..1 -> Snapshots \ Used]
      BY <1>2, FreshNames
    <2>2. backup \in Snapshots \ Used
      BY <2>1
    <2> HIDE DEF backup
    <2>3. QED
      BY <1>1, <2>2, FreshIsNew
  <1>7. /\ files \in [Names -> Track \cup {None}] /\ \A g \in Names : g \in Referenced(task, None) => files[g] # None
    BY <1>1, <1>2 DEF Typed, Held
  <1> HIDE DEF track, f, backup, w
  <1>8. /\ <<f>> \in Seq(Names) /\ <<track>> \in Seq(Track) /\ Len(<<track>>) = Len(<<f>>) /\ Distinct(<<f>>)
        /\ DOMAIN <<f>> = {1} /\ <<f>>[1] = f /\ <<track>>[1] = track
    BY <1>5 DEF Distinct
  <1>9. ASSUME NEW t, \A g \in Names : g \in Referenced(t, None) => g \in Referenced(task, None) \/ g = f
        PROVE  LET fs == Stored(<<f>>, <<track>>, t, None)
               IN  /\ fs \in [Names -> Track \cup {None}] /\ Held(fs, t, None)
                   /\ \A g \in Names : g \in Referenced(t, None) /\ g # f => fs[g] = files[g]
                   /\ f \in Referenced(t, None) => fs[f] = track
    <2> DEFINE fs == Stored(<<f>>, <<track>>, t, None)
               refs == Referenced(t, None)
    <2>1. Covers(<<f>>, refs)
      BY <1>7, <1>8, <1>9 DEF Covers
    <2>2. Wrote(fs, <<f>>, <<track>>, refs)
      BY <1>7, <1>8, <2>1, StoredFiles
    <2> HIDE DEF fs
    <2>3. Held(fs, t, None)
      BY <2>2, Zenon DEF Held, Wrote
    <2>4. \A k \in DOMAIN <<f>> : <<f>>[k] = f
      BY <1>8
    <2>5. QED
      BY <1>8, <2>2, <2>3, <2>4 DEF Wrote, fs
  <1>10. CASE crash
    <2> DEFINE fs == Stored(<<f>>, <<track>>, task, None)
    <2>1. task' = task /\ files' = fs /\ op' = None /\ said' = said
      BY <1>2, <1>10
    <2>2. /\ fs \in [Names -> Track \cup {None}] /\ Held(fs, task, None)
          /\ \A g \in Names : g \in Referenced(task, None) /\ g # f => fs[g] = files[g]
          /\ f \in Referenced(task, None) => fs[f] = track
      BY <1>9
    <2> HIDE DEF fs
    <2>3. \A g \in Snapshots : g \in Referenced(task, None) => fs[g] = files[g]
      BY <1>5, <2>2, SnapshotsAreNames
    <2>4. Backed(fs, task) /\ Original(fs, task, said)
      BY <1>1, <2>3, RecordStays
    <2>5. Typed(fs, task, None)
      BY <1>1, <2>2 DEF Typed
    <2>6. Brings(fs, task, None)
      BY Zenon DEF Brings
    <2>7. Consistent(fs, task, None, said)
      BY <1>1, <2>2, <2>4, <2>5, <2>6 DEF Consistent
    <2>8. IInv'
      BY <1>3, <2>1, <2>7, Zenon DEF IInv
    <2>9. Agree(files, task) => Agree(fs, task)
      <3>1. task.source \in Referenced(task, None) /\ task.target \in Referenced(task, None)
        BY Refers
      <3>2. task.target \in Names \cup {None}
        BY <1>1 DEF Typed, Tasks
      <3>3. fs[task.source] = Cur[1] /\ files[task.source] = Cur[1]
        BY <1>4, <1>5, <2>2, <3>1, SnapshotsAreNames
      <3>4. CASE task.target = f
        BY <1>5, <2>2, <3>1, <3>3, <3>4 DEF Agree
      <3>5. CASE task.target # f
        BY <2>2, <3>1, <3>2, <3>3, <3>5 DEF Agree
      <3>6. QED
        BY <3>4, <3>5
    <2>10. QED
      BY <2>1, <2>8, <2>9
  <1>11. ASSUME ~crash, record \in Version \cup {None}
         PROVE  /\ task' \in Tasks /\ task'.source = task.source /\ task'.target = f
                /\ task'.original = task.original /\ task'.active = record /\ task'.rounds = task.rounds
    <2> DEFINE t1 == [task EXCEPT !.target = f]
               t2 == [t1 EXCEPT !.active = record]
    <2>1. task' = t2
      BY <1>2, <1>11
    <2>2. task \in Tasks
      BY <1>1 DEF Typed
    <2> HIDE DEF record
    <2>3. /\ t1 \in Tasks /\ t1.source = task.source /\ t1.target = f /\ t1.original = task.original
          /\ t1.rounds = task.rounds
      BY <1>5, <2>2 DEF Tasks
    <2> HIDE DEF t1
    <2>4. /\ t2 \in Tasks /\ t2.source = task.source /\ t2.target = f
          /\ t2.original = task.original /\ t2.active = record /\ t2.rounds = task.rounds
      BY <1>11, <2>3 DEF Tasks
    <2>5. QED
      BY <2>1, <2>4
  <1>12. \A g \in Snapshots : g # f
    BY <1>5
  <1>13. task.original \in Snapshots \cup {None} /\ v \in Version \cup {None}
    BY <1>1 DEF Typed, Tasks
  <1>14. ASSUME NEW t, t.source = task.source, t.target = f, t.original = task.original PROVE Apart(t)
    BY <1>1, <1>2, <1>4, <1>5, <1>12, <1>13, <1>14, NoneAssumption DEF Apart
  <1>15. CASE ~crash /\ ~joins
    <2> DEFINE t == task'
               fs == Stored(<<f>>, <<track>>, t, None)
    <2>1. files' = fs /\ op' = None /\ said' = said
      BY <1>2, <1>15
    <2>2. /\ t \in Tasks /\ t.source = task.source /\ t.target = f /\ t.original = task.original /\ t.active = v
          /\ t.rounds = task.rounds
      BY <1>11, <1>13, <1>15
    <2> HIDE DEF t
    <2>3. \A g \in Names : g \in Referenced(t, None) => g \in Referenced(task, None) \/ g = f
      BY <2>2, Refers
    <2>4. /\ fs \in [Names -> Track \cup {None}] /\ Held(fs, t, None)
          /\ \A g \in Names : g \in Referenced(t, None) /\ g # f => fs[g] = files[g]
          /\ f \in Referenced(t, None) => fs[f] = track
      BY <1>9, <2>3
    <2> HIDE DEF fs
    <2>5. \A g : g \in Referenced(task, None) /\ g # task.target => g \in Referenced(t, None)
      BY <2>2, Refers
    <2>6. Original(fs, t, said)
      <3>1. SUFFICES ASSUME task.original # None PROVE fs[task.original] = said
        BY <2>2 DEF Original
      <3>2. task.original \in Referenced(t, None) /\ files[task.original] = said
        BY <1>1, <2>2, <3>1, Refers DEF Original
      <3>3. QED
        BY <1>12, <1>13, <2>4, <3>1, <3>2, SnapshotsAreNames
    <2>7. Backed(fs, t)
      <3>1. SUFFICES ASSUME v # None PROVE Backed(fs, t)
        BY <2>2 DEF Backed
      <3>2. /\ Describes(v) /\ Keeps(files, v.before, v.old)
            /\ \A k \in DOMAIN v.before : v.before[k] \in Snapshots /\ v.before[k] # task.source
        BY <1>1, <3>1 DEF Backed
      <3>3. \A k \in DOMAIN v.before : v.before[k] \in Referenced(t, None)
        BY <2>2, <3>1, Refers
      <3> HIDE DEF v
      <3>4. Keeps(fs, v.before, v.old)
        BY <1>12, <2>4, <3>2, <3>3, SnapshotsAreNames DEF Keeps
      <3>5. QED
        BY <1>12, <2>2, <3>2, <3>4 DEF Backed
    <2>8. Typed(fs, t, None) /\ Brings(fs, t, None)
      <3>1. Typed(fs, t, None)
        BY <2>2, <2>4 DEF Typed
      <3>2. Brings(fs, t, None)
        BY Zenon DEF Brings
      <3>3. QED
        BY <3>1, <3>2
    <2>9. Consistent(fs, t, None, said)
      BY <1>14, <2>2, <2>4, <2>6, <2>7, <2>8 DEF Consistent
    <2>10. IInv'
      BY <1>3, <2>1, <2>9, Zenon DEF IInv, t
    <2>11. Agree(fs, t)
      <3>1. t.source \in Referenced(t, None) /\ t.target \in Referenced(t, None)
        BY Refers
      <3>2. fs[t.source] = Cur[1] /\ fs[t.target] = track
        BY <1>4, <1>5, <2>2, <2>4, <3>1, SnapshotsAreNames
      <3>3. QED
        BY <1>5, <3>2 DEF Agree
    <2>12. QED
      BY <2>1, <2>2, <2>10, <2>11 DEF t
  <1>16. CASE ~crash /\ joins
    <2> DEFINE t == task'
               restored == Restored(track, v.changes)
               paths == <<f, backup>>
               contents == <<track, restored>>
               fs == Stored(paths, contents, t, None)
    <2>1. /\ v \in Version /\ Describes(v) /\ Keeps(files, v.before, v.old) /\ Cur = v.new
          /\ \A k \in DOMAIN v.before : v.before[k] \in Snapshots /\ v.before[k] # task.source
      BY <1>1, <1>13, <1>16 DEF Backed, Untouched
    <2>2. /\ w \in Version /\ Describes(w) /\ w.before = <<v.before[1], backup>>
          /\ w.old = <<v.old[1], restored>> /\ restored \in Track /\ w.new = <<v.new[1], track>>
          /\ DOMAIN restored = DOMAIN track
          /\ \A i \in DOMAIN track : restored[i] = Ending(track[i], v.old[1][i].end)
      <3> HIDE DEF v
      <3>1. QED
        BY <1>5, <1>6, <2>1, JoinedVersion DEF w
    <2>3. w # None /\ record = w /\ record.old[2] = restored
      BY <1>16, <2>2, NoneAssumption
    <2> HIDE DEF v, restored
    <2>4. files' = fs /\ op' = None /\ said' = said
      BY <1>2, <1>16, <2>3
    <2>5. /\ t \in Tasks /\ t.source = task.source /\ t.target = f /\ t.original = task.original /\ t.active = w
          /\ t.rounds = task.rounds
      BY <1>11, <1>16, <2>2, <2>3
    <2> HIDE DEF t, record
    <2> DEFINE b == v.before[1]
               refs == Referenced(t, None)
    <2>6. 1 \in DOMAIN v.before /\ b \in Snapshots /\ b \in Names /\ b # task.source /\ files[b] = v.old[1]
          /\ b \in Referenced(task, None)
      <3>1. 1 \in DOMAIN v.before
        BY <2>1, VersionRows
      <3>2. b \in Referenced(task, None)
        BY <1>16, <3>1, Refers DEF v
      <3>3. QED
        BY <2>1, <3>1, <3>2, SnapshotsAreNames DEF Keeps
    <2> HIDE DEF b
    <2>7. /\ w.before = <<b, backup>> /\ DOMAIN <<b, backup>> = {1, 2}
          /\ <<b, backup>>[1] = b /\ <<b, backup>>[2] = backup
          /\ DOMAIN <<v.old[1], restored>> = {1, 2} /\ <<v.old[1], restored>>[1] = v.old[1]
          /\ <<v.old[1], restored>>[2] = restored
      BY <2>2 DEF b
    <2>8. \A g : g \in refs <=> g \in {task.source, f, task.original, b, backup}
      BY <2>3, <2>5, <2>7, Refers
    <2>9. /\ paths \in Seq(Names) /\ contents \in Seq(Track) /\ Len(contents) = Len(paths)
          /\ DOMAIN paths = {1, 2} /\ paths[1] = f /\ paths[2] = backup /\ contents[1] = track /\ contents[2] = restored
      BY <1>5, <1>6, <2>2
    <2> HIDE DEF paths, contents
    <2>10. Distinct(paths) /\ Covers(paths, refs)
      <3>1. f # backup
        BY <1>6, <1>12
      <3>2. Distinct(paths)
        BY <2>9, <3>1 DEF Distinct
      <3>3. task.source \in Referenced(task, None) /\ task.original \in Referenced(task, None)
        BY Refers
      <3>4. Covers(paths, refs)
        BY <1>7, <2>6, <2>8, <2>9, <3>3 DEF Covers
      <3>5. QED
        BY <3>2, <3>4
    <2>11. Wrote(fs, paths, contents, refs)
      BY <1>7, <2>9, <2>10, StoredFiles
    <2> HIDE DEF fs
    <2>12. fs \in [Names -> Track \cup {None}] /\ Held(fs, t, None)
      <3>1. Held(fs, t, None)
        BY <2>11, Zenon DEF Held, Wrote
      <3>2. QED
        BY <2>11, <3>1 DEF Wrote
    <2>13. fs[backup] = restored
      BY <2>8, <2>9, <2>11 DEF Wrote
    <2>14. \A g \in Names : g \in refs /\ g # f /\ g # backup => fs[g] = files[g]
      BY <2>9, <2>11 DEF Wrote
    <2>15. backup # task.source /\ backup # task.original /\ backup # b
      BY <1>2, <1>6, <2>6, Refers
    <2>16. Original(fs, t, said)
      <3>1. SUFFICES ASSUME task.original # None PROVE fs[task.original] = said
        BY <2>5 DEF Original
      <3>2. task.original \in Snapshots /\ files[task.original] = said
        BY <1>1, <1>13, <3>1 DEF Original
      <3>3. QED
        BY <1>12, <2>8, <2>14, <2>15, <3>2, SnapshotsAreNames
    <2>17. Backed(fs, t)
      <3>1. fs[b] = v.old[1]
        BY <1>12, <2>6, <2>8, <2>14, <2>15
      <3>2. Keeps(fs, w.before, w.old)
        BY <2>2, <2>7, <2>13, <3>1 DEF Keeps
      <3>3. \A k \in DOMAIN w.before : w.before[k] \in Snapshots /\ w.before[k] # t.source /\ w.before[k] # t.target
        BY <1>6, <1>12, <2>5, <2>6, <2>7, <2>15
      <3>4. QED
        BY <2>2, <2>5, <3>2, <3>3 DEF Backed
    <2>18. Typed(fs, t, None) /\ Brings(fs, t, None)
      <3>1. Typed(fs, t, None)
        BY <2>5, <2>12 DEF Typed
      <3>2. Brings(fs, t, None)
        BY Zenon DEF Brings
      <3>3. QED
        BY <3>1, <3>2
    <2>19. Consistent(fs, t, None, said)
      BY <1>14, <2>5, <2>12, <2>16, <2>17, <2>18 DEF Consistent
    <2>20. IInv'
      BY <1>3, <2>4, <2>19, Zenon DEF IInv, t
    <2>21. fs[task.source] = Cur[1] /\ fs[f] = track
      <3>1. task.source # f /\ task.source \in Names
        BY <1>4, <1>12, SnapshotsAreNames
      <3>2. QED
        BY <1>4, <2>8, <2>9, <2>11, <2>14, <2>15, <3>1 DEF Wrote
    <2>22. Agree(fs, t)
      BY <1>5, <2>5, <2>21 DEF Agree
    <2>23. Cur' = <<Cur[1], track>>
      <3>1. t.source # None /\ t.target = f /\ f # None
        BY <1>2, <1>5, <2>5, NoneAssumption
      <3>2. Paths(t) = <<task.source, f>>
        BY <2>5, <3>1 DEF Paths
      <3>3. Cur' = [k \in DOMAIN Paths(t) |-> fs[Paths(t)[k]]]
        BY <2>4, <3>1 DEF Cur, Read, t
      <3> DEFINE x == Cur[1]
      <3>4. [k \in DOMAIN <<task.source, f>> |-> fs[<<task.source, f>>[k]]] = <<x, track>>
        <4> HIDE DEF x
        <4>1. fs[task.source] = x /\ fs[f] = track
          BY <2>21 DEF x
        <4>2. QED
          BY <4>1
      <3>5. QED
        BY <3>2, <3>3, <3>4
    <2>24. restored = [i \in DOMAIN track |-> Ending(track[i], v.old[1][i].end)]
      <3>1. restored = [i \in DOMAIN restored |-> restored[i]]
        BY <2>2 DEF Track
      <3>2. QED
        BY <2>2, <3>1
    <2>25. TakesIn(text)
      <3>1. v # None /\ Cur = v.new /\ w.new = <<Cur[1], track>>
        BY <1>16, <2>1, <2>2
      <3>2. task'.active = w /\ w # None
        BY <2>3, <2>5 DEF t
      <3>3. QED
        BY <2>2, <2>23, <2>24, <3>1, <3>2 DEF TakesIn, v, track
    <2>26. QED
      BY <2>4, <2>5, <2>20, <2>22, <2>25 DEF t
  <1>17. QED
    BY <1>10, <1>15, <1>16

-----------------------------------------------------------------------------
(* The theorems.                                                           *)

\* Every step keeps the invariant.
LEMMA StepIInv == IInv /\ [Next]_vars => IInv'
  <1> SUFFICES ASSUME IInv, [Next]_vars PROVE IInv'
    OBVIOUS
  <1>1. CASE UNCHANGED vars
    <2>1. Consistent(files, task, op, said) /\ view.current \in BOOLEAN
      BY DEF IInv
    <2>2. files' = files /\ task' = task /\ op' = op /\ said' = said /\ view' = view
      BY <1>1 DEF vars
    <2>3. QED
      BY <2>1, <2>2, Zenon DEF IInv
  <1>2. CASE \E track \in Heard : Transcribe(track)
    BY <1>2, TranscribeKeeps
  <1>3. CASE \E text \in Texts, crash \in BOOLEAN : Translate(text, crash)
    BY <1>3, TranslateKeeps
  <1>4. CASE \E i \in Edits, span \in Spans : EditTimes(i, span, FALSE) \/ CutOff(i, span)
    BY <1>4, EditTimesKeeps DEF CutOff
  <1>5. CASE \E t \in 1..2, i \in Edits, text \in Texts : EditText(t, i, text)
    BY <1>5, EditTextKeeps
  <1>6. CASE Analyze \/ Apply \/ Undo \/ Publish \/ Touch
    BY <1>6, AnalyzeKeeps, ApplyKeeps, UndoKeeps, PublishKeeps, TouchKeeps
  <1>7. CASE Conflict \/ Crash
    BY <1>7, AbandonKeeps DEF Conflict, Crash
  <1>8. QED
    BY <1>1, <1>2, <1>3, <1>4, <1>5, <1>6, <1>7, Zenon DEF Next

\* The record names files that exist and differ from each other; the active version's
\* backups are in files of their own, with what the tracks were when they were made; what is
\* staged is under names that the record does not use yet; and no file is left that nobody
\* may read.
THEOREM Invariant == Spec => []IInv
  BY InitIInv, StepIInv, PTL DEF Spec

\* The files, the record and what is staged have their types, and no file is
\* left that nobody may read.
THEOREM TypeCorrect == Spec => []TypeOK
  <1>1. ASSUME IInv PROVE TypeOK
    <2>1. Typed(files, task, op) /\ Held(files, task, op) /\ Apart(task) /\ view.current \in BOOLEAN
      BY <1>1 DEF IInv, Consistent
    <2>2. \A f \in Names : files[f] # None => f \in Referenced(task, op)
      BY <2>1 DEF Held
    <2>3. /\ files \in [Names -> Seq(Row) \cup {None}] /\ task.source \in Names \cup {None}
          /\ task.target \in Names \cup {None} /\ task.original \in Names \cup {None} /\ task.rounds \in 0..MaxRounds
          /\ task.active \in Version \cup {None} /\ op \in Staged \cup {None}
      BY <2>1, SnapshotsAreNames DEF Typed, Tasks, Track
    <2>4. task.source # None => task.source # task.target
      BY <2>1 DEF Apart
    <2>5. QED
      BY <2>1, <2>2, <2>3, <2>4, Zenon DEF TypeOK
  <1>2. QED
    BY <1>1, Invariant, PTL

\* What speech recognition returned stays readable, through every repair,
\* undoing, edit, translation, conflict and crash, as long as the task points
\* to it.
THEOREM OriginalIsKeptHolds == Spec => []OriginalIsKept
  <1>1. IInv => OriginalIsKept
    BY DEF IInv, Consistent, Original, OriginalIsKept
  <1>2. QED
    BY <1>1, Invariant, PTL

-----------------------------------------------------------------------------
(* The tracks of the task, before a step and after it.                     *)

\* A step that leaves the record's files alone leaves its tracks.
LEMMA TracksStay ==
  ASSUME IInv, task' = task, \A f \in Names : f \in Referenced(task, None) => files'[f] = files[f]
  PROVE  Agree(files, task) => Agree(files', task')
  <1>1. /\ task.source \in Names \cup {None} /\ task.target \in Names \cup {None}
    BY SnapshotsAreNames DEF IInv, Consistent, Typed, Tasks
  <1>2. task.source \in Referenced(task, None) /\ task.target \in Referenced(task, None)
    BY Refers
  <1>3. /\ task.source # None => files'[task.source] = files[task.source]
        /\ task.target # None => files'[task.target] = files[task.target]
    BY <1>1, <1>2
  <1>4. QED
    BY <1>3 DEF Agree

\* A file that is not written stays.
LEMMA StoredElsewhere ==
  ASSUME NEW paths, NEW contents, NEW t, NEW o, NEW f \in Names, f \in Referenced(t, o),
         \A k \in DOMAIN paths : paths[k] # f
  PROVE  Stored(paths, contents, t, o)[f] = files[f]
  BY DEF Stored

\* Staging, and giving it up, changes no track.
LEMMA StagingAgrees ==
  ASSUME IInv, Apply \/ Undo \/ Abandon
  PROVE  Agree(files, task) => Agree(files', task')
  <1>1. Held(files, task, op) /\ task' = task
    BY DEF IInv, Consistent, Apply, Undo, Abandon
  <1>2. ASSUME NEW n \in Nat, Room(n), NEW contents, NEW o, files' = Stored(Fresh(n), contents, task, o)
        PROVE  \A f \in Names : f \in Referenced(task, None) => files'[f] = files[f]
    <2>1. SUFFICES ASSUME NEW f \in Names, f \in Referenced(task, None) PROVE files'[f] = files[f]
      OBVIOUS
    <2>2. f \in Referenced(task, o) /\ f \in Referenced(task, op)
      BY <2>1, Refers
    <2> DEFINE paths == Fresh(n)
    <2>3. paths \in [1..n -> Snapshots \ Used]
      BY <1>2, FreshNames
    <2> HIDE DEF paths
    <2>4. \A k \in DOMAIN paths : paths[k] # f
      BY <1>1, <2>2, <2>3, FreshIsNew
    <2>5. files' = Stored(paths, contents, task, o)
      BY <1>2 DEF paths
    <2>6. QED
      BY <2>2, <2>4, <2>5, StoredElsewhere
  <1>3. CASE Apply
    <2>1. task.source # None
      BY <1>3 DEF Apply
    <2>2. Len(Cur) \in 1..2
      BY <2>1, DigestType
    <2> DEFINE n == 2 * Len(Cur)
    <2>3. n \in Nat
      <3> DEFINE m == Len(Cur)
      <3> HIDE DEF m
      <3>1. 2 * m \in Nat
        BY <2>2 DEF m
      <3>2. QED
        BY <3>1 DEF m
    <2>4. Room(n) /\ \E contents : files' = Stored(Fresh(n), contents, task, op')
      BY <1>3, Zenon DEF Apply
    <2> HIDE DEF n
    <2>5. \A f \in Names : f \in Referenced(task, None) => files'[f] = files[f]
      BY <1>2, <2>3, <2>4
    <2>6. QED
      BY <1>1, <2>5, TracksStay
  <1>4. CASE Undo
    <2> DEFINE v == task.active
               n == Len(v.before)
    <2>1. v # None /\ Room(n) /\ \E contents : files' = Stored(Fresh(n), contents, task, op')
      BY <1>4, Zenon DEF Undo, CopiesOf
    <2>2. v \in Version /\ Describes(v)
      BY <2>1 DEF IInv, Consistent, Typed, Tasks, Backed
    <2>3. n \in Nat
      BY <2>2, VersionRows
    <2> HIDE DEF n
    <2>4. \A f \in Names : f \in Referenced(task, None) => files'[f] = files[f]
      BY <1>2, <2>1, <2>3
    <2>5. QED
      BY <1>1, <2>4, TracksStay
  <1>5. CASE Abandon
    <2>1. \A f \in Names : f \in Referenced(task, None) => f \in Referenced(task, op)
      BY Refers
    <2>2. \A f \in Names : f \in Referenced(task, None) => files'[f] = files[f]
      BY <1>5, <2>1, ClearedFiles DEF Abandon
    <2>3. QED
      BY <1>1, <2>2, TracksStay
  <1>6. QED
    BY <1>3, <1>4, <1>5

\* An edit of a row that is not cut off gives it the same times in each track.
LEMMA EditTimesAgrees ==
  ASSUME IInv, NEW i, NEW span \in Spans, EditTimes(i, span, FALSE)
  PROVE  Agree(files, task) => Agree(files', task')
  <1> DEFINE Edited(track) == [track EXCEPT ![i].start = span[1], ![i].end = span[2]]
             source == files[task.source]
             target == files[task.target]
  <1>1. /\ Typed(files, task, op) /\ Held(files, task, op)
    BY DEF IInv, Consistent
  <1>2. /\ task' = task /\ task.source # None /\ \A t \in DOMAIN Cur : i \in DOMAIN Cur[t]
        /\ files' = [f \in Names |-> IF f \in {task.source, task.target} THEN Edited(files[f]) ELSE files[f]]
    BY Zenon DEF EditTimes
  <1>3. Cur = TracksOf(files, task)
    BY <1>2 DEF Cur, Read, TracksOf
  <1>4. SUFFICES ASSUME task.target # None, SameTimes(target, source)
                 PROVE  SameTimes(files'[task.target], files'[task.source])
    BY <1>2 DEF Agree
  <1>5. /\ source \in Track /\ target \in Track /\ task.source \in Names /\ task.target \in Names
        /\ i \in DOMAIN source /\ i \in DOMAIN target
    <2>1. /\ Cur[1] = source /\ Cur[2] = target /\ DOMAIN Cur = 1..Len(Cur) /\ Len(Cur) \in 1..2 /\ Len(Cur) # 1
          /\ source \in Track /\ target \in Track /\ task.source \in Names /\ task.target \in Names
      BY <1>1, <1>2, <1>3, <1>4, TracksAre
    <2>2. 1 \in DOMAIN Cur /\ 2 \in DOMAIN Cur
      BY <2>1
    <2>3. QED
      BY <1>2, <2>1, <2>2
  <1>6. ASSUME NEW track \in Track, i \in DOMAIN track
        PROVE  /\ Len(Edited(track)) = Len(track) /\ DOMAIN Edited(track) = DOMAIN track
               /\ Edited(track)[i].start = span[1] /\ Edited(track)[i].end = span[2]
               /\ \A k \in DOMAIN track : k # i => Edited(track)[k] = track[k]
    <2>1. track[i] \in Row /\ track \in [1..Len(track) -> Row] /\ Len(track) \in Nat
      BY <1>6, ElementOfSeq DEF Track
    <2> DEFINE r1 == [track[i] EXCEPT !.start = span[1]]
               row == [r1 EXCEPT !.end = span[2]]
    <2>2. span[1] \in Int /\ span[2] \in Int
      BY VersionsAssumption
    <2>3. r1 \in Row /\ r1.start = span[1]
      BY <2>1, <2>2 DEF Row
    <2> HIDE DEF r1
    <2>4. row \in Row /\ row.start = span[1] /\ row.end = span[2]
      BY <2>2, <2>3 DEF Row
    <2> HIDE DEF row
    <2>5. Edited(track) = [track EXCEPT ![i] = row]
      BY <1>6, <2>1 DEF row, r1
    <2> DEFINE new == [track EXCEPT ![i] = row]
    <2>6. /\ new \in [1..Len(track) -> Row] /\ DOMAIN new = DOMAIN track /\ new[i] = row
          /\ \A k \in DOMAIN track : k # i => new[k] = track[k]
      BY <1>6, <2>1, <2>4
    <2> HIDE DEF new
    <2>7. Len(new) = Len(track)
      BY <2>1, <2>6
    <2>8. QED
      BY <2>4, <2>5, <2>6, <2>7 DEF new
  <1> HIDE DEF Edited
  <1>7. files'[task.source] = Edited(source) /\ files'[task.target] = Edited(target)
    BY <1>2, <1>5
  <1> HIDE DEF source, target
  <1>8. DOMAIN target = DOMAIN source
    BY <1>4, <1>5, LenProperties DEF SameTimes, Track
  <1>9. SameTimes(Edited(target), Edited(source))
    <2>1. /\ Len(Edited(source)) = Len(source) /\ DOMAIN Edited(source) = DOMAIN source
          /\ Edited(source)[i].start = span[1] /\ Edited(source)[i].end = span[2]
          /\ \A k \in DOMAIN source : k # i => Edited(source)[k] = source[k]
      BY <1>5, <1>6
    <2>2. /\ Len(Edited(target)) = Len(target)
          /\ Edited(target)[i].start = span[1] /\ Edited(target)[i].end = span[2]
          /\ \A k \in DOMAIN target : k # i => Edited(target)[k] = target[k]
      BY <1>5, <1>6
    <2>3. Len(target) = Len(source) /\ \A k \in DOMAIN source : /\ target[k].start = source[k].start
                                                                /\ target[k].end = source[k].end
      BY <1>4 DEF SameTimes
    <2>4. QED
      BY <1>8, <2>1, <2>2, <2>3 DEF SameTimes
  <1>10. QED
    BY <1>7, <1>9

\* An edited text changes no time.
LEMMA EditTextAgrees ==
  ASSUME IInv, NEW k \in 1..2, NEW i, NEW text \in Texts, EditText(k, i, text)
  PROVE  Agree(files, task) => Agree(files', task')
  <1> DEFINE f == Paths(task)[k]
             row(r) == [r EXCEPT !.text = text, !.edited = @ \/ (k = 1 /\ Cur[1][i].text # text)]
             track == files[f]
             new == [track EXCEPT ![i] = row(@)]
  <1>1. /\ Typed(files, task, op) /\ Held(files, task, op) /\ Apart(task)
    BY DEF IInv, Consistent
  <1>2. /\ task' = task /\ task.source # None /\ k \in DOMAIN Cur /\ i \in DOMAIN Cur[k]
    BY Zenon DEF EditText
  <1>3. files' = [files EXCEPT ![f][i] = row(@)]
    BY Zenon DEF EditText
  <1>4. Cur = TracksOf(files, task)
    BY <1>2 DEF Cur, Read, TracksOf
  <1>5. f \in Names /\ f \in {task.source, task.target} /\ track \in Track /\ i \in DOMAIN track
    BY <1>1, <1>2, <1>4, TracksAre
  <1>6. files' = [files EXCEPT ![f] = new]
    BY <1>1, <1>3, <1>5 DEF Typed
  <1>7. DOMAIN files = Names
    BY <1>1 DEF Typed
  <1> HIDE DEF f
  <1>8. SameTimes(new, track) /\ Len(new) = Len(track) /\ DOMAIN new = DOMAIN track
    <2>1. track[i] \in Row /\ track \in [1..Len(track) -> Row] /\ Len(track) \in Nat /\ text \in STRING
      BY <1>5, ElementOfSeq, VersionsAssumption DEF Track
    <2> DEFINE e == track[i].edited \/ (k = 1 /\ Cur[1][i].text # text)
               r0 == track[i]
               r1 == [r0 EXCEPT !.text = text]
               r2 == [r1 EXCEPT !.edited = e]
    <2>2. row(r0) = r2
      BY DEF r2, r1, r0, e
    <2> HIDE DEF e
    <2>3. r0 \in Row
      BY <2>1
    <2> DEFINE r == row(r0)
    <2>4. new = [track EXCEPT ![i] = r]
      BY <1>5, <2>1
    <2> HIDE DEF r
    <2> HIDE DEF r0, row, new
    <2>5. r1 \in Row /\ r1.start = r0.start /\ r1.end = r0.end
      BY <2>1, <2>3 DEF Row
    <2> HIDE DEF r1
    <2>6. r2.start = r1.start /\ r2.end = r1.end
      BY <2>5 DEF Row
    <2> HIDE DEF r2
    <2>7. r.start = r0.start /\ r.end = r0.end
      BY <2>2, <2>5, <2>6 DEF r
    <2> HIDE DEF track
    <2>8. new \in [1..Len(track) -> Row \cup {r}] /\ new[i] = r /\ \A j \in DOMAIN track : j # i => new[j] = track[j]
      BY <1>5, <2>1, <2>4
    <2>9. DOMAIN new = DOMAIN track /\ Len(new) = Len(track)
      BY <2>1, <2>8
    <2>10. SameTimes(new, track)
      BY <2>7, <2>8, <2>9 DEF SameTimes, r0
    <2>11. QED
      BY <2>9, <2>10
  <1> HIDE DEF new
  <1>9. SUFFICES ASSUME task.target # None, SameTimes(files[task.target], files[task.source])
                 PROVE  SameTimes(files'[task.target], files'[task.source])
    BY <1>2 DEF Agree
  <1>10. /\ task.source \in Names /\ task.target \in Names /\ task.source # task.target
         /\ files[task.source] \in Track /\ files[task.target] \in Track
    BY <1>1, <1>2, <1>9, TracksAre DEF Apart
  <1> DEFINE source == files[task.source]
             target == files[task.target]
  <1>11. DOMAIN target = DOMAIN source
    BY <1>9, <1>10, LenProperties DEF SameTimes, Track
  <1>12. CASE f = task.source
    <2>1. files'[task.source] = new /\ files'[task.target] = target /\ track = source
      BY <1>6, <1>7, <1>10, <1>12
    <2>2. SameTimes(target, new)
      BY <1>8, <1>9, <2>1 DEF SameTimes
    <2>3. QED
      BY <2>1, <2>2
  <1>13. CASE f = task.target
    <2>1. files'[task.source] = source /\ files'[task.target] = new /\ track = target
      BY <1>6, <1>7, <1>10, <1>13
    <2>2. SameTimes(new, source)
      BY <1>8, <1>9, <1>11, <2>1 DEF SameTimes
    <2>3. QED
      BY <2>1, <2>2
  <1>14. QED
    BY <1>5, <1>12, <1>13

\* What a publication brings is what was staged: the repair of the tracks, or
\* what they were before the repair that they still show.
LEMMA PublishBrings ==
  ASSUME IInv, Publish
  PROVE  /\ op # None /\ Cur = op.digest.tracks /\ Cur # None
         /\ op.active = None => task.active # None /\ Cur = task.active.new /\ Aligned(task.active.old)
         /\ op.active # None =>
              /\ op.active.old = Cur /\ Changes(Cur) # {} /\ op.active.new = ApplyPlan(Cur, Changes(Cur))
              /\ Aligned(op.active.new)
  <1>1. Brings(files, task, op) /\ Backed(files, task) /\ op # None /\ op.digest = Digest
    BY DEF IInv, Consistent, Publish
  <1>2. task.source # None
    BY <1>1 DEF Brings
  <1>3. Digest.tracks = Cur /\ Cur \in Seq(Track) /\ Cur # <<>> /\ Cur # None
    <2>1. Cur \in Seq(Track)
      BY <1>2, DigestType
    <2>2. Cur # None
      BY <2>1, NoneAssumption DEF Track
    <2>3. QED
      BY <1>2, <2>1, <2>2, DigestType
  <1>4. Cur = op.digest.tracks
    BY <1>1, <1>3
  <1>5. ASSUME op.active = None PROVE task.active # None /\ Cur = task.active.new /\ Aligned(task.active.old)
    BY <1>1, <1>4, <1>5 DEF Brings, Backed, Describes
  <1>6. ASSUME op.active # None
        PROVE  /\ op.active.old = Cur /\ Changes(Cur) # {} /\ op.active.new = ApplyPlan(Cur, Changes(Cur))
               /\ Aligned(op.active.new)
    <2>1. op.active.old = Cur /\ Changes(Cur) # {} /\ op.active.new = ApplyPlan(Cur, Changes(Cur))
      BY <1>1, <1>4, <1>6 DEF Brings
    <2>2. Aligned(ApplyPlan(Cur, Changes(Cur)))
      BY <1>3, <2>1, AppliedTracks
    <2>3. QED
      BY <2>1, <2>2
  <1>7. QED
    BY <1>1, <1>3, <1>4, <1>5, <1>6

\* The translation keeps the times of its source: each step that leaves them
\* apart is an edit that was cut off, or a new transcription.
THEOREM TracksStayTogetherHolds == Spec => TracksStayTogether
  <1> DEFINE Apart1 == \E i \in Edits, span \in Spans : CutOff(i, span)
             Apart2 == \E track \in Heard : Transcribe(track)
  <1>1. ASSUME IInv, IInv', [Next]_vars
        PROVE  [TracksAgree => TracksAgree' \/ Apart1 \/ Apart2]_vars
    <2>1. /\ TracksAgree <=> Agree(files, task)
          /\ TracksAgree' <=> Agree(files', task')
      BY <1>1, AgreementNow, AgreementThen
    <2>2. CASE UNCHANGED vars
      BY <2>2
    <2>3. CASE \E track \in Heard : Transcribe(track)
      BY <2>3
    <2>4. CASE \E text \in Texts, crash \in BOOLEAN : Translate(text, crash)
      <3>1. Agree(files, task) => Agree(files', task')
        BY <1>1, <2>4, TranslateKeeps
      <3>2. QED
        BY <2>1, <3>1
    <2>5. CASE \E i \in Edits, span \in Spans : EditTimes(i, span, FALSE) \/ CutOff(i, span)
      <3>1. CASE \E i \in Edits, span \in Spans : EditTimes(i, span, FALSE)
        <4>1. Agree(files, task) => Agree(files', task')
          BY <1>1, <3>1, EditTimesAgrees
        <4>2. QED
          BY <2>1, <4>1
      <3>2. CASE \E i \in Edits, span \in Spans : CutOff(i, span)
        BY <3>2
      <3>3. QED
        BY <2>5, <3>1, <3>2
    <2>6. CASE \E t \in 1..2, i \in Edits, text \in Texts : EditText(t, i, text)
      <3>1. Agree(files, task) => Agree(files', task')
        BY <1>1, <2>6, EditTextAgrees
      <3>2. QED
        BY <2>1, <3>1
    <2>7. CASE Analyze \/ Touch
      <3>1. files' = files /\ task' = task
        BY <2>7 DEF Analyze, Touch
      <3>2. Agree(files, task) => Agree(files', task')
        BY <3>1
      <3>3. QED
        BY <2>1, <3>2
    <2>8. CASE Apply \/ Undo \/ Conflict \/ Crash
      <3>1. Agree(files, task) => Agree(files', task')
        BY <1>1, <2>8, StagingAgrees DEF Conflict, Crash
      <3>2. QED
        BY <2>1, <3>1
    <2>9. CASE Publish
      <3>1. Cur' = Brought
        BY <1>1, <2>9, PublishKeeps
      <3>2. Aligned(Brought)
        BY <1>1, <2>9, PublishBrings DEF Brought
      <3>3. TracksAgree'
        BY <3>1, <3>2 DEF TracksAgree
      <3>4. QED
        BY <3>3
    <2>10. QED
      BY <1>1, <2>2, <2>3, <2>4, <2>5, <2>6, <2>7, <2>8, <2>9, Zenon DEF Next
  <1>2. QED
    BY <1>1, Invariant, PTL DEF Spec, TracksStayTogether

-----------------------------------------------------------------------------
(* The versions implement an undo point.                                   *)

\* The repair is the same one on both levels.
LEMMA SameChanges == \A tracks : Abstract!Changes(tracks) = Changes(tracks)
  BY DEF Abstract!Changes, Abstract!Overlaps, Abstract!Isolated, Abstract!Reason, Abstract!Sound, Abstract!ValidRows,
         Abstract!Valid, Abstract!Overlap, Abstract!LowerOf, Abstract!HigherOf, Abstract!Conflicts, Abstract!UnorderedRows,
         Abstract!Aligned, Abstract!MaxOverlap, Abstract!MinSpan, Abstract!KeepsMost,
         Changes, Overlaps, Isolated, Reason, Sound, ValidRows,
         Valid, Overlap, LowerOf, HigherOf, Conflicts, UnorderedRows, Aligned, MaxOverlap, MinSpan, KeepsMost

\* The undo point's repair is the repair.
LEMMA SameApplyPlan ==
  \A tracks, changes : Abstract!ApplyPlan(tracks, changes) = ApplyPlan(tracks, changes)
  BY DEF Abstract!ApplyPlan, Abstract!Trimmed, Abstract!Retimed, ApplyPlan, Trimmed, Retimed

\* What the record keeps of the repair is what undoing it restores.
PointOf(t) == IF t.active = None THEN None ELSE [before |-> t.active.old, after |-> t.active.new]

\* What the backups hold is what the tracks were.
LEMMA BackupsAre ==
  ASSUME NEW fs, NEW t, Backed(fs, t), t.active \in Version, t.active # None
  PROVE  [k \in DOMAIN t.active.before |-> fs[t.active.before[k]]] = t.active.old
  <1> DEFINE v == t.active
  <1>1. v.old \in Seq(Track) /\ Keeps(fs, v.before, v.old)
    BY DEF Backed, Version, Track
  <1>2. v.old = [k \in DOMAIN v.old |-> v.old[k]]
    BY <1>1
  <1> HIDE DEF v
  <1>3. [k \in DOMAIN v.before |-> fs[v.before[k]]] = [k \in DOMAIN v.old |-> v.old[k]]
    BY <1>1 DEF Keeps
  <1>4. QED
    BY <1>2, <1>3 DEF v

\* The undo point, in terms of the record.
LEMMA PointNow == IInv => Point = PointOf(task)
  <1> SUFFICES ASSUME IInv PROVE Point = PointOf(task)
    OBVIOUS
  <1>1. Backed(files, task) /\ task.active \in Version \cup {None}
    BY DEF IInv, Consistent, Typed, Tasks
  <1>2. CASE task.active = None
    BY <1>2 DEF Point, PointOf
  <1>3. CASE task.active # None
    <2>1. Read(task.active.before) = task.active.old
      BY <1>1, <1>3, BackupsAre DEF Read
    <2>2. QED
      BY <1>3, <2>1 DEF Point, PointOf
  <1>4. QED
    BY <1>2, <1>3

LEMMA PointThen == IInv' => Point' = PointOf(task')
  <1> SUFFICES ASSUME IInv' PROVE Point' = PointOf(task')
    OBVIOUS
  <1>1. Backed(files', task') /\ task'.active \in Version \cup {None}
    BY DEF IInv, Consistent, Typed, Tasks
  <1>2. CASE task'.active = None
    BY <1>2 DEF Point, PointOf
  <1>3. CASE task'.active # None
    <2>1. Read(task.active.before)' = task'.active.old
      BY <1>1, <1>3, BackupsAre DEF Read
    <2>2. Point' = [before |-> Read(task.active.before)', after |-> task'.active.new]
      BY <1>3 DEF Point
    <2>3. QED
      BY <1>3, <2>1, <2>2 DEF PointOf
  <1>4. QED
    BY <1>2, <1>3

\* A pair of tracks before and after a repair is a point to go back to.
LEMMA PointIsSome ==
  ASSUME NEW t, NEW fs, Backed(fs, t), t.active \in Version, t.active # None
  PROVE  PointOf(t) # None /\ PointOf(t).before = t.active.old /\ PointOf(t).after = t.active.new
  <1>1. t.active.old \in Seq(Seq(Row)) /\ t.active.new \in Seq(Seq(Row))
    BY DEF Version
  <1>2. [before |-> t.active.old, after |-> t.active.new] \in [before: Seq(Seq(Row)), after: Seq(Seq(Row))]
    BY <1>1
  <1>3. QED
    BY <1>2, NoneAssumption DEF PointOf

\* The steps that leave the version as it is.
LEMMA ChangeSteps ==
  ASSUME IInv, IInv', task'.active = task.active, task'.rounds = task.rounds
  PROVE  Abstract!Next
  <1>1. Point' = Point
    BY PointNow, PointThen DEF PointOf
  <1>2. Abstract!Change
    BY <1>1 DEF Abstract!Change
  <1>3. QED
    BY <1>2 DEF Abstract!Next

\* A transcription is one of the undo point's.
LEMMA TranscribeSteps ==
  ASSUME IInv, NEW track \in Heard, Transcribe(track)
  PROVE  Abstract!Next
  <1>1. /\ IInv' /\ task'.rounds = task.rounds + 1
        /\ task'.active # None =>
              /\ Changes(<<track>>) # {} /\ task'.active.old = <<track>>
              /\ task'.active.new = ApplyPlan(<<track>>, Changes(<<track>>)) /\ Cur' = task'.active.new
    BY TranscribeKeeps
  <1>2. Point' = PointOf(task')
    BY <1>1, PointThen
  <1>3. CASE task'.active = None
    <2>1. Point' = None
      BY <1>2, <1>3 DEF PointOf
    <2>2. Abstract!Transcribe
      BY <1>1, <2>1 DEF Abstract!Transcribe
    <2>3. QED
      BY <2>2 DEF Abstract!Next
  <1>4. CASE task'.active # None
    <2>1. Point' # None /\ Point'.before = task'.active.old /\ Point'.after = task'.active.new
      <3>1. Backed(files', task') /\ task'.active \in Version
        BY <1>1, <1>4 DEF IInv, Consistent, Typed, Tasks
      <3>2. QED
        BY <1>2, <1>4, <3>1, PointIsSome
    <2>2. Cur' = Abstract!ApplyPlan(Point'.before, Abstract!Changes(Point'.before))
      BY <1>1, <1>4, <2>1, SameChanges, SameApplyPlan
    <2>3. Point'.before # Cur'
      <3> DEFINE old == <<track>>
                 new == ApplyPlan(old, Changes(old))
      <3>1. old \in Seq(Track) /\ old # <<>>
        BY VersionsAssumption DEF Track
      <3>2. Changes(old) # {} /\ Cur' = new /\ Point'.before = old
        BY <1>1, <1>4, <2>1
      <3> HIDE DEF old
      <3>3. new[1] # old[1]
        BY <3>1, <3>2, AppliedTracks
      <3>4. QED
        BY <3>2, <3>3
    <2>4. Abstract!Transcribe
      BY <1>1, <1>4, <2>1, <2>2, <2>3 DEF Abstract!Transcribe
    <2>5. QED
      BY <2>4 DEF Abstract!Next
  <1>5. QED
    BY <1>3, <1>4

\* A translation is the undo point's if it joins the repair, and a change of the tracks otherwise.
LEMMA TranslateSteps ==
  ASSUME IInv, NEW text \in Texts, NEW crash \in BOOLEAN, Translate(text, crash)
  PROVE  Abstract!Next
  <1> DEFINE v == task.active
             track == Translated(Cur[1], text)
  <1>1. IInv' /\ task'.rounds = task.rounds /\ (task'.active = task.active \/ TakesIn(text))
    BY TranslateKeeps
  <1>2. CASE task'.active = task.active
    BY <1>1, <1>2, ChangeSteps
  <1>3. CASE TakesIn(text)
    <2> DEFINE w == task'.active
               cur1 == Cur[1]
               restored == [i \in DOMAIN track |-> Ending(track[i], v.old[1][i].end)]
    <2>1. /\ v # None /\ Cur = v.new /\ w # None
          /\ Cur' = <<cur1, track>> /\ w.new = Cur' /\ w.old = <<v.old[1], restored>>
      BY <1>3 DEF TakesIn
    <2>2. Point # None /\ Point.before = v.old /\ Point.after = v.new
      <3>1. Backed(files, task) /\ v \in Version
        BY <2>1 DEF IInv, Consistent, Typed, Tasks
      <3>2. QED
        BY <2>1, <3>1, PointIsSome, PointNow
    <2>3. Point' = [before |-> w.old, after |-> w.new]
      BY <1>1, <2>1, PointThen DEF PointOf
    <2> HIDE DEF w, v, cur1, restored
    <2>4. Cur' # None /\ Cur'[1] = cur1 /\ Cur'[2] = track /\ DOMAIN Cur' = {1, 2}
      <3>1. w.new \in Seq(Seq(Row))
        BY <1>1, <2>1 DEF IInv, Consistent, Typed, Tasks, Version, w
      <3>2. Cur' # None
        BY <2>1, <3>1, NoneAssumption
      <3>3. DOMAIN <<cur1, track>> = {1, 2} /\ <<cur1, track>>[1] = cur1 /\ <<cur1, track>>[2] = track
        OBVIOUS
      <3>4. QED
        BY <2>1, <3>2, <3>3
    <2> DEFINE back(s, k) == IF k = 1 THEN v.old[1]
                             ELSE [i \in DOMAIN s |-> [s[i] EXCEPT !.end = v.old[1][i].end]]
    <2>5. [k \in DOMAIN Cur' |-> back(Cur'[k], k)] = w.old
      <3> DEFINE old1 == v.old[1]
      <3>1. back(track, 2) = restored
        BY DEF restored, Ending
      <3>2. back(cur1, 1) = old1
        OBVIOUS
      <3> HIDE DEF back, track, old1
      <3>3. [k \in {1, 2} |-> back(Cur'[k], k)] = <<old1, restored>>
        BY <2>4, <3>1, <3>2
      <3>4. QED
        BY <2>1, <2>4, <3>3 DEF old1
    <2>6. Point' = [before |-> [k \in DOMAIN Cur' |->
                                  IF k = 1 THEN Point.before[1]
                                  ELSE [i \in DOMAIN Cur'[k] |->
                                          [Cur'[k][i] EXCEPT !.end = Point.before[1][i].end]]],
                    after |-> Cur']
      BY <2>1, <2>2, <2>3, <2>5
    <2>7. Abstract!Translate
      BY <1>1, <2>1, <2>2, <2>4, <2>6 DEF Abstract!Translate, cur1
    <2>8. QED
      BY <2>7 DEF Abstract!Next
  <1>4. QED
    BY <1>1, <1>2, <1>3

\* Publishing a repair is the undo point's Repair, publishing an undoing its Undo.
LEMMA PublishSteps ==
  ASSUME IInv, Publish
  PROVE  Abstract!Next
  <1>1. IInv' /\ Cur' = Brought /\ task'.active = op.active /\ task'.rounds = task.rounds
    <2>1. op # None
      BY PublishBrings
    <2>2. QED
      BY <2>1, PublishKeeps, PublishedTask
  <1>2. /\ Cur # None
        /\ op.active = None => task.active # None /\ Cur = task.active.new
        /\ op.active # None => /\ op.active.old = Cur /\ Changes(Cur) # {}
                               /\ op.active.new = ApplyPlan(Cur, Changes(Cur))
    BY PublishBrings
  <1>3. CASE op.active = None
    <2>1. Point' = None
      BY <1>1, <1>3, PointThen DEF PointOf
    <2>2. Point # None /\ Point.before = task.active.old /\ Point.after = task.active.new
      <3>1. Backed(files, task) /\ task.active \in Version
        BY <1>2, <1>3 DEF IInv, Consistent, Typed, Tasks
      <3>2. QED
        BY <1>2, <1>3, <3>1, PointIsSome, PointNow
    <2>3. Abstract!Undo
      BY <1>1, <1>2, <1>3, <2>1, <2>2 DEF Abstract!Undo, Brought
    <2>4. QED
      BY <2>3 DEF Abstract!Next
  <1>4. CASE op.active # None
    <2>1. Point' = [before |-> op.active.old, after |-> op.active.new]
      BY <1>1, <1>4, PointThen DEF PointOf
    <2>2. Point' = [before |-> Cur, after |-> Cur']
      BY <1>1, <1>2, <1>4, <2>1 DEF Brought
    <2>3. Abstract!Changes(Cur) # {} /\ Cur' = Abstract!ApplyPlan(Cur, Abstract!Changes(Cur))
      BY <1>1, <1>2, <1>4, SameChanges, SameApplyPlan DEF Brought
    <2>4. Abstract!Repair
      BY <1>1, <1>2, <2>2, <2>3 DEF Abstract!Repair
    <2>5. QED
      BY <2>4 DEF Abstract!Next
  <1>5. QED
    BY <1>3, <1>4

\* A repair reaches all the tracks or none; it is undone exactly, with a
\* translation that was made meanwhile; and never over an edit that came after
\* it: each step of the versions is one of the undo point's.
THEOREM ImplementsUndoPointHolds == Spec => ImplementsUndoPoint
  <1>1. Init => Abstract!Init
    BY DEF Init, Abstract!Init, Cur, Point
  <1>2. ASSUME IInv, IInv', [Next]_vars
        PROVE  Abstract!Next \/ UNCHANGED <<Cur, Point, task.rounds>>
    <2>1. CASE UNCHANGED vars
      <3>1. files' = files /\ task' = task
        BY <2>1 DEF vars
      <3>2. QED
        BY <3>1 DEF Cur, Point, Paths, Read
    <2>2. CASE \E track \in Heard : Transcribe(track)
      BY <1>2, <2>2, TranscribeSteps
    <2>3. CASE \E text \in Texts, crash \in BOOLEAN : Translate(text, crash)
      BY <1>2, <2>3, TranslateSteps
    <2>4. CASE Publish
      BY <1>2, <2>4, PublishSteps
    <2>5. CASE \/ \E i \in Edits, span \in Spans : EditTimes(i, span, FALSE) \/ CutOff(i, span)
               \/ \E t \in 1..2, i \in Edits, text \in Texts : EditText(t, i, text)
               \/ Analyze \/ Apply \/ Undo \/ Conflict \/ Touch \/ Crash
      <3>1. task' = task
        <4>1. CASE \E i \in Edits, span \in Spans : EditTimes(i, span, FALSE) \/ CutOff(i, span)
          BY <4>1, Zenon DEF EditTimes, CutOff
        <4>2. CASE \E t \in 1..2, i \in Edits, text \in Texts : EditText(t, i, text)
          BY <4>2, Zenon DEF EditText
        <4>3. CASE Analyze \/ Apply \/ Undo \/ Touch
          BY <4>3, Zenon DEF Analyze, Apply, Undo, Touch
        <4>4. CASE Conflict \/ Crash
          BY <4>4, Zenon DEF Conflict, Crash, Abandon
        <4>5. QED
          BY <2>5, <4>1, <4>2, <4>3, <4>4
      <3>2. QED
        BY <1>2, <3>1, ChangeSteps
    <2>6. QED
      BY <1>2, <2>1, <2>2, <2>3, <2>4, <2>5, Zenon DEF Next
  <1>3. QED
    BY <1>1, <1>2, Invariant, PTL DEF Spec, ImplementsUndoPoint, Abstract!Spec
====
