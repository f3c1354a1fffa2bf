-------------------------- MODULE SubtitleVersions --------------------------
(***************************************************************************)
(* The subtitle files of one task, and the versions that repairing their   *)
(* times makes: services/subtitle_timing_versions.py, with the operations  *)
(* that write the same files: transcription (api/transcribe.py), a new     *)
(* translation (api/translation.py) and an edit (api/tasks.py).            *)
(*                                                                         *)
(* All of them run on the server's event loop and end without an await, so *)
(* that between the first file and the record's update only a write of the *)
(* record by another thread, or a crash, can come.  A review decision is   *)
(* invalidated with every version: module TaskOperations.                  *)
(***************************************************************************)
EXTENDS SubtitleTiming

CONSTANTS Heard,      \* the tracks that speech recognition may return
          Texts,      \* what a row may be edited or translated to
          Spans,      \* the times a row may be edited to
          Edits,      \* the rows that are edited
          None,
          MaxFiles,   \* bound: how many snapshots are there at a time
          MaxRounds   \* bound: how many transcriptions

\* A translation's file is named after the source's, and written over.
TranslationOf(f) == MaxFiles + f
Names == 1..2 * MaxFiles

\* The types of what the record keeps of a repair, and of what is staged.
Change  == [index: Nat, start: Int, end: Int, newEnd: Int]
Version == [automatic: BOOLEAN, changes: SUBSET Change, before: Seq(Names), after: Seq(Names),
            old: Seq(Seq(Row)), new: Seq(Seq(Row))]
Digests == [paths: Seq(Names), tracks: Seq(Seq(Row))]
Staged  == [stale: BOOLEAN, digest: Digests, paths: Seq(Names), active: Version \cup {None}]

ASSUME VersionsAssumption ==
  /\ Heard \subseteq Seq(Row) /\ \A track \in Heard : Edits \subseteq DOMAIN track
  /\ Texts \subseteq STRING /\ Spans \subseteq Int \X Int
  /\ MaxFiles \in Nat /\ MaxRounds \in Nat

\* None is no file, no track and no record.
ASSUME NoneAssumption ==
  /\ None \notin Names /\ None \notin Seq(Row) /\ None \notin Seq(Seq(Row))
  /\ None \notin Version /\ None \notin Staged
  /\ None \notin [before: Seq(Seq(Row)), after: Seq(Seq(Row))]

VARIABLES
  files,    \* the contents of the subtitle files
  task,     \* the record: its source and its translation, and its versions
  said,     \* what speech recognition returned last (history variable)
  op,       \* the repair or the undoing that has been staged
  view      \* what the user's analysis of the tracks showed

vars == <<files, task, said, op, view>>

Paths(t) == IF t.target = None THEN <<t.source>> ELSE <<t.source, t.target>>
Read(paths) == [t \in DOMAIN paths |-> files[paths[t]]]
Cur == IF task.source = None THEN None ELSE Read(Paths(task))
TracksAgree == Cur # None => Aligned(Cur)

\* The digest that analyze returns: each track's path and content.
Digest == [paths |-> Paths(task), tracks |-> Cur]
NoView == [current |-> FALSE, digest |-> None]

\* The files that somebody may still read.  Any other one is forgotten, and its
\* name, a fresh UUID in the program, may be used again.
Referenced(t, o) ==
  {t.source, t.target, t.original}
    \cup (IF t.active = None THEN {} ELSE {t.active.before[k] : k \in DOMAIN t.active.before})
    \cup (IF o = None THEN {} ELSE {o.paths[k] : k \in DOMAIN o.paths})
    \cup (IF o = None \/ o.active = None THEN {}
          ELSE {o.active.before[k] : k \in DOMAIN o.active.before})

TypeOK ==
  /\ files \in [Names -> Seq(Row) \cup {None}]
  /\ task.source \in Names \cup {None} /\ task.target \in Names \cup {None}
  /\ task.source # None => task.source # task.target
  /\ task.original \in Names \cup {None} /\ task.rounds \in 0..MaxRounds
  /\ task.active \in Version \cup {None} /\ op \in Staged \cup {None}
  /\ view.current \in BOOLEAN
  /\ \A f \in Names : files[f] # None => f \in Referenced(task, op)

Init ==
  /\ files = [f \in Names |-> None]
  /\ task = [source |-> None, target |-> None, original |-> None, rounds |-> 0, active |-> None]
  /\ said = None /\ op = None
  /\ view = NoView

\* The event loop is free.
Free == op = None

\* Any write of the record is a new revision.
Revised == view' = NoView

Used == {f \in 1..MaxFiles : files[f] # None \/ files[TranslationOf(f)] # None}
Room(n) == Cardinality(Used) + n <= MaxFiles

\* write_subtitle_snapshot: fresh names for n files.
Fresh(n) == CHOOSE paths \in [1..n -> (1..MaxFiles) \ Used] : \A j, k \in 1..n : paths[j] = paths[k] => j = k

\* The files after contents are written to paths, and the record is t.
Stored(paths, contents, t, o) ==
  [f \in Names |->
     IF f \notin Referenced(t, o) THEN None
     ELSE IF \E k \in DOMAIN paths : paths[k] = f THEN contents[CHOOSE k \in DOMAIN paths : paths[k] = f]
     ELSE files[f]]

-----------------------------------------------------------------------------
(* The operations that write subtitles.                                    *)

\* run_transcription_task: what was recognised is kept, and then repaired; but
\* not if there is a translation that would keep its times.
Transcribe(track) ==
  LET changes == IF task.target = None THEN Changes(<<track>>) ELSE {}
      result  == Trimmed(track, changes)
      paths   == Fresh(2)
  IN /\ Free /\ Room(2) /\ task.rounds < MaxRounds
     /\ task' = [task EXCEPT !.source = paths[2], !.original = paths[1], !.rounds = @ + 1,
                             !.active = IF changes = {} THEN None
                                        ELSE [automatic |-> TRUE, changes |-> changes,
                                              before |-> <<paths[1]>>, after |-> <<paths[2]>>,
                                              old |-> <<track>>, new |-> <<result>>]]
     /\ files' = Stored(paths, <<track, result>>, task', op)
     /\ said' = track
     /\ Revised /\ UNCHANGED op

\* The tracks are still the files that the repair made, with its contents.
Untouched(record) == Paths(task) = record.after /\ Cur = record.new

\* Faulty variant: the generated translation is restored with the times it has.
RestoredAsGenerated(track, record) == track

\* What undoing an automatic repair makes of a translation generated since.
RestoredTranslation(track, record) == Restored(track, record.changes)

\* include_generated_translation: the record with the new track.
With(record, track, backup, f) ==
  [record EXCEPT !.before = <<record.before[1], backup>>, !.after = <<record.after[1], f>>,
                 !.old = <<record.old[1], RestoredTranslation(track, record)>>,
                 !.new = <<record.new[1], track>>]

\* The end of translate_subtitles: a row for each row of the source.  The file
\* is written, and then the record, unless the program crashes in between.
Translate(text, crash) ==
  LET track  == [i \in DOMAIN Cur[1] |-> [Cur[1][i] EXCEPT !.text = text, !.edited = FALSE]]
      f      == TranslationOf(task.source)
      backup == Fresh(1)[1]
      joins  == task.active # None /\ task.active.automatic /\ Untouched(task.active)
      record == IF joins THEN With(task.active, track, backup, f) ELSE task.active
  IN /\ Free /\ task.source # None /\ Room(1)
     /\ IF crash THEN UNCHANGED <<task, view>>
        ELSE task' = [task EXCEPT !.target = f, !.active = record] /\ Revised
     /\ files' = IF joins /\ ~crash THEN Stored(<<f, backup>>, <<track, record.old[2]>>, task', op)
                 ELSE Stored(<<f>>, <<track>>, task', op)
     /\ UNCHANGED <<said, op>>

\* edit_segment writes each track in place, the source first; a crash leaves the
\* others, and the record, as they were.
EditTimes(i, span, crash) ==
  LET Edited(track) == [track EXCEPT ![i].start = span[1], ![i].end = span[2]]
      written == IF crash THEN {task.source} ELSE {task.source, task.target}
  IN /\ Free /\ task.source # None /\ \A t \in DOMAIN Cur : i \in DOMAIN Cur[t]
     /\ files' = [f \in Names |-> IF f \in written THEN Edited(files[f]) ELSE files[f]]
     /\ IF crash THEN UNCHANGED view ELSE Revised
     /\ UNCHANGED <<task, said, op>>

EditText(t, i, text) ==
  LET Rewritten(row) == [row EXCEPT !.text = text, !.edited = @ \/ (t = 1 /\ Cur[1][i].text # text)]
  IN /\ Free /\ task.source # None /\ t \in DOMAIN Cur /\ i \in DOMAIN Cur[t]
     /\ files' = [files EXCEPT ![Paths(task)[t]][i] = Rewritten(@)]
     /\ Revised
     /\ UNCHANGED <<task, said, op>>

-----------------------------------------------------------------------------
(* The timing versions.                                                    *)

Analyze ==
  /\ Free /\ task.source # None
  /\ view' = [current |-> TRUE, digest |-> Digest]
  /\ UNCHANGED <<files, task, said, op>>

\* apply: copies of the tracks before and after, under fresh names.  A user's
\* request counts only for the revision, and the contents, that were analysed.
Apply ==
  LET changes == Changes(Cur)
      n       == Len(Cur)
      paths   == Fresh(2 * n)
      after   == ApplyPlan(Cur, changes)
  IN /\ Free /\ task.source # None /\ Room(2 * n)
     /\ view.current /\ view.digest = Digest /\ changes # {}
     /\ op' = [stale |-> FALSE, digest |-> Digest, paths |-> SubSeq(paths, n + 1, 2 * n),
               active |-> [automatic |-> FALSE, changes |-> changes,
                           before |-> SubSeq(paths, 1, n), after |-> SubSeq(paths, n + 1, 2 * n),
                           old |-> Cur, new |-> after]]
     /\ files' = Stored(paths, Cur \o after, task, op')
     /\ UNCHANGED <<task, said, view>>

\* Faulty variant: the tracks are not compared with what the repair made.
MayAlwaysUndo(record) == Len(Paths(task)) = Len(record.before)

\* No track was edited, and the backups are what they were.
MayUndo(record) == Untouched(record) /\ Read(record.before) = record.old

\* Faulty variant: the task is pointed to the backups themselves.
BackupsOf(record) == record.before

CopiesOf(record) == Fresh(Len(record.before))

\* undo: copies of the backups, under fresh names.
Undo ==
  LET record == task.active
  IN /\ Free /\ record # None /\ Room(Len(record.before))
     /\ view.current /\ MayUndo(record)
     /\ op' = [stale |-> FALSE, digest |-> Digest, paths |-> CopiesOf(record), active |-> None]
     /\ files' = Stored(CopiesOf(record), Read(record.before), task, op')
     /\ UNCHANGED <<task, said, view>>

\* _publish: one write of the record, compared with the revision that was read.
Publish ==
  /\ op # None /\ ~op.stale /\ op.digest = Digest
  /\ task' = [task EXCEPT !.source = op.paths[1],
                          !.target = IF Len(op.paths) = 2 THEN op.paths[2] ELSE @,
                          !.active = op.active]
  /\ op' = None
  /\ files' = Stored(<<>>, <<>>, task', None)
  /\ Revised
  /\ UNCHANGED said

Abandon ==
  /\ op' = None
  /\ files' = Stored(<<>>, <<>>, task, None)
  /\ UNCHANGED <<task, said, view>>

Conflict == op # None /\ op.stale /\ Abandon

\* Another thread writes the record: none of these fields.
Touch ==
  /\ task.source # None
  /\ op' = IF op = None THEN None ELSE [op EXCEPT !.stale = TRUE]
  /\ Revised
  /\ UNCHANGED <<files, task, said>>

\* The page, and what it showed, survive a crash of the program.
Crash == op # None /\ Abandon

CutOff(i, span) == EditTimes(i, span, TRUE)

Next ==
  \/ \E track \in Heard : Transcribe(track)
  \/ \E text \in Texts, crash \in BOOLEAN : Translate(text, crash)
  \/ \E i \in Edits, span \in Spans : EditTimes(i, span, FALSE) \/ CutOff(i, span)
  \/ \E t \in 1..2, i \in Edits, text \in Texts : EditText(t, i, text)
  \/ Analyze \/ Apply \/ Undo \/ Publish \/ Conflict \/ Touch \/ Crash

Spec == Init /\ [][Next]_vars

-----------------------------------------------------------------------------
(* Properties.                                                             *)

\* A repair reaches all the tracks or none, whatever crashes; it is undone
\* exactly, with a translation that was made meanwhile; and never over an edit,
\* of this program or another's, that came after it.
Point == IF task.active = None THEN None
         ELSE [before |-> Read(task.active.before), after |-> task.active.new]
Abstract == INSTANCE UndoPoint WITH cur <- Cur, point <- Point, round <- task.rounds
ImplementsUndoPoint == Abstract!Spec

\* "Preserve completed ASR before later user edits/timing repair": what speech
\* recognition returned can be read as long as the task points to it.
OriginalIsKept == task.original # None => files[task.original] = said

\* The translation keeps the times of its source, through repairs, undoings, new
\* translations and edits; only an edit that was cut off, and a transcription
\* that has an older translation, set them apart.
TracksStayTogether ==
  [][TracksAgree => \/ TracksAgree'
                    \/ \E i \in Edits, span \in Spans : CutOff(i, span)
                    \/ \E track \in Heard : Transcribe(track)]_vars
=============================================================================
