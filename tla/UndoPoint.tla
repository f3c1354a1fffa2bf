----------------------------- MODULE UndoPoint ------------------------------
(***************************************************************************)
(* What the timing versions of a task's subtitles promise: the tracks are  *)
(* repaired together, and a repair can be undone, exactly, as long as      *)
(* nobody has changed the tracks since, and not afterwards.                *)
(***************************************************************************)
EXTENDS SubtitleTiming

CONSTANT None

VARIABLES
  cur,     \* the tracks, as the task points to them
  point,   \* None, or what the tracks were before and after the repair
  round    \* how often speech recognition made the source

Init == cur = None /\ point = None /\ round = 0

\* An edit, or a translation that is no part of the repair.
Change == UNCHANGED <<point, round>>

\* Speech recognition makes the source anew, and may have repaired it.
Transcribe ==
  /\ round' = round + 1
  /\ \/ point' = None
     \/ /\ point' # None /\ point'.after = cur' /\ point'.before # cur'
        /\ cur' = ApplyPlan(point'.before, Changes(point'.before))

\* A new translation of tracks that are still as the repair left them becomes
\* part of what undoing it restores: its text stays, its times go back.
Translate ==
  /\ point # None /\ cur = point.after
  /\ cur' # None /\ cur'[1] = cur[1]
  /\ point' = [before |-> [t \in DOMAIN cur' |->
                             IF t = 1 THEN point.before[1]
                             ELSE [i \in DOMAIN cur'[t] |->
                                     [cur'[t][i] EXCEPT !.end = point.before[1][i].end]]],
               after |-> cur']
  /\ UNCHANGED round

Repair ==
  /\ cur # None /\ Changes(cur) # {}
  /\ cur' = ApplyPlan(cur, Changes(cur))
  /\ point' = [before |-> cur, after |-> cur']
  /\ UNCHANGED round

Undo ==
  /\ point # None /\ cur = point.after
  /\ cur' = point.before
  /\ point' = None
  /\ UNCHANGED round

Next == Change \/ Transcribe \/ Translate \/ Repair \/ Undo
Spec == Init /\ [][Next]_<<cur, point, round>>
=============================================================================
