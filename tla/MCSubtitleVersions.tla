------------------------ MODULE MCSubtitleVersions --------------------------
(* Instance of SubtitleVersions for TLC: two rows, of which the first runs  *)
(* into the second by 100 ms, or does not.                                  *)
EXTENDS SubtitleVersions

MCRow(start, end) == [start |-> start, end |-> end, text |-> "a", edited |-> FALSE]
MCHeard == {<<MCRow(0, 110), MCRow(100, 200)>>, <<MCRow(0, 90), MCRow(100, 200)>>}
MCSpans == {<<0, 105>>}
=============================================================================
