-------------------------- MODULE DubbingTimeline ---------------------------
(***************************************************************************)
(* How a dubbing fits speech into the time of its subtitles: the grouping  *)
(* of rows into utterances and the timeline of DubbingService.             *)
(*                                                                         *)
(* Times are in units of 10 milliseconds, tempos in units of 1/320.  A     *)
(* position of the timeline is scaled by its tempo, so that every number   *)
(* is an integer: the end of a speech of d at the tempo q is               *)
(* (start * q + d * Unit) / q.                                             *)
(***************************************************************************)
EXTENDS Integers, Sequences, FiniteSets, SequencesExt, FiniteSetsExt

CONSTANTS Bisections,    \* halvings of the search for a tempo (20 in the code)
          MaxTargets     \* utterances proposed for compression (8 in the code)

ASSUME TimelineAssumption == Bisections \in Nat /\ MaxTargets \in Nat \ {0}

Unit     == 320
MaxGroup == 1200   \* NATURAL_MAX_GROUP_SECONDS
MaxPause == 75
MaxLag   == 150    \* NATURAL_MAX_SYNC_LAG_SECONDS
MaxLead  == 60     \* NATURAL_MAX_UTTERANCE_LEAD_SECONDS
MinGap   == 20     \* NATURAL_MIN_SENTENCE_GAP_SECONDS

\* The pacing options, in the order in which they are tried.
Pacing == <<[gap |-> 32, lead |-> 0], [gap |-> 32, lead |-> MaxLead], [gap |-> MinGap, lead |-> MaxLead]>>
Tightest == Pacing[3]

\* The highest tempo of a provider's speech; what the provider has already
\* spoken faster is taken from it.
MaxTempo == [qwen |-> 512, kokoro |-> 448, edge |-> 448, other |-> 400]
Speakable(provider, speed) == 0 < speed /\ speed <= MaxTempo[provider]
TempoCap(provider, speed)  == (MaxTempo[provider] * Unit) \div speed

-----------------------------------------------------------------------------
(* The utterances.  A row has a start, an end, a text ("blank", a "part" of *)
(* a sentence, or its "end") and the length of its speech at normal tempo.  *)

Envelope(rows, group) ==
  [start |-> Min({rows[i].start : i \in Range(group)}), end |-> Max({rows[i].end : i \in Range(group)})]

\* A row joins the group when no long pause is before it and the group's
\* envelope, with nested and overlapping rows, stays short enough.
Joins(rows, group, i) ==
  LET all == Envelope(rows, Append(group, i))
  IN /\ rows[i].start - Envelope(rows, group).end <= MaxPause
     /\ all.end - all.start <= MaxGroup

Flushed(acc) == IF acc.open = <<>> THEN acc ELSE [done |-> Append(acc.done, acc.open), open |-> <<>>]

AddRow(rows, acc, i) ==
  LET base   == IF acc.open = <<>> \/ Joins(rows, acc.open, i) THEN acc ELSE Flushed(acc)
      joined == [base EXCEPT !.open = Append(@, i)]
  IN IF rows[i].text = "blank" THEN acc
     ELSE IF rows[i].text = "end" THEN Flushed(joined) ELSE joined

\* The groups after each row.
Grouping(rows) ==
  LET after[n \in 0..Len(rows)] ==
        IF n = 0 THEN [done |-> <<>>, open |-> <<>>] ELSE AddRow(rows, after[n - 1], n)
  IN after

\* _group_segments_for_dubbing.
Groups(rows) == Flushed(Grouping(rows)[Len(rows)]).done

\* The speech of a group, after each of its rows.
Speaking(rows, group) ==
  LET after[n \in 0..Len(group)] == IF n = 0 THEN 0 ELSE after[n - 1] + rows[group[n]].speech
  IN after

Utterance(rows, group) ==
  [start |-> Envelope(rows, group).start, end |-> Envelope(rows, group).end, rows |-> Range(group),
   speech |-> Speaking(rows, group)[Len(group)]]

Utterances(rows) ==
  LET groups == Groups(rows) IN [g \in DOMAIN groups |-> Utterance(rows, groups[g])]

-----------------------------------------------------------------------------
(* The timeline at one tempo and pacing.                                   *)

Larger(a, b) == IF a >= b THEN a ELSE b
Smaller(a, b)  == IF a <= b THEN a ELSE b

\* An utterance starts a little before its first row, but not before the one
\* before it is over.
Position(u, earliest, tempo, pacing) ==
  LET start == Larger(Larger(0, u.start - pacing.lead) * tempo, earliest)
  IN [start |-> start, end |-> start + u.speech * Unit]

\* _natural_timeline_plan.
TimelinePlan(us, tempo, pacing) ==
  LET plan[i \in DOMAIN us] ==
        Position(us[i], IF i = 1 THEN 0 ELSE plan[i - 1].end + pacing.gap * tempo, tempo, pacing)
  IN plan

InTime(us, plan, tempo, i) ==
  /\ plan[i].start <= (us[i].start + MaxLag) * tempo
  /\ plan[i].end <= (us[i].end + MaxLag) * tempo
Inside(plan, tempo, total) == plan = <<>> \/ Last(plan).end <= (total + 1) * tempo

\* _natural_timeline_fits.
Fits(us, tempo, pacing, total) ==
  LET plan == TimelinePlan(us, tempo, pacing)
  IN Inside(plan, tempo, total) /\ \A i \in DOMAIN us : InTime(us, plan, tempo, i)

-----------------------------------------------------------------------------
(* The tempo of the track, or the refusal.                                 *)

\* The bounds of the search for a tempo, after each halving.
Search(us, cap, pacing, total) ==
  LET after[n \in 0..Bisections] ==
        IF n = 0 THEN [low |-> Unit, high |-> cap]
        ELSE LET b      == after[n - 1]
                 middle == (b.low + b.high) \div 2
             IN IF Fits(us, middle, pacing, total) THEN [low |-> b.low, high |-> middle]
                                                   ELSE [low |-> middle, high |-> b.high]
  IN after

\* Faulty variant: the search returns its lower bound.
TempoTooLow(us, cap, pacing, total) ==
  IF Fits(us, Unit, pacing, total) THEN Unit ELSE Search(us, cap, pacing, total)[Bisections].low

\* Normal tempo if it fits; else the upper bound of a bisection.
Tempo(us, cap, pacing, total) ==
  IF Fits(us, Unit, pacing, total) THEN Unit ELSE Search(us, cap, pacing, total)[Bisections].high

\* When an utterance must be over for the next one not to be late.
Deadline(us, i, pacing, total) ==
  Smaller(us[i].end + MaxLag, IF i < Len(us) THEN us[i + 1].start + MaxLag - pacing.gap ELSE total)

\* _dubbing_sync_issues: by how much each utterance of a plan is late.
Excess(us, plan, tempo, pacing, total) ==
  [i \in DOMAIN us |->
     Larger(Larger(0, plan[i].end - Deadline(us, i, pacing, total) * tempo),
              plan[i].start - (us[i].start + MaxLag) * tempo)]

\* _compression_segment_indices: the utterances that end too late or are too
\* long for their own time, the worst first; all of them when there are none.
Score(us, plan, tempo, pacing, total) ==
  [i \in DOMAIN us |->
     Larger(0, plan[i].end - Deadline(us, i, pacing, total) * tempo)
     + Larger(0, us[i].speech * Unit - Larger(us[i].end - us[i].start, 10) * tempo)]

Worst(weight, some) ==
  {i \in some :
     Cardinality({j \in some : weight[j] > weight[i] \/ (weight[j] = weight[i] /\ j > i)}) < MaxTargets}

Overlong(score, tempo) == {i \in DOMAIN score : score[i] > 5 * tempo}

Targets(us, score, tempo) ==
  IF Overlong(score, tempo) # {} THEN Worst(score, Overlong(score, tempo))
                                 ELSE Worst([i \in DOMAIN us |-> us[i].speech], DOMAIN us)

\* _build_timeline: the tempo, pacing and plan of the track; or the refusal,
\* with the rows to compress and by how much each utterance is late.
Timeline(us, cap, total) ==
  LET able == {k \in DOMAIN Pacing : Fits(us, cap, Pacing[k], total)}
      plan == TimelinePlan(us, cap, Tightest)
  IN IF able # {}
     THEN LET pacing == Pacing[Min(able)]
              tempo  == Tempo(us, cap, pacing, total)
          IN [fits |-> TRUE, tempo |-> tempo, pacing |-> pacing, plan |-> TimelinePlan(us, tempo, pacing)]
     ELSE [fits |-> FALSE, excess |-> Excess(us, plan, cap, Tightest, total),
           rows |-> UNION {us[i].rows : i \in Targets(us, Score(us, plan, cap, Tightest, total), cap)}]

-----------------------------------------------------------------------------
(* Properties, for any rows.                                               *)

\* Every row with text is spoken once and in order, no utterance runs over a
\* long pause or the end of a sentence, and a group of rows is not too long.
ScriptIsKept(rows) ==
  LET groups == Groups(rows)
  IN /\ UNION {Range(groups[g]) : g \in DOMAIN groups} = {i \in DOMAIN rows : rows[i].text # "blank"}
     /\ \A g, h \in DOMAIN groups : \A m \in DOMAIN groups[g], n \in DOMAIN groups[h] :
          g < h \/ (g = h /\ m < n) => groups[g][m] < groups[h][n]
     /\ \A g \in DOMAIN groups :
          LET all == Envelope(rows, groups[g])
          IN /\ Len(groups[g]) > 1 => all.end - all.start <= MaxGroup
             /\ \A n \in 1..Len(groups[g]) - 1 :
                  /\ rows[groups[g][n]].text = "part"
                  /\ \E m \in 1..n : rows[groups[g][n + 1]].start <= rows[groups[g][m]].end + MaxPause

\* A width after some halvings, rounded up.
Halving(width, times) ==
  LET after[n \in 0..times] == IF n = 0 THEN width ELSE (after[n - 1] + 1) \div 2
  IN after[times]

\* A track that is accepted is spoken one utterance after the other, inside
\* the video and close to its subtitles, no faster than it must be.
AcceptedIsInTime(us, made, cap, total) ==
  LET step == Halving(cap - Unit, Bisections)
  IN /\ Unit <= made.tempo /\ made.tempo <= cap
     /\ Inside(made.plan, made.tempo, total)
     /\ \A i \in DOMAIN us :
          /\ InTime(us, made.plan, made.tempo, i)
          /\ made.plan[i].start >= (us[i].start - MaxLead) * made.tempo
          /\ i > 1 => made.plan[i].start >= made.plan[i - 1].end + MinGap * made.tempo
     /\ made.tempo > Unit => ~Fits(us, Larger(Unit, made.tempo - step), made.pacing, total)
     /\ Fits(us, Unit, Pacing[1], total) => made.plan = TimelinePlan(us, Unit, Pacing[1])

\* A refusal is right (no tempo and no pacing would do), says why, and names
\* rows to compress: whole utterances, and every one that is late by more than
\* 50 ms or the one before it, as long as there are not too many to name.
RefusalIsRight(us, made, cap, total) ==
  LET score == Score(us, TimelinePlan(us, cap, Tightest), cap, Tightest, total)
      late  == {i \in DOMAIN us : made.excess[i] > 0}
  IN /\ \A k \in DOMAIN Pacing : ~Fits(us, Unit, Pacing[k], total) /\ ~Fits(us, cap, Pacing[k], total)
     /\ late # {} /\ made.rows # {}
     /\ \A i \in DOMAIN us : us[i].rows \subseteq made.rows \/ us[i].rows \cap made.rows = {}
     /\ Cardinality(Overlong(score, cap)) <= MaxTargets =>
          \A i \in late : made.excess[i] > 5 * cap =>
            \E j \in {i - 1, i} \cap DOMAIN us : us[j].rows \subseteq made.rows

\* The highest tempos: of a provider asked to speak at normal speed, or as fast
\* as it may.
Caps == UNION {{TempoCap(p, speed) : speed \in {s \in {Unit, MaxTempo[p]} : Speakable(p, s)}} : p \in DOMAIN MaxTempo}

\* The script, and its timeline for every provider and speed.
SpeechKeepsTime(rows, total) ==
  LET us == Utterances(rows)
  IN /\ ScriptIsKept(rows)
     /\ \A cap \in Caps :
          LET made == Timeline(us, cap, total)
          IN IF made.fits THEN AcceptedIsInTime(us, made, cap, total) ELSE RefusalIsRight(us, made, cap, total)
=============================================================================
