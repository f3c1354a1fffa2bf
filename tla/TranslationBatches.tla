------------------------- MODULE TranslationBatches -------------------------
(***************************************************************************)
(* The translation of one task's subtitles: translate_transcription of     *)
(* api/translation.py and TranslationService.translate_full_result.  The   *)
(* rows that have text go to the model in batches; an answer of the wrong  *)
(* length is replaced row by row, a row that failed is tried twice more,   *)
(* and an audit by the model names the rows whose translation belongs to   *)
(* another row.                                                            *)
(*                                                                         *)
(* A translation is the row whose meaning it carries.  The model and the   *)
(* auditor are outside this code: the model answers anything, the auditor  *)
(* names at least the misplaced rows, and either may fail.                 *)
(***************************************************************************)
EXTENDS Integers, Sequences, FiniteSets

CONSTANTS Rows,        \* the number of subtitle rows
          Speech,      \* the sets of rows that may have text
          BatchSize,   \* TRANSLATION_BATCH_SIZE
          MaxRetries,  \* LLM_MAX_RETRIES
          Providers    \* the values of LLM_PROVIDER

ASSUME BatchAssumption ==
  /\ Rows \in Nat \ {0} /\ BatchSize \in Nat \ {0} /\ MaxRetries \in Nat
  /\ Speech \subseteq SUBSET (1..Rows)

Failed == 0            \* an empty translation or a failure marker
Blank  == -1           \* the text of a row that was cleared
MaxRecoveries == 2
NoProvider == "none"
NoResult   == [texts |-> <<>>, review |-> {}, incomplete |-> FALSE]

Calling  == {"batch", "single", "recover", "fix"}
Auditing == {"audit", "recheck"}
Ends     == {"saved", "failed", "cancelled"}

VARIABLES
  spoken,    \* the rows with text
  job,       \* the running translation
  setting,   \* LLM_PROVIDER
  stage,     \* the provider whose lifecycle was started
  config,    \* the provider of the stage's configuration snapshot
  saved      \* the translation file and its alignment review

vars == <<spoken, job, setting, stage, config, saved>>

\* The numbers of a set, in order.
Ascending(set) == CHOOSE s \in [1..Cardinality(set) -> set] : \A i, j \in DOMAIN s : i < j => s[i] < s[j]

\* Rows with text, in order; job counts in places of this sequence.
Active == Ascending(spoken)

NewJob == [phase |-> "idle", first |-> 1, answers |-> <<>>, todo |-> <<>>, attempt |-> 0, recovery |-> 0,
           suspects |-> {}, done |-> <<>>, review |-> {}, incomplete |-> FALSE]

TypeOK ==
  /\ spoken \in Speech
  /\ job.phase \in {"idle", "waiting", "finishing"} \cup Calling \cup Auditing \cup Ends
  /\ job.first \in 1..Rows + 1 /\ job.attempt \in 0..MaxRetries /\ job.recovery \in 0..MaxRecoveries - 1
  /\ job.answers \in Seq(0..Rows) /\ Len(job.answers) <= BatchSize
  /\ job.todo \in Seq(1..BatchSize) /\ job.suspects \subseteq 1..BatchSize
  /\ job.done \in Seq(0..Rows) /\ job.review \subseteq 1..Rows /\ job.incomplete \in BOOLEAN
  /\ setting \in Providers /\ {stage, config} \subseteq Providers \cup {NoProvider}
  /\ saved.texts \in Seq({Blank} \cup 0..Rows)

Init ==
  /\ spoken \in Speech /\ job = NewJob
  /\ setting \in Providers /\ stage = NoProvider /\ config = NoProvider /\ saved = NoResult

-----------------------------------------------------------------------------
\* The places of the current batch, and its length.
Size   == LET left == Len(Active) - job.first + 1 IN IF left < BatchSize THEN left ELSE BatchSize
Places == 1..Size
\* The k-th place of the batch, in the list of active rows.
PlaceOf(k) == job.first + k - 1

\* The places whose translation has another row's meaning.
Misplaced(answers) == {k \in DOMAIN answers : answers[k] # Active[PlaceOf(k)]}

\* The places a request asks the model to translate.
Asked(j) == IF j.phase = "batch" THEN Ascending(Places) ELSE <<Head(j.todo)>>

\* The lists a request may bring: of a wrong length (whatever it holds), or
\* for each row asked for a translation of any row, or none.
Answers(j) == {<<>>} \cup [DOMAIN Asked(j) -> {Failed} \cup spoken]

\* Closing a batch: its rows are added, and the next one begins.
Closed(j) ==
  LET done == j.done \o j.answers
      next == [NewJob EXCEPT !.first = j.first + Len(j.answers), !.done = done,
                             !.review = j.review, !.incomplete = j.incomplete]
  IN [next EXCEPT !.phase = IF next.first > Len(Active) THEN "finishing" ELSE "batch"]

\* The next row of a phase that asks for one row at a time.
Onward(j) == [j EXCEPT !.todo = Tail(j.todo), !.attempt = 0, !.recovery = 0]

\* Only a batch without a failed row is audited.
Recovered(j) ==
  IF \E k \in DOMAIN j.answers : j.answers[k] = Failed THEN Closed(j) ELSE [j EXCEPT !.phase = "audit"]

\* The failed rows of a batch are tried again, one at a time.
Recovering(j) ==
  LET failed == {k \in DOMAIN j.answers : j.answers[k] = Failed}
      next   == [j EXCEPT !.phase = "recover", !.todo = Ascending(failed), !.attempt = 0, !.recovery = 0]
  IN IF failed = {} THEN Recovered(next) ELSE next

Good(list) == Len(list) = 1 /\ list[1] # Failed

\* What each phase does with the list its request returned.
BatchAnswered(j, list) ==
  IF Len(list) = Size
  THEN Recovering([j EXCEPT !.answers = list])
  ELSE [j EXCEPT !.phase = "single", !.todo = Ascending(Places), !.attempt = 0]

SingleAnswered(j, list) ==
  LET next == Onward([j EXCEPT !.answers = Append(@, IF Len(list) = 1 THEN list[1] ELSE Failed)])
  IN IF next.todo = <<>> THEN Recovering(next) ELSE next

Replaced(j, list) == [j EXCEPT !.answers[Head(j.todo)] = IF Good(list) THEN list[1] ELSE @]

\* Faulty variant: a row that fails to recover is tried again, for ever.
RecoverAgain(j, list) ==
  LET next == Onward(Replaced(j, list))
  IN IF ~Good(list) THEN [j EXCEPT !.attempt = 0] ELSE IF next.todo = <<>> THEN Recovered(next) ELSE next

RecoverAnswered(j, list) ==
  LET next == Onward(Replaced(j, list))
  IN IF ~Good(list) /\ j.recovery < MaxRecoveries - 1
     THEN [j EXCEPT !.recovery = @ + 1, !.attempt = 0]
     ELSE IF next.todo = <<>> THEN Recovered(next) ELSE next

FixAnswered(j, list) ==
  LET next == Onward(Replaced(j, list))
  IN IF next.todo = <<>> THEN [next EXCEPT !.phase = "recheck"] ELSE next

Answered(j, list) ==
  CASE j.phase = "batch"   -> BatchAnswered(j, list)
    [] j.phase = "single"  -> SingleAnswered(j, list)
    [] j.phase = "recover" -> RecoverAnswered(j, list)
    [] j.phase = "fix"     -> FixAnswered(j, list)

\* The rows an audit leaves for a review, by their place in the whole list.
Reviewed(j, places) == [j EXCEPT !.review = @ \cup {PlaceOf(k) : k \in places}]
\* An audit that names some rows: they are translated once more, and then
\* audited again.
Audited(j, places) ==
  IF j.phase = "recheck" THEN Closed(Reviewed(j, places))
  ELSE IF places = {} THEN Closed(j)
  ELSE [j EXCEPT !.phase = "fix", !.suspects = places, !.todo = Ascending(places)]

\* A recheck that fails: nothing says that the suspects were put right.
RecheckFailed(j) == Closed([Reviewed(j, j.suspects) EXCEPT !.incomplete = TRUE])

-----------------------------------------------------------------------------
(* The job.                                                                *)

\* The request, when the source is in another language; the stage waits for its turn.
Ask ==
  /\ job.phase = "idle" /\ spoken # {}
  /\ job' = [job EXCEPT !.phase = "waiting"] /\ stage' = setting
  /\ UNCHANGED <<spoken, setting, config, saved>>

\* The source has the target language, or no row has text.
Copied == [r \in 1..Rows |-> IF r \in spoken THEN r ELSE Blank]
AskCopy ==
  /\ job.phase = "idle"
  /\ job' = [job EXCEPT !.phase = "saved"] /\ saved' = [NoResult EXCEPT !.texts = Copied]
  /\ UNCHANGED <<spoken, setting, stage, config>>

\* The GPU is free and the provider of the stage is loaded; then the
\* configuration is read.
StageStarts ==
  /\ job.phase = "waiting"
  /\ job' = [job EXCEPT !.phase = "batch"] /\ config' = setting
  /\ UNCHANGED <<spoken, setting, stage, saved>>

\* The stage ends with an exception or a cancellation: the record keeps the
\* translation it had.
Stopped(phase) ==
  /\ job' = [job EXCEPT !.phase = phase] /\ stage' = NoProvider /\ config' = NoProvider
  /\ UNCHANGED <<spoken, setting, saved>>

StageFails == job.phase = "waiting" /\ Stopped("failed")
Cancel     == job.phase \in {"waiting"} \cup Calling \cup Auditing /\ Stopped("cancelled")

\* translate_batch: a request returns a list, or is sent again after a
\* failure; the last failure returns failure markers.
Answer ==
  /\ job.phase \in Calling
  /\ \E list \in Answers(job) : job' = Answered(job, list)
  /\ UNCHANGED <<spoken, setting, stage, config, saved>>

CallFails ==
  /\ job.phase \in Calling
  /\ job' = IF job.attempt < MaxRetries
            THEN [job EXCEPT !.attempt = @ + 1]
            ELSE Answered(job, [k \in DOMAIN Asked(job) |-> Failed])
  /\ UNCHANGED <<spoken, setting, stage, config, saved>>

\* _audit_batch_alignment: any rows, with all those that are misplaced.
AuditAnswers ==
  /\ job.phase \in Auditing
  /\ \E places \in SUBSET Places :
       /\ Misplaced(job.answers) \subseteq places
       /\ job' = Audited(job, places)
  /\ UNCHANGED <<spoken, setting, stage, config, saved>>

AuditFails ==
  /\ job.phase \in Auditing
  /\ job' = IF job.phase = "recheck" THEN RecheckFailed(job) ELSE Closed([job EXCEPT !.incomplete = TRUE])
  /\ UNCHANGED <<spoken, setting, stage, config, saved>>

\* Faulty variant: the rows to review keep the numbers of the rows with text.
NumberedByPlace == [texts |-> [r \in 1..Rows |-> IF r \in spoken THEN job.done[Cardinality(spoken \cap 1..r)]
                                                               ELSE Blank],
                    review |-> job.review, incomplete |-> job.incomplete]

\* The translation with the cleared rows put back, and the rows to review in
\* the numbers of the subtitles.
Result == [texts |-> [r \in 1..Rows |-> IF r \in spoken THEN job.done[Cardinality(spoken \cap 1..r)]
                                                      ELSE Blank],
           review |-> {Active[place] : place \in job.review}, incomplete |-> job.incomplete]

\* The stage is over; a translation with a failed row is not saved.
Finish ==
  /\ job.phase = "finishing" /\ stage' = NoProvider /\ config' = NoProvider
  /\ IF \E r \in spoken : Result.texts[r] = Failed
     THEN job' = [job EXCEPT !.phase = "failed"] /\ UNCHANGED saved
     ELSE job' = [job EXCEPT !.phase = "saved"] /\ saved' = Result
  /\ UNCHANGED <<spoken, setting>>

\* The user saves another provider.
ChangeSetting ==
  /\ setting' \in Providers \ {setting} /\ job.phase \notin Ends
  /\ UNCHANGED <<spoken, job, stage, config, saved>>

Work == StageStarts \/ StageFails \/ Answer \/ CallFails \/ AuditAnswers \/ AuditFails \/ Finish
Next == Ask \/ AskCopy \/ Work \/ Cancel \/ ChangeSetting

\* Every request ends with an answer or an error (LLM_TIMEOUT_SECONDS), and the
\* wait for the GPU ends (GPUStages).
Spec == Init /\ [][Next]_vars /\ WF_vars(Work)

-----------------------------------------------------------------------------
\* A saved translation has a text exactly for the rows that have one, none of
\* them failed, and each that has another row's meaning is among the rows to
\* review, unless the audit was incomplete.
RowsKeepTheirPlace ==
  saved # NoResult =>
    /\ Len(saved.texts) = Rows /\ saved.review \subseteq spoken
    /\ \A r \in 1..Rows :
         /\ saved.texts[r] # Failed /\ (saved.texts[r] = Blank <=> r \notin spoken)
         /\ r \in spoken /\ saved.texts[r] # r => r \in saved.review \/ saved.incomplete

\* Whatever the model and the auditor answer, a translation ends.
TranslationEnds == (job.phase = "waiting") ~> (job.phase \in Ends)

\* The provider that is asked is the one whose stage was started.
StageProviderAnswers == job.phase \in Calling => config = stage
=============================================================================
