---------------------------- MODULE MCAlgorithms ----------------------------
(***************************************************************************)
(* The program's pure algorithms, on every input up to a length: an input   *)
(* grows by one element in each step.                                       *)
(***************************************************************************)
EXTENDS SubtitleTiming, DubbingTimeline

CONSTANTS MaxRows, MaxScript, MaxWords, MaxEntries, MaxEncoders,  \* the lengths of the inputs
          SourceText, TargetText   \* the text of a subtitle row, and its translation

ASSUME TextsAssumption == {SourceText, TargetText} \subseteq STRING

Speech == INSTANCE AsrChunks
Config == INSTANCE Settings
Video  == INSTANCE VideoPlans

VARIABLES of,     \* the algorithm that the input is for
          input

FirstInput == of \in {"repair", "script", "speech", "settings", "video"} /\ input = <<>>

Extend(element) == input' = Append(input, element) /\ UNCHANGED of

\* Subtitle rows at any times, in or out of order, some of them edited by hand;
\* overlaps of 0, 20, 120 and 130 milliseconds and more.
RowTimes == {<<-1, 30>>, <<0, 150>>, <<0, 162>>, <<10, 40>>, <<130, 150>>, <<138, 290>>, <<148, 168>>,
             <<150, 300>>, <<280, 400>>, <<300, 310>>}
AddSubtitle ==
  /\ of = "repair" /\ Len(input) < MaxRows
  /\ \E times \in RowTimes, edited \in BOOLEAN :
       Extend([start |-> times[1], end |-> times[2], text |-> SourceText, edited |-> edited])

\* Rows of a script in the order of their starts, with short, long and very
\* long speech, pauses, overlaps, and groups longer than an envelope.
ScriptTimes == {<<0, 100>>, <<0, 700>>, <<50, 80>>, <<110, 200>>, <<230, 300>>, <<640, 1250>>}
AddLine ==
  /\ of = "script" /\ Len(input) < MaxScript
  /\ \E times \in ScriptTimes, text \in {"blank", "part", "end"}, speech \in {40, 124, 420} :
       /\ \A n \in DOMAIN input : input[n].start <= times[1]
       /\ text = "blank" => speech = 40
       /\ Extend([start |-> times[1], end |-> times[2], text |-> text, speech |-> speech])

\* Words one after the other, blank or different from each other, near to and
\* far from the edges of the chunks.
Vocabulary == <<"one", "two", "three", "four">>
ASSUME WordsAssumption == MaxWords \in 0..Len(Vocabulary)

AddWord ==
  /\ of = "speech" /\ Len(input) < MaxWords
  /\ \E start \in {0, 60, 90, 150, 250}, length \in {20, 60},
        text \in {"", Vocabulary[Len(input) + 1]}, stop \in BOOLEAN :
       /\ \A n \in DOMAIN input : input[n].end <= start
       /\ start + length <= 310 /\ (text = "" => ~stop)
       /\ Extend([start |-> start, end |-> start + length, text |-> text, stop |-> stop])

\* Entries of a configuration file, of any version; no key comes twice.
AddEntry ==
  /\ of = "settings" /\ Len(input) < MaxEntries
  /\ \E key \in Config!Known \cup {Config!Legacy, "extension"}, value \in {"a", "A", "bad", "mask", "empty", "none"} :
       /\ \A n \in DOMAIN input : input[n].key # key
       /\ key = "extension" => value = "a"
       /\ Extend([key |-> key, value |-> value])

\* The encoders of a machine, each once, in the order of the codecs; hardware
\* that takes a source of 4K, or not.
Encoders == <<"av1_nvenc", "libsvtav1", "hevc_nvenc", "libx265", "h264_nvenc", "h264_qsv", "libx264", "mpeg4">>
AddEncoder ==
  /\ of = "video" /\ Len(input) < MaxEncoders
  /\ \E n \in DOMAIN Encoders, limit \in {2560, 4096} :
       /\ \A k \in DOMAIN input : \E m \in 1..n - 1 : input[k].name = Encoders[m]
       /\ Encoders[n] \in Video!Software => limit = 4096
       /\ Extend([name |-> Encoders[n], limit |-> limit])

NextInput == AddSubtitle \/ AddLine \/ AddWord \/ AddEntry \/ AddEncoder
Inputs == FirstInput /\ [][NextInput]_<<of, input>>

-----------------------------------------------------------------------------
\* The translations of a track: one that shares its times, one that does not.
Same == [n \in DOMAIN input |-> [input[n] EXCEPT !.text = TargetText]]
Late == [n \in DOMAIN input |-> IF n = 1 THEN [Same[n] EXCEPT !.end = @ + 1] ELSE Same[n]]

\* Repairing the timing of any subtitles (services/subtitle_timing.py) is
\* harmless, complete and reversible.
RepairsAreSafe ==
  of = "repair" =>
    /\ RepairIsSafe(<<input>>) /\ RepairIsSafe(<<input, Same>>)
    /\ RepairIsSafe(<<input, Late>>)

\* Any script (dubbing_service.py, _group_segments_for_dubbing and
\* _build_timeline) is spoken whole, in order and in time, or refused for a
\* reason that the user can act on.
ScriptsKeepTime ==
  of = "script" => \A total \in {700, 1310} : SpeechKeepsTime(input, total)

\* No word of a recording is lost where its chunks overlap, where a segment is
\* split or where doubled rows are dropped (chunking_service.py,
\* asr_segments.py, transcribe.py).
SpeechIsKept ==
  of = "speech" =>
    \A duration \in {310}, chunk \in {120, 400}, overlap \in {60}, limit \in {30, 100} :
      Speech!WordsAreKept(input, duration, chunk, overlap, limit)

\* Updates of the settings page: some keys, with any values.
Pages == UNION {[keys -> {"a", "bad", "mask", "empty"}] :
                keys \in {{}, {"batch"}, {"secret"}, {"path", "seconds"}, {"provider", "secret"}}}
Files == {[version |-> v, entries |-> input] : v \in 0..3}

SettingsArePreserved ==
  of = "settings" => \A file \in Files, page \in Pages : Config!SettingsSurvive(file, page)

\* Sources of a supported codec or none, in landscape and portrait, with odd
\* sizes, static and unknown rates, or not probed at all.
Probed == [probed : {TRUE}, codec : {"av1", "hevc", "mpeg4", "gif"},
           size : {<<3840, 2160>>, <<1081, 2401>>, <<640, 360>>}, rate : {0, 300, 8000}]
NotProbed == [probed |-> FALSE, codec |-> "unknown", size |-> <<1920, 1080>>, rate |-> 0]
Sources == Probed \cup {NotProbed}
Options == {Video!NoOptions} \cup [policy : {"balanced", "resolution", "codec"}]
           \cup [policy : {"custom"}, codec : {"h264", "av1"}, resolution : {"source", "r1080"}, rate : {100}]

\* A rendering (video_output.py, video_encoding.py, video_burn_service.py) is
\* what the user chose and its machine can do, and survives an encoder that
\* fails at work after it passed the probe.
RenderingsKeepStrategy ==
  of = "video" =>
    \A source \in Sources, options \in Options, broken \in SUBSET {input[n].name : n \in DOMAIN input} :
      Video!StrategyIsKept(ToSet(input), source, options, broken)
=============================================================================
