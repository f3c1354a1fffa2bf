----------------------------- MODULE VideoPlans -----------------------------
(***************************************************************************)
(* Which encoder renders a video, at which size and rate: the plans of     *)
(* services/video_output.py over the encoders of services/video_encoding.py, *)
(* and their repetition when the encoder fails at work, in burn of         *)
(* services/video_burn_service.py.                                         *)
(*                                                                         *)
(* A machine is a set of encoders: the software that ffmpeg has, and the   *)
(* hardware that passes the probe, up to a width.  A source has a codec, a *)
(* size and a rate in kb/s, 0 when unknown.  Options are a policy and, for *)
(* "custom", a codec, a resolution and a rate; NoOptions is the rendering  *)
(* that asks for none.  Sizes are rounded as the exact quotient is; the    *)
(* exponent 0.65 of a rate is any number between 0 and 1.                  *)
(***************************************************************************)
EXTENDS Naturals, Sequences, FiniteSets, SequencesExt, FiniteSetsExt

Encoders == [av1   |-> <<"av1_nvenc", "av1_qsv", "av1_amf", "libsvtav1", "libaom-av1">>,
             hevc  |-> <<"hevc_nvenc", "hevc_qsv", "hevc_amf", "libx265">>,
             h264  |-> <<"h264_nvenc", "h264_qsv", "h264_amf", "libx264">>,
             vp9   |-> <<"vp9_qsv", "libvpx-vp9">>,
             mpeg4 |-> <<"mpeg4">>]
Software == {"libsvtav1", "libaom-av1", "libx265", "libx264", "libvpx-vp9", "mpeg4"}

NoOptions == [policy |-> "none"]
LeastRate == 500

-----------------------------------------------------------------------------
(* One encoder.                                                            *)

Usable(machine, name, width) == \E e \in machine : e.name = name /\ (name \in Software \/ width <= e.limit)

Fits(machine, name, width, kind, excluded) ==
  /\ Usable(machine, name, width) /\ name \notin excluded
  /\ kind = "software" => name \in Software
  /\ kind = "hardware" => name \notin Software

\* select_encoder takes the first that fits; "kind" is what is asked for.
Fitting(machine, codec, width, kind, excluded) ==
  {n \in IF codec \in DOMAIN Encoders THEN DOMAIN Encoders[codec] ELSE {} :
     Fits(machine, Encoders[codec][n], width, kind, excluded)}
Preferred(codec, fitting) == Encoders[codec][Min(fitting)]

-----------------------------------------------------------------------------
(* Size and rate.                                                          *)

Resolutions == [source |-> 0, r1440 |-> 1440, r1080 |-> 1080]
Even(n) == Max({2, (n \div 2) * 2})

\* fit_dimensions: both sides are bounded, and never grow; a scale is a quotient.
Scale(size, resolution) ==
  LET short  == Resolutions[resolution]
      long   == (short * 16 + 4) \div 9
      scales == {<<1, 1>>, <<short, Min({size[1], size[2]})>>, <<long, Max({size[1], size[2]})>>}
  IN CHOOSE s \in scales : \A other \in scales : s[1] * other[2] <= other[1] * s[2]

Scaled(side, scale) == Even((side * scale[1]) \div scale[2])

Fit(size, resolution) ==
  LET scale == Scale(size, resolution)
  IN IF resolution = "source" \/ scale[1] = scale[2] THEN size
     ELSE <<Scaled(size[1], scale), Scaled(size[2], scale)>>

Pixels(size) == size[1] * size[2]

\* A source without a rate gets a budget for its pixels, at 30 frames a second.
SourceRate(source) ==
  IF source.rate > 0 THEN source.rate
  ELSE Max({LeastRate, Min({40000, ((Pixels(source.size) \div 1000) * 210) \div 100})})

\* A balanced plan never asks for more than the source's rate.
Capped(options, factor) == IF options.policy = "balanced" THEN Min({1000, factor}) ELSE factor

\* The rates a plan may have, for the two ends of the exponent's range; factors
\* are in thousandths.
Rates(source, options, codec, size) ==
  LET shares == {1000} \cup
                (IF size = source.size THEN {} ELSE {Pixels(size) \div (Pixels(source.size) \div 1000 + 1)})
      tenths == CASE codec = source.codec -> 10 [] codec # source.codec /\ codec = "hevc" -> 12 [] OTHER -> 16
      Rate(share) == (SourceRate(source) * Capped(options, (share * tenths) \div 10)) \div 1000
  IN IF options.policy = "custom" THEN {options.rate} ELSE {Max({LeastRate, Rate(share)}) : share \in shares}

-----------------------------------------------------------------------------
(* The plan: make_output_plan.                                             *)

\* choose: the plans of one attempt, none when it raises.
Attempt(machine, source, options, attempt, excluded) ==
  LET size    == Fit(source.size, attempt.resolution)
      fitting == Fitting(machine, attempt.codec, size[1], attempt.kind, excluded)
  IN IF fitting = {} THEN {}
     ELSE {[codec |-> attempt.codec, encoder |-> Preferred(attempt.codec, fitting), size |-> size, rate |-> rate] :
           rate \in Rates(source, options, attempt.codec, size)}

Try(codec, resolution, kind) == [codec |-> codec, resolution |-> resolution, kind |-> kind]

\* What is tried, in this order.  Balanced software favors the faster H.264.
Tries(source, options) ==
  CASE options.policy = "custom" -> <<Try(options.codec, options.resolution, "any")>>
    [] options.policy # "custom" /\ (source.codec # "av1" \/ options.policy = "codec") ->
         <<Try(source.codec, "source", "any")>>
    [] options.policy = "balanced" /\ source.codec = "av1" ->
         <<Try("av1", "source", "hardware"), Try("hevc", "r1440", "hardware"), Try("h264", "r1440", "hardware"),
           Try("h264", "r1440", "any")>>
    [] options.policy = "resolution" /\ source.codec = "av1" ->
         <<Try("av1", "source", "hardware"), Try("hevc", "source", "hardware"), Try("h264", "source", "hardware"),
           Try("hevc", "source", "any"), Try("h264", "source", "any")>>

\* The plans that may come out; none when the source is not probed, or nothing
\* can encode it.
Plans(machine, source, options, excluded) ==
  LET tries    == Tries(source, options)
      Of(n)    == Attempt(machine, source, options, tries[n], excluded)
      possible == {n \in DOMAIN tries : Of(n) # {}}
  IN IF ~source.probed \/ possible = {} THEN {} ELSE Of(Min(possible))

-----------------------------------------------------------------------------
(* The rendering: burn.  "broken" are the encoders that fail at work.      *)

\* Without options the source's codec, size and rate are kept.
Keeping(machine, source, kind) ==
  LET fitting == Fitting(machine, source.codec, source.size[1], kind, {})
  IN IF ~source.probed \/ fitting = {} THEN {}
     ELSE {[codec |-> source.codec, encoder |-> Preferred(source.codec, fitting),
            size |-> source.size, rate |-> source.rate]}

FirstPlans(machine, source, options) ==
  IF options = NoOptions THEN Keeping(machine, source, "any") ELSE Plans(machine, source, options, {})

\* Faulty variant: the plan is made again as it was.
SamePlansAgain(machine, source, options, failed) ==
  IF options = NoOptions THEN Keeping(machine, source, "software") ELSE Plans(machine, source, options, {})

\* Hardware that failed is replaced once.
NextPlans(machine, source, options, failed) ==
  IF failed.encoder \in Software THEN {}
  ELSE IF options = NoOptions THEN Keeping(machine, source, "software")
  ELSE Plans(machine, source, options, {failed.encoder})

\* What a rendering may come to: the plans that were rendered, and whether it
\* may fail.
Rendered(machine, source, options, broken) ==
  LET first == FirstPlans(machine, source, options)
      again == {NextPlans(machine, source, options, p) : p \in {q \in first : q.encoder \in broken}}
      Works(p) == p.encoder \notin broken
  IN [done   |-> {p \in first \cup UNION again : Works(p)},
      failed |-> first = {} \/ \E plans \in again : plans = {} \/ \E p \in plans : ~Works(p)]

-----------------------------------------------------------------------------
\* The codecs that the user's choice admits.  "Legacy/source-codec/custom
\* routes retain their codec; balanced routes may use alternatives."
Admitted(source, options) ==
  CASE options.policy = "custom"                                 -> {options.codec}
    [] options.policy \in {"none", "codec"}                      -> {source.codec}
    [] options.policy \in {"balanced", "resolution"}             ->
         IF source.codec = "av1" THEN {"av1", "hevc", "h264"} ELSE {source.codec}

\* The software that a plan may fall back to.  AV1 is encoded in software only
\* when it is asked for.
FallbackCodecs(source, options) ==
  CASE options.policy = "balanced" /\ source.codec = "av1"   -> {"h264"}
    [] options.policy = "resolution" /\ source.codec = "av1" -> {"hevc", "h264"}
    [] OTHER                                                 -> Admitted(source, options)

Substitutes(machine, source, options) ==
  {name \in Software : \E c \in FallbackCodecs(source, options) \cap DOMAIN Encoders :
                          name \in Range(Encoders[c]) /\ Usable(machine, name, source.size[1])}

PlanIsChosen(p, machine, source, options) ==
  LET W == source.size[1]
      H == source.size[2]
  IN /\ p.codec \in Admitted(source, options)
     /\ p.encoder \in Range(Encoders[p.codec]) /\ Usable(machine, p.encoder, p.size[1])
     /\ p.encoder \in Software => p.encoder \in Substitutes(machine, source, options)
     /\ p.size[1] <= W /\ p.size[2] <= H
     /\ p.size[1] * H <= (p.size[2] + 2) * W /\ p.size[2] * W <= (p.size[1] + 2) * H
     /\ options.policy \in {"none", "codec", "resolution"} => p.size = source.size
     /\ options.policy = "balanced" => p.rate <= Max({LeastRate, SourceRate(source)})

\* What is rendered is what the user chose, on an encoder that takes its size,
\* never larger than the source nor out of shape; a balanced one never costs
\* more than the source did.  Hardware that fails at work does not fail a
\* rendering that some software can do: with options one failure, else any.
StrategyIsKept(machine, source, options, broken) ==
  LET result == Rendered(machine, source, options, broken)
  IN /\ \A p \in result.done : PlanIsChosen(p, machine, source, options)
     /\ /\ source.probed /\ Substitutes(machine, source, options) # {}
        /\ broken \cap Software = {} /\ (options = NoOptions \/ Cardinality(broken) <= 1)
        => ~result.failed
=============================================================================
