---------------------------- MODULE DubbingProofs ----------------------------
(***************************************************************************)
(* What a dubbing leaves behind and what it says, for any number of        *)
(* utterances, texts, voices, dubbings and models.                         *)
(*                                                                         *)
(* The argument for the child processes: while nothing is asked of a       *)
(* provider, only a worker may exist (ClientKnowsChild), and a stage that  *)
(* was begun for Qwen has its lease until its adapter is closed            *)
(* (LeaseIsHeld).  For the speech: an entry of the cache is named after    *)
(* what it is, with a model that the provider has or has had               *)
(* (EntriesAreTrue), the context of a look-up is the provider's model or   *)
(* none (ContextIsModel), so what is taken from the cache is what would be *)
(* spoken now (HeardIsPresent).                                            *)
(***************************************************************************)
EXTENDS Dubbing, TLAPS

Places == {"idle", "row", "blank", "lease", "speak", "wav", "json", "write", "close",
           "release", "trim", "fit", "mux", "publish", "except", "finally"}
DubState == [pc: Places, row: 1..Utterances + 1, provider: Providers \cup {"none"},
             voice: Voices \cup {"none"}, ctx: Models, fresh: BOOLEAN, started: BOOLEAN,
             lease: BOOLEAN, fate: {"none", "cancelled", "compression", "failed"},
             todo: Left, count: 0..MaxDubs]
ChildState  == Child \cup {NoChild}
ClientState == [at: {"none", "start", "wait"}, device: {"none", "gpu", "cpu"}]
FfmpegState == {"none", "busy", "done", "failed"}
Spoken      == {"wav", "json", "write"}
AtRow       == Spoken \cup {"blank", "lease", "speak"}

\* A dubbing under way has a provider and a voice, and a row to speak.
UnderWay ==
  /\ dub.pc # "idle" => dub.provider \in Providers /\ dub.voice \in Voices
  /\ dub.pc \in AtRow => dub.row <= Utterances
  /\ dub.pc \in Spoken => heard \in Speech
  /\ dub.pc = "idle" => dub.row = 1

\* While nothing is asked of a provider, only a worker may exist.
ClientKnowsChild ==
  /\ dub.pc # "speak" => client.at = "none"
  /\ dub.pc = "speak" /\ client.at = "none" => child.kind \in {"none", "worker"}
  /\ client.at = "start" => child.kind = "worker"
  /\ child.kind = "worker" => dub.started
  /\ child.kind = "thread" => dub.provider = "kokoro"

\* Between its begin and its end, Qwen's stage has the GPU; the others have none.
LeaseIsHeld ==
  /\ dub.started /\ dub.provider = "qwen" /\ dub.pc \in {"row", "blank", "speak"} \cup Spoken => dub.lease
  /\ dub.pc \in {"speak", "wav", "json"} => dub.started
  /\ dub.pc = "lease" => ~dub.started

IInv ==
  /\ TypeOK
  /\ UnderWay
  /\ ChildIsOwned
  /\ ClientKnowsChild
  /\ LeaseIsHeld

-----------------------------------------------------------------------------
(* Types.                                                                  *)

LEMMA Constants ==
  /\ Models \subseteq Nat /\ 0 \in Models /\ 1 \in Models /\ 1 \in 1..Utterances + 1
  /\ NoTexts \in [Rows -> Texts] /\ NoDub \in DubState /\ NoChild \in ChildState
  /\ [at |-> "none", device |-> "none"] \in ClientState
  /\ 0 \in Left /\ Utterances \in Left /\ Renderings \subseteq Left
  /\ \A n \in Left : n \in Nat /\ (n > 0 => n - 1 \in Left)
  <1>1. PICK some : some \in Texts
    BY DubbingAssumption
  <1>2. (CHOOSE t \in Texts : TRUE) \in Texts
    BY <1>1
  <1>3. NoTexts \in [Rows -> Texts]
    BY <1>2 DEF NoTexts
  <1>4. Models \subseteq Nat /\ 0 \in Models /\ 1 \in Models /\ 1 \in 1..Utterances + 1
    BY DubbingAssumption DEF Models
  <1>5. /\ 0 \in Left /\ Utterances \in Left /\ Renderings \subseteq Left
        /\ \A n \in Left : n \in Nat /\ (n > 0 => n - 1 \in Left)
    BY DubbingAssumption DEF Left, Renderings
  <1>6. NoDub \in DubState
    BY <1>4, <1>5, DubbingAssumption DEF NoDub, DubState, Places
  <1>7. QED
    BY <1>3, <1>4, <1>5, <1>6 DEF ChildState, ClientState

LEMMA TypeParts ==
  TypeOK <=> /\ status \in {"none", "processing", "completed", "cancelled", "compression", "failed"}
             /\ dub \in DubState
             /\ cancel \in {"none", "clear", "set"}
             /\ texts \in [Rows -> Texts]
             /\ raw \in [Rows -> Speech \cup {Silent}] /\ heard \in Speech \cup {Silent}
             /\ cache.wav \subseteq [key: Speech, speech: Speech] /\ cache.json \subseteq cache.wav
             /\ model \in [Providers -> Models] /\ loaded \in Models
             /\ child \in ChildState
             /\ client \in ClientState /\ ffmpeg \in FfmpegState
  BY DEF TypeOK, DubState, Places, ChildState, ClientState, FfmpegState

LEMMA MoveType ==
  ASSUME dub \in DubState, NEW pc \in Places, NEW fate \in {"none", "cancelled", "compression", "failed"}
  PROVE  [dub EXCEPT !.pc = pc] \in DubState /\ [dub EXCEPT !.pc = pc, !.fate = fate] \in DubState
  BY DEF DubState

LEMMA PlacesOfThread ==
  {"row", "blank", "lease", "speak", "wav", "json", "write", "close", "release", "trim", "fit", "mux", "publish",
   "except", "finally"} \subseteq Places
  BY DEF Places

LEMMA GotoType ==
  ASSUME dub \in DubState, NEW pc \in Places, Goto(pc)
  PROVE  dub' \in DubState /\ dub' = [dub EXCEPT !.pc = pc] /\ dub'.pc = pc
  BY DEF DubState, Goto

LEMMA LeaveType ==
  ASSUME dub \in DubState, NEW fate \in {"cancelled", "compression", "failed"}, Abandon(fate) \/ Throw(fate)
  PROVE  /\ dub' \in DubState /\ dub'.pc \in {"close", "except"}
         /\ dub'.provider = dub.provider /\ dub'.voice = dub.voice
  <1>1. CASE Abandon(fate)
    <2>1. dub' = [dub EXCEPT !.pc = "close", !.fate = fate] /\ "close" \in Places
      BY <1>1, PlacesOfThread DEF Abandon
    <2>2. dub' \in DubState
      BY <2>1, MoveType
    <2>3. QED
      BY <2>1, <2>2 DEF DubState
  <1>2. CASE Throw(fate)
    <2>1. dub' = [dub EXCEPT !.pc = "except", !.fate = fate] /\ "except" \in Places
      BY <1>2, PlacesOfThread DEF Throw
    <2>2. dub' \in DubState
      BY <2>1, MoveType
    <2>3. QED
      BY <2>1, <2>2 DEF DubState
  <1>3. QED
    BY <1>1, <1>2

LEMMA SpawnType ==
  ASSUME NEW kind \in {"worker", "llama", "thread"}, NEW at \in {"loading", "idle", "busy", "gone"},
         Spawn(kind, at)
  PROVE  child' \in ChildState
  BY DEF Spawn, ChildState, Child

LEMMA PresentType ==
  ASSUME TypeOK, UnderWay, dub.pc \in AtRow, NEW ctx \in Models
  PROVE  Key(Text, ctx) \in Speech
  <1>1. dub \in DubState /\ dub.pc # "idle" /\ dub.row \in Rows /\ texts \in [Rows -> Texts]
    BY TypeParts DEF UnderWay, AtRow, Spoken, DubState, Rows
  <1>2. QED
    BY <1>1 DEF UnderWay, Key, Text, Speech

LEMMA InitIInv == Init => IInv
  <1> SUFFICES ASSUME Init PROVE IInv
    OBVIOUS
  <1>1. /\ status = "none" /\ dub = NoDub /\ cancel = "none" /\ texts = NoTexts
        /\ raw = [i \in Rows |-> Silent] /\ heard = Silent /\ cache = [wav |-> {}, json |-> {}]
        /\ model = [p \in Providers |-> IF p = "kokoro" THEN 0 ELSE 1] /\ loaded = 0
        /\ child = NoChild /\ client = [at |-> "none", device |-> "none"] /\ ffmpeg = "none"
    BY DEF Init
  <1>2. TypeOK
    BY <1>1, Constants, TypeParts DEF FfmpegState
  <1>3. UnderWay /\ ChildIsOwned /\ ClientKnowsChild /\ LeaseIsHeld
    BY <1>1 DEF UnderWay, AtRow, Spoken, ChildIsOwned, ClientKnowsChild, LeaseIsHeld, NoDub, NoChild
  <1>4. QED
    BY <1>2, <1>3 DEF IInv

LEMMA TypeKept ==
  ASSUME TypeOK, dub' \in DubState, UNCHANGED <<model, loaded, child, client>>,
         status' \in {"none", "processing", "completed", "cancelled", "compression", "failed"},
         UNCHANGED <<texts, cancel>>, raw' \in [Rows -> Speech \cup {Silent}], heard' \in Speech \cup {Silent},
         cache'.wav \subseteq [key: Speech, speech: Speech], cache'.json \subseteq cache'.wav,
         ffmpeg' \in FfmpegState
  PROVE  TypeOK'
  BY DEF TypeOK, DubState, Places, FfmpegState

\* What most steps leave alone.
CallFrame == UNCHANGED <<status, cancel, texts, raw, cache, model, loaded, ffmpeg>>

LEMMA CallType ==
  ASSUME TypeOK, CallFrame, dub' \in DubState, heard' \in Speech \cup {Silent}, child' \in ChildState,
         client' \in ClientState
  PROVE  TypeOK'
  BY DEF TypeOK, CallFrame, DubState, Places, ChildState, ClientState

LEMMA NextRowStep ==
  ASSUME IInv, NextRow
  PROVE  IInv'
  <1> USE DEF IInv
  <1>1. UNCHANGED <<status, cancel, texts, raw, cache, model, loaded, child, client>>
    BY DEF NextRow, models
  <1>2. /\ dub \in DubState /\ heard \in Speech \cup {Silent} /\ dub.pc = "row"
        /\ cache.wav \subseteq [key: Speech, speech: Speech] /\ raw \in [Rows -> Speech \cup {Silent}]
        /\ ffmpeg \in FfmpegState /\ ffmpeg = "none"
    BY TypeParts DEF NextRow, ChildIsOwned
  <1>3. ASSUME dub' \in DubState, heard' \in Speech \cup {Silent}, ffmpeg' \in FfmpegState PROVE TypeOK'
    BY <1>1, <1>2, <1>3, TypeKept, TypeParts
  <1>4. CASE /\ dub' \in {[dub EXCEPT !.pc = "close"], [dub EXCEPT !.pc = "close", !.fate = "cancelled"]}
             /\ UNCHANGED <<heard, ffmpeg>>
    <2>1. dub' \in DubState
      <3>1. [dub EXCEPT !.pc = "close"] \in DubState /\ [dub EXCEPT !.pc = "close", !.fate = "cancelled"] \in DubState
        BY <1>2, MoveType, PlacesOfThread
      <3>2. QED
        BY <1>4, <3>1
    <2>2. /\ dub'.pc = "close" /\ dub'.row = dub.row /\ dub'.provider = dub.provider /\ dub'.voice = dub.voice
          /\ dub'.started = dub.started /\ dub'.lease = dub.lease
      BY <1>2, <1>4 DEF DubState
    <2>3. UnderWay' /\ LeaseIsHeld'
      BY <1>2, <2>2 DEF UnderWay, AtRow, Spoken, LeaseIsHeld
    <2>4. ChildIsOwned' /\ ClientKnowsChild'
      BY <1>1, <1>2, <1>4, <2>2 DEF ChildIsOwned, ClientKnowsChild
    <2>5. QED
      BY <1>2, <1>3, <1>4, <2>1, <2>3, <2>4
  <1>5. CASE /\ dub.row <= Utterances /\ dub' = [dub EXCEPT !.pc = "write"]
             /\ UNCHANGED ffmpeg /\ \E e \in cache.wav : heard' = e.speech
    <2>1. dub' \in DubState /\ heard' \in Speech
      BY <1>2, <1>5 DEF DubState, Places
    <2>2. UnderWay' /\ ChildIsOwned' /\ ClientKnowsChild' /\ LeaseIsHeld'
      <3>1. UnderWay'
        BY <1>2, <1>5, <2>1 DEF DubState, UnderWay, AtRow, Spoken
      <3>2. ChildIsOwned'
        BY <1>1, <1>2, <1>5 DEF DubState, ChildIsOwned
      <3>3. QED
        BY <1>1, <1>2, <1>5, <3>1, <3>2 DEF DubState, Spoken, ClientKnowsChild, LeaseIsHeld
    <2>3. QED
      BY <1>2, <1>3, <1>5, <2>1, <2>2
  <1>6. CASE /\ dub.row <= Utterances /\ UNCHANGED <<heard, ffmpeg>>
             /\ dub' = [dub EXCEPT !.pc = IF dub.started THEN "speak" ELSE "lease"]
    <2>1. dub' \in DubState
      BY <1>2, <1>6 DEF DubState, Places
    <2>2. UnderWay'
      BY <1>2, <1>6 DEF DubState, UnderWay, AtRow, Spoken
    <2>3. ChildIsOwned'
      <3>1. ~dub.started => child = NoChild /\ ~dub.lease
        BY <1>2, TypeParts DEF ChildIsOwned, ClientKnowsChild, ChildState, Child
      <3>2. QED
        BY <1>1, <1>2, <1>6, <3>1 DEF DubState, ChildIsOwned, NoChild
    <2>4. ClientKnowsChild' /\ LeaseIsHeld'
      BY <1>1, <1>2, <1>6, TypeParts DEF DubState, Spoken, ChildIsOwned, ClientKnowsChild, LeaseIsHeld, ChildState,
         Child, NoChild
    <2>5. QED
      BY <1>2, <1>3, <1>6, <2>1, <2>2, <2>3, <2>4
  <1>7. CASE /\ dub.row <= Utterances /\ UNCHANGED heard
             /\ dub' = [dub EXCEPT !.pc = "blank"] /\ ffmpeg' \in {"busy", "failed"}
    <2>1. /\ dub' \in DubState /\ dub'.pc = "blank" /\ dub'.row = dub.row /\ dub'.provider = dub.provider
          /\ dub'.voice = dub.voice /\ dub'.started = dub.started /\ dub'.lease = dub.lease
      BY <1>2, <1>7 DEF DubState, Places
    <2>2. UnderWay' /\ LeaseIsHeld'
      BY <1>2, <1>7, <2>1 DEF UnderWay, AtRow, Spoken, LeaseIsHeld
    <2>3. ChildIsOwned' /\ ClientKnowsChild'
      BY <1>1, <1>2, <2>1 DEF ChildIsOwned, ClientKnowsChild
    <2>4. QED
      BY <1>2, <1>3, <1>7, <2>1, <2>2, <2>3 DEF FfmpegState
  <1>8. QED
    BY <1>4, <1>5, <1>6, <1>7 DEF NextRow, Goto, Abandon, Kept, Run

LEMMA WriteSilenceStep ==
  ASSUME IInv, WriteSilence
  PROVE  IInv'
  <1> USE DEF IInv
  <1>1. /\ dub \in DubState /\ dub.pc = "blank" /\ dub.row \in Rows /\ ffmpeg' = "none"
        /\ UNCHANGED <<status, cancel, texts, heard, cache, model, loaded, child, client>>
    BY TypeParts DEF WriteSilence, models, UnderWay, AtRow, Spoken, DubState, Rows
  <1>2. raw' \in [Rows -> Speech \cup {Silent}]
    BY <1>1, TypeParts DEF WriteSilence
  <1>3. /\ dub' \in DubState /\ dub'.pc \in {"row", "close"} /\ dub'.provider = dub.provider
        /\ dub'.voice = dub.voice /\ dub'.started = dub.started /\ dub'.lease = dub.lease
    <2>1. CASE dub' = [dub EXCEPT !.pc = "row", !.row = @ + 1]
      <3>1. dub.row + 1 \in 1..Utterances + 1 /\ dub' = [dub EXCEPT !.pc = "row", !.row = dub.row + 1]
        BY <1>1, <2>1, DubbingAssumption DEF Rows
      <3>2. QED
        BY <1>1, <3>1 DEF DubState, Places
    <2>2. CASE dub' = [dub EXCEPT !.pc = "close", !.fate = "failed"]
      BY <1>1, <2>2 DEF DubState, Places
    <2>3. QED
      BY <2>1, <2>2 DEF WriteSilence, Abandon
  <1>4. TypeOK'
    BY <1>1, <1>2, <1>3, TypeKept, TypeParts DEF FfmpegState
  <1>5. UnderWay' /\ LeaseIsHeld'
    BY <1>1, <1>3 DEF UnderWay, AtRow, Spoken, LeaseIsHeld
  <1>6. ChildIsOwned' /\ ClientKnowsChild'
    BY <1>1, <1>3 DEF ChildIsOwned, ClientKnowsChild
  <1>7. QED
    BY <1>4, <1>5, <1>6

LEMMA StartupStep ==
  ASSUME IInv, NEW succeeds \in BOOLEAN, Startup(succeeds)
  PROVE  IInv'
  <1> USE DEF IInv
  <1>1. dub \in DubState /\ UNCHANGED <<status, cancel, texts, raw, heard, cache, model, loaded, child, client, ffmpeg>>
    BY TypeParts DEF Startup, files, models, worker
  <1>2. dub' \in DubState
    <2>1. CASE succeeds
      <3>1. (succeeds /\ dub.provider = "qwen") \in BOOLEAN
        OBVIOUS
      <3>2. QED
        BY <1>1, <2>1, <3>1 DEF Startup, DubState, Places
    <2>2. CASE ~succeeds
      BY <1>1, <2>2 DEF Startup, DubState, Places
    <2>3. QED
      BY <2>1, <2>2
  <1>3. TypeOK'
    BY <1>1, <1>2, TypeKept, TypeParts
  <1>4. UnderWay'
    BY DEF Startup, TypeOK, UnderWay, AtRow, Spoken, files
  <1>5. ChildIsOwned' /\ ClientKnowsChild' /\ LeaseIsHeld'
    BY DEF Startup, TypeOK, ChildIsOwned, ClientKnowsChild, LeaseIsHeld, Spoken, worker, Child, NoChild
  <1>6. QED
    BY <1>3, <1>4, <1>5

LEMMA PutWavStep ==
  ASSUME IInv, NEW succeeds \in BOOLEAN, PutWav(succeeds)
  PROVE  IInv'
  <1> USE DEF IInv
  <1> DEFINE key == Key(Text, NewContext)
  <1>1. /\ dub \in DubState /\ dub.pc = "wav" /\ heard \in Speech
        /\ cache.wav \subseteq [key: Speech, speech: Speech] /\ cache.json \subseteq cache.wav
        /\ UNCHANGED <<status, cancel, texts, raw, heard, model, loaded, child, client, ffmpeg>>
    BY TypeParts DEF PutWav, models, worker, UnderWay, Spoken
  <1>2. NewContext \in Models
    BY <1>1, TypeParts DEF NewContext, DubState, UnderWay
  <1>3. key \in Speech
    BY <1>1, <1>2, PresentType DEF AtRow, Spoken
  <1>4. dub' \in DubState
    <2>1. PICK pc \in {"json", "write"} : dub' = [dub EXCEPT !.pc = pc, !.ctx = NewContext, !.fresh = FALSE]
      BY DEF PutWav
    <2>2. QED
      BY <1>1, <1>2, <2>1, PlacesOfThread DEF DubState
  <1>5. cache'.wav \subseteq [key: Speech, speech: Speech] /\ cache'.json \subseteq cache'.wav
    <2>1. CASE succeeds
      <3>1. cache' = [wav  |-> {e \in cache.wav : e.key # key} \cup {[key |-> key, speech |-> heard]},
                      json |-> {e \in cache.json : e.key # key}]
        BY <2>1 DEF PutWav
      <3> HIDE DEF key
      <3>2. QED
        BY <1>1, <1>3, <3>1
    <2>2. CASE ~succeeds
      BY <1>1, <2>2 DEF PutWav
    <2>3. QED
      BY <2>1, <2>2
  <1>6. TypeOK'
    BY <1>1, <1>4, <1>5, TypeKept, TypeParts
  <1>7. UnderWay'
    BY DEF PutWav, TypeOK, UnderWay, AtRow, Spoken
  <1>8. ChildIsOwned' /\ ClientKnowsChild' /\ LeaseIsHeld'
    BY DEF PutWav, TypeOK, ChildIsOwned, ClientKnowsChild, LeaseIsHeld, Spoken, worker
  <1>9. QED
    BY <1>6, <1>7, <1>8

LEMMA PutJsonStep ==
  ASSUME IInv, NEW succeeds \in BOOLEAN, PutJson(succeeds)
  PROVE  IInv'
  <1> USE DEF IInv
  <1>1. TypeOK'
    BY DEF PutJson, TypeOK, models, worker, Goto
  <1>2. UnderWay'
    BY DEF PutJson, TypeOK, UnderWay, AtRow, Spoken, Goto
  <1>3. ChildIsOwned' /\ ClientKnowsChild' /\ LeaseIsHeld'
    BY DEF PutJson, TypeOK, ChildIsOwned, ClientKnowsChild, LeaseIsHeld, Spoken, worker, Goto
  <1>4. QED
    BY <1>1, <1>2, <1>3

LEMMA WriteRawStep ==
  ASSUME IInv, WriteRaw
  PROVE  IInv'
  <1> USE DEF IInv
  <1>1. /\ dub \in DubState /\ dub.pc = "write" /\ dub.row \in Rows /\ heard \in Speech
        /\ UNCHANGED <<status, cancel, texts, cache, model, loaded, child, client, ffmpeg>>
    BY TypeParts DEF WriteRaw, models, worker, UnderWay, AtRow, Spoken, DubState, Rows
  <1>2. dub' \in DubState
    <2>1. dub.row + 1 \in 1..Utterances + 1 /\ dub' = [dub EXCEPT !.pc = "row", !.row = dub.row + 1]
      BY <1>1, DubbingAssumption DEF WriteRaw, Rows
    <2>2. QED
      BY <1>1, <2>1 DEF DubState, Places
  <1>3. raw' \in [Rows -> Speech \cup {Silent}] /\ heard' = Silent
    BY <1>1, TypeParts DEF WriteRaw
  <1>4. TypeOK'
    BY <1>1, <1>2, <1>3, TypeKept, TypeParts
  <1>5. UnderWay'
    BY DEF WriteRaw, TypeOK, UnderWay, AtRow, Spoken
  <1>6. ChildIsOwned' /\ ClientKnowsChild' /\ LeaseIsHeld'
    BY DEF WriteRaw, TypeOK, ChildIsOwned, ClientKnowsChild, LeaseIsHeld, Spoken, worker
  <1>7. QED
    BY <1>4, <1>5, <1>6

LEMMA CloseAdapterStep ==
  ASSUME IInv, CloseAdapter \/ Release
  PROVE  IInv'
  <1> USE DEF IInv
  <1>1. /\ dub \in DubState /\ child' \in {child, NoChild} /\ client' \in ClientState
        /\ UNCHANGED <<status, cancel, texts, raw, heard, cache, model, loaded, ffmpeg>>
    BY TypeParts, Constants DEF CloseAdapter, Release, files, models, worker, CloseWorker
  <1>2. dub' \in DubState
    <2>1. CASE CloseAdapter
      <3>1. Goto("release") /\ "release" \in Places
        BY <2>1, PlacesOfThread DEF CloseAdapter
      <3>2. QED
        BY <1>1, <3>1, GotoType
    <2>2. CASE Release
      <3>1. PICK pc \in {"trim", "except"} :
              dub' = [dub EXCEPT !.lease = FALSE, !.todo = Utterances, !.pc = pc]
        BY <2>2 DEF Release
      <3>2. Utterances \in Left
        BY Constants
      <3>3. QED
        BY <1>1, <3>1, <3>2, PlacesOfThread DEF DubState
    <2>3. QED
      BY <2>1, <2>2
  <1>3. TypeOK'
    BY <1>1, <1>2, CallType, TypeParts, Constants DEF CallFrame
  <1>4. UnderWay'
    BY <1>1 DEF CloseAdapter, Release, Goto, DubState, UnderWay, AtRow, Spoken
  <1>5. ChildIsOwned' /\ ClientKnowsChild' /\ LeaseIsHeld'
    <2>1. CASE CloseAdapter
      BY <1>1, <2>1 DEF CloseAdapter, Goto, DubState, ChildIsOwned, ClientKnowsChild, LeaseIsHeld, Spoken, NoChild,
         CloseWorker
    <2>2. CASE Release
      BY <1>1, <2>2 DEF Release, DubState, ChildIsOwned, ClientKnowsChild, LeaseIsHeld, Spoken, NoChild, worker
    <2>3. QED
      BY <2>1, <2>2
  <1>6. QED
    BY <1>3, <1>4, <1>5

\* The making of the track: no provider and no lease is left, an ffmpeg may run.
LEMMA TrackStep ==
  ASSUME IInv, OfTrack, dub.pc \in {"trim", "fit", "mux"}, dub' \in DubState,
         dub'.pc \in {"trim", "fit", "mux", "publish", "except"}, ffmpeg' \in FfmpegState,
         ffmpeg' # "none" => dub'.pc \in {"trim", "fit", "mux"},
         dub'.provider = dub.provider /\ dub'.voice = dub.voice /\ dub'.lease = dub.lease
  PROVE  IInv'
  <1> USE DEF IInv
  <1>1. /\ UNCHANGED <<status, cancel, texts, raw, heard, cache, model, loaded, child, client>>
        /\ child = NoChild /\ ~dub.lease
    BY TypeParts DEF OfTrack, files, models, ChildIsOwned, ChildState, Child, DubState
  <1>2. TypeOK'
    BY <1>1, TypeKept, TypeParts
  <1>3. UnderWay' /\ LeaseIsHeld'
    BY <1>1 DEF UnderWay, AtRow, Spoken, LeaseIsHeld
  <1>4. ChildIsOwned' /\ ClientKnowsChild'
    BY <1>1 DEF ChildIsOwned, ClientKnowsChild, NoChild
  <1>5. QED
    BY <1>2, <1>3, <1>4

LEMMA CountType ==
  ASSUME dub \in DubState, dub.todo > 0
  PROVE  /\ [dub EXCEPT !.todo = @ - 1] \in DubState
         /\ [dub EXCEPT !.todo = @ - 1].pc = dub.pc /\ [dub EXCEPT !.todo = @ - 1].provider = dub.provider
         /\ [dub EXCEPT !.todo = @ - 1].voice = dub.voice /\ [dub EXCEPT !.todo = @ - 1].lease = dub.lease
  <1>1. dub.todo - 1 \in Left
    BY Constants DEF DubState
  <1>2. [dub EXCEPT !.todo = @ - 1] = [dub EXCEPT !.todo = dub.todo - 1]
    OBVIOUS
  <1>3. QED
    BY <1>1, <1>2 DEF DubState

LEMMA ThrowType ==
  ASSUME dub \in DubState, NEW fate \in {"cancelled", "compression", "failed"}, Throw(fate)
  PROVE  /\ dub' \in DubState /\ dub'.pc = "except" /\ dub'.provider = dub.provider
         /\ dub'.voice = dub.voice /\ dub'.lease = dub.lease
  BY DEF Throw, DubState, Places

LEMMA TrimStep ==
  ASSUME IInv, Trim
  PROVE  IInv'
  <1>1. OfTrack /\ dub \in DubState /\ dub.pc = "trim"
    <2>1. OfTrack /\ dub.pc = "trim"
      BY Zenon DEF Trim
    <2>2. QED
      BY <2>1, TypeParts DEF IInv
  <1>2. CASE RunOne
    <2>1. ffmpeg' \in FfmpegState
      BY <1>2 DEF RunOne, Run, FfmpegState
    <2>2. QED
      BY <1>1, <1>2, <2>1, CountType, TrackStep DEF RunOne
  <1>3. ASSUME NEW n \in Renderings, dub' = [dub EXCEPT !.pc = "fit", !.todo = n], ffmpeg' = "none" PROVE IInv'
    <2>1. n \in Left
      BY Constants
    <2>2. /\ dub' \in DubState /\ dub'.pc = "fit" /\ dub'.provider = dub.provider
          /\ dub'.voice = dub.voice /\ dub'.lease = dub.lease
      BY <1>1, <1>3, <2>1 DEF DubState, Places
    <2>3. QED
      BY <1>1, <1>3, <2>2, TrackStep DEF FfmpegState
  <1>4. ASSUME NEW fate \in {"compression", "failed"}, Throw(fate), ffmpeg' = "none" PROVE IInv'
    BY <1>1, <1>4, ThrowType, TrackStep DEF FfmpegState
  <1>5. CASE ~RunOne
    <2>1. /\ ffmpeg' = "none"
          /\ \/ \E n \in Renderings : dub' = [dub EXCEPT !.pc = "fit", !.todo = n]
             \/ Throw("compression") \/ Throw("failed")
      BY <1>5, Zenon DEF Trim
    <2>2. CASE \E n \in Renderings : dub' = [dub EXCEPT !.pc = "fit", !.todo = n]
      BY <1>3, <2>1, <2>2
    <2>3. CASE Throw("compression") \/ Throw("failed")
      BY <1>4, <2>1, <2>3
    <2>4. QED
      BY <2>1, <2>2, <2>3
  <1>6. QED
    BY <1>2, <1>5

LEMMA BuildTimelineStep ==
  ASSUME IInv, BuildTimeline
  PROVE  IInv'
  <1>1. OfTrack /\ dub \in DubState /\ dub.pc = "fit"
    BY TypeParts DEF IInv, BuildTimeline
  <1>2. CASE RunOne
    <2>1. ffmpeg' \in FfmpegState
      BY <1>2 DEF RunOne, Run, FfmpegState
    <2>2. QED
      BY <1>1, <1>2, <2>1, CountType, TrackStep DEF RunOne
  <1>3. CASE Goto("mux") /\ Run
    <2>1. /\ dub' \in DubState /\ dub'.pc = "mux" /\ dub'.provider = dub.provider
          /\ dub'.voice = dub.voice /\ dub'.lease = dub.lease
      BY <1>1, <1>3 DEF Goto, DubState, Places
    <2>2. ffmpeg' \in FfmpegState
      BY <1>3 DEF Run, FfmpegState
    <2>3. QED
      BY <1>1, <2>1, <2>2, TrackStep
  <1>4. CASE Throw("failed") /\ ffmpeg' = "none"
    BY <1>1, <1>4, ThrowType, TrackStep DEF FfmpegState
  <1>5. QED
    BY <1>2, <1>3, <1>4 DEF BuildTimeline

LEMMA MuxStep ==
  ASSUME IInv, Mux
  PROVE  IInv'
  <1>1. OfTrack /\ dub \in DubState /\ dub.pc = "mux" /\ ffmpeg' = "none"
    BY TypeParts DEF IInv, Mux
  <1>2. CASE Goto("publish")
    <2>1. /\ dub' \in DubState /\ dub'.pc = "publish" /\ dub'.provider = dub.provider
          /\ dub'.voice = dub.voice /\ dub'.lease = dub.lease
      BY <1>1, <1>2 DEF Goto, DubState, Places
    <2>2. QED
      BY <1>1, <2>1, TrackStep DEF FfmpegState
  <1>3. ASSUME NEW fate \in {"failed", "cancelled"}, Throw(fate) PROVE IInv'
    BY <1>1, <1>3, ThrowType, TrackStep DEF FfmpegState
  <1>4. QED
    BY <1>2, <1>3 DEF Mux

LEMMA OutcomeStep ==
  ASSUME IInv, Publish \/ Except
  PROVE  IInv'
  <1> USE DEF IInv
  <1>1. /\ dub \in DubState /\ dub.pc \in {"publish", "except"} /\ dub' = [dub EXCEPT !.pc = "finally"]
        /\ UNCHANGED <<cancel, texts, raw, heard, cache, model, loaded, child, client, ffmpeg>>
    BY TypeParts DEF Publish, Except, Goto, files, models, worker
  <1>2. dub' \in DubState
    BY <1>1 DEF DubState, Places
  <1>3. TypeOK'
    <2>1. status' \in {"none", "processing", "completed", "cancelled", "compression", "failed"}
      BY TypeParts DEF Publish, Except, Outcome, DubState
    <2>2. QED
      BY <1>1, <1>2, <2>1, TypeKept, TypeParts
  <1>4. UnderWay' /\ ChildIsOwned' /\ ClientKnowsChild' /\ LeaseIsHeld'
    BY <1>1 DEF DubState, UnderWay, AtRow, Spoken, ChildIsOwned, ClientKnowsChild, LeaseIsHeld
  <1>5. QED
    BY <1>3, <1>4

LEMMA EndStep ==
  ASSUME IInv, Finally \/ Crash
  PROVE  IInv'
  <1> USE DEF IInv
  <1>1. /\ dub \in DubState /\ dub' = [NoDub EXCEPT !.count = dub.count, !.provider = dub.provider]
        /\ cancel' = "none" /\ texts' = NoTexts /\ raw' = [i \in Rows |-> Silent] /\ heard' \in {heard, Silent}
        /\ cache' = cache /\ model' = model /\ loaded' \in {loaded, 0}
    BY TypeParts DEF Finally, Crash, Ended, models
  <1>2. child' = NoChild /\ client'.at = "none" /\ client' \in ClientState /\ ffmpeg' = "none"
    BY TypeParts, Constants DEF Finally, Crash, worker, ChildIsOwned, ClientKnowsChild, ChildState, Child
  <1>3. dub' \in DubState
    BY <1>1, Constants DEF DubState, NoDub
  <1>4. TypeOK'
    <2>1. status' \in {"none", "processing", "completed", "cancelled", "compression", "failed"}
      BY DEF TypeOK, Finally, Crash
    <2>2. /\ texts' \in [Rows -> Texts] /\ raw' \in [Rows -> Speech \cup {Silent}]
          /\ heard' \in Speech \cup {Silent} /\ loaded' \in Models
      BY <1>1, Constants, TypeParts
    <2>3. QED
      BY <1>1, <1>2, <1>3, <2>1, <2>2, Constants DEF TypeOK, DubState, Places, ChildState, ClientState
  <1>5. UnderWay' /\ ChildIsOwned' /\ ClientKnowsChild' /\ LeaseIsHeld'
    BY <1>1, <1>2 DEF NoDub, UnderWay, AtRow, Spoken, ChildIsOwned, ClientKnowsChild, LeaseIsHeld, NoChild
  <1>6. QED
    BY <1>4, <1>5

LEMMA BeginStep ==
  ASSUME IInv, NEW p \in Providers, NEW v \in Voices, NEW new \in [Rows -> Texts], Begin(p, v, new)
  PROVE  IInv'
  <1> USE DEF IInv
  <1>1. /\ dub \in DubState /\ dub.pc = "idle" /\ dub.count < MaxDubs /\ child = NoChild
        /\ dub' = [NoDub EXCEPT !.pc = "row", !.provider = p, !.voice = v, !.ctx = model[p], !.count = dub.count + 1]
        /\ texts' = new /\ cancel' = "clear" /\ status' = "processing" /\ raw' = [i \in Rows |-> Silent]
        /\ heard' = Silent /\ client' = [at |-> "none", device |-> "none"]
        /\ UNCHANGED <<cache, model, loaded, child, ffmpeg>> /\ ffmpeg = "none"
    BY TypeParts DEF Begin, models, ChildIsOwned, ChildState, Child
  <1>2. dub' \in DubState
    <2>1. model[p] \in Models /\ dub.count + 1 \in 0..MaxDubs
      BY <1>1, DubbingAssumption, TypeParts DEF DubState
    <2>2. QED
      BY <1>1, <2>1, Constants DEF DubState, NoDub, Places
  <1>3. TypeOK'
    BY <1>1, <1>2, Constants DEF TypeOK, DubState, Places, ClientState
  <1>4. UnderWay' /\ ChildIsOwned' /\ ClientKnowsChild' /\ LeaseIsHeld'
    BY <1>1 DEF NoDub, UnderWay, AtRow, Spoken, ChildIsOwned, ClientKnowsChild, LeaseIsHeld, NoChild
  <1>5. QED
    BY <1>3, <1>4

-----------------------------------------------------------------------------
(* Calls of a provider.                                                    *)

LEMMA GiveUp ==
  ASSUME IInv, Calling, CallFrame, NEW fate \in {"cancelled", "failed"}, Give(fate),
         child' = NoChild \/ (child' = child /\ child.kind \in {"none", "worker"})
  PROVE  IInv'
  <1> USE DEF IInv
  <1>1. /\ dub \in DubState /\ dub.pc = "speak" /\ dub' = [dub EXCEPT !.pc = "close", !.fate = fate]
        /\ client' = [client EXCEPT !.at = "none"] /\ client \in ClientState /\ heard' = heard
        /\ child \in ChildState /\ heard \in Speech \cup {Silent} /\ ffmpeg' = ffmpeg
    BY TypeParts DEF Give, Abandon, Now, Calling, CallFrame
  <1>2. dub' \in DubState /\ client' \in ClientState /\ client'.at = "none" /\ child' \in ChildState
    <2>1. dub' \in DubState
      <3>1. Abandon(fate)
        BY DEF Give
      <3>2. QED
        BY <1>1, <3>1, LeaveType
    <2>2. client' \in ClientState /\ client'.at = "none"
      BY <1>1 DEF ClientState
    <2>3. QED
      BY <1>1, <2>1, <2>2, Constants
  <1>3. TypeOK'
    BY <1>1, <1>2, CallType
  <1>4. UnderWay' /\ ChildIsOwned' /\ ClientKnowsChild' /\ LeaseIsHeld'
    BY <1>1, <1>2 DEF DubState, UnderWay, AtRow, Spoken, ChildIsOwned, ClientKnowsChild, LeaseIsHeld, NoChild
  <1>5. QED
    BY <1>3, <1>4

LEMMA TakeStep ==
  ASSUME IInv, Calling, CallFrame, Take,
         child' = NoChild \/ (child' \in ChildState /\ child'.kind = "worker" /\ child.kind = "worker")
  PROVE  IInv'
  <1> USE DEF IInv
  <1>1. /\ dub \in DubState /\ dub.pc = "speak" /\ client' = [client EXCEPT !.at = "none"]
        /\ client \in ClientState /\ heard \in Speech \cup {Silent} /\ child' \in ChildState
        /\ ffmpeg' = ffmpeg
    BY TypeParts, Constants DEF Take, Now, Calling, CallFrame
  <1>2. client' \in ClientState /\ client'.at = "none"
    BY <1>1 DEF ClientState
  <1>3. CASE dub' = [dub EXCEPT !.pc = "close", !.fate = "cancelled"] /\ UNCHANGED heard
    <2>1. dub' \in DubState
      BY <1>1, <1>3 DEF DubState, Places
    <2>2. TypeOK'
      BY <1>1, <1>2, <1>3, <2>1, CallType
    <2>3. UnderWay' /\ ChildIsOwned' /\ ClientKnowsChild' /\ LeaseIsHeld'
      BY <1>1, <1>2, <1>3 DEF DubState, UnderWay, AtRow, Spoken, ChildIsOwned, ClientKnowsChild, LeaseIsHeld, NoChild
    <2>4. QED
      BY <2>2, <2>3
  <1>4. CASE /\ dub' = [dub EXCEPT !.pc = "wav"]
             /\ heard' = [Key(Text, 0) EXCEPT !.model = IF dub.provider = "kokoro" THEN loaded
                                                        ELSE model[dub.provider]]
    <2>1. dub' \in DubState
      BY <1>1, <1>4 DEF DubState, Places
    <2>2. heard' \in Speech
      <3>1. Key(Text, 0) \in Speech /\ dub.provider \in Providers
        BY <1>1, Constants, PresentType DEF UnderWay, AtRow
      <3>2. loaded \in Models /\ model[dub.provider] \in Models
        BY <3>1, TypeParts
      <3>3. QED
        BY <1>4, <3>1, <3>2 DEF Speech
    <2>3. TypeOK'
      BY <1>1, <1>2, <2>1, <2>2, CallType
    <2>4. UnderWay' /\ ChildIsOwned' /\ ClientKnowsChild' /\ LeaseIsHeld'
      BY <1>1, <1>2, <1>4, <2>2 DEF DubState, UnderWay, AtRow, Spoken, ChildIsOwned, ClientKnowsChild, LeaseIsHeld,
         NoChild
    <2>5. QED
      BY <2>3, <2>4
  <1>5. QED
    BY <1>3, <1>4 DEF Take, Abandon, Goto

LEMMA AskStep ==
  ASSUME IInv, Calling, CallFrame, UNCHANGED <<dub, heard>>, child' \in ChildState, client' \in ClientState,
         client'.at = "none" => child'.kind \in {"none", "worker"},
         client'.at = "start" => child'.kind = "worker",
         child'.kind = "thread" => dub.provider = "kokoro",
         child'.kind = "llama" => dub.provider = "qwen"
  PROVE  IInv'
  <1> USE DEF IInv
  <1>1. dub \in DubState /\ heard \in Speech \cup {Silent} /\ dub.pc = "speak" /\ ffmpeg' = ffmpeg
    BY TypeParts DEF Calling, CallFrame
  <1>2. TypeOK'
    BY <1>1, CallType
  <1>3. UnderWay' /\ ChildIsOwned' /\ ClientKnowsChild' /\ LeaseIsHeld'
    BY <1>1 DEF UnderWay, AtRow, Spoken, ChildIsOwned, ClientKnowsChild, LeaseIsHeld
  <1>4. QED
    BY <1>2, <1>3

LEMMA SpeakStep ==
  ASSUME IInv, Speak
  PROVE  IInv'
  <1> USE DEF IInv
  <1>1. /\ CallFrame /\ Calling /\ client \in ClientState /\ child \in ChildState /\ dub.pc = "speak"
    BY TypeParts DEF Speak, models, CallFrame, CancelBeforeCall, Asking, AskWorker, WorkerStarted, WorkerAnswers,
       CancelCall, Timeout, AskLlama, LlamaEnds, AskKokoro, KokoroEnds, Calling
  <1>2. CASE CancelBeforeCall
    BY <1>1, <1>2, GiveUp DEF CancelBeforeCall, ClientKnowsChild
  <1>3. CASE AskWorker
    <2>1. /\ child' \in ChildState /\ child'.kind = "worker" /\ UNCHANGED <<dub, heard>>
          /\ client' \in {[client EXCEPT !.at = "wait"], [client EXCEPT !.at = "start"]}
      BY <1>3 DEF AskWorker, Spawn, Now, ChildState, Child
    <2>2. client' \in ClientState
      BY <1>1, <2>1 DEF ClientState
    <2>3. QED
      BY <1>1, <2>1, <2>2, AskStep
  <1>4. CASE WorkerStarted
    <2>1. CASE Spawn("worker", "busy") /\ Now("wait") /\ UNCHANGED <<dub, heard>>
      <3>1. child' \in ChildState /\ child'.kind = "worker" /\ client' = [client EXCEPT !.at = "wait"]
        BY <2>1 DEF Spawn, Now, ChildState, Child
      <3>2. client' \in ClientState /\ client'.at = "wait"
        BY <1>1, <3>1 DEF ClientState
      <3>3. QED
        BY <1>1, <2>1, <3>1, <3>2, AskStep
    <2>2. CASE child' = NoChild /\ Give("failed")
      BY <1>1, <2>2, GiveUp
    <2>3. QED
      BY <1>4, <2>1, <2>2 DEF WorkerStarted
  <1>5. CASE WorkerAnswers
    <2>1. CASE Take /\ child' = [child EXCEPT !.says = "nothing"]
      <3>1. child' \in ChildState /\ child'.kind = "worker" /\ child.kind = "worker"
        BY <1>1, <1>5, <2>1 DEF WorkerAnswers, ChildState, Child, NoChild
      <3>2. QED
        BY <1>1, <2>1, <3>1, TakeStep
    <2>2. CASE Give("failed") /\ UNCHANGED child
      BY <1>1, <1>5, <2>2, GiveUp DEF WorkerAnswers
    <2>3. QED
      BY <1>5, <2>1, <2>2 DEF WorkerAnswers
  <1>6. CASE CancelCall \/ Timeout
    BY <1>1, <1>6, GiveUp DEF CancelCall, Timeout
  <1>7. CASE AskLlama
    <2>1. dub.provider = "qwen"
      BY <1>7 DEF AskLlama
    <2>2. ASSUME child' \in ChildState, child'.kind = "llama", Now("wait"), UNCHANGED <<dub, heard>> PROVE IInv'
      <3>1. client' \in ClientState /\ client'.at = "wait"
        BY <1>1, <2>2 DEF Now, ClientState
      <3>2. QED
        BY <1>1, <2>1, <2>2, <3>1, AskStep
    <2>3. CASE Spawn("llama", "busy") /\ Now("wait") /\ UNCHANGED <<dub, heard>>
      BY <2>2, <2>3, SpawnType DEF Spawn
    <2>4. CASE /\ child' = [kind |-> "llama", at |-> "gone", says |-> "error"]
               /\ Now("wait") /\ UNCHANGED <<dub, heard>>
      BY <2>2, <2>4 DEF ChildState, Child
    <2>5. CASE (\E d \in {"gpu", "cpu"} : client' = [at |-> "none", device |-> d]) /\ UNCHANGED <<dub, heard, child>>
      <3>1. client' \in ClientState /\ child.kind \in {"none", "worker"}
        BY <1>1, <1>7, <2>5 DEF AskLlama, Asking, ClientState, ClientKnowsChild
      <3>2. QED
        BY <1>1, <2>5, <3>1, AskStep
    <2>6. CASE Give("failed") /\ UNCHANGED child
      BY <1>1, <1>7, <2>6, GiveUp DEF AskLlama, Asking, ClientKnowsChild
    <2>7. QED
      BY <1>7, <2>3, <2>4, <2>5, <2>6 DEF AskLlama
  <1>8. CASE LlamaEnds
    <2>1. child' = NoChild
      BY <1>8 DEF LlamaEnds
    <2>2. CASE Take
      BY <1>1, <2>1, <2>2, TakeStep
    <2>3. CASE client' = [at |-> "none", device |-> "cpu"] /\ UNCHANGED <<dub, heard>>
      BY <1>1, <2>1, <2>3, Constants, AskStep DEF ClientState, NoChild
    <2>4. ASSUME NEW fate \in {"cancelled", "failed"}, Give(fate) PROVE IInv'
      BY <1>1, <2>1, <2>4, GiveUp
    <2>5. QED
      BY <1>8, <2>2, <2>3, <2>4 DEF LlamaEnds
  <1>9. CASE AskKokoro
    <2>1. child' \in ChildState /\ child'.kind = "thread" /\ dub.provider = "kokoro" /\ UNCHANGED <<dub, heard>>
      BY <1>9 DEF AskKokoro, Spawn, ChildState, Child
    <2>2. client' \in ClientState /\ client'.at = "wait"
      BY <1>1, <1>9 DEF AskKokoro, Now, ClientState
    <2>3. QED
      BY <1>1, <2>1, <2>2, AskStep
  <1>10. CASE KokoroEnds
    BY <1>1, <1>10, GiveUp, TakeStep DEF KokoroEnds
  <1>11. QED
    BY <1>2, <1>3, <1>4, <1>5, <1>6, <1>7, <1>8, <1>9, <1>10 DEF Speak

-----------------------------------------------------------------------------
(* The processes and the user.                                             *)

LEMMA ChildStep ==
  ASSUME IInv, WorkerLoads \/ ChildFinishes \/ ChildFails \/ ChildDies
  PROVE  IInv'
  <1> USE DEF IInv
  <1>1. UNCHANGED <<status, dub, cancel, texts, raw, heard, cache, model, loaded, client, ffmpeg>>
    BY DEF WorkerLoads, ChildFinishes, ChildFails, ChildDies, OfChild, files, models
  <1>2. child' \in Child /\ child'.kind = child.kind /\ child # NoChild
    <2>1. child \in ChildState /\ child # NoChild
      BY TypeParts DEF WorkerLoads, ChildFinishes, ChildFails, ChildDies, NoChild
    <2>2. child \in Child
      BY <2>1 DEF ChildState
    <2>3. \/ child' = [child EXCEPT !.at = "idle", !.says = "ready"]
          \/ child' = [child EXCEPT !.says = "done", !.at = "idle"]
          \/ child' = [child EXCEPT !.says = "done", !.at = "gone"]
          \/ child' = [child EXCEPT !.says = "error", !.at = "gone"]
          \/ child' = [child EXCEPT !.at = "gone"]
      <3>1. CASE ChildFinishes /\ child.kind = "worker"
        BY <3>1 DEF ChildFinishes
      <3>2. CASE ChildFinishes /\ child.kind # "worker"
        BY <3>2 DEF ChildFinishes
      <3>3. QED
        BY <3>1, <3>2 DEF WorkerLoads, ChildFails, ChildDies
    <2>4. child' \in Child /\ child'.kind = child.kind
      BY <2>2, <2>3 DEF Child
    <2>5. QED
      BY <2>1, <2>4
  <1>3. TypeOK'
    BY <1>1, <1>2 DEF TypeOK, DubState, Places
  <1>4. UnderWay' /\ ChildIsOwned' /\ ClientKnowsChild' /\ LeaseIsHeld'
    BY <1>1, <1>2 DEF UnderWay, AtRow, Spoken, ChildIsOwned, ClientKnowsChild, LeaseIsHeld
  <1>5. QED
    BY <1>3, <1>4

LEMMA KokoroStep ==
  ASSUME IInv, KokoroReturns
  PROVE  IInv'
  <1> USE DEF IInv
  <1>1. UNCHANGED <<status, dub, cancel, texts, raw, heard, cache, client, ffmpeg>>
    BY DEF KokoroReturns, OfChild, files
  <1>2. child' \in Child /\ child'.kind = child.kind /\ child # NoChild /\ child.kind = "thread"
    <2>1. child \in ChildState /\ child # NoChild /\ child.kind = "thread"
      BY TypeParts DEF KokoroReturns, NoChild
    <2>2. child \in Child
      BY <2>1 DEF ChildState
    <2>3. \E says \in {"done", "error"} : child' = [child EXCEPT !.at = "gone", !.says = says]
      BY DEF KokoroReturns
    <2>4. child' \in Child /\ child'.kind = child.kind
      BY <2>2, <2>3 DEF Child
    <2>5. QED
      BY <2>1, <2>4
  <1>3. model' \in [Providers -> Models] /\ loaded' \in Models
    <2>1. "kokoro" \in Providers
      BY <1>2 DEF ChildIsOwned, ClientKnowsChild, UnderWay
    <2>2. CASE UNCHANGED models
      BY <2>2, TypeParts DEF models
    <2>3. CASE model' = [model EXCEPT !["kokoro"] = IF @ = 0 THEN 1 ELSE @] /\ loaded' = model'["kokoro"]
      BY <2>1, <2>3, TypeParts, Constants
    <2>4. QED
      BY <2>2, <2>3 DEF KokoroReturns
  <1>4. TypeOK'
    BY <1>1, <1>2, <1>3 DEF TypeOK, DubState, Places
  <1>5. UnderWay' /\ ChildIsOwned' /\ ClientKnowsChild' /\ LeaseIsHeld'
    BY <1>1, <1>2 DEF UnderWay, AtRow, Spoken, ChildIsOwned, ClientKnowsChild, LeaseIsHeld
  <1>6. QED
    BY <1>4, <1>5

LEMMA FfmpegStep ==
  ASSUME IInv, FfmpegEnds
  PROVE  IInv'
  <1> USE DEF IInv
  <1>1. /\ UNCHANGED <<status, dub, cancel, texts, raw, heard, cache, model, loaded, child, client>>
        /\ ffmpeg # "none" /\ ffmpeg' \in FfmpegState
    BY DEF FfmpegEnds, files, models, FfmpegState
  <1>2. TypeOK'
    BY <1>1, TypeKept, TypeParts
  <1>3. UnderWay' /\ ChildIsOwned' /\ ClientKnowsChild' /\ LeaseIsHeld'
    BY <1>1 DEF UnderWay, AtRow, Spoken, ChildIsOwned, ClientKnowsChild, LeaseIsHeld
  <1>4. QED
    BY <1>2, <1>3

LEMMA OutsideStep ==
  ASSUME IInv, RequestCancel \/ (\E p \in Providers : ReplaceModel(p)) \/ UNCHANGED vars
  PROVE  IInv'
  <1> USE DEF IInv
  <1>1. /\ UNCHANGED <<status, dub, texts, raw, heard, cache, loaded, child, client, ffmpeg>>
        /\ cancel' \in {cancel, "set"}
    BY DEF RequestCancel, ReplaceModel, files, models, worker, vars
  <1>2. model' \in [Providers -> Models]
    <2>1. ASSUME NEW p \in Providers, ReplaceModel(p) PROVE model' \in [Providers -> Models]
      <3>1. model[p] + 1 \in Models
        BY <2>1, DubbingAssumption DEF ReplaceModel, Models
      <3>2. QED
        BY <2>1, <3>1, TypeParts DEF ReplaceModel
    <2>2. QED
      BY <2>1, TypeParts DEF RequestCancel, vars, models
  <1>3. TypeOK'
    BY <1>1, <1>2 DEF TypeOK, DubState, Places
  <1>4. UnderWay' /\ ChildIsOwned' /\ ClientKnowsChild' /\ LeaseIsHeld'
    BY <1>1 DEF UnderWay, AtRow, Spoken, ChildIsOwned, ClientKnowsChild, LeaseIsHeld
  <1>5. QED
    BY <1>3, <1>4

LEMMA InvariantStep == IInv /\ [Next]_vars => IInv'
  BY NextRowStep, StartupStep, PutWavStep, PutJsonStep, WriteRawStep, CloseAdapterStep, WriteSilenceStep,
     TrimStep, BuildTimelineStep, MuxStep, OutcomeStep, EndStep, BeginStep, SpeakStep, ChildStep, FfmpegStep,
     KokoroStep, OutsideStep DEF Next, DubThread

\* Who owns what during a dubbing, in every reachable state.
THEOREM Invariant == Spec => []IInv
  <1>1. Init => IInv
    BY InitIInv
  <1>2. IInv /\ [Next]_vars => IInv'
    BY InvariantStep
  <1>3. QED
    BY <1>1, <1>2, PTL DEF Spec

\* Every variable keeps its type (dubbing_service.py, speech_cache.py, the
\* providers and workers).
THEOREM TypeCorrect == Spec => []TypeOK
  BY Invariant, PTL DEF IInv

\* No child process and no lease is left behind by a failure, a timeout or a
\* cancellation (dubbing_service.py:1173, qwen.py, cosyvoice.py).
THEOREM ChildIsOwnedHolds == Spec => []ChildIsOwned
  BY Invariant, PTL DEF IInv

-----------------------------------------------------------------------------
(* What is said, when Kokoro's model stays what it is (README, section 4). *)

Present == [provider |-> dub.provider, text |-> Text, voice |-> dub.voice, model |-> model[dub.provider]]

\* The instance of Kokoro is of the model on the disk, and it alone speaks for it.
LoadedIsModel ==
  /\ "kokoro" \in Providers /\ loaded # 0 => loaded = model["kokoro"]
  /\ child.kind = "thread" /\ child.says = "done" => loaded # 0
  /\ child.kind \in {"worker", "llama"} => dub.provider # "kokoro"

\* An entry is named after what it is, by a model that the provider has had.
EntriesAreTrue ==
  \A e \in cache.wav : e.key = e.speech /\ 1 <= e.speech.model /\ e.speech.model <= model[e.speech.provider]

\* Look-ups go by the model, or by none before the first download.
ContextIsModel ==
  dub.pc # "idle" =>
    /\ dub.pc \in {"row", "blank", "lease", "json", "write"} => dub.ctx = model[dub.provider]
    /\ ~dub.fresh => dub.ctx = model[dub.provider] /\ model[dub.provider] # 0
    /\ dub.provider # "kokoro" => model[dub.provider] # 0

HeardIsPresent == dub.pc \in Spoken => heard = Present /\ model[dub.provider] # 0

ModelHasSpoken == \A i \in Rows : i < dub.row /\ texts[i] \notin Blank => model[dub.provider] # 0

\* The text of a row is looked at once.
BlankIsText ==
  /\ dub.pc \in {"lease", "speak"} \cup Spoken => Text \notin Blank
  /\ dub.pc = "blank" => Text \in Blank

\* NothingTwice, from the look-up on.
NotKept ==
  dub.pc \in {"lease", "speak"} => \A e \in cache.wav \cap cache.json : e.speech # Present

SInv ==
  /\ LoadedIsModel
  /\ EntriesAreTrue
  /\ ContextIsModel
  /\ HeardIsPresent
  /\ ModelHasSpoken
  /\ NotKept
  /\ BlankIsText
  /\ SpeechIsOfText

LEMMA InitSInv == Init => SInv
  <1> SUFFICES ASSUME Init PROVE SInv
    OBVIOUS
  <1>1. dub = NoDub /\ cache = [wav |-> {}, json |-> {}] /\ child = NoChild /\ loaded = 0
    BY DEF Init
  <1>2. /\ LoadedIsModel /\ EntriesAreTrue /\ ContextIsModel /\ HeardIsPresent /\ ModelHasSpoken /\ NotKept
        /\ BlankIsText
    <2>1. dub.pc = "idle" /\ \A i \in Rows : ~(i < dub.row)
      BY <1>1, DubbingAssumption DEF NoDub, Rows
    <2>2. QED
      BY <1>1, <2>1 DEF LoadedIsModel, EntriesAreTrue, ContextIsModel, HeardIsPresent, ModelHasSpoken, NotKept,
         BlankIsText, NoChild, Spoken
  <1>3. SpeechIsOfText
    BY <1>1, DubbingAssumption DEF SpeechIsOfText, NoDub, Rows
  <1>4. QED
    BY <1>2, <1>3 DEF SInv

\* Who speaks is known as before, or new.
SameSpeaker ==
  \/ child' = NoChild
  \/ child'.kind = child.kind /\ (child.kind = "thread" => child'.says = child.says)
  \/ child'.kind \in {"worker", "llama"} /\ dub.provider # "kokoro"
  \/ child'.kind = "thread" /\ child'.says = "nothing"

\* A step that changes neither the models nor the texts nor what was said.
LEMMA FrameStep ==
  ASSUME IInv, SInv, UNCHANGED <<texts, raw, model, loaded>>, SameSpeaker, dub.pc # "idle", dub'.pc # "idle",
         cache'.wav = cache.wav,
         dub'.row = dub.row, dub'.provider = dub.provider, dub'.voice = dub.voice, dub'.ctx = dub.ctx,
         dub'.fresh = dub.fresh,
         dub'.pc \in {"row", "blank", "lease", "json", "write"} => dub.ctx = model[dub.provider],
         dub'.pc \in Spoken => heard' = Present /\ model[dub.provider] # 0,
         dub'.pc \in {"lease", "speak"} => \A e \in cache'.wav \cap cache'.json : e.speech # Present,
         dub'.pc \in {"lease", "speak"} \cup Spoken => Text \notin Blank,
         dub'.pc = "blank" => Text \in Blank
  PROVE  SInv'
  <1>1. Present' = Present
    BY DEF Present, Text
  <1>2. LoadedIsModel'
    BY DEF SInv, LoadedIsModel, SameSpeaker, NoChild
  <1>3. EntriesAreTrue' /\ ContextIsModel' /\ ModelHasSpoken'
    BY DEF SInv, EntriesAreTrue, ContextIsModel, ModelHasSpoken
  <1>4. HeardIsPresent' /\ NotKept'
    BY <1>1 DEF HeardIsPresent, NotKept
  <1>5. BlankIsText'
    BY DEF BlankIsText, Text
  <1>6. SpeechIsOfText'
    BY DEF SInv, SpeechIsOfText
  <1>7. QED
    BY <1>2, <1>3, <1>4, <1>5, <1>6 DEF SInv

LEMMA RowSpeech ==
  ASSUME IInv, SInv, NextRow
  PROVE  SInv'
  <1>1. /\ UNCHANGED <<texts, raw, cache, model, loaded, child>> /\ dub \in DubState /\ dub.pc = "row"
    BY TypeParts DEF NextRow, IInv, models
  <1>2. SameSpeaker
    BY <1>1 DEF SameSpeaker
  <1>3. dub.ctx = model[dub.provider]
    BY <1>1 DEF SInv, ContextIsModel
  <1>4. Key(Text, dub.ctx) = Present
    BY <1>3 DEF Key, Present
  <1>5. CASE dub' \in {[dub EXCEPT !.pc = "close"], [dub EXCEPT !.pc = "close", !.fate = "cancelled"]}
    <2>1. /\ dub'.pc = "close" /\ dub'.row = dub.row /\ dub'.provider = dub.provider /\ dub'.voice = dub.voice
          /\ dub'.ctx = dub.ctx /\ dub'.fresh = dub.fresh
      BY <1>1, <1>5 DEF DubState
    <2>2. QED
      BY <1>1, <1>2, <2>1, FrameStep DEF Spoken
  <1>6. CASE Text \notin Blank /\ dub' = [dub EXCEPT !.pc = "write"] /\ \E e \in Kept(Key(Text, dub.ctx)) : heard' = e.speech
    <2>1. /\ dub'.pc = "write" /\ dub'.row = dub.row /\ dub'.provider = dub.provider /\ dub'.voice = dub.voice
          /\ dub'.ctx = dub.ctx /\ dub'.fresh = dub.fresh
      BY <1>1, <1>6 DEF DubState
    <2>2. PICK e \in cache.wav : e.key = Present /\ heard' = e.speech
      BY <1>4, <1>6 DEF Kept
    <2>3. heard' = Present /\ 1 <= heard'.model
      BY <2>2 DEF SInv, EntriesAreTrue
    <2>4. model[dub.provider] # 0
      BY <2>3 DEF Present
    <2>5. QED
      BY <1>1, <1>2, <1>3, <1>6, <2>1, <2>3, <2>4, FrameStep
  <1>7. CASE /\ Text \notin Blank /\ Kept(Key(Text, dub.ctx)) = {}
             /\ dub' = [dub EXCEPT !.pc = IF dub.started THEN "speak" ELSE "lease"]
    <2>1. /\ dub'.pc \in {"speak", "lease"} /\ dub'.row = dub.row /\ dub'.provider = dub.provider
          /\ dub'.voice = dub.voice /\ dub'.ctx = dub.ctx /\ dub'.fresh = dub.fresh
      BY <1>1, <1>7 DEF DubState
    <2>2. ASSUME NEW e \in cache.wav \cap cache.json PROVE e.speech # Present
      BY <1>4, <1>7 DEF Kept, SInv, EntriesAreTrue
    <2>3. QED
      BY <1>1, <1>2, <1>3, <1>7, <2>1, <2>2, FrameStep DEF Spoken
  <1>8. CASE Text \in Blank /\ dub' = [dub EXCEPT !.pc = "blank"]
    <2>1. /\ dub'.pc = "blank" /\ dub'.row = dub.row /\ dub'.provider = dub.provider /\ dub'.voice = dub.voice
          /\ dub'.ctx = dub.ctx /\ dub'.fresh = dub.fresh
      BY <1>1, <1>8 DEF DubState
    <2>2. QED
      BY <1>1, <1>2, <1>3, <1>8, <2>1, FrameStep DEF Spoken
  <1>9. QED
    BY <1>5, <1>6, <1>7, <1>8 DEF NextRow, Goto, Abandon

LEMMA PutSpeech ==
  ASSUME IInv, SInv, NEW succeeds \in BOOLEAN, PutWav(succeeds)
  PROVE  SInv'
  <1> DEFINE key == Key(Text, NewContext)
  <1>1. /\ UNCHANGED <<texts, raw, heard, model, loaded, child>> /\ dub \in DubState /\ dub.pc = "wav"
        /\ heard = Present /\ model[dub.provider] # 0 /\ dub.provider \in Providers
        /\ dub' = [dub EXCEPT !.pc = IF succeeds THEN "json" ELSE "write", !.ctx = NewContext, !.fresh = FALSE]
    BY TypeParts DEF PutWav, IInv, models, worker, UnderWay, SInv, HeardIsPresent, Spoken
  <1>2. NewContext = model[dub.provider]
    BY <1>1 DEF NewContext, SInv, ContextIsModel
  <1>3. key = Present
    BY <1>2 DEF Key, Present
  <1>4. /\ dub'.pc \in {"json", "write"} /\ dub'.row = dub.row /\ dub'.provider = dub.provider
        /\ dub'.voice = dub.voice /\ dub'.ctx = model[dub.provider] /\ dub'.fresh = FALSE
    BY <1>1, <1>2 DEF DubState
  <1>5. Present' = Present
    BY <1>1, <1>4 DEF Present, Text
  <1>6. EntriesAreTrue'
    <2>1. cache'.wav \subseteq cache.wav \cup {[key |-> Present, speech |-> Present]}
      BY <1>1, <1>3 DEF PutWav
    <2>2. 1 <= Present.model /\ Present.model <= model[Present.provider]
      <3>1. model[dub.provider] \in Nat
        BY <1>1, TypeParts, Constants DEF IInv
      <3>2. QED
        BY <1>1, <3>1 DEF Present
    <2>3. QED
      BY <1>1, <2>1, <2>2 DEF SInv, EntriesAreTrue
  <1>7. LoadedIsModel' /\ ContextIsModel' /\ HeardIsPresent' /\ ModelHasSpoken' /\ NotKept'
    BY <1>1, <1>4, <1>5 DEF SInv, LoadedIsModel, ContextIsModel, HeardIsPresent, ModelHasSpoken, NotKept
  <1>8. SpeechIsOfText' /\ BlankIsText'
    BY <1>1, <1>4 DEF SInv, SpeechIsOfText, BlankIsText, Spoken, Text
  <1>9. QED
    BY <1>6, <1>7, <1>8 DEF SInv

\* A row is done: with its speech, or blank.
LEMMA RawSpeech ==
  ASSUME IInv, SInv, WriteRaw \/ (WriteSilence /\ ffmpeg = "done")
  PROVE  SInv'
  <1> DEFINE said == IF WriteRaw THEN heard ELSE Silent
  <1>1. /\ UNCHANGED <<texts, cache, model, loaded, child>> /\ dub \in DubState
        /\ dub.pc \in {"blank", "write"} /\ dub.row \in Nat /\ dub.row <= Utterances
        /\ raw' = [raw EXCEPT ![dub.row] = said] /\ raw \in [Rows -> Speech \cup {Silent}]
        /\ dub' = [dub EXCEPT !.pc = "row", !.row = @ + 1]
    BY TypeParts DEF WriteRaw, WriteSilence, Abandon, IInv, models, worker, UnderWay, AtRow, Spoken, DubState
  <1>2. /\ dub'.pc = "row" /\ dub'.row = dub.row + 1 /\ dub'.provider = dub.provider
        /\ dub'.voice = dub.voice /\ dub'.ctx = dub.ctx /\ dub'.fresh = dub.fresh
    BY <1>1 DEF DubState
  <1>3. /\ said = IF Text \in Blank THEN Silent ELSE Present
        /\ Text \notin Blank => model[dub.provider] # 0
    <2>1. Text \in Blank <=> dub.pc = "blank"
      BY <1>1 DEF SInv, BlankIsText, Spoken
    <2>2. dub.pc = "write" => WriteRaw /\ heard = Present /\ model[dub.provider] # 0
      BY DEF WriteRaw, WriteSilence, SInv, HeardIsPresent, Spoken
    <2>3. dub.pc = "blank" => ~WriteRaw
      BY DEF WriteRaw
    <2>4. QED
      BY <1>1, <2>1, <2>2, <2>3
  <1> HIDE DEF said
  <1>4. LoadedIsModel' /\ EntriesAreTrue' /\ ContextIsModel' /\ HeardIsPresent' /\ NotKept' /\ BlankIsText'
    BY <1>1, <1>2 DEF SInv, LoadedIsModel, EntriesAreTrue, ContextIsModel, HeardIsPresent, NotKept, BlankIsText,
       Spoken
  <1>5. ASSUME NEW i \in Rows, i < dub.row + 1, i # dub.row PROVE i < dub.row
    BY <1>1, <1>5, DubbingAssumption DEF Rows
  <1>6. ModelHasSpoken'
    BY <1>1, <1>2, <1>3, <1>5 DEF SInv, ModelHasSpoken, Text
  <1>7. SpeechIsOfText'
    <2>1. ASSUME NEW i \in Rows, i < dub.row + 1
          PROVE  raw'[i] = IF texts[i] \in Blank THEN Silent
                           ELSE [provider |-> dub.provider, text |-> texts[i], voice |-> dub.voice,
                                 model |-> model[dub.provider]]
      <3>1. CASE i = dub.row
        BY <1>1, <1>3, <3>1 DEF Present, Text
      <3>2. CASE i # dub.row
        BY <1>1, <1>5, <2>1, <3>2 DEF SInv, SpeechIsOfText
      <3>3. QED
        BY <3>1, <3>2
    <2>2. QED
      BY <1>1, <1>2, <2>1 DEF SpeechIsOfText
  <1>8. QED
    BY <1>4, <1>6, <1>7 DEF SInv

\* The rest of the thread, outside the calls.
LEMMA ThreadSpeech ==
  ASSUME IInv, SInv,
         \/ \E b \in BOOLEAN : Startup(b) \/ PutJson(b)
         \/ CloseAdapter \/ Release \/ Publish \/ Except
  PROVE  SInv'
  <1>1. /\ UNCHANGED <<texts, raw, heard, model, loaded>> /\ dub \in DubState /\ cache'.wav = cache.wav
    <2>1. dub \in DubState
      BY TypeParts DEF IInv
    <2>2. CASE \E b \in BOOLEAN : PutJson(b)
      BY <2>1, <2>2 DEF PutJson, models
    <2>3. CASE ~ \E b \in BOOLEAN : PutJson(b)
      BY <2>1, <2>3 DEF Startup, CloseAdapter, Release, Publish, Except, files, models
    <2>4. QED
      BY <2>2, <2>3
  <1>2. SameSpeaker
    BY DEF SameSpeaker, Startup, PutJson, CloseAdapter, Release, Publish, Except, worker, CloseWorker
  <1>3. /\ dub.pc # "idle" /\ dub'.row = dub.row /\ dub'.provider = dub.provider
        /\ dub'.voice = dub.voice /\ dub'.ctx = dub.ctx /\ dub'.fresh = dub.fresh
    <2>1. CASE \E b \in BOOLEAN : Startup(b) \/ PutJson(b)
      BY <1>1, <2>1 DEF DubState, Startup, PutJson, Goto
    <2>2. CASE CloseAdapter \/ Release \/ Publish \/ Except
      BY <1>1, <2>2 DEF DubState, CloseAdapter, Release, Publish, Except, Goto
    <2>3. QED
      BY <2>1, <2>2
  <1>4. CASE \E b \in BOOLEAN : Startup(b)
    <2>1. dub.pc = "lease" /\ dub'.pc \in {"speak", "close"} /\ UNCHANGED cache
      BY <1>1, <1>4 DEF Startup, DubState, files
    <2>2. QED
      BY <1>1, <1>2, <1>3, <2>1, FrameStep DEF SInv, NotKept, BlankIsText, Spoken
  <1>5. CASE \E b \in BOOLEAN : PutJson(b)
    <2>1. dub.pc = "json" /\ dub'.pc = "write"
      BY <1>1, <1>5 DEF PutJson, Goto, DubState
    <2>2. QED
      BY <1>1, <1>2, <1>3, <2>1, FrameStep DEF SInv, HeardIsPresent, ContextIsModel, BlankIsText, Spoken
  <1>6. CASE CloseAdapter \/ Release \/ Publish \/ Except
    <2>1. dub'.pc \notin {"idle", "row", "blank", "lease", "speak"} \cup Spoken
      BY <1>1, <1>6 DEF CloseAdapter, Release, Publish, Except, Goto, DubState, Spoken
    <2>2. QED
      BY <1>1, <1>2, <1>3, <2>1, FrameStep DEF Spoken
  <1>7. QED
    BY <1>4, <1>5, <1>6

\* The making of the track, and a silence that could not be written, end or
\* leave the speaking.
LEMMA TrackSpeech ==
  ASSUME IInv, SInv, Trim \/ BuildTimeline \/ Mux \/ (WriteSilence /\ ffmpeg # "done")
  PROVE  SInv'
  <1>1. /\ UNCHANGED <<texts, raw, heard, cache, model, loaded, child>> /\ dub \in DubState
        /\ dub.pc \in {"trim", "fit", "mux", "blank"}
    <2>1. dub \in DubState
      BY TypeParts DEF IInv
    <2>2. CASE OfTrack /\ dub.pc \in {"trim", "fit", "mux"}
      BY <2>1, <2>2 DEF OfTrack, files, models
    <2>3. CASE WriteSilence /\ ffmpeg # "done"
      BY <2>1, <2>3 DEF WriteSilence, models
    <2>4. (Trim \/ BuildTimeline \/ Mux) => OfTrack /\ dub.pc \in {"trim", "fit", "mux"}
      BY Zenon DEF Trim, BuildTimeline, Mux
    <2>5. QED
      BY <2>2, <2>3, <2>4
  <1>2. SameSpeaker
    BY <1>1 DEF SameSpeaker
  <1>3. ASSUME dub'.row = dub.row, dub'.provider = dub.provider, dub'.voice = dub.voice, dub'.ctx = dub.ctx,
               dub'.fresh = dub.fresh, dub'.pc \in {"trim", "fit", "mux", "publish", "except", "close"}
        PROVE  SInv'
    BY <1>1, <1>2, <1>3, FrameStep DEF Spoken
  <1>4. CASE dub' = [dub EXCEPT !.todo = @ - 1] /\ dub.pc \in {"trim", "fit"}
    BY <1>1, <1>3, <1>4 DEF DubState
  <1>5. ASSUME NEW n, dub' = [dub EXCEPT !.pc = "fit", !.todo = n] PROVE SInv'
    BY <1>1, <1>3, <1>5 DEF DubState
  <1>6. CASE Goto("mux") \/ Goto("publish")
    BY <1>1, <1>3, <1>6 DEF Goto, DubState
  <1>7. ASSUME NEW fate, Throw(fate) \/ Abandon(fate) PROVE SInv'
    BY <1>1, <1>3, <1>7 DEF Throw, Abandon, DubState
  <1>8. CASE Trim
    <2>1. \/ RunOne /\ dub.pc = "trim"
          \/ \E n \in Renderings : dub' = [dub EXCEPT !.pc = "fit", !.todo = n]
          \/ Throw("compression") \/ Throw("failed")
      BY <1>8, Zenon DEF Trim
    <2>2. QED
      BY <1>4, <1>5, <1>7, <2>1 DEF RunOne
  <1>9. CASE BuildTimeline
    BY <1>4, <1>6, <1>7, <1>9 DEF BuildTimeline, RunOne
  <1>10. CASE Mux
    BY <1>6, <1>7, <1>10 DEF Mux
  <1>11. CASE WriteSilence /\ ffmpeg # "done"
    BY <1>7, <1>11 DEF WriteSilence
  <1>12. QED
    BY <1>8, <1>9, <1>10, <1>11

LEMMA GiveSpeech ==
  ASSUME IInv, SInv, Calling, CallFrame, SameSpeaker, NEW fate, Give(fate)
  PROVE  SInv'
  <1>1. /\ UNCHANGED <<texts, raw, heard, cache, model, loaded>> /\ dub \in DubState /\ dub.pc = "speak"
        /\ dub' = [dub EXCEPT !.pc = "close", !.fate = fate]
    BY TypeParts DEF IInv, CallFrame, Give, Abandon, Calling
  <1>2. /\ dub'.pc = "close" /\ dub'.row = dub.row /\ dub'.provider = dub.provider
        /\ dub'.voice = dub.voice /\ dub'.ctx = dub.ctx /\ dub'.fresh = dub.fresh
    BY <1>1 DEF DubState
  <1>3. QED
    BY <1>1, <1>2, FrameStep DEF Spoken

\* What a provider speaks is the present text with the present model.
LEMMA TakeSpeech ==
  ASSUME IInv, SInv, Calling, CallFrame, SameSpeaker, Take,
         dub.provider = "kokoro" => loaded # 0
  PROVE  SInv'
  <1>1. /\ UNCHANGED <<texts, raw, cache, model, loaded>> /\ dub \in DubState /\ dub.pc = "speak"
        /\ dub.provider \in Providers
    BY TypeParts DEF IInv, CallFrame, Calling, UnderWay
  <1>2. model[dub.provider] # 0 /\ (dub.provider = "kokoro" => loaded = model[dub.provider])
    BY <1>1 DEF SInv, LoadedIsModel, ContextIsModel
  <1>3. CASE dub' = [dub EXCEPT !.pc = "close", !.fate = "cancelled"]
    <2>1. /\ dub'.pc = "close" /\ dub'.row = dub.row /\ dub'.provider = dub.provider
          /\ dub'.voice = dub.voice /\ dub'.ctx = dub.ctx /\ dub'.fresh = dub.fresh
      BY <1>1, <1>3 DEF DubState
    <2>2. QED
      BY <1>1, <2>1, FrameStep DEF Spoken
  <1>4. CASE /\ dub' = [dub EXCEPT !.pc = "wav"]
             /\ heard' = [Key(Text, 0) EXCEPT !.model = IF dub.provider = "kokoro" THEN loaded
                                                        ELSE model[dub.provider]]
    <2>1. /\ dub'.pc = "wav" /\ dub'.row = dub.row /\ dub'.provider = dub.provider
          /\ dub'.voice = dub.voice /\ dub'.ctx = dub.ctx /\ dub'.fresh = dub.fresh
      BY <1>1, <1>4 DEF DubState
    <2>2. heard' = Present
      BY <1>2, <1>4 DEF Key, Present
    <2>3. QED
      BY <1>1, <1>2, <2>1, <2>2, FrameStep DEF SInv, BlankIsText
  <1>5. QED
    BY <1>3, <1>4 DEF Take, Abandon, Goto

LEMMA AskSpeech ==
  ASSUME IInv, SInv, Calling, CallFrame, SameSpeaker, UNCHANGED <<dub, heard>>
  PROVE  SInv'
  <1>1. UNCHANGED <<texts, raw, cache, model, loaded>> /\ dub.pc = "speak"
    BY DEF CallFrame, Calling
  <1>2. QED
    BY <1>1, FrameStep DEF SInv, NotKept, BlankIsText, Spoken

LEMMA SpeakSpeech ==
  ASSUME IInv, SInv, Speak
  PROVE  SInv'
  <1>1. CallFrame /\ Calling /\ child \in ChildState
    BY TypeParts DEF IInv, Speak, models, CallFrame, CancelBeforeCall, Asking, AskWorker, WorkerStarted,
       WorkerAnswers, CancelCall, Timeout, AskLlama, LlamaEnds, AskKokoro, KokoroEnds, Calling
  <1>2. CASE CancelBeforeCall
    BY <1>1, <1>2, GiveSpeech DEF CancelBeforeCall, SameSpeaker
  <1>3. CASE AskWorker
    <2>1. child'.kind = "worker" /\ dub.provider = "cosyvoice" /\ UNCHANGED <<dub, heard>>
      BY <1>3 DEF AskWorker, Spawn
    <2>2. QED
      BY <1>1, <2>1, AskSpeech DEF SameSpeaker
  <1>4. CASE WorkerStarted
    <2>1. CASE Spawn("worker", "busy") /\ child.at = "idle" /\ UNCHANGED <<dub, heard>>
      <3>1. child'.kind = "worker" /\ child'.says = "nothing" /\ (child.kind = "worker" => dub.provider # "kokoro")
        BY <2>1 DEF Spawn, SInv, LoadedIsModel
      <3>2. child.kind = "worker"
        BY <1>4 DEF IInv, WorkerStarted, ClientKnowsChild
      <3>3. QED
        BY <1>1, <2>1, <3>1, <3>2, AskSpeech DEF SameSpeaker
    <2>2. CASE child' = NoChild /\ Give("failed")
      BY <1>1, <2>2, GiveSpeech DEF SameSpeaker
    <2>3. QED
      BY <1>4, <2>1, <2>2 DEF WorkerStarted
  <1>5. CASE WorkerAnswers
    <2>1. child.kind = "worker" /\ dub.provider # "kokoro"
      BY <1>5 DEF WorkerAnswers, SInv, LoadedIsModel
    <2>2. CASE Take /\ child' = [child EXCEPT !.says = "nothing"]
      <3>1. child'.kind = "worker"
        BY <1>1, <2>1, <2>2 DEF ChildState, Child, NoChild
      <3>2. QED
        BY <1>1, <2>1, <2>2, <3>1, TakeSpeech DEF SameSpeaker
    <2>3. CASE Give("failed") /\ UNCHANGED child
      BY <1>1, <2>3, GiveSpeech DEF SameSpeaker
    <2>4. QED
      BY <1>5, <2>2, <2>3 DEF WorkerAnswers
  <1>6. CASE CancelCall \/ Timeout
    BY <1>1, <1>6, GiveSpeech DEF CancelCall, Timeout, SameSpeaker
  <1>7. CASE AskLlama
    <2>1. dub.provider = "qwen" /\ (UNCHANGED child \/ child'.kind = "llama")
      BY <1>7 DEF AskLlama, Spawn
    <2>2. SameSpeaker
      BY <2>1 DEF SameSpeaker
    <2>3. UNCHANGED <<dub, heard>> \/ Give("failed")
      BY <1>7 DEF AskLlama
    <2>4. QED
      BY <1>1, <2>2, <2>3, AskSpeech, GiveSpeech
  <1>8. CASE LlamaEnds
    <2>1. child' = NoChild /\ child.kind = "llama" /\ dub.provider # "kokoro"
      BY <1>8 DEF LlamaEnds, SInv, LoadedIsModel
    <2>2. SameSpeaker
      BY <2>1 DEF SameSpeaker
    <2>3. Take \/ UNCHANGED <<dub, heard>> \/ \E fate \in {"cancelled", "failed"} : Give(fate)
      BY <1>8 DEF LlamaEnds
    <2>4. QED
      BY <1>1, <2>1, <2>2, <2>3, TakeSpeech, AskSpeech, GiveSpeech
  <1>9. CASE AskKokoro
    <2>1. child'.kind = "thread" /\ child'.says = "nothing" /\ UNCHANGED <<dub, heard>>
      BY <1>9 DEF AskKokoro, Spawn
    <2>2. QED
      BY <1>1, <2>1, AskSpeech DEF SameSpeaker
  <1>10. CASE KokoroEnds
    <2>1. child' = NoChild /\ child.kind = "thread"
      BY <1>10 DEF KokoroEnds
    <2>2. SameSpeaker
      BY <2>1 DEF SameSpeaker
    <2>3. (child.says = "done" /\ Take) \/ Give("failed")
      BY <1>10 DEF KokoroEnds
    <2>4. QED
      BY <1>1, <2>1, <2>2, <2>3, TakeSpeech, GiveSpeech DEF SInv, LoadedIsModel
  <1>11. QED
    BY <1>2, <1>3, <1>4, <1>5, <1>6, <1>7, <1>8, <1>9, <1>10 DEF Speak

LEMMA IdleHasNoChild == IInv /\ dub.pc = "idle" => child = NoChild
  BY DEF IInv, TypeOK, ChildIsOwned, Child

LEMMA EndSpeech ==
  ASSUME IInv, SInv, Finally \/ Crash
  PROVE  SInv'
  <1>1. dub' = Ended /\ UNCHANGED <<cache, model>> /\ (UNCHANGED loaded \/ loaded' = 0)
    BY DEF Finally, Crash, models
  <1>2. dub'.pc = "idle" /\ dub'.row = 1
    BY <1>1 DEF Ended, NoDub
  <1>3. child' = NoChild
    <2>1. CASE Finally
      <3>1. UNCHANGED child /\ dub.pc = "finally"
        BY <2>1 DEF Finally, worker
      <3>2. QED
        BY <3>1 DEF IInv, TypeOK, ChildIsOwned, Child
    <2>2. QED
      BY <2>1 DEF Crash
  <1>4. LoadedIsModel'
    BY <1>1, <1>3 DEF SInv, LoadedIsModel, NoChild
  <1>5. EntriesAreTrue' /\ ContextIsModel' /\ HeardIsPresent' /\ NotKept' /\ BlankIsText'
    BY <1>1, <1>2 DEF SInv, EntriesAreTrue, ContextIsModel, HeardIsPresent, NotKept, BlankIsText, Spoken
  <1>6. SpeechIsOfText' /\ ModelHasSpoken'
    BY <1>2, DubbingAssumption DEF SpeechIsOfText, ModelHasSpoken, Rows
  <1>7. QED
    BY <1>4, <1>5, <1>6 DEF SInv

LEMMA BeginSpeech ==
  ASSUME IInv, SInv, NEW p \in Providers, NEW v \in Voices, NEW new \in [Rows -> Texts], Begin(p, v, new)
  PROVE  SInv'
  <1>1. /\ UNCHANGED <<cache, model, loaded, child>> /\ child = NoChild /\ model[p] \in Nat
        /\ p = "kokoro" \/ model[p] > 0
    BY IdleHasNoChild, TypeParts, Constants DEF IInv, Begin, models
  <1>2. /\ dub'.pc = "row" /\ dub'.row = 1 /\ dub'.provider = p /\ dub'.ctx = model[p] /\ dub'.fresh = TRUE
    BY DEF Begin, NoDub
  <1>3. LoadedIsModel' /\ EntriesAreTrue'
    BY <1>1 DEF SInv, LoadedIsModel, EntriesAreTrue, NoChild
  <1>4. ContextIsModel' /\ HeardIsPresent' /\ NotKept' /\ BlankIsText'
    BY <1>1, <1>2 DEF ContextIsModel, HeardIsPresent, NotKept, BlankIsText, Spoken
  <1>5. SpeechIsOfText' /\ ModelHasSpoken'
    BY <1>2, DubbingAssumption DEF SpeechIsOfText, ModelHasSpoken, Rows
  <1>6. QED
    BY <1>3, <1>4, <1>5 DEF SInv

LEMMA ChildSpeech ==
  ASSUME IInv, SInv, WorkerLoads \/ ChildFinishes \/ ChildFails \/ ChildDies
  PROVE  SInv'
  <1>1. UNCHANGED <<dub, texts, raw, heard, cache, model, loaded>>
    BY DEF WorkerLoads, ChildFinishes, ChildFails, ChildDies, OfChild, files, models
  <1>2. child'.kind = child.kind /\ child.kind # "thread"
    <2>1. child \in Child /\ child.kind # "thread"
      BY TypeParts DEF IInv, WorkerLoads, ChildFinishes, ChildFails, ChildDies, NoChild, ChildState
    <2>2. \E at \in {"idle", "gone"}, says \in {"ready", "done", "error", child.says} :
            child' = [child EXCEPT !.at = at, !.says = says]
      <3>1. CASE ChildFinishes
        BY <2>1, <3>1 DEF ChildFinishes, Child
      <3>2. CASE WorkerLoads \/ ChildFails
        BY <2>1, <3>2 DEF WorkerLoads, ChildFails, Child
      <3>3. CASE ChildDies
        BY <2>1, <3>3 DEF ChildDies, Child
      <3>4. QED
        BY <3>1, <3>2, <3>3
    <2>3. QED
      BY <2>1, <2>2 DEF Child
  <1>3. Present' = Present
    BY <1>1 DEF Present, Text
  <1>4. LoadedIsModel'
    BY <1>1, <1>2 DEF SInv, LoadedIsModel
  <1>5. EntriesAreTrue' /\ ContextIsModel' /\ HeardIsPresent' /\ ModelHasSpoken' /\ NotKept' /\ BlankIsText'
    BY <1>1, <1>3 DEF SInv, EntriesAreTrue, ContextIsModel, HeardIsPresent, ModelHasSpoken, NotKept,
         BlankIsText, Text
  <1>6. SpeechIsOfText'
    BY <1>1 DEF SInv, SpeechIsOfText
  <1>7. QED
    BY <1>4, <1>5, <1>6 DEF SInv

\* The download: nothing was said by a model that was missing.
LEMMA KokoroSpeech ==
  ASSUME IInv, SInv, KokoroReturns
  PROVE  SInv'
  <1>1. /\ UNCHANGED <<dub, texts, raw, heard, cache>> /\ child.kind = "thread"
        /\ dub.pc = "speak" /\ dub.provider = "kokoro" /\ "kokoro" \in Providers
        /\ child \in Child /\ model \in [Providers -> Models] /\ loaded \in Models
    <2>1. UNCHANGED <<dub, texts, raw, heard, cache>> /\ child.kind = "thread" /\ child # NoChild
      BY DEF KokoroReturns, OfChild, files, NoChild
    <2>2. child \in Child /\ model \in [Providers -> Models] /\ loaded \in Models
      BY <2>1, TypeParts DEF IInv, ChildState
    <2>3. QED
      BY <2>1, <2>2 DEF IInv, ChildIsOwned, ClientKnowsChild, UnderWay
  <1>2. \E says \in {"done", "error"} : child' = [child EXCEPT !.at = "gone", !.says = says]
    BY DEF KokoroReturns
  <1>3. child'.kind = "thread"
    BY <1>1, <1>2 DEF Child
  <1>4. CASE UNCHANGED models /\ (child'.says # "done" \/ loaded # 0)
    <2>1. Present' = Present /\ UNCHANGED <<model, loaded>>
      BY <1>1, <1>4 DEF Present, Text, models
    <2>2. LoadedIsModel'
      BY <1>1, <1>3, <1>4, <2>1 DEF SInv, LoadedIsModel
    <2>3. EntriesAreTrue' /\ ContextIsModel' /\ HeardIsPresent' /\ ModelHasSpoken' /\ NotKept' /\ BlankIsText'
      BY <1>1, <2>1 DEF SInv, EntriesAreTrue, ContextIsModel, HeardIsPresent, ModelHasSpoken, NotKept,
         BlankIsText, Text
    <2>4. SpeechIsOfText'
      BY <1>1, <2>1 DEF SInv, SpeechIsOfText
    <2>5. QED
      BY <2>2, <2>3, <2>4 DEF SInv
  <1>5. CASE model["kokoro"] # 0 /\ UNCHANGED model /\ loaded' = model["kokoro"]
    <2>1. Present' = Present
      BY <1>1, <1>5 DEF Present, Text
    <2>2. LoadedIsModel'
      BY <1>1, <1>3, <1>5 DEF LoadedIsModel
    <2>3. EntriesAreTrue' /\ ContextIsModel' /\ HeardIsPresent' /\ ModelHasSpoken' /\ NotKept' /\ BlankIsText'
      BY <1>1, <1>5, <2>1 DEF SInv, EntriesAreTrue, ContextIsModel, HeardIsPresent, ModelHasSpoken, NotKept,
         BlankIsText, Text
    <2>4. SpeechIsOfText'
      BY <1>1, <1>5 DEF SInv, SpeechIsOfText
    <2>5. QED
      BY <2>2, <2>3, <2>4 DEF SInv
  <1>6. CASE model["kokoro"] = 0 /\ model' = [model EXCEPT !["kokoro"] = 1] /\ loaded' = 1
    <2>1. model'["kokoro"] = 1 /\ \A p \in Providers \ {"kokoro"} : model'[p] = model[p]
      BY <1>1, <1>6
    <2>2. LoadedIsModel'
      BY <1>1, <1>3, <1>6, <2>1 DEF LoadedIsModel
    <2>3. ASSUME NEW e \in cache.wav PROVE e.speech.provider \in Providers \ {"kokoro"}
      <3>1. e.speech \in Speech /\ 1 <= e.speech.model /\ e.speech.model <= model[e.speech.provider]
        BY TypeParts DEF IInv, TypeOK, SInv, EntriesAreTrue
      <3>2. e.speech.provider # "kokoro"
        <4>1. e.speech.model \in Nat
          BY <3>1, Constants DEF Speech
        <4>2. QED
          BY <1>6, <3>1, <4>1
      <3>3. QED
        BY <3>1, <3>2 DEF Speech
    <2>4. EntriesAreTrue'
      BY <1>1, <2>1, <2>3 DEF SInv, EntriesAreTrue
    <2>5. ContextIsModel' /\ HeardIsPresent'
      BY <1>1, <1>6, <2>1 DEF SInv, ContextIsModel, HeardIsPresent, Spoken
    <2>6. ModelHasSpoken'
      BY <1>1, <2>1 DEF ModelHasSpoken
    <2>7. NotKept'
      <3>1. Present'.provider = "kokoro"
        BY <1>1 DEF Present
      <3>2. QED
        BY <1>1, <2>3, <3>1 DEF NotKept
    <2>8. SpeechIsOfText' /\ BlankIsText'
      <3>1. \A i \in Rows : i < dub.row => texts[i] \in Blank
        BY <1>1, <1>6 DEF SInv, ModelHasSpoken
      <3>2. SpeechIsOfText'
        BY <1>1, <3>1 DEF SInv, SpeechIsOfText
      <3>3. QED
        BY <1>1, <3>2 DEF SInv, BlankIsText, Text
    <2>9. QED
      BY <2>2, <2>4, <2>5, <2>6, <2>7, <2>8 DEF SInv
  <1>7. QED
    <2>1. CASE UNCHANGED models /\ child' = [child EXCEPT !.at = "gone", !.says = "error"]
      <3>1. child'.says = "error"
        BY <1>1, <2>1 DEF Child
      <3>2. QED
        BY <1>4, <2>1, <3>1
    <2>2. CASE UNCHANGED models /\ loaded # 0
      BY <1>4, <2>2
    <2>3. CASE /\ loaded = 0 /\ model' = [model EXCEPT !["kokoro"] = IF @ = 0 THEN 1 ELSE @]
               /\ loaded' = model'["kokoro"]
      <3>1. CASE model["kokoro"] = 0
        BY <1>1, <1>6, <2>3, <3>1
      <3>2. CASE model["kokoro"] # 0
        BY <1>1, <1>5, <2>3, <3>2
      <3>3. QED
        BY <3>1, <3>2
    <2>4. QED
      BY <2>1, <2>2, <2>3 DEF KokoroReturns

\* Between two dubbings, the models of the other providers are replaced.
LEMMA OutsideSpeech ==
  ASSUME IInv, SInv, "kokoro" \notin Replaced,
         RequestCancel \/ FfmpegEnds \/ (\E p \in Providers : ReplaceModel(p)) \/ UNCHANGED vars
  PROVE  SInv'
  <1>1. /\ UNCHANGED <<dub, texts, raw, heard, cache, loaded, child>>
    BY DEF RequestCancel, FfmpegEnds, ReplaceModel, files, models, worker, vars
  <1>2. CASE UNCHANGED model
    <2>1. Present' = Present
      BY <1>1, <1>2 DEF Present, Text
    <2>2. LoadedIsModel'
      BY <1>1, <1>2 DEF SInv, LoadedIsModel
    <2>3. EntriesAreTrue' /\ ContextIsModel' /\ HeardIsPresent' /\ ModelHasSpoken' /\ NotKept' /\ BlankIsText'
      BY <1>1, <1>2, <2>1 DEF SInv, EntriesAreTrue, ContextIsModel, HeardIsPresent, ModelHasSpoken, NotKept,
         BlankIsText, Text
    <2>4. SpeechIsOfText'
      BY <1>1, <1>2 DEF SInv, SpeechIsOfText
    <2>5. QED
      BY <2>2, <2>3, <2>4 DEF SInv
  <1>3. ASSUME NEW p \in Providers, ReplaceModel(p) PROVE SInv'
    <2>1. /\ dub.pc = "idle" /\ p # "kokoro" /\ model' = [model EXCEPT ![p] = @ + 1]
          /\ dub.row = 1 /\ model \in [Providers -> Models]
      BY <1>3, TypeParts DEF ReplaceModel, IInv, UnderWay
    <2>2. /\ \A q \in Providers : model[q] \in Nat /\ model'[q] \in Nat /\ model[q] <= model'[q]
          /\ "kokoro" \in Providers => model'["kokoro"] = model["kokoro"]
      <3>1. ASSUME NEW q \in Providers PROVE model[q] \in Nat /\ model'[q] = IF q = p THEN model[p] + 1 ELSE model[q]
        BY <2>1, Constants
      <3>2. ASSUME NEW q \in Providers
            PROVE  model[q] \in Nat /\ model'[q] \in Nat /\ model[q] <= model'[q]
        BY <3>1
      <3>3. QED
        BY <2>1, <3>1, <3>2
    <2>3. LoadedIsModel'
      BY <1>1, <2>2 DEF SInv, LoadedIsModel
    <2>4. EntriesAreTrue'
      <3>1. ASSUME NEW e \in cache.wav
            PROVE  e.key = e.speech /\ 1 <= e.speech.model /\ e.speech.model <= model'[e.speech.provider]
        <4>1. /\ e.speech \in Speech /\ e.key = e.speech /\ 1 <= e.speech.model
              /\ e.speech.model <= model[e.speech.provider]
          BY TypeParts DEF IInv, TypeOK, SInv, EntriesAreTrue
        <4>2. e.speech.provider \in Providers /\ e.speech.model \in Nat
          BY <4>1, Constants DEF Speech
        <4>3. QED
          BY <2>2, <4>1, <4>2
      <3>2. QED
        BY <1>1, <3>1 DEF EntriesAreTrue
    <2>5. ContextIsModel' /\ HeardIsPresent' /\ NotKept' /\ BlankIsText'
      BY <1>1, <2>1 DEF ContextIsModel, HeardIsPresent, NotKept, BlankIsText, Spoken
    <2>6. SpeechIsOfText' /\ ModelHasSpoken'
      BY <1>1, <2>1, DubbingAssumption DEF SpeechIsOfText, ModelHasSpoken, Rows
    <2>7. QED
      BY <2>3, <2>4, <2>5, <2>6 DEF SInv
  <1>4. QED
    BY <1>2, <1>3 DEF RequestCancel, FfmpegEnds, vars, models

LEMMA SpeechStep == "kokoro" \notin Replaced /\ IInv /\ SInv /\ [Next]_vars => SInv'
  BY RowSpeech, PutSpeech, RawSpeech, ThreadSpeech, TrackSpeech, SpeakSpeech, EndSpeech, BeginSpeech, ChildSpeech, KokoroSpeech,
     OutsideSpeech DEF Next, DubThread

LEMMA SpeechInvariant == ASSUME "kokoro" \notin Replaced PROVE Spec => []SInv
  <1>1. Init => IInv /\ SInv
    BY InitIInv, InitSInv
  <1>2. IInv /\ SInv /\ [Next]_vars => IInv' /\ SInv'
    BY InvariantStep, SpeechStep
  <1>3. QED
    BY <1>1, <1>2, PTL DEF Spec

\* Spoken or taken from the cache, after whatever edits, cancellations,
\* failures and crashes, an utterance's raw speech is its present text, in the
\* chosen voice, by the present model (dubbing_service.py:_synthesize_all,
\* speech_cache.py).
THEOREM SpeechIsOfTextHolds == ASSUME "kokoro" \notin Replaced PROVE Spec => []SpeechIsOfText
  BY SpeechInvariant, PTL DEF SInv

\* What was kept under the present model is not spoken again (speech_cache.py,
\* dubbing_service.py:_synthesize_all).
THEOREM NothingTwiceHolds == ASSUME "kokoro" \notin Replaced PROVE Spec => []NothingTwice
  <1>1. SInv => NothingTwice
    BY DEF SInv, NotKept, NothingTwice, Calling, Present, Key
  <1>2. QED
    BY <1>1, SpeechInvariant, PTL

\* Speech is kept under the fingerprint of what it was spoken from
\* (speech_cache.py:37-42).
THEOREM KeptUnderItsModelHolds == ASSUME "kokoro" \notin Replaced PROVE Spec => []KeptUnderItsModel
  <1>1. SInv => KeptUnderItsModel
    BY DEF SInv, EntriesAreTrue, KeptUnderItsModel
  <1>2. QED
    BY <1>1, SpeechInvariant, PTL
=============================================================================
