----------------------------- MODULE GPUStages ------------------------------
(***************************************************************************)
(* The FIFO scheduler of the GPU (app/core/gpu_manager.py) and the         *)
(* provider lifecycles that run inside its leases (core/gpu_lifecycle.py,  *)
(* core/provider_lifecycle.py, core/lm_studio_lifecycle.py, the ASR worker *)
(* of services/asr_service.py and the local TTS of dubbing_service.py).    *)
(*                                                                         *)
(* Transcription and translation run on the server's event loop and can be *)
(* cancelled while they are suspended; dubbing runs in a worker thread with *)
(* a loop of its own (asyncio.run), shares the one asyncio.Condition of    *)
(* the manager and does not hear a cancellation while it waits.  A section *)
(* under the condition never awaits, so it is one action; a step of        *)
(* another loop's thread may come between any two.                         *)
(*                                                                         *)
(* notify_all appends to the ready callbacks of a waiter's loop, and says  *)
(* nothing to the loop (call_soon, not call_soon_threadsafe).  The server's *)
(* loop looks by itself ten times a second (uvicorn).  A dubbing's loop has *)
(* nothing else to do: once it blocks, what another thread appends is      *)
(* never seen (Doze).                                                      *)
(***************************************************************************)
EXTENDS Naturals, SequencesExt

CONSTANTS Stages,   \* the stage executions that use the GPU, once each
          Nobody,
          Kind,     \* Kind[x]: "asr", "llm" (LM Studio) or "tts"
          Server,   \* the server's event loop
          NoLoop,
          Faults    \* what the environment may do, a subset of FaultKinds

\* "callback": the status callback raises (it writes the history file);
\* "impatient": a stage is cancelled while its model loads or unloads;
\* "unload": the command that unloads the model fails.
FaultKinds == {"callback", "impatient", "unload"}

ASSUME StagesAssumption ==
  /\ Nobody \notin Stages
  /\ Kind \in [Stages -> {"asr", "llm", "tts"}]
  /\ Server \notin Stages /\ NoLoop \notin Stages \cup {Server}
  /\ Faults \subseteq FaultKinds

VARIABLES
  queue,     \* GPUManager._queue
  active,    \* GPUManager._active: the stage whose lease it is
  bound,     \* the loop that the condition belongs to, from the first wait on
  phase,     \* where each stage execution is
  notified,  \* the waiters that notify_all has told, and who will run
  engine     \* the model of each stage: in the GPU's memory unless "off"

vars == <<queue, active, bound, phase, notified, engine>>

Leased == {"granted", "starting", "body", "stopping"}
Over   == {"finished", "failed", "cancelled"}
InLine == {"queued", "trying", "waiting", "asleep"}

TypeOK ==
  /\ queue \in Seq(Stages)
  /\ active \in Stages \cup {Nobody}
  /\ bound \in Stages \cup {Server, NoLoop}
  /\ phase \in [Stages -> Leased \cup Over \cup InLine \cup {"new"}]
  /\ notified \subseteq Stages
  /\ engine \in [Stages -> {"off", "loading", "on", "unloading"}]

Init ==
  /\ queue = <<>>
  /\ active = Nobody
  /\ bound = NoLoop
  /\ phase = [x \in Stages |-> "new"]
  /\ notified = {}
  /\ engine = [x \in Stages |-> "off"]

LoopOf(x) == IF Kind[x] = "tts" THEN x ELSE Server
Waiting == {x \in Stages : phase[x] = "waiting"}
Goes(x, from, to) == phase[x] = from /\ phase' = [phase EXCEPT ![x] = to]

-----------------------------------------------------------------------------
(* GPUManager.acquire.                                                     *)

Enqueue(x) ==
  /\ Goes(x, "new", IF active = Nobody /\ queue = <<>> THEN "trying" ELSE "queued")
  /\ queue' = Append(queue, x)
  /\ UNCHANGED <<active, bound, notified, engine>>

\* _notify("waiting_for_gpu") comes before the try block: when it raises, the
\* request stays in the queue.
Announce(x) ==
  /\ \/ Goes(x, "queued", "trying")
     \/ "callback" \in Faults /\ Goes(x, "queued", "failed")
  /\ UNCHANGED <<queue, active, bound, notified, engine>>

\* Faulty variants: whoever is awake takes a free GPU; the first of the line
\* takes the GPU of another.
MyTurnWhenFree(x) == active = Nobody
MyTurnAtHead(x)   == queue # <<>> /\ Head(queue) = x

MyTurn(x) == active = Nobody /\ queue # <<>> /\ Head(queue) = x

\* wait_for evaluates its predicate on entry and at every wake-up.
Awake(x) == phase[x] = "trying" \/ (phase[x] = "waiting" /\ x \in notified)

TakeTurn(x) ==
  /\ Awake(x) /\ MyTurn(x)
  /\ queue' = Tail(queue)
  /\ active' = x
  /\ phase' = [phase EXCEPT ![x] = "granted"]
  /\ notified' = notified \ {x}
  /\ UNCHANGED <<bound, engine>>

\* The first wait binds an asyncio.Condition to the running loop for good.
Sleep(x) ==
  /\ Awake(x) /\ ~MyTurn(x)
  /\ bound \in {NoLoop, LoopOf(x)}
  /\ bound' = LoopOf(x)
  /\ phase' = [phase EXCEPT ![x] = "waiting"]
  /\ notified' = notified \ {x}
  /\ UNCHANGED <<queue, active, engine>>

\* The loop of a dubbing has run what was ready and blocks without a timeout.
Doze(x) ==
  /\ LoopOf(x) # Server
  /\ x \notin notified
  /\ Goes(x, "waiting", "asleep")
  /\ UNCHANGED <<queue, active, bound, notified, engine>>

\* Faulty variant: the place is kept.
LeaveLineForgets(x)  == UNCHANGED queue /\ notified' = (notified \cup Waiting) \ {x}

\* acquire's except clause: leave the queue and notify the others.
LeaveLine(x) ==
  /\ queue' = RemoveFirst(queue, x)
  /\ notified' = (notified \cup Waiting) \ {x}

\* A wait in any other loop raises RuntimeError.
Refused(x) ==
  /\ Awake(x) /\ ~MyTurn(x)
  /\ bound \notin {NoLoop, LoopOf(x)}
  /\ LeaveLine(x)
  /\ phase' = [phase EXCEPT ![x] = "failed"]
  /\ UNCHANGED <<active, bound, engine>>

\* The cancellation of a waiter, woken or not.
CancelWait(x) ==
  /\ LoopOf(x) = Server
  /\ Goes(x, "waiting", "cancelled")
  /\ LeaveLine(x)
  /\ UNCHANGED <<active, bound, engine>>

\* _notify("switching_model"), after the grant and with nothing to undo it.
Switch(x) ==
  /\ \/ Goes(x, "granted", "starting") /\ engine' = [engine EXCEPT ![x] = "loading"]
     \/ "callback" \in Faults /\ Goes(x, "granted", "failed") /\ UNCHANGED engine
  /\ UNCHANGED <<queue, active, bound, notified>>

-----------------------------------------------------------------------------
(* The provider's lifecycle inside the lease.                              *)

\* Faulty variant: the lease is given back without a notification.
ReleaseSilently(x) ==
  /\ active' = IF active = x THEN Nobody ELSE active
  /\ UNCHANGED notified

\* GPULease.release.
Release(x) ==
  /\ active' = IF active = x THEN Nobody ELSE active
  /\ notified' = IF active = x THEN notified \cup Waiting ELSE notified

Engine(x, state) == engine' = [engine EXCEPT ![x] = state]

Load(x) ==
  /\ Goes(x, "starting", "body")
  /\ Engine(x, "on")
  /\ UNCHANGED <<queue, active, bound, notified>>

LoadFails(x) ==
  /\ Goes(x, "starting", "failed")
  /\ Engine(x, "off")
  /\ Release(x)
  /\ UNCHANGED <<queue, bound>>

\* The stage completes, raises or is cancelled: provider_stage's finally.
LeaveBody(x) ==
  /\ Goes(x, "body", "stopping")
  /\ Engine(x, "unloading")
  /\ UNCHANGED <<queue, active, bound, notified>>

\* Faulty variant: the lease goes before the model does.
UnloadLater(x) ==
  /\ Goes(x, "stopping", "finished")
  /\ UNCHANGED engine
  /\ Release(x)
  /\ UNCHANGED <<queue, bound>>

Unload(x) ==
  /\ Goes(x, "stopping", "finished")
  /\ Engine(x, "off")
  /\ Release(x)
  /\ UNCHANGED <<queue, bound>>

UnloadFails(x) ==
  /\ "unload" \in Faults /\ Kind[x] = "llm"
  /\ Goes(x, "stopping", "failed")
  /\ Engine(x, "on")
  /\ Release(x)
  /\ UNCHANGED <<queue, bound>>

\* Cancelled while the model loads: the ASR worker is closed, LM Studio's
\* load goes on in its thread.  Cancelled while it unloads: neither is
\* awaited any longer.
Impatient(x) ==
  /\ "impatient" \in Faults /\ LoopOf(x) = Server
  /\ UNCHANGED <<queue, bound>>
  /\ \/ /\ Kind[x] = "asr"
        /\ Goes(x, "starting", "stopping")
        /\ Engine(x, "unloading")
        /\ UNCHANGED <<active, notified>>
     \/ /\ \/ Kind[x] = "llm" /\ Goes(x, "starting", "cancelled")
           \/ Goes(x, "stopping", "cancelled")
        /\ UNCHANGED engine
        /\ Release(x)

\* The load or unload that nobody awaits comes to its end.
Settle(x) ==
  /\ phase[x] \in Over
  /\ \/ engine[x] = "loading" /\ Engine(x, "on")
     \/ engine[x] = "unloading" /\ Engine(x, "off")
  /\ UNCHANGED <<queue, active, bound, phase, notified>>

-----------------------------------------------------------------------------
Turn(x) == TakeTurn(x) \/ Sleep(x) \/ Refused(x)
Lifecycle(x) ==
  Switch(x) \/ Load(x) \/ LoadFails(x) \/ LeaveBody(x) \/ Unload(x) \/ UnloadFails(x)

Next ==
  \E x \in Stages :
    \/ Enqueue(x) \/ Announce(x) \/ Turn(x) \/ Doze(x) \/ CancelWait(x)
    \/ Lifecycle(x) \/ Impatient(x) \/ Settle(x)

Spec == Init /\ [][Next]_vars

\* Every loop runs the callbacks that it knows to be ready, and loading,
\* working and unloading are bounded by the providers' timeouts.
Fairness == \A x \in Stages : WF_vars(Announce(x)) /\ WF_vars(Turn(x)) /\ WF_vars(Lifecycle(x))

FairSpec == Spec /\ Fairness

-----------------------------------------------------------------------------
(* Properties.                                                             *)

\* At most one stage is between its grant and the end of its cleanup.
OneLease ==
  \A x, y \in Stages : phase[x] \in Leased /\ phase[y] \in Leased => x = y

\* No two stages have models in the GPU's memory at once (README.md:53,
\* "Single-GPU FIFO orchestration with model release between Whisper, LM
\* Studio, and dubbing stages").
OneEngine ==
  \A x, y \in Stages : engine[x] # "off" /\ engine[y] # "off" => x = y

HeadIsWoken ==
  \/ phase[Head(queue)] \in {"queued", "trying"}
  \/ Head(queue) \in notified

\* gpu_manager.py:1, "Fair, cancellation-safe orchestration for a single
\* shared GPU": when the GPU is free, the first of the queue is about to look.
NoLostWakeup ==
  active = Nobody /\ queue # <<>> /\ phase[Head(queue)] \notin Over => HeadIsWoken

\* What is true of it: a wake-up of a stage of the server's loop is not lost,
\* whoever left the line or gave the lease back, on whatever loop.
ServerIsWoken ==
  active = Nobody /\ queue # <<>> /\ phase[Head(queue)] \notin Over
    /\ LoopOf(Head(queue)) = Server => HeadIsWoken

\* provider_lifecycle.py:35: "Run a provider stage with guaranteed lifecycle
\* cleanup."  A stage that is over has no lease and no place in the queue.
CleanupGuaranteed ==
  \A x \in Stages : phase[x] \in Over =>
    active # x /\ \A i \in 1..Len(queue) : queue[i] # x

\* gpu_manager.py:1, "Fair, cancellation-safe orchestration for a single
\* shared GPU": one leaves the queue with the GPU, or because one was
\* cancelled.
PlaceIsKept ==
  [][ \A x \in Stages :
        phase[x] \in InLine => phase'[x] \in InLine \cup {"granted", "cancelled"} ]_vars

\* The scheduler is a FIFO lock: it serves in the order of arrival, one at a
\* time, and does not leave a free GPU idle while the first of the line is a
\* stage of the server's loop.
Lock == INSTANCE FairLock WITH
          line <- queue, owner <- active, asked <- {x \in Stages : phase[x] # "new"},
          Prompt <- {x \in Stages : LoopOf(x) = Server}
ImplementsFairLock == Lock!Spec
=============================================================================
