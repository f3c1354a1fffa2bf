----------------------------- MODULE TaskEvents -----------------------------
(***************************************************************************)
(* How a change of the task's record reaches the screen: app/core/events.py *)
(* (emit_event, event_generator), the write transaction of core/history.py *)
(* and core/task_run.py, and the client: frontend/src/App.jsx, the filter  *)
(* of utils/taskStateVersion.js, hooks/useTaskSSE.js, useTaskProcessing.js. *)
(*                                                                         *)
(* The writers are the server's loop thread, one worker thread per run, a  *)
(* job outside every run (a rendering; a transcription or a translation    *)
(* closes in the same way), and burn's stderr reader.  An owned            *)
(* publication holds run.lock from its check to its last delivery; an      *)
(* unowned one holds the history lock for the write alone, which is one    *)
(* action.  The loop thread delivers to the queue of a connection at once, *)
(* another thread through call_soon_threadsafe.  The record is abstracted  *)
(* to its revision, its run and whether work goes on.  The client's two    *)
(* listeners, of the list and of the panel, share one connection here.     *)
(***************************************************************************)
EXTENDS Naturals, Sequences, FiniteSets

CONSTANTS Runs, NoRun,
          MaxRevision,   \* bound: how many times the record is written
          QueueSize,     \* settings.SSE_QUEUE_MAXSIZE
          MaxCalls,      \* bound: call_soon_threadsafe callbacks outstanding
          WireSize       \* bound: messages between the server and the client

ASSUME BoundsAssumption ==
  /\ NoRun \notin Runs /\ Runs \cap {"loop", "reader", "job", "free"} = {}
  /\ MaxRevision \in Nat /\ QueueSize \in Nat \ {0} /\ MaxCalls \in Nat /\ WireSize \in Nat \ {0}

VARIABLES
  rec,      \* the record on disk
  log,      \* the records written so far, by revision (history variable)
  lease,    \* TaskRun.active
  lock,     \* the thread that holds each run.lock
  thread,   \* the publication each thread is in the middle of
  calls,    \* the loop's call_soon_threadsafe callbacks
  conn,     \* the SSE connection and its generator
  queue,    \* its asyncio.Queue
  last,     \* its last_revision
  wire,     \* what the client has still to read of it
  shown,    \* the task as the client shows it
  cached,   \* its entry in the client's list of tasks
  listening, \* App.jsx: listeningTaskId, useTaskProcessing.js: running
  latest,   \* taskStateVersion.js: latest.get(taskId)
  fetch     \* the GET /tasks/{id} that the client has under way

server == <<rec, log, lease, lock, thread, calls>>
stream == <<conn, queue, last, wire>>
client == <<shown, cached, listening, latest, fetch>>
vars == <<server, stream, client>>

States   == {"active", "ended"}
Records  == [rev: Nat, run: Runs \cup {NoRun}, state: States]
Unversioned == 0
None     == [rev |-> Unversioned, run |-> NoRun, state |-> "active"]
Threads  == Runs \cup {"loop", "reader", "job"}
Idle     == [at |-> "idle", event |-> None, run |-> NoRun, revoke |-> FALSE]
Unread(at) == [at |-> at, response |-> None]

TypeOK ==
  /\ rec \in Records
  /\ log \in Seq(Records)
  /\ lease \in [Runs -> BOOLEAN]
  /\ lock \in [Runs -> Threads \cup {"free"}]
  /\ thread \in [Threads -> [at: {"idle", "locked", "updated", "deliver", "working", "closing"},
                             event: Records, run: Runs \cup {NoRun}, revoke: BOOLEAN]]
  /\ calls \in Seq(Records) /\ queue \in Seq(Records) /\ wire \in Seq(Records)
  /\ conn \in {"none", "registered", "open", "closed"}
  /\ last \in Nat /\ latest \in Nat
  /\ shown \in Records /\ cached \in Records /\ listening \in BOOLEAN
  /\ fetch \in [at: {"none", "wanted", "read"}, response: Records]

\* A task whose first run, or first job, has just been started by this client.
Init ==
  \E r \in Runs \cup {NoRun} :
    /\ rec = [rev |-> 1, run |-> r, state |-> "active"]
    /\ log = <<rec>>
    /\ lease = [q \in Runs |-> q = r]
    /\ lock = [q \in Runs |-> "free"]
    /\ thread = [t \in Threads |-> IF t = "job" /\ r = NoRun THEN [Idle EXCEPT !.at = "working"] ELSE Idle]
    /\ calls = <<>> /\ queue = <<>> /\ wire = <<>>
    /\ conn = "none"
    /\ last = 0
    /\ shown = rec /\ cached = rec /\ listening = TRUE /\ latest = 1
    /\ fetch = Unread("none")

-----------------------------------------------------------------------------
(* Writing and emitting.                                                   *)

Accepts(r) == lease[r] /\ rec.run = r

\* Bound: a publication begins only if it, and a job, can write what they have to.
Room(n) ==
  rec.rev + n + 2 * Cardinality({t \in Threads : thread[t].at \in {"locked", "updated"}})
    + Cardinality({t \in Threads : thread[t].at \in {"working", "closing"}}) <= MaxRevision

\* _update_task: the next revision, in one transaction.
Write(new) ==
  /\ rec' = new
  /\ log' = Append(log, new)

Revised(run, state) == [rev |-> rec.rev + 1, run |-> run, state |-> state]

\* Faulty variant: the revision is worked out from the record that was checked.
EventOfChecked(checked, written) == [written EXCEPT !.rev = checked.rev + 1]

\* An owned event carries the snapshot of the very write that it reports.
OwnedEvent(checked, written) == written

\* _deliver: a full queue gives up its oldest event.
Put(q, event) == Append(IF Len(q) < QueueSize THEN q ELSE Tail(q), event)

\* _emit_event, from the loop thread and from any other.
Emit(t, event) ==
  IF conn \notin {"registered", "open"} THEN UNCHANGED <<queue, calls>>
  ELSE IF t = "loop" THEN queue' = Put(queue, event) /\ UNCHANGED calls
  ELSE /\ Len(calls) < MaxCalls
       /\ calls' = Append(calls, event)
       /\ UNCHANGED queue

LoopIsFree == thread["loop"] = Idle /\ conn # "registered"

\* Faulty variant: cancellation does not wait for the run's lock.
MayLockAlways(t, r) == TRUE

MayLock(t, r) == lock[r] = "free"

\* emit_event in r's context, from r's worker or from r's coroutine: it holds
\* the lock and has read the record.
Lock(t, r, revoke) ==
  /\ Room(2)
  /\ thread[t] = Idle
  /\ t \in {r, "loop"} /\ (t = "loop" => LoopIsFree /\ lease[r])
  /\ MayLock(t, r)
  /\ lock' = [lock EXCEPT ![r] = t]
  /\ thread' = [thread EXCEPT ![t] = [at |-> "locked", event |-> rec, run |-> r, revoke |-> revoke]]
  /\ UNCHANGED <<rec, log, lease, calls, stream, client>>

Unlocked(t, r) == IF lock[r] = t THEN [lock EXCEPT ![r] = "free"] ELSE lock

\* The write is refused: nothing is emitted.
Refuse(t) ==
  LET r == thread[t].run
  IN /\ thread[t].at \in {"locked", "updated"} /\ ~Accepts(r)
     /\ thread' = [thread EXCEPT ![t] = Idle]
     /\ lock' = Unlocked(t, r)
     /\ lease' = IF thread[t].revoke THEN [lease EXCEPT ![r] = FALSE] ELSE lease
     /\ UNCHANGED <<rec, log, calls, stream, client>>

\* update_task, for which no event is sent; run's cancellation handler keeps
\* the lock for the event that follows.
Update(t, state) ==
  LET r == thread[t].run
  IN /\ thread[t].at = "locked" /\ Accepts(r)
     /\ Write(Revised(r, state))
     /\ IF thread[t].revoke THEN /\ thread' = [thread EXCEPT ![t].at = "updated"]
                                 /\ UNCHANGED lock
                            ELSE /\ thread' = [thread EXCEPT ![t] = Idle]
                                 /\ lock' = Unlocked(t, r)
     /\ UNCHANGED <<lease, calls, stream, client>>

\* record_run_event: the event is persisted before it is sent.
Persist(t, state) ==
  LET r == thread[t].run
  IN /\ thread[t].at = (IF thread[t].revoke THEN "updated" ELSE "locked") /\ Accepts(r)
     /\ Write(Revised(r, state))
     /\ thread' = [thread EXCEPT ![t].at = "deliver", ![t].event = OwnedEvent(thread[t].event, Revised(r, state))]
     /\ UNCHANGED <<lease, lock, calls, stream, client>>

\* Delivery; run's cancellation handler then closes the lease, still locked.
Deliver(t) ==
  LET r == thread[t].run
  IN /\ thread[t].at = "deliver"
     /\ Emit(t, thread[t].event)
     /\ thread' = [thread EXCEPT ![t] = Idle]
     /\ lock' = IF r = NoRun THEN lock ELSE Unlocked(t, r)
     /\ lease' = IF thread[t].revoke THEN [lease EXCEPT ![r] = FALSE] ELSE lease
     /\ UNCHANGED <<rec, log, conn, last, wire, client>>

\* What a publication says: the one that closes the lease (cancellation, or
\* the run's outcome and _run_owned's finally clause) ends the run's work.
Said(t) == IF thread[t].revoke THEN "ended" ELSE "active"

Begin(r) == Lock(r, r, FALSE) \/ \E revoke \in BOOLEAN : Lock("loop", r, revoke)
Proceed(t) == Refuse(t) \/ Update(t, Said(t)) \/ Persist(t, Said(t)) \/ Deliver(t)

\* The client has asked for work and listens: whoever listens knows the
\* revision on the screen (useTaskSSE's knownRevision).
Known(seen) == IF seen.rev > latest THEN seen.rev ELSE latest

BeginListening ==
  /\ listening' = TRUE
  /\ latest' = Known(shown)
  /\ UNCHANGED <<shown, cached>>

\* PipelineService.start, which sends the revision and the run as well; the
\* client that asked for it re-reads the task.
Start(r) ==
  /\ LoopIsFree /\ Room(1)
  /\ \A q \in Runs : ~lease[q]
  /\ thread["job"].at # "working"
  /\ r \notin {log[i].run : i \in 1..Len(log)}
  /\ Write(Revised(r, "active"))
  /\ lease' = [lease EXCEPT ![r] = TRUE]
  /\ thread' = [thread EXCEPT !["loop"] = [Idle EXCEPT !.at = "deliver", !.event = rec']]
  /\ fetch' = Unread("wanted")
  /\ BeginListening
  /\ UNCHANGED <<lock, calls, stream>>

\* A write and an event outside every run: update_task, then emit_event with
\* the bare data, which has neither revision nor run.
UnownedWrite ==
  /\ thread["reader"] = Idle /\ Room(1)
  /\ Write([rec EXCEPT !.rev = @ + 1])
  /\ thread' = [thread EXCEPT !["reader"] = [Idle EXCEPT !.at = "deliver"]]
  /\ UNCHANGED <<lease, lock, calls, stream, client>>

\* burn_video admits a job and says so; bound: one job at a time.
JobStart ==
  /\ LoopIsFree /\ Room(2)
  /\ (\A q \in Runs : ~lease[q]) /\ rec.state = "ended"
  /\ thread["job"] = Idle
  /\ Write(Revised(rec.run, "active"))
  /\ thread' = [thread EXCEPT !["job"] = [Idle EXCEPT !.at = "working"],
                              !["loop"] = [Idle EXCEPT !.at = "deliver"]]
  /\ BeginListening
  /\ UNCHANGED <<lease, lock, calls, stream, fetch>>

\* burn() writes its outcome itself, after which the next work is admitted.
\* Its events are not terminal ones, like the reader's.
JobEnds ==
  /\ thread["job"].at = "working" /\ Room(1)
  /\ Write(Revised(rec.run, "ended"))
  /\ thread' = [thread EXCEPT !["job"].at = "closing"]
  /\ UNCHANGED <<lease, lock, calls, stream, client>>

\* What a job says last: the bare data of its terminal status.
Closing == [None EXCEPT !.state = "ended"]

\* _run_burn_task, with or without burn()'s outcome, writes and emits again.
JobCloses ==
  /\ thread["job"].at \in {"working", "closing"}
  /\ Write(Revised(rec.run, IF thread["job"].at = "working" THEN "ended" ELSE rec.state))
  /\ thread' = [thread EXCEPT !["job"] = [Idle EXCEPT !.at = "deliver", !.event = Closing]]
  /\ UNCHANGED <<lease, lock, calls, stream, client>>

RunCallback ==
  /\ LoopIsFree /\ calls # <<>>
  /\ calls' = Tail(calls)
  /\ queue' = IF conn = "open" THEN Put(queue, Head(calls)) ELSE queue
  /\ UNCHANGED <<rec, log, lease, lock, thread, conn, last, wire, client>>

-----------------------------------------------------------------------------
(* event_generator.                                                        *)

Connect ==
  /\ LoopIsFree /\ conn = "none" /\ listening
  /\ conn' = "registered"
  /\ UNCHANGED <<queue, last, wire, server, client>>

Snapshot ==
  /\ conn = "registered" /\ thread["loop"] = Idle
  /\ conn' = "open"
  /\ wire' = Append(wire, rec)
  /\ last' = rec.rev
  /\ UNCHANGED <<queue, server, client>>

Dropped == [None EXCEPT !.rev = MaxRevision + 1]

\* Faulty variant: the event is taken as it comes.
AsItComes(event) == event

\* The event against the record of the moment: dropped if it is of another
\* run, replaced by the record if that is newer.
Reconciled(event) ==
  IF event.run # NoRun /\ event.run # rec.run THEN Dropped
  ELSE IF event.rev # Unversioned /\ rec.rev > event.rev THEN rec
  ELSE event

Send(event) ==
  /\ wire' = Append(wire, event)
  /\ last' = IF event.rev = Unversioned THEN last ELSE event.rev
  /\ conn' = IF event.state = "ended" THEN "closed" ELSE "open"

Receive ==
  /\ LoopIsFree /\ conn = "open" /\ queue # <<>> /\ Len(wire) < WireSize
  /\ queue' = Tail(queue)
  /\ LET event == Reconciled(Head(queue))
     IN IF event = Dropped \/ (event.rev # Unversioned /\ event.rev <= last)
        THEN UNCHANGED <<conn, last, wire>>
        ELSE Send(event)
  /\ UNCHANGED <<server, client>>

\* Faulty variant: a keepalive says nothing.
PingOnly == UNCHANGED <<conn, last, wire>>

\* SSE_KEEPALIVE_TIMEOUT without an event: reconcile from the record.
Reconcile == IF rec.rev < last THEN UNCHANGED <<conn, last, wire>> ELSE Send(rec)

Keepalive ==
  /\ LoopIsFree /\ conn = "open" /\ queue = <<>> /\ wire = <<>>
  /\ Reconcile
  /\ UNCHANGED <<queue, server, client>>

-----------------------------------------------------------------------------
(* The client.                                                             *)

\* Faulty variant: whatever arrives is shown.
AcceptAnything(event) == TRUE

\* acceptTaskState.
AcceptTaskState(event) == event.rev = Unversioned \/ event.rev >= latest

\* The connection is closed: its generator ends, and takes its queue back.
Disconnect == conn' = "none" /\ queue' = <<>> /\ last' = 0 /\ wire' = <<>>

\* What the client has of a task, with the fields of an event over it.
Merged(task, event) == IF event.rev = Unversioned THEN [task EXCEPT !.state = event.state] ELSE event

Show(event) ==
  /\ latest' = IF event.rev = Unversioned THEN latest ELSE event.rev
  /\ shown' = Merged(shown, event)

\* onmessage.  App's own listener also updates the list and drops the detail
\* that it waits for; the panel's does not.  After a terminal event the client
\* stops listening and re-reads the task.
OnMessage ==
  /\ wire # <<>>
  /\ LET event == Head(wire)
         final == event.state = "ended"
     IN IF AcceptTaskState(event)
        THEN /\ Show(event)
             /\ \E own \in BOOLEAN :
                  /\ cached' = IF own THEN Merged(cached, event) ELSE cached
                  /\ fetch' = IF final THEN Unread("wanted") ELSE IF own THEN Unread("none") ELSE fetch
             /\ listening' = (listening /\ ~final)
             /\ IF final THEN Disconnect ELSE wire' = Tail(wire) /\ UNCHANGED <<conn, queue, last>>
        ELSE wire' = Tail(wire) /\ UNCHANGED <<conn, queue, last, client>>
  /\ UNCHANGED server

\* onerror, one second after which it connects again; the connection may also
\* break by itself.
OnError ==
  /\ \/ conn = "closed" /\ wire = <<>>
     \/ conn = "open" /\ thread["loop"] = Idle
  /\ Disconnect
  /\ UNCHANGED <<server, client>>

\* fetchTasks: the list as the server read it, at some time since the entry;
\* olderTaskState refuses an older one, a ticket one that was overtaken.
FetchTasks ==
  /\ \E i \in cached.rev..rec.rev : cached' = log[i]
  /\ UNCHANGED <<shown, listening, latest, fetch, server, stream>>

\* What the panel finds active, and no older than it knows, it listens to.
Follows(task) == task.state = "active" /\ task.rev >= latest

\* loadTask: the user opens the task.  The entry of the list is shown as it
\* is, and the task is read again.
OpenTask ==
  /\ shown' = cached
  /\ fetch' = Unread("wanted")
  /\ listening' = (listening \/ Follows(cached))
  /\ latest' = IF listening' THEN Known(cached) ELSE latest
  /\ UNCHANGED <<cached, server, stream>>

\* The user refreshes the task, opened it, or a terminal event asked for it.
FetchRead ==
  /\ LoopIsFree /\ fetch.at # "read"
  /\ fetch' = [at |-> "read", response |-> rec]
  /\ UNCHANGED <<server, stream, shown, cached, listening, latest>>

FetchApply ==
  /\ fetch.at = "read"
  /\ fetch' = Unread("none")
  /\ IF AcceptTaskState(fetch.response)
     THEN Show(fetch.response) /\ listening' = (listening \/ Follows(fetch.response))
     ELSE UNCHANGED <<shown, listening, latest>>
  /\ UNCHANGED <<cached, server, stream>>

-----------------------------------------------------------------------------
Generator == Snapshot \/ Receive \/ Keepalive
Job       == JobStart \/ JobEnds \/ JobCloses
Client    == OnMessage \/ OnError \/ FetchTasks \/ OpenTask \/ FetchRead \/ FetchApply

Next ==
  \/ \E r \in Runs : Begin(r) \/ Start(r)
  \/ \E t \in Threads : Proceed(t)
  \/ UnownedWrite \/ Job \/ RunCallback
  \/ Connect \/ Generator
  \/ Client

Spec == Init /\ [][Next]_vars

\* The loop serves every connection and request, the client reads, and neither
\* a network that breaks again and again nor a user who opens the task again
\* and again keeps every message or response away.  Nothing is owed by the
\* other threads, nor by what they have handed to the loop.
Fairness ==
  /\ WF_vars(Proceed("loop")) /\ WF_vars(Connect) /\ WF_vars(Generator)
  /\ SF_vars(OnMessage) /\ WF_vars(conn = "closed" /\ OnError)
  /\ WF_vars(fetch.at = "wanted" /\ FetchRead) /\ SF_vars(FetchApply)

FairSpec == Spec /\ Fairness

-----------------------------------------------------------------------------
(* Properties.                                                             *)

Everywhere(s) == {s[i] : i \in 1..Len(s)}
InFlight ==
  Everywhere(calls) \cup Everywhere(queue) \cup Everywhere(wire)
    \cup {thread[t].event : t \in Threads} \cup {fetch.response}

\* Every versioned message, wherever it is, is the record as it was at that
\* revision: no writer mixes the fields of one state with the revision of
\* another.
EventsAreSnapshots ==
  \A event \in InFlight : event.rev # Unversioned => event = log[event.rev]

\* Between the write of an owned event and its delivery the run cannot be
\* revoked, so nothing of a revoked run is sent (pipeline_service.py:374).
PublicationIsFenced ==
  \A r \in Runs : thread[r].at = "deliver" => lease[r] /\ rec.run = r

\* A stream closes on a record at rest: "A queued terminal event from an older
\* run must not close the stream for the new run, even if it was emitted
\* before restart" (events.py:157-158).
ActiveTaskKeepsStream ==
  [][conn = "open" /\ conn' = "closed" => rec.state = "ended"]_vars

\* What the code does about it: a stream closes on a record at rest, or on an
\* event that carries no revision, and so is of no run.
OldRunDoesNotCloseStream ==
  [][conn = "open" /\ conn' = "closed" =>
       rec.state = "ended" \/ wire'[Len(wire')].rev = Unversioned]_vars

\* "A slow HTTP response must not undo a newer SSE state"
\* (taskStateVersion.js:1-2), nor a late event a newer response: unless the
\* user opens the task anew, what the client shows never goes back to an older
\* revision.
ScreenNeverGoesBack == [][shown'.rev >= shown.rev \/ OpenTask]_vars

\* Not even by opening the task anew, which shows the list's entry first.
OpenedTaskIsNoOlder == [][shown'.rev >= shown.rev]_vars

\* When the work is over, the client comes to show it, and nothing older than
\* it knows, whatever was dropped, reordered or cut off on the way.
ScreenCatchesUp ==
  rec.state = "ended" ~> (shown.state = "ended" /\ shown.rev >= latest) \/ rec.state = "active"
=============================================================================
