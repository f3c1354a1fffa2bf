-------------------------- MODULE TaskEventsProofs --------------------------
(***************************************************************************)
(* What reaches the screen, for every set of runs and all sizes of the     *)
(* queue, of the callbacks and of the wire.                                *)
(*                                                                         *)
(* The argument: the log holds the record of each revision, and the record *)
(* is its last entry (LogIsComplete), so a message copied from the record  *)
(* stays a snapshot for good (MessagesAreSnapshots).  Whoever is between   *)
(* check and delivery holds the run's lock (LockIsHeld); a lease is closed *)
(* by a holder, and another run starts only when every lease is closed, so *)
(* what is delivered is the record's run (Fenced).  A client that listens  *)
(* knows the revision on its screen, and a response that it waits for is   *)
(* not older than the screen or than what it knows (ScreenIsKnown).        *)
(***************************************************************************)
EXTENDS TaskEvents, TLAPS

LogIsComplete ==
  /\ log # <<>>
  /\ rec = log[Len(log)]
  /\ rec.rev = Len(log)
  /\ \A i \in 1..Len(log) : log[i].rev = i

IsSnapshot(event) ==
  event.rev # Unversioned => event.rev \in 1..Len(log) /\ event = log[event.rev]

Snapshots == {event \in Records : IsSnapshot(event)}

MessagesAreSnapshots ==
  /\ calls \in Seq(Snapshots) /\ queue \in Seq(Snapshots) /\ wire \in Seq(Snapshots)
  /\ \A t \in Threads : thread[t].event \in Snapshots
  /\ fetch.response \in Snapshots

Holding(t) ==
  thread[t].at \in {"locked", "updated"} \/ (thread[t].at = "deliver" /\ thread[t].run # NoRun)

LockIsHeld ==
  \A t \in Threads : Holding(t) => thread[t].run \in Runs /\ lock[thread[t].run] = t

\* A thread publishes for its own run, a job for none, and only a publication
\* of a run revokes.
ThreadsKnowTheirRun ==
  /\ \A r \in Runs : thread[r].at # "idle" => thread[r].run = r
  /\ thread["job"].run = NoRun
  /\ \A t \in Threads : thread[t].revoke => thread[t].run \in Runs

Fenced ==
  \A t \in Threads : thread[t].at = "deliver" /\ thread[t].run # NoRun =>
    lease[thread[t].run] /\ rec.run = thread[t].run

ScreenIsKnown ==
  /\ listening => latest >= shown.rev
  /\ conn # "none" => listening
  /\ conn = "none" => wire = <<>>
  /\ fetch.at = "read" => /\ fetch.response.rev # Unversioned
                          /\ fetch.response.rev >= shown.rev \/ latest >= shown.rev
  /\ shown.rev <= rec.rev /\ cached.rev <= rec.rev /\ latest <= rec.rev
  /\ cached.rev # Unversioned

IInv ==
  /\ TypeOK
  /\ LogIsComplete
  /\ MessagesAreSnapshots
  /\ LockIsHeld
  /\ ThreadsKnowTheirRun
  /\ Fenced
  /\ ScreenIsKnown

-----------------------------------------------------------------------------
(* Queues.                                                                 *)

LEMMA PutKeeps ==
  ASSUME NEW S, NEW q \in Seq(S), NEW event \in S
  PROVE  Put(q, event) \in Seq(S)
  <1>1. CASE Len(q) < QueueSize
    BY <1>1 DEF Put
  <1>2. CASE ~(Len(q) < QueueSize)
    <2>1. q # <<>>
      BY <1>2, BoundsAssumption
    <2>2. Tail(q) \in Seq(S)
      BY <2>1
    <2>3. QED
      BY <1>2, <2>2 DEF Put
  <1>3. QED
    BY <1>1, <1>2

LEMMA TakeKeeps ==
  ASSUME NEW S, NEW q \in Seq(S), q # <<>>
  PROVE  Head(q) \in S /\ Tail(q) \in Seq(S)
  OBVIOUS

LEMMA MoreKeeps ==
  ASSUME NEW S, NEW T, S \subseteq T, NEW q \in Seq(S)
  PROVE  q \in Seq(T)
  OBVIOUS

-----------------------------------------------------------------------------
(* The initial states.                                                     *)

LEMMA InitIInv == Init => IInv
  <1> SUFFICES ASSUME Init PROVE IInv
    OBVIOUS
  <1>1. PICK r \in Runs \cup {NoRun} :
          /\ rec = [rev |-> 1, run |-> r, state |-> "active"] /\ lease = [q \in Runs |-> q = r]
          /\ thread = [t \in Threads |-> IF t = "job" /\ r = NoRun THEN [Idle EXCEPT !.at = "working"] ELSE Idle]
    BY DEF Init
  <1>2. rec \in Records /\ None \in Records /\ rec.rev = 1
    BY <1>1 DEF Records, States, None, Unversioned
  <1>3. /\ log = <<rec>> /\ lock = [q \in Runs |-> "free"]
        /\ calls = <<>> /\ queue = <<>> /\ wire = <<>> /\ conn = "none" /\ last = 0
        /\ shown = rec /\ cached = rec /\ listening = TRUE /\ latest = 1 /\ fetch = Unread("none")
    BY DEF Init
  <1>4. /\ Idle.at = "idle" /\ Idle.run = NoRun /\ Idle.event = None /\ Idle.revoke = FALSE
        /\ [Idle EXCEPT !.at = "working"].at = "working" /\ [Idle EXCEPT !.at = "working"].run = NoRun
        /\ [Idle EXCEPT !.at = "working"].event = None /\ [Idle EXCEPT !.at = "working"].revoke = FALSE
    BY DEF Idle
  <1>5. thread \in [Threads -> [at: {"idle", "locked", "updated", "deliver", "working", "closing"},
                               event: Records, run: Runs \cup {NoRun}, revoke: BOOLEAN]]
    BY <1>1, <1>2 DEF Idle
  <1>6. fetch \in [at: {"none", "wanted", "read"}, response: Records] /\ fetch.at = "none" /\ fetch.response = None
    BY <1>2, <1>3 DEF Unread
  <1>7. TypeOK
    BY <1>1, <1>2, <1>3, <1>5, <1>6 DEF TypeOK
  <1>8. None \in Snapshots
    BY <1>2 DEF Snapshots, IsSnapshot, None, Unversioned
  <1>9. LogIsComplete
    BY <1>2, <1>3 DEF LogIsComplete
  <1>10. \A t \in Threads : /\ thread[t].event = None /\ thread[t].run = NoRun /\ ~thread[t].revoke
                            /\ thread[t].at \in {"idle", "working"} /\ (t # "job" => thread[t].at = "idle")
    BY <1>1, <1>4
  <1>11. MessagesAreSnapshots
    BY <1>3, <1>6, <1>8, <1>10 DEF MessagesAreSnapshots
  <1>12. LockIsHeld /\ ThreadsKnowTheirRun /\ Fenced
    BY <1>10, BoundsAssumption DEF LockIsHeld, Holding, ThreadsKnowTheirRun, Fenced, Threads
  <1>13. ScreenIsKnown
    BY <1>2, <1>3, <1>6 DEF ScreenIsKnown, Unversioned
  <1>14. QED
    BY <1>7, <1>9, <1>11, <1>12, <1>13 DEF IInv

-----------------------------------------------------------------------------
(* The log.                                                                *)

LEMMA WriteStep ==
  ASSUME IInv, NEW new \in Records, new.rev = rec.rev + 1, Write(new)
  PROVE  /\ rec' \in Records /\ log' \in Seq(Records) /\ LogIsComplete'
         /\ Snapshots \subseteq Snapshots' /\ new \in Snapshots' /\ rec'.rev >= rec.rev
  <1>1. /\ log \in Seq(Records) /\ rec.rev = Len(log) /\ rec' = new /\ log' = Append(log, new)
        /\ Len(log) \in Nat
    BY DEF IInv, TypeOK, LogIsComplete, Write
  <1>2. /\ log' \in Seq(Records) /\ Len(log') = Len(log) + 1 /\ log'[Len(log) + 1] = new
        /\ \A i \in 1..Len(log) : log'[i] = log[i]
    BY <1>1
  <1>3. \A i \in 1..Len(log) : log[i].rev = i
    BY DEF IInv, LogIsComplete
  <1>4. \A i \in 1..Len(log') : log'[i].rev = i
    BY <1>1, <1>2, <1>3
  <1>5. LogIsComplete'
    BY <1>1, <1>2, <1>4 DEF LogIsComplete
  <1>6. new \in Snapshots'
    BY <1>1, <1>2 DEF Snapshots, IsSnapshot, Unversioned
  <1>7. ASSUME NEW event \in Snapshots PROVE event \in Snapshots'
    BY <1>1, <1>2, <1>7 DEF Snapshots, IsSnapshot
  <1>8. QED
    BY <1>1, <1>2, <1>5, <1>6, <1>7

LEMMA RevisedIsRecord ==
  ASSUME IInv, NEW run \in Runs \cup {NoRun}, NEW state \in States
  PROVE  Revised(run, state) \in Records /\ Revised(run, state).rev = rec.rev + 1
  BY DEF IInv, TypeOK, Revised, Records

LEMMA RecordIsSnapshot == IInv => rec \in Snapshots
  <1> SUFFICES ASSUME IInv PROVE rec \in Snapshots
    OBVIOUS
  <1>1. rec \in Records /\ log \in Seq(Records) /\ log # <<>> /\ rec = log[Len(log)] /\ rec.rev = Len(log)
    BY DEF IInv, TypeOK, LogIsComplete
  <1>2. Len(log) \in Nat \ {0}
    BY <1>1
  <1>3. QED
    BY <1>1, <1>2 DEF Snapshots, IsSnapshot, Unversioned

LEMMA UnwrittenStep ==
  ASSUME IInv, UNCHANGED <<rec, log>>
  PROVE  /\ rec' \in Records /\ log' \in Seq(Records) /\ LogIsComplete' /\ Snapshots' = Snapshots
         /\ rec'.rev >= rec.rev
  BY DEF Records, IInv, TypeOK, LogIsComplete, Snapshots, IsSnapshot

LEMMA LogStep ==
  ASSUME IInv, [Next]_vars
  PROVE  /\ rec' \in Records /\ log' \in Seq(Records) /\ LogIsComplete'
         /\ Snapshots \subseteq Snapshots' /\ rec' \in Snapshots' /\ rec'.rev >= rec.rev
  <1> DEFINE Kept == /\ rec' \in Records /\ log' \in Seq(Records) /\ LogIsComplete'
                     /\ Snapshots \subseteq Snapshots' /\ rec' \in Snapshots' /\ rec'.rev >= rec.rev
  <1>1. ASSUME NEW new \in Records, new.rev = rec.rev + 1, Write(new) PROVE Kept
    BY <1>1, WriteStep DEF Write
  <1>2. ASSUME NEW t \in Threads, NEW state \in States, Update(t, state) \/ Persist(t, state) PROVE Kept
    <2>1. thread[t].run \in Runs \cup {NoRun}
      BY DEF IInv, TypeOK
    <2>2. Write(Revised(thread[t].run, state))
      BY <1>2 DEF Update, Persist
    <2>3. QED
      BY <1>1, <2>1, <2>2, RevisedIsRecord
  <1>3. ASSUME NEW r \in Runs, Start(r) PROVE Kept
    <2>1. Write(Revised(r, "active")) /\ "active" \in States
      BY <1>3 DEF Start, States
    <2>2. QED
      BY <1>1, <2>1, RevisedIsRecord
  <1>4. CASE UnownedWrite
    <2>1. [rec EXCEPT !.rev = @ + 1] \in Records /\ [rec EXCEPT !.rev = @ + 1].rev = rec.rev + 1
      <3>1. rec \in Records
        BY DEF IInv, TypeOK
      <3>2. QED
        BY <3>1 DEF Records
    <2>2. Write([rec EXCEPT !.rev = @ + 1])
      BY <1>4 DEF UnownedWrite
    <2>3. QED
      BY <1>1, <2>1, <2>2
  <1>5. ASSUME UNCHANGED <<rec, log>> PROVE Kept
    BY <1>5, UnwrittenStep, RecordIsSnapshot DEF Snapshots, IsSnapshot
  <1>6. ASSUME NEW t \in Threads, Refuse(t) \/ Deliver(t) PROVE Kept
    BY <1>5, <1>6 DEF Refuse, Deliver
  <1>7. ASSUME NEW r \in Runs, NEW t \in Threads, NEW revoke \in BOOLEAN, Lock(t, r, revoke) PROVE Kept
    BY <1>5, <1>7 DEF Lock
  <1>8. ASSUME Connect \/ Generator \/ Client PROVE Kept
    BY <1>5, <1>8 DEF Connect, Generator, Snapshot, Receive, Keepalive, Client, OnMessage, OnError,
                      FetchTasks, OpenTask, FetchRead, FetchApply, server
  <1>9. CASE RunCallback
    BY <1>5, <1>9 DEF RunCallback
  <1>10. CASE UNCHANGED vars
    BY <1>5, <1>10 DEF vars, server
  <1>11. ASSUME NEW t \in Threads PROVE Said(t) \in States
    BY DEF Said, States
  <1>12. CASE Job
    <2>1. rec \in Records /\ {"active", "ended", rec.state} \subseteq States /\ rec.run \in Runs \cup {NoRun}
      BY DEF IInv, TypeOK, Records, States
    <2>2. PICK state \in States : Write(Revised(rec.run, state))
      BY <1>12, <2>1 DEF Job, JobStart, JobEnds, JobCloses
    <2>3. QED
      BY <1>1, <2>1, <2>2, RevisedIsRecord
  <1>13. QED
    BY <1>2, <1>3, <1>4, <1>6, <1>7, <1>8, <1>9, <1>10, <1>11, <1>12 DEF Next, Begin, Proceed, Threads

-----------------------------------------------------------------------------
(* Messages.                                                               *)

ThreadState == [at: {"idle", "locked", "updated", "deliver", "working", "closing"}, event: Records,
                run: Runs \cup {NoRun}, revoke: BOOLEAN]

FetchState == [at: {"none", "wanted", "read"}, response: Records]

\* Parts of what a step of the stream does, one sequence at a time.
LEMMA SendKeeps ==
  ASSUME wire \in Seq(Snapshots), NEW event \in Snapshots, Send(event)
  PROVE  wire' \in Seq(Snapshots)
  BY DEF Send

LEMMA ReconciledIsSnapshot ==
  ASSUME IInv, NEW event \in Snapshots, Reconciled(event) # Dropped
  PROVE  Reconciled(event) \in Snapshots
  BY RecordIsSnapshot DEF Reconciled

LEMMA NoneIsSnapshot == None \in Snapshots /\ Closing \in Snapshots
  BY DEF Snapshots, IsSnapshot, None, Closing, Unversioned, Records, States

LEMMA UnreadIsEmpty ==
  ASSUME NEW at \in {"none", "wanted"}
  PROVE  Unread(at) \in FetchState /\ Unread(at).at = at /\ Unread(at).response = None
  BY NoneIsSnapshot DEF Unread, FetchState, Snapshots

\* The three things that a message can do.
LEMMA OnMessageStep ==
  ASSUME OnMessage
  PROVE  /\ wire # <<>> /\ UNCHANGED server
         /\ \/ ~AcceptTaskState(Head(wire)) /\ wire' = Tail(wire) /\ UNCHANGED <<conn, queue, last, client>>
            \/ /\ AcceptTaskState(Head(wire)) /\ Show(Head(wire)) /\ cached' \in {cached, Merged(cached, Head(wire))}
               /\ \/ fetch' = Unread("wanted") /\ listening' = FALSE /\ Disconnect
                  \/ /\ fetch' \in {fetch, Unread("none")} /\ listening' = (listening /\ TRUE)
                     /\ wire' = Tail(wire) /\ UNCHANGED <<conn, queue, last>>
  <1>1. CASE ~AcceptTaskState(Head(wire))
    BY <1>1 DEF OnMessage
  <1>2. CASE AcceptTaskState(Head(wire)) /\ Head(wire).state = "ended"
    BY <1>2 DEF OnMessage
  <1>3. CASE AcceptTaskState(Head(wire)) /\ Head(wire).state # "ended"
    BY <1>3 DEF OnMessage
  <1>4. QED
    BY <1>1, <1>2, <1>3

LEMMA EmitKeeps ==
  ASSUME IInv, NEW t, NEW event \in Snapshots, Emit(t, event)
  PROVE  calls' \in Seq(Snapshots) /\ queue' \in Seq(Snapshots)
  <1>1. calls \in Seq(Snapshots) /\ queue \in Seq(Snapshots)
    BY DEF IInv, MessagesAreSnapshots
  <1>2. Append(calls, event) \in Seq(Snapshots) /\ Put(queue, event) \in Seq(Snapshots)
    BY <1>1, PutKeeps
  <1>3. /\ queue' \in {queue, Put(queue, event)}
        /\ calls' \in {calls, Append(calls, event)}
    BY DEF Emit
  <1>4. QED
    BY <1>1, <1>2, <1>3

LEMMA MessageStep ==
  ASSUME IInv, [Next]_vars
  PROVE  MessagesAreSnapshots'
  <1> DEFINE EventsKept == \A t \in Threads : thread'[t].event \in Snapshots'
             Kept(s)    == s' \in Seq(Snapshots)
  <1> USE DEF MessagesAreSnapshots
  <1>0. /\ MessagesAreSnapshots /\ Snapshots \subseteq Snapshots' /\ rec \in Snapshots /\ rec' \in Snapshots'
    BY LogStep, RecordIsSnapshot DEF IInv
  <1>1. /\ calls \in Seq(Snapshots') /\ queue \in Seq(Snapshots') /\ wire \in Seq(Snapshots')
        /\ fetch.response \in Snapshots' /\ \A t \in Threads : thread[t].event \in Snapshots'
    BY <1>0, MoreKeeps
  <1>2. thread \in [Threads -> ThreadState] /\ fetch \in FetchState
    BY DEF IInv, TypeOK, ThreadState, FetchState
  <1>3. None \in Snapshots' /\ Closing \in Snapshots'
    BY <1>0, NoneIsSnapshot
  <1>4. ASSUME NEW r \in Runs, NEW t \in Threads, NEW revoke \in BOOLEAN, Lock(t, r, revoke)
        PROVE  MessagesAreSnapshots'
    <2>1. EventsKept
      BY <1>0, <1>1, <1>2, <1>4 DEF Lock
    <2>2. QED
      BY <1>1, <1>4, <2>1 DEF Lock, stream, client
  <1>5. ASSUME NEW t \in Threads, Refuse(t) PROVE MessagesAreSnapshots'
    <2>1. EventsKept
      BY <1>1, <1>2, <1>3, <1>5 DEF Refuse, Idle
    <2>2. QED
      BY <1>1, <1>5, <2>1 DEF Refuse, stream, client
  <1>6. ASSUME NEW t \in Threads, NEW state \in States, Update(t, state) PROVE MessagesAreSnapshots'
    <2>1. \/ thread' = [thread EXCEPT ![t] = [thread[t] EXCEPT !.at = "updated"]]
          \/ thread' = [thread EXCEPT ![t] = Idle]
      BY <1>6 DEF Update
    <2>2. Idle.event = None /\ [thread[t] EXCEPT !.at = "updated"].event = thread[t].event
      BY <1>2 DEF Idle, ThreadState
    <2>3. EventsKept
      BY <1>1, <1>2, <1>3, <2>1, <2>2
    <2>4. QED
      BY <1>1, <1>6, <2>3 DEF Update, stream, client
  <1>7. ASSUME NEW t \in Threads, NEW state \in States, Persist(t, state) PROVE MessagesAreSnapshots'
    <2>1. thread' = [thread EXCEPT ![t].at = "deliver", ![t].event = rec']
      BY <1>7 DEF Persist, OwnedEvent, Write
    <2>2. EventsKept
      BY <1>0, <1>1, <1>2, <2>1
    <2>3. QED
      BY <1>1, <1>7, <2>2 DEF Persist, stream, client
  <1>8. ASSUME NEW t \in Threads, Deliver(t) PROVE MessagesAreSnapshots'
    <2>1. EventsKept
      BY <1>1, <1>2, <1>3, <1>8 DEF Deliver, Idle
    <2>2. calls' \in Seq(Snapshots) /\ queue' \in Seq(Snapshots)
      BY <1>0, <1>8, EmitKeeps DEF Deliver
    <2>3. calls' \in Seq(Snapshots') /\ queue' \in Seq(Snapshots')
      BY <1>0, <2>2, MoreKeeps
    <2>4. QED
      BY <1>1, <1>8, <2>1, <2>3 DEF Deliver, client
  <1>9. ASSUME NEW r \in Runs, Start(r) PROVE MessagesAreSnapshots'
    <2>1. /\ thread' = [thread EXCEPT !["loop"] = [Idle EXCEPT !.at = "deliver", !.event = rec']]
          /\ fetch' = Unread("wanted") /\ UNCHANGED <<calls, stream>>
      BY <1>9 DEF Start
    <2>2. EventsKept
      BY <1>0, <1>1, <1>2, <2>1 DEF Idle, ThreadState
    <2>3. fetch'.response \in Snapshots'
      BY <1>3, <2>1, UnreadIsEmpty
    <2>4. QED
      BY <1>1, <2>1, <2>2, <2>3 DEF stream
  <1>10. CASE UnownedWrite
    <2>1. EventsKept
      BY <1>1, <1>2, <1>3, <1>10 DEF UnownedWrite, Idle
    <2>2. QED
      BY <1>1, <1>10, <2>1 DEF UnownedWrite, stream, client
  <1>11. CASE RunCallback
    <2>1. Head(calls) \in Snapshots /\ Tail(calls) \in Seq(Snapshots)
      BY <1>0, <1>11, TakeKeeps DEF RunCallback
    <2>2. calls' \in Seq(Snapshots) /\ queue' \in Seq(Snapshots)
      BY <1>0, <1>11, <2>1, PutKeeps DEF RunCallback
    <2>3. calls' \in Seq(Snapshots') /\ queue' \in Seq(Snapshots')
      BY <1>0, <2>2, MoreKeeps
    <2>4. QED
      BY <1>1, <1>11, <2>3 DEF RunCallback, client
  <1>12. CASE Receive
    <2>1. Head(queue) \in Snapshots /\ queue' \in Seq(Snapshots)
      BY <1>0, <1>12, TakeKeeps DEF Receive
    <2>2. wire' \in Seq(Snapshots)
      <3>1. CASE UNCHANGED wire
        BY <1>0, <3>1
      <3>2. CASE Reconciled(Head(queue)) # Dropped /\ Send(Reconciled(Head(queue)))
        BY <1>0, <2>1, <3>2, ReconciledIsSnapshot, SendKeeps
      <3>3. QED
        BY <1>12, <3>1, <3>2 DEF Receive
    <2>3. queue' \in Seq(Snapshots') /\ wire' \in Seq(Snapshots')
      BY <1>0, <2>1, <2>2, MoreKeeps
    <2>4. QED
      BY <1>1, <1>12, <2>3 DEF Receive, server, client
  <1>13. CASE Connect
    BY <1>1, <1>13 DEF Connect, server, client
  <1>14. ASSUME Snapshot \/ Keepalive PROVE MessagesAreSnapshots'
    <2>1. wire' \in Seq(Snapshots)
      BY <1>0, <1>14, SendKeeps DEF Snapshot, Keepalive, Reconcile
    <2>2. wire' \in Seq(Snapshots')
      BY <1>0, <2>1, MoreKeeps
    <2>3. QED
      BY <1>1, <1>14, <2>2 DEF Snapshot, Keepalive, server, client
  <1>15. CASE OnMessage
    <2>1. <<>> \in Seq(Snapshots') /\ Tail(wire) \in Seq(Snapshots')
      BY <1>1, <1>15, OnMessageStep, TakeKeeps
    <2>2. wire' \in {<<>>, Tail(wire)} /\ queue' \in {<<>>, queue}
      BY <1>15, OnMessageStep DEF Disconnect
    <2>3. fetch' \in {fetch, Unread("none"), Unread("wanted")}
      BY <1>15, OnMessageStep DEF client
    <2>4. fetch'.response \in Snapshots'
      BY <1>1, <1>3, <2>3, UnreadIsEmpty
    <2>5. UNCHANGED server
      BY <1>15, OnMessageStep
    <2>6. QED
      BY <1>1, <2>1, <2>2, <2>4, <2>5 DEF server
  <1>16. CASE OnError
    BY <1>1, <1>16 DEF OnError, Disconnect, server, client
  <1>17. CASE FetchRead
    <2>1. fetch'.response = rec /\ rec \in Snapshots'
      BY <1>0, <1>17 DEF FetchRead
    <2>2. QED
      BY <1>1, <1>17, <2>1 DEF FetchRead, server, stream
  <1>18. ASSUME FetchApply \/ OpenTask PROVE MessagesAreSnapshots'
    <2>1. fetch'.response \in Snapshots'
      BY <1>3, <1>18, UnreadIsEmpty DEF FetchApply, OpenTask
    <2>2. QED
      BY <1>1, <1>18, <2>1 DEF FetchApply, OpenTask, server, stream
  <1>19. CASE FetchTasks
    BY <1>1, <1>19 DEF FetchTasks, server, stream
  <1>20. CASE Job
    <2>1. ASSUME JobStart PROVE MessagesAreSnapshots'
      <3>1. /\ thread' = [thread EXCEPT !["job"] = [Idle EXCEPT !.at = "working"],
                                        !["loop"] = [Idle EXCEPT !.at = "deliver"]]
            /\ UNCHANGED <<calls, stream, fetch>>
        BY <2>1 DEF JobStart
      <3>2. EventsKept
        BY <1>1, <1>2, <1>3, <3>1 DEF Idle
      <3>3. QED
        BY <1>1, <3>1, <3>2 DEF stream
    <2>2. ASSUME JobEnds PROVE MessagesAreSnapshots'
      <3>1. thread' = [thread EXCEPT !["job"] = [thread["job"] EXCEPT !.at = "closing"]]
            /\ UNCHANGED <<calls, stream, client>>
        BY <2>2 DEF JobEnds
      <3>2. "job" \in Threads /\ [thread["job"] EXCEPT !.at = "closing"].event = thread["job"].event
        BY <1>2 DEF Threads, ThreadState
      <3>3. EventsKept
        BY <1>1, <1>2, <3>1, <3>2
      <3>4. QED
        BY <1>1, <3>1, <3>3 DEF stream, client
    <2>3. ASSUME JobCloses PROVE MessagesAreSnapshots'
      <3>1. thread' = [thread EXCEPT !["job"] = [Idle EXCEPT !.at = "deliver", !.event = Closing]]
            /\ UNCHANGED <<calls, stream, client>>
        BY <2>3 DEF JobCloses
      <3>2. [Idle EXCEPT !.at = "deliver", !.event = Closing].event = Closing
        BY DEF Idle
      <3>3. EventsKept
        BY <1>1, <1>2, <1>3, <3>1, <3>2
      <3>4. QED
        BY <1>1, <3>1, <3>3 DEF stream, client
    <2>4. QED
      BY <1>20, <2>1, <2>2, <2>3 DEF Job
  <1>21. CASE UNCHANGED vars
    BY <1>1, <1>21 DEF vars, server, stream, client
  <1>22. ASSUME NEW t \in Threads PROVE Said(t) \in States
    BY DEF Said, States
  <1>23. QED
    BY <1>4, <1>5, <1>6, <1>7, <1>8, <1>9, <1>10, <1>11, <1>12, <1>13, <1>14, <1>15, <1>16, <1>17,
       <1>18, <1>19, <1>20, <1>21, <1>22 DEF Next, Begin, Proceed, Generator, Client, Threads

-----------------------------------------------------------------------------
(* Locks and leases.                                                       *)

ServerOK ==
  /\ lease \in [Runs -> BOOLEAN]
  /\ lock \in [Runs -> Threads \cup {"free"}]
  /\ thread \in [Threads -> ThreadState]
  /\ LockIsHeld /\ ThreadsKnowTheirRun /\ Fenced

LEMMA Names ==
  /\ NoRun \notin Runs /\ {"loop", "reader", "job"} \cap Runs = {} /\ "free" \notin Threads
  /\ Runs \subseteq Threads /\ {"loop", "reader", "job"} \subseteq Threads
  /\ "loop" \notin Runs /\ "reader" \notin Runs /\ "job" \notin Runs
  /\ "loop" \in Threads /\ "reader" \in Threads /\ "job" \in Threads
  BY BoundsAssumption DEF Threads

LEMMA IdleIsState == Idle \in ThreadState /\ Idle.at = "idle" /\ ~Idle.revoke /\ Idle.run = NoRun
  BY NoneIsSnapshot DEF Idle, ThreadState, Snapshots

\* A thread that is done, and gives its run's lock back, leaves the others alone.
LEMMA ReleaseStep ==
  ASSUME IInv, NEW t \in Threads, thread' = [thread EXCEPT ![t] = Idle],
         thread[t].run # NoRun, Holding(t),
         lock' = Unlocked(t, thread[t].run), rec'.run = rec.run,
         lease' = lease \/ lease' = [lease EXCEPT ![thread[t].run] = FALSE]
  PROVE  ServerOK'
  <1> DEFINE r == thread[t].run
  <1>1. /\ lease \in [Runs -> BOOLEAN] /\ lock \in [Runs -> Threads \cup {"free"}]
        /\ thread \in [Threads -> ThreadState] /\ LockIsHeld /\ ThreadsKnowTheirRun /\ Fenced
    BY DEF IInv, TypeOK, ThreadState
  <1>2. r \in Runs /\ lock[r] = t /\ lock' = [lock EXCEPT ![r] = "free"]
    BY <1>1 DEF LockIsHeld, Holding, ThreadState, Unlocked
  <1>3. /\ thread' \in [Threads -> ThreadState] /\ thread'[t] = Idle
        /\ \A u \in Threads \ {t} : thread'[u] = thread[u]
    BY <1>1, IdleIsState
  <1>4. lease' \in [Runs -> BOOLEAN] /\ lock' \in [Runs -> Threads \cup {"free"}]
    BY <1>1, <1>2
  <1>5. ASSUME NEW u \in Threads \ {t}, Holding(u)
        PROVE  thread[u].run \in Runs /\ lock[thread[u].run] = u /\ thread[u].run # r
    BY <1>1, <1>2, <1>5 DEF LockIsHeld
  <1>6. LockIsHeld'
    BY <1>1, <1>2, <1>3, <1>5, IdleIsState DEF LockIsHeld, Holding
  <1>7. ThreadsKnowTheirRun'
    BY <1>1, <1>3, IdleIsState, Names DEF ThreadsKnowTheirRun
  <1>8. Fenced'
    <2>1. ASSUME NEW u \in Threads \ {t}, thread[u].at = "deliver", thread[u].run # NoRun
          PROVE  lease'[thread[u].run] /\ rec'.run = thread[u].run
      BY <1>1, <1>2, <1>5, <2>1 DEF Holding, Fenced
    <2>2. QED
      BY <1>3, <2>1, IdleIsState DEF Fenced
  <1>9. QED
    BY <1>3, <1>4, <1>6, <1>7, <1>8 DEF ServerOK

\* A thread that goes on with the lock that it holds.
LEMMA ProceedStep ==
  ASSUME IInv, NEW t \in Threads, NEW state \in ThreadState, thread' = [thread EXCEPT ![t] = state],
         state.run = thread[t].run, state.revoke = thread[t].revoke, thread[t].at \in {"locked", "updated"},
         state.at \in {"updated", "deliver"}, UNCHANGED <<lock, lease>>, Accepts(thread[t].run), rec'.run = rec.run
  PROVE  ServerOK'
  <1>1. /\ lease \in [Runs -> BOOLEAN] /\ lock \in [Runs -> Threads \cup {"free"}]
        /\ thread \in [Threads -> ThreadState] /\ LockIsHeld /\ ThreadsKnowTheirRun /\ Fenced
    BY DEF IInv, TypeOK, ThreadState
  <1>2. /\ thread' \in [Threads -> ThreadState] /\ thread'[t] = state
        /\ \A u \in Threads \ {t} : thread'[u] = thread[u]
    BY <1>1
  <1>3. LockIsHeld'
    BY <1>1, <1>2 DEF LockIsHeld, Holding
  <1>4. ThreadsKnowTheirRun'
    BY <1>1, <1>2, Names DEF ThreadsKnowTheirRun
  <1>5. Fenced'
    BY <1>1, <1>2 DEF Fenced, Accepts
  <1>6. QED
    BY <1>1, <1>2, <1>3, <1>4, <1>5 DEF ServerOK

\* Threads that go on with an event of no run, or with a job.
LEMMA UnownedStep ==
  ASSUME IInv, NEW T \in SUBSET {"loop", "reader", "job"}, thread' \in [Threads -> ThreadState],
         \A u \in Threads \ T : thread'[u] = thread[u],
         \A u \in T : /\ thread'[u].run = NoRun /\ ~thread'[u].revoke
                      /\ thread'[u].at \in {"idle", "deliver", "working", "closing"},
         UNCHANGED lock,
         \/ UNCHANGED lease /\ rec'.run = rec.run
         \/ (\A q \in Runs : ~lease[q]) /\ lease' \in [Runs -> BOOLEAN]
  PROVE  ServerOK'
  <1>1. /\ lease \in [Runs -> BOOLEAN] /\ lock \in [Runs -> Threads \cup {"free"}]
        /\ thread \in [Threads -> ThreadState] /\ LockIsHeld /\ ThreadsKnowTheirRun /\ Fenced
    BY DEF IInv, TypeOK, ThreadState
  <1>2. LockIsHeld'
    BY <1>1 DEF LockIsHeld, Holding
  <1>3. ThreadsKnowTheirRun'
    BY <1>1, Names DEF ThreadsKnowTheirRun
  <1>4. Fenced'
    <2>1. ASSUME NEW u \in Threads, thread'[u].at = "deliver", thread'[u].run # NoRun
          PROVE  lease'[thread'[u].run] /\ rec'.run = thread'[u].run
      <3>1. thread'[u] = thread[u] /\ thread[u].run \in Runs
        BY <1>1, <2>1 DEF LockIsHeld, Holding
      <3>2. lease[thread[u].run] /\ rec.run = thread[u].run
        BY <1>1, <2>1, <3>1 DEF Fenced
      <3>3. QED
        BY <3>1, <3>2
    <2>2. QED
      BY <2>1 DEF Fenced
  <1>5. QED
    BY <1>1, <1>2, <1>3, <1>4 DEF ServerOK

LEMMA UnownedThreadStep ==
  ASSUME IInv, NEW t \in {"loop", "reader", "job"}, NEW state \in ThreadState, thread' = [thread EXCEPT ![t] = state],
         state.run = NoRun, ~state.revoke, state.at \in {"idle", "deliver", "working", "closing"}, UNCHANGED lock,
         \/ UNCHANGED lease /\ rec'.run = rec.run
         \/ (\A q \in Runs : ~lease[q]) /\ lease' \in [Runs -> BOOLEAN]
  PROVE  ServerOK'
  <1>1. thread \in [Threads -> ThreadState]
    BY DEF IInv, TypeOK, ThreadState
  <1>2. /\ thread' \in [Threads -> ThreadState] /\ thread'[t] = state
        /\ \A u \in Threads \ {t} : thread'[u] = thread[u]
    BY <1>1, Names
  <1>3. {t} \in SUBSET {"loop", "reader", "job"}
    OBVIOUS
  <1>4. \A u \in {t} : /\ thread'[u].run = NoRun /\ ~thread'[u].revoke
                       /\ thread'[u].at \in {"idle", "deliver", "working", "closing"}
    BY <1>2
  <1>5. QED
    BY <1>2, <1>3, <1>4, UnownedStep

LEMMA LockStep ==
  ASSUME IInv, NEW r \in Runs, NEW t \in Threads, NEW revoke \in BOOLEAN, Lock(t, r, revoke),
         t \in Runs => ~revoke
  PROVE  ServerOK'
  <1> DEFINE state == [at |-> "locked", event |-> rec, run |-> r, revoke |-> revoke]
  <1>1. /\ lease \in [Runs -> BOOLEAN] /\ lock \in [Runs -> Threads \cup {"free"}]
        /\ thread \in [Threads -> ThreadState] /\ LockIsHeld /\ ThreadsKnowTheirRun /\ Fenced
        /\ rec \in Records
    BY DEF IInv, TypeOK, ThreadState
  <1>2. /\ t \in {r, "loop"} /\ lock[r] = "free" /\ lock' = [lock EXCEPT ![r] = t]
        /\ thread' = [thread EXCEPT ![t] = state] /\ UNCHANGED <<rec, lease>>
    BY DEF Lock, MayLock
  <1>3. state \in ThreadState
    BY <1>1 DEF ThreadState
  <1>4. /\ thread' \in [Threads -> ThreadState] /\ thread'[t] = state
        /\ \A u \in Threads \ {t} : thread'[u] = thread[u]
    BY <1>1, <1>2, <1>3
  <1>5. lock' \in [Runs -> Threads \cup {"free"}]
    BY <1>1, <1>2
  <1>6. LockIsHeld'
    <2>1. ASSUME NEW u \in Threads \ {t}, Holding(u)
          PROVE  thread[u].run \in Runs /\ lock[thread[u].run] = u /\ thread[u].run # r
      BY <1>1, <1>2, <2>1, Names DEF LockIsHeld
    <2>2. QED
      BY <1>1, <1>2, <1>4, <2>1 DEF LockIsHeld, Holding
  <1>7. ThreadsKnowTheirRun'
    BY <1>1, <1>2, <1>4, Names DEF ThreadsKnowTheirRun
  <1>8. Fenced'
    BY <1>1, <1>2, <1>4 DEF Fenced
  <1>9. QED
    BY <1>1, <1>2, <1>4, <1>5, <1>6, <1>7, <1>8 DEF ServerOK

LEMMA ServerStep ==
  ASSUME IInv, [Next]_vars
  PROVE  ServerOK'
  <1>1. /\ lease \in [Runs -> BOOLEAN] /\ lock \in [Runs -> Threads \cup {"free"}]
        /\ thread \in [Threads -> ThreadState] /\ LockIsHeld /\ ThreadsKnowTheirRun /\ Fenced
        /\ rec \in Records /\ ServerOK
    BY DEF IInv, TypeOK, ThreadState, ServerOK
  <1>2. ASSUME NEW r \in Runs, NEW t \in Threads, NEW revoke \in BOOLEAN, Lock(t, r, revoke),
               t \in Runs => ~revoke
        PROVE  ServerOK'
    BY <1>2, LockStep
  <1>3. ASSUME NEW t \in Threads, Refuse(t) PROVE ServerOK'
    <2>1. thread[t].run \in Runs
      BY <1>1, <1>3 DEF Refuse, LockIsHeld, Holding
    <2>2. /\ thread' = [thread EXCEPT ![t] = Idle] /\ lock' = Unlocked(t, thread[t].run)
          /\ Holding(t) /\ rec' = rec
          /\ (lease' = lease \/ lease' = [lease EXCEPT ![thread[t].run] = FALSE])
      BY <1>3 DEF Refuse, Holding
    <2>3. QED
      BY <2>1, <2>2, Names, ReleaseStep
  <1>4. ASSUME NEW t \in Threads, NEW state, Update(t, state) PROVE ServerOK'
    <2>1. thread[t].run \in Runs /\ thread[t] \in ThreadState
      BY <1>1, <1>4 DEF Update, LockIsHeld, Holding
    <2>2. thread[t].at = "locked" /\ Accepts(thread[t].run) /\ rec'.run = thread[t].run /\ UNCHANGED lease
      BY <1>4 DEF Update, Write, Revised
    <2>3. CASE thread[t].revoke
      <3>1. thread' = [thread EXCEPT ![t] = [thread[t] EXCEPT !.at = "updated"]] /\ UNCHANGED lock
        BY <1>4, <2>3 DEF Update
      <3>2. [thread[t] EXCEPT !.at = "updated"] \in ThreadState
        BY <2>1 DEF ThreadState
      <3>3. /\ [thread[t] EXCEPT !.at = "updated"].at = "updated"
            /\ [thread[t] EXCEPT !.at = "updated"].run = thread[t].run
            /\ [thread[t] EXCEPT !.at = "updated"].revoke = thread[t].revoke
        BY <2>1 DEF ThreadState
      <3>4. rec'.run = rec.run
        BY <2>2 DEF Accepts
      <3>5. QED
        BY <2>2, <3>1, <3>2, <3>3, <3>4, ProceedStep
    <2>4. CASE ~thread[t].revoke
      <3>1. thread' = [thread EXCEPT ![t] = Idle] /\ lock' = Unlocked(t, thread[t].run)
        BY <1>4, <2>4 DEF Update
      <3>2. rec'.run = rec.run /\ Holding(t) /\ thread[t].run # NoRun
        BY <2>1, <2>2, Names DEF Accepts, Holding
      <3>3. QED
        BY <2>2, <3>1, <3>2, ReleaseStep
    <2>5. QED
      BY <2>3, <2>4
  <1>5. ASSUME NEW t \in Threads, NEW state \in States, Persist(t, state) PROVE ServerOK'
    <2>1. thread[t].run \in Runs /\ thread[t] \in ThreadState
      BY <1>1, <1>5 DEF Persist, LockIsHeld, Holding
    <2>2. /\ thread[t].at \in {"locked", "updated"} /\ Accepts(thread[t].run)
          /\ rec' = Revised(thread[t].run, state) /\ UNCHANGED <<lease, lock>>
          /\ thread' = [thread EXCEPT ![t] = [thread[t] EXCEPT !.at = "deliver", !.event = rec']]
      BY <1>1, <1>5 DEF Persist, Write, OwnedEvent
    <2>3. rec' \in Records
      BY LogStep
    <2>4. [thread[t] EXCEPT !.at = "deliver", !.event = rec'] \in ThreadState
      BY <2>1, <2>3 DEF ThreadState
    <2>5. /\ [thread[t] EXCEPT !.at = "deliver", !.event = rec'].at = "deliver"
          /\ [thread[t] EXCEPT !.at = "deliver", !.event = rec'].run = thread[t].run
          /\ [thread[t] EXCEPT !.at = "deliver", !.event = rec'].revoke = thread[t].revoke
      BY <2>1 DEF ThreadState
    <2>6. rec'.run = rec.run
      BY <2>2 DEF Accepts, Revised
    <2>7. QED
      BY <2>2, <2>4, <2>5, <2>6, ProceedStep
  <1>6. ASSUME NEW t \in Threads, Deliver(t) PROVE ServerOK'
    <2>1. /\ thread[t].at = "deliver" /\ thread' = [thread EXCEPT ![t] = Idle] /\ UNCHANGED rec
      BY <1>6 DEF Deliver
    <2>2. CASE thread[t].run = NoRun
      <3>1. t \in {"loop", "reader", "job"} /\ ~thread[t].revoke
        BY <1>1, <2>1, <2>2, Names DEF ThreadsKnowTheirRun, Threads
      <3>2. UNCHANGED <<lease, lock>>
        BY <1>6, <2>2, <3>1 DEF Deliver
      <3>3. QED
        BY <2>1, <3>1, <3>2, IdleIsState, UnownedThreadStep
    <2>3. CASE thread[t].run # NoRun
      <3>1. /\ lock' = Unlocked(t, thread[t].run)
            /\ lease' = lease \/ lease' = [lease EXCEPT ![thread[t].run] = FALSE]
        BY <1>6, <2>3 DEF Deliver
      <3>2. Holding(t)
        BY <2>1, <2>3 DEF Holding
      <3>3. QED
        BY <2>1, <2>3, <3>1, <3>2, ReleaseStep
    <2>4. QED
      BY <2>2, <2>3
  <1>7. ASSUME NEW r \in Runs, Start(r) PROVE ServerOK'
    <2> DEFINE state == [Idle EXCEPT !.at = "deliver", !.event = rec']
    <2>1. /\ thread["loop"] = Idle /\ thread' = [thread EXCEPT !["loop"] = state]
          /\ (\A q \in Runs : ~lease[q]) /\ lease' = [lease EXCEPT ![r] = TRUE] /\ UNCHANGED lock
      BY <1>7 DEF Start, LoopIsFree
    <2>2. rec' \in Records
      BY LogStep
    <2>3. state \in ThreadState /\ state.run = NoRun /\ ~state.revoke /\ state.at = "deliver"
      BY <2>2 DEF ThreadState, Idle
    <2>4. lease' \in [Runs -> BOOLEAN]
      BY <1>1, <2>1
    <2> HIDE DEF state
    <2>5. QED
      BY <2>1, <2>3, <2>4, UnownedThreadStep
  <1>8. CASE UnownedWrite
    <2> DEFINE state == [Idle EXCEPT !.at = "deliver"]
    <2>1. thread' = [thread EXCEPT !["reader"] = state] /\ UNCHANGED <<lease, lock>>
      BY <1>8 DEF UnownedWrite
    <2>2. rec'.run = rec.run
      BY <1>1, <1>8 DEF UnownedWrite, Write, Records
    <2>3. state \in ThreadState /\ state.run = NoRun /\ ~state.revoke /\ state.at = "deliver"
      BY IdleIsState DEF ThreadState, Idle
    <2> HIDE DEF state
    <2>4. QED
      BY <2>1, <2>2, <2>3, UnownedThreadStep
  <1>9. ASSUME UNCHANGED <<rec, lease, lock, thread>> PROVE ServerOK'
    BY <1>1, <1>9 DEF ServerOK, LockIsHeld, Holding, ThreadsKnowTheirRun, Fenced
  <1>10. ASSUME Connect \/ Generator \/ Client PROVE ServerOK'
    <2>1. UNCHANGED server
      BY <1>10, OnMessageStep DEF Connect, Generator, Snapshot, Receive, Keepalive, Client, OnError,
                                  FetchTasks, OpenTask, FetchRead, FetchApply
    <2>2. QED
      BY <1>9, <2>1 DEF server
  <1>11. CASE RunCallback
    BY <1>9, <1>11 DEF RunCallback
  <1>12. CASE UNCHANGED vars
    BY <1>9, <1>12 DEF vars, server
  <1>13. ASSUME NEW t \in Threads PROVE Said(t) \in States
    BY DEF Said, States
  <1>14. ASSUME NEW r \in Runs, Begin(r) PROVE ServerOK'
    BY <1>2, <1>14, Names DEF Begin
  <1>15. CASE Job
    <2>1. rec'.run = rec.run /\ UNCHANGED <<lease, lock>>
      BY <1>1, <1>15 DEF Job, JobStart, JobEnds, JobCloses, Write, Revised
    <2>2. CASE JobStart
      <3> DEFINE working == [Idle EXCEPT !.at = "working"]
                 deliver == [Idle EXCEPT !.at = "deliver"]
      <3>1. thread' = [thread EXCEPT !["job"] = working, !["loop"] = deliver]
        BY <2>2 DEF JobStart
      <3>2. /\ working \in ThreadState /\ working.run = NoRun /\ ~working.revoke /\ working.at = "working"
            /\ deliver \in ThreadState /\ deliver.run = NoRun /\ ~deliver.revoke /\ deliver.at = "deliver"
        BY IdleIsState DEF ThreadState, Idle
      <3> HIDE DEF working, deliver
      <3>3. /\ thread' \in [Threads -> ThreadState] /\ thread'["job"] = working /\ thread'["loop"] = deliver
            /\ \A u \in Threads \ {"job", "loop"} : thread'[u] = thread[u]
        BY <1>1, <3>1, <3>2, Names
      <3>4. {"job", "loop"} \in SUBSET {"loop", "reader", "job"}
        OBVIOUS
      <3>5. \A u \in {"job", "loop"} : /\ thread'[u].run = NoRun /\ ~thread'[u].revoke
                                       /\ thread'[u].at \in {"idle", "deliver", "working", "closing"}
        BY <3>2, <3>3
      <3>6. QED
        BY <2>1, <3>3, <3>4, <3>5, UnownedStep
    <2>3. CASE JobEnds
      <3> DEFINE state == [thread["job"] EXCEPT !.at = "closing"]
      <3>1. thread' = [thread EXCEPT !["job"] = state]
        BY <2>3 DEF JobEnds
      <3>2. thread["job"] \in ThreadState /\ thread["job"].run = NoRun /\ ~thread["job"].revoke
        BY <1>1, Names DEF ThreadsKnowTheirRun
      <3>3. state \in ThreadState /\ state.run = NoRun /\ ~state.revoke /\ state.at = "closing"
        BY <3>2 DEF ThreadState
      <3> HIDE DEF state
      <3>4. QED
        BY <2>1, <3>1, <3>3, UnownedThreadStep
    <2>4. CASE JobCloses
      <3> DEFINE state == [Idle EXCEPT !.at = "deliver", !.event = Closing]
      <3>1. thread' = [thread EXCEPT !["job"] = state]
        BY <2>4 DEF JobCloses
      <3>2. state \in ThreadState /\ state.run = NoRun /\ ~state.revoke /\ state.at = "deliver"
        BY IdleIsState, NoneIsSnapshot DEF ThreadState, Idle, Snapshots
      <3> HIDE DEF state
      <3>3. QED
        BY <2>1, <3>1, <3>2, UnownedThreadStep
    <2>5. QED
      BY <1>15, <2>2, <2>3, <2>4 DEF Job
  <1>16. QED
    BY <1>3, <1>4, <1>5, <1>6, <1>7, <1>8, <1>10, <1>11, <1>12, <1>13, <1>14, <1>15
       DEF Next, Proceed

-----------------------------------------------------------------------------
(* The stream and the screen.                                              *)

ScreenType ==
  /\ conn \in {"none", "registered", "open", "closed"}
  /\ shown \in Records /\ cached \in Records /\ listening \in BOOLEAN
  /\ latest \in Nat
  /\ fetch \in FetchState

ScreenOK == ScreenType /\ ScreenIsKnown

LEMMA ScreenFacts ==
  ASSUME IInv
  PROVE  /\ ScreenType /\ ScreenIsKnown /\ rec \in Records
         /\ shown.rev \in Nat /\ cached.rev \in Nat /\ latest \in Nat /\ rec.rev \in Nat /\ rec.rev > 0
         /\ wire \in Seq(Snapshots)
  BY DEF IInv, TypeOK, ScreenType, FetchState, LogIsComplete, MessagesAreSnapshots, Records

LEMMA SnapshotIsPast ==
  ASSUME IInv, NEW event \in Snapshots
  PROVE  event \in Records /\ event.rev \in Nat /\ event.rev <= rec.rev
  BY DEF IInv, TypeOK, LogIsComplete, Snapshots, IsSnapshot, Records, Unversioned

\* The fields of an accepted event over what the client has.
LEMMA MergedStep ==
  ASSUME IInv, NEW event \in Snapshots, NEW task \in Records
  PROVE  /\ Merged(task, event) \in Records
         /\ Merged(task, event).rev = IF event.rev = Unversioned THEN task.rev ELSE event.rev
  BY SnapshotIsPast DEF Merged, Records

LEMMA ShowStep ==
  ASSUME IInv, NEW event \in Snapshots, AcceptTaskState(event), Show(event)
  PROVE  /\ shown' \in Records /\ latest' \in Nat /\ shown'.rev <= rec.rev /\ latest' <= rec.rev
         /\ latest >= shown.rev => latest' >= shown'.rev /\ shown'.rev >= shown.rev
         /\ event.rev # Unversioned => latest' = event.rev /\ shown' = event
  <1>1. /\ shown \in Records /\ shown.rev \in Nat /\ latest \in Nat /\ rec.rev \in Nat
        /\ shown.rev <= rec.rev /\ latest <= rec.rev
    BY ScreenFacts DEF ScreenType, ScreenIsKnown
  <1>2. event \in Records /\ event.rev \in Nat /\ event.rev <= rec.rev
    BY SnapshotIsPast
  <1>3. /\ shown' \in Records
        /\ shown'.rev = IF event.rev = Unversioned THEN shown.rev ELSE event.rev
    BY <1>1, MergedStep DEF Show
  <1>4. latest' = IF event.rev = Unversioned THEN latest ELSE event.rev
    BY DEF Show
  <1>5. event.rev = Unversioned \/ event.rev >= latest
    BY DEF AcceptTaskState
  <1>6. event.rev # Unversioned => shown' = event
    BY DEF Show, Merged
  <1>7. QED
    BY <1>1, <1>2, <1>3, <1>4, <1>5, <1>6

\* A step of the server's, whatever it writes.
LEMMA UnseenStep ==
  ASSUME IInv, rec'.rev >= rec.rev, rec' \in Records, UNCHANGED <<conn, client>>,
         wire' = wire \/ conn # "none"
  PROVE  ScreenOK'
  <1>1. ScreenType'
    BY ScreenFacts DEF ScreenType, client
  <1>2. ScreenIsKnown'
    BY ScreenFacts DEF ScreenIsKnown, client, Records
  <1>3. QED
    BY <1>1, <1>2 DEF ScreenOK

\* The client asks for work.
LEMMA ListenStep ==
  ASSUME IInv, rec'.rev >= rec.rev, rec' \in Records, BeginListening, UNCHANGED <<conn, wire>>,
         fetch' = fetch \/ fetch' = Unread("wanted")
  PROVE  ScreenOK'
  <1>1. /\ ScreenType /\ ScreenIsKnown /\ shown.rev \in Nat /\ latest \in Nat /\ cached.rev \in Nat
        /\ rec.rev \in Nat /\ rec'.rev \in Nat
    BY ScreenFacts DEF Records
  <1>2. /\ latest' \in Nat /\ latest' >= shown.rev /\ latest' >= latest /\ latest' <= rec.rev
        /\ listening' = TRUE /\ UNCHANGED <<shown, cached>>
    BY <1>1 DEF BeginListening, Known, ScreenIsKnown
  <1>3. ScreenType'
    BY <1>1, <1>2, UnreadIsEmpty DEF ScreenType
  <1>4. ScreenIsKnown'
    BY <1>1, <1>2, UnreadIsEmpty DEF ScreenIsKnown
  <1>5. QED
    BY <1>3, <1>4 DEF ScreenOK

LEMMA MessageShown ==
  ASSUME IInv, OnMessage
  PROVE  ScreenOK' /\ shown'.rev >= shown.rev
  <1>1. /\ ScreenType /\ ScreenIsKnown /\ shown.rev \in Nat /\ latest \in Nat /\ cached.rev \in Nat
        /\ rec.rev \in Nat /\ wire \in Seq(Snapshots) /\ wire # <<>>
    BY ScreenFacts, OnMessageStep
  <1>2. Head(wire) \in Snapshots
    BY <1>1
  <1>3. /\ conn # "none" /\ listening /\ latest >= shown.rev /\ UNCHANGED rec
    BY <1>1, OnMessageStep DEF ScreenIsKnown, server
  <1>4. CASE UNCHANGED <<conn, client>>
    <2>1. UNCHANGED shown
      BY <1>4 DEF client
    <2>2. rec' \in Records /\ rec'.rev >= rec.rev
      BY <1>1, <1>3, ScreenFacts
    <2>3. QED
      BY <1>1, <1>3, <1>4, <2>1, <2>2, UnseenStep
  <1>5. CASE /\ AcceptTaskState(Head(wire)) /\ Show(Head(wire)) /\ cached' \in {cached, Merged(cached, Head(wire))}
             /\ \/ fetch' = Unread("wanted") /\ listening' = FALSE /\ Disconnect
                \/ /\ fetch' \in {fetch, Unread("none")} /\ listening' = (listening /\ TRUE)
                   /\ wire' = Tail(wire) /\ UNCHANGED <<conn, queue, last>>
    <2>1. /\ shown' \in Records /\ latest' \in Nat /\ shown'.rev <= rec.rev /\ latest' <= rec.rev
          /\ latest' >= shown'.rev /\ shown'.rev >= shown.rev
      BY <1>2, <1>3, <1>5, ShowStep
    <2>2. cached' \in Records /\ cached'.rev <= rec.rev /\ cached'.rev # Unversioned
      <3>1. cached \in Records /\ cached.rev <= rec.rev /\ cached.rev # Unversioned
        BY <1>1 DEF ScreenType, ScreenIsKnown
      <3>2. Head(wire).rev \in Nat /\ Head(wire).rev <= rec.rev
        BY <1>2, SnapshotIsPast
      <3>3. /\ Merged(cached, Head(wire)) \in Records
            /\ Merged(cached, Head(wire)).rev = IF Head(wire).rev = Unversioned THEN cached.rev ELSE Head(wire).rev
        BY <1>2, <3>1, MergedStep
      <3>4. QED
        BY <1>5, <3>1, <3>2, <3>3
    <2>3. /\ listening' \in BOOLEAN /\ conn' \in {conn, "none"} /\ (conn' # "none" => listening')
          /\ (conn' = "none" => wire' = <<>>)
      BY <1>3, <1>5 DEF Disconnect
    <2>4. fetch' \in {fetch, Unread("none"), Unread("wanted")}
      BY <1>5
    <2>5. fetch' \in FetchState /\ (fetch'.at = "read" => fetch' = fetch)
      BY <1>1, <2>4, UnreadIsEmpty DEF ScreenType
    <2>6. ScreenType'
      BY <1>1, <2>1, <2>2, <2>3, <2>5 DEF ScreenType
    <2>7. ScreenIsKnown'
      BY <1>1, <1>3, <2>1, <2>2, <2>3, <2>5 DEF ScreenIsKnown
    <2>8. QED
      BY <2>1, <2>6, <2>7 DEF ScreenOK
  <1>6. QED
    BY <1>4, <1>5, OnMessageStep

LEMMA FetchTasksStep ==
  ASSUME IInv, FetchTasks
  PROVE  ScreenOK'
  <1>1. /\ ScreenType /\ ScreenIsKnown /\ cached.rev \in Nat /\ rec.rev \in Nat
        /\ log \in Seq(Records) /\ rec.rev = Len(log)
    BY ScreenFacts DEF IInv, TypeOK, LogIsComplete
  <1>2. PICK i \in cached.rev..rec.rev : cached' = log[i]
    BY DEF FetchTasks
  <1>3. i \in 1..Len(log)
    BY <1>1, <1>2 DEF ScreenIsKnown, Unversioned
  <1>4. UNCHANGED <<shown, listening, latest, fetch, conn, wire, rec>>
    BY DEF FetchTasks, server, stream
  <1>5. log[i] \in Records /\ log[i].rev <= rec.rev /\ log[i].rev # Unversioned
    BY <1>1, <1>3 DEF IInv, LogIsComplete, Unversioned
  <1>6. ScreenType'
    BY <1>1, <1>2, <1>4, <1>5 DEF ScreenType
  <1>7. ScreenIsKnown'
    BY <1>1, <1>2, <1>4, <1>5 DEF ScreenIsKnown
  <1>8. QED
    BY <1>6, <1>7 DEF ScreenOK

LEMMA OpenTaskStep ==
  ASSUME IInv, OpenTask
  PROVE  ScreenOK'
  <1>1. /\ ScreenType /\ ScreenIsKnown /\ cached.rev \in Nat /\ latest \in Nat /\ rec.rev \in Nat
        /\ cached \in Records
    BY ScreenFacts DEF ScreenType
  <1>2. /\ shown' = cached /\ fetch' = Unread("wanted") /\ UNCHANGED <<cached, conn, wire, rec>>
        /\ listening' = (listening \/ Follows(cached))
        /\ latest' = IF listening' THEN Known(cached) ELSE latest
    BY DEF OpenTask, server, stream
  <1>3. Known(cached) \in Nat /\ Known(cached) >= cached.rev /\ Known(cached) >= latest /\ Known(cached) <= rec.rev
    BY <1>1 DEF Known, ScreenIsKnown
  <1>4. ScreenType'
    <2>1. listening' \in BOOLEAN /\ latest' \in Nat
      BY <1>1, <1>2, <1>3
    <2>2. QED
      BY <1>1, <1>2, <2>1, UnreadIsEmpty DEF ScreenType
  <1>5. ScreenIsKnown'
    <2>1. fetch'.at # "read"
      BY <1>2, UnreadIsEmpty
    <2>2. listening' => latest' >= cached.rev
      BY <1>2, <1>3
    <2>3. latest' <= rec.rev
      BY <1>1, <1>2, <1>3 DEF ScreenIsKnown
    <2>4. listening => listening'
      BY <1>2
    <2>5. QED
      BY <1>1, <1>2, <2>1, <2>2, <2>3, <2>4 DEF ScreenIsKnown
  <1>6. QED
    BY <1>4, <1>5 DEF ScreenOK

LEMMA FetchReadStep ==
  ASSUME IInv, FetchRead
  PROVE  ScreenOK'
  <1>1. ScreenType /\ ScreenIsKnown /\ rec \in Records /\ rec.rev > 0
    BY ScreenFacts
  <1>2. fetch' = [at |-> "read", response |-> rec] /\ UNCHANGED <<rec, conn, wire, shown, cached, listening, latest>>
    BY DEF FetchRead, server, stream
  <1>3. ScreenType'
    BY <1>1, <1>2 DEF ScreenType, FetchState
  <1>4. ScreenIsKnown'
    BY <1>1, <1>2, ScreenFacts DEF ScreenIsKnown, Unversioned
  <1>5. QED
    BY <1>3, <1>4 DEF ScreenOK

LEMMA FetchApplyStep ==
  ASSUME IInv, FetchApply
  PROVE  ScreenOK' /\ shown'.rev >= shown.rev
  <1>1. /\ ScreenType /\ ScreenIsKnown /\ shown.rev \in Nat /\ latest \in Nat /\ cached.rev \in Nat /\ rec.rev \in Nat
        /\ fetch.response \in Snapshots
    BY ScreenFacts DEF IInv, MessagesAreSnapshots
  <1>2. /\ fetch' = Unread("none") /\ UNCHANGED <<cached, conn, wire, rec>>
        /\ fetch.response.rev # Unversioned
        /\ fetch.response.rev >= shown.rev \/ latest >= shown.rev
    BY <1>1 DEF FetchApply, ScreenIsKnown, server, stream
  <1>3. fetch'.at = "none" /\ fetch' \in FetchState
    BY <1>2, UnreadIsEmpty
  <1>4. CASE AcceptTaskState(fetch.response)
    <2>1. Show(fetch.response) /\ listening' = (listening \/ Follows(fetch.response))
      BY <1>4 DEF FetchApply
    <2>2. /\ shown' \in Records /\ latest' \in Nat /\ shown'.rev <= rec.rev /\ latest' <= rec.rev
          /\ latest' = fetch.response.rev /\ shown' = fetch.response
      BY <1>1, <1>2, <1>4, <2>1, ShowStep
    <2>3. fetch.response.rev \in Nat /\ fetch.response.rev >= latest
      BY <1>1, <1>2, <1>4, SnapshotIsPast DEF AcceptTaskState
    <2>4. shown'.rev >= shown.rev
      BY <1>1, <1>2, <2>2, <2>3
    <2>5. listening' \in BOOLEAN /\ (listening => listening')
      BY <1>1, <2>1
    <2>6. ScreenType'
      BY <1>1, <1>2, <1>3, <2>2, <2>5 DEF ScreenType
    <2>7. ScreenIsKnown'
      BY <1>1, <1>2, <1>3, <2>2, <2>3, <2>5 DEF ScreenIsKnown
    <2>8. QED
      BY <2>4, <2>6, <2>7 DEF ScreenOK
  <1>5. CASE ~AcceptTaskState(fetch.response)
    <2>1. UNCHANGED <<shown, listening, latest>>
      BY <1>5 DEF FetchApply
    <2>2. ScreenType'
      BY <1>1, <1>2, <1>3, <2>1 DEF ScreenType
    <2>3. ScreenIsKnown'
      BY <1>1, <1>2, <1>3, <2>1 DEF ScreenIsKnown
    <2>4. QED
      BY <1>1, <2>1, <2>2, <2>3 DEF ScreenOK
  <1>6. QED
    BY <1>4, <1>5

LEMMA ScreenStep ==
  ASSUME IInv, [Next]_vars
  PROVE  ScreenOK' /\ (shown'.rev >= shown.rev \/ OpenTask)
  <1> DEFINE OK == ScreenOK' /\ (shown'.rev >= shown.rev \/ OpenTask)
  <1>1. rec' \in Records /\ rec'.rev >= rec.rev /\ shown.rev \in Nat /\ ScreenType /\ ScreenIsKnown
    BY LogStep, ScreenFacts
  <1>2. ASSUME UNCHANGED <<conn, client>>, wire' = wire \/ conn # "none" PROVE OK
    <2>1. UNCHANGED shown
      BY <1>2 DEF client
    <2>2. ScreenOK'
      BY <1>1, <1>2, UnseenStep
    <2>3. QED
      BY <1>1, <2>1, <2>2
  <1>3. ASSUME UNCHANGED <<stream, client>> PROVE OK
    BY <1>2, <1>3 DEF stream
  <1>4. ASSUME NEW t \in Threads, Proceed(t) PROVE OK
    <2>1. UNCHANGED <<conn, wire, client>>
      BY <1>4 DEF Proceed, Refuse, Update, Persist, Deliver, stream
    <2>2. QED
      BY <1>2, <2>1
  <1>5. ASSUME NEW r \in Runs, Begin(r) PROVE OK
    BY <1>3, <1>5 DEF Begin, Lock
  <1>6. ASSUME BeginListening, UNCHANGED stream, fetch' = fetch \/ fetch' = Unread("wanted") PROVE OK
    <2>1. UNCHANGED <<conn, wire>>
      BY <1>6 DEF stream
    <2>2. ScreenOK'
      BY <1>1, <1>6, <2>1, ListenStep
    <2>3. UNCHANGED shown
      BY <1>6 DEF BeginListening
    <2>4. QED
      BY <1>1, <2>2, <2>3
  <1>7. ASSUME NEW r \in Runs, Start(r) PROVE OK
    BY <1>6, <1>7 DEF Start
  <1>8. CASE Job
    <2>1. CASE JobStart
      BY <1>6, <2>1 DEF JobStart
    <2>2. CASE JobEnds \/ JobCloses
      BY <1>3, <2>2 DEF JobEnds, JobCloses
    <2>3. QED
      BY <1>8, <2>1, <2>2 DEF Job
  <1>9. CASE UnownedWrite
    BY <1>3, <1>9 DEF UnownedWrite
  <1>10. CASE RunCallback
    BY <1>2, <1>10 DEF RunCallback
  <1>11. ASSUME UNCHANGED client, conn' \in {"registered", "open", "closed"}, listening PROVE OK
    <2>1. ScreenType'
      BY <1>1, <1>11 DEF ScreenType, client
    <2>2. ScreenIsKnown'
      BY <1>1, <1>11, ScreenFacts DEF ScreenIsKnown, client, Records
    <2>3. UNCHANGED shown
      BY <1>11 DEF client
    <2>4. QED
      BY <1>1, <2>1, <2>2, <2>3 DEF ScreenOK
  <1>12. CASE Connect
    BY <1>11, <1>12 DEF Connect
  <1>13. CASE Generator
    <2>1. conn # "none" /\ UNCHANGED client
      BY <1>13 DEF Generator, Snapshot, Receive, Keepalive
    <2>2. listening
      BY <1>1, <2>1 DEF ScreenIsKnown
    <2>3. conn' \in {conn, "open", "closed"}
      BY <1>13 DEF Generator, Snapshot, Receive, Keepalive, Reconcile, Send
    <2>4. conn' \in {"registered", "open", "closed"}
      BY <1>1, <2>1, <2>3 DEF ScreenType
    <2>5. QED
      BY <1>11, <2>1, <2>2, <2>4
  <1>14. CASE OnError
    <2>1. UNCHANGED <<server, client>> /\ conn' = "none" /\ wire' = <<>>
      BY <1>14 DEF OnError, Disconnect
    <2>2. ScreenType'
      BY <1>1, <2>1 DEF ScreenType, client
    <2>3. ScreenIsKnown'
      BY <1>1, <2>1 DEF ScreenIsKnown, client, server
    <2>4. UNCHANGED shown
      BY <2>1 DEF client
    <2>5. QED
      BY <1>1, <2>2, <2>3, <2>4 DEF ScreenOK
  <1>15. CASE FetchTasks \/ FetchRead
    <2>1. UNCHANGED shown
      BY <1>15 DEF FetchTasks, FetchRead
    <2>2. QED
      BY <1>1, <1>15, <2>1, FetchTasksStep, FetchReadStep
  <1>16. CASE UNCHANGED vars
    BY <1>3, <1>16 DEF vars
  <1>17. QED
    BY <1>4, <1>5, <1>7, <1>8, <1>9, <1>10, <1>12, <1>13, <1>14, <1>15, <1>16,
       MessageShown, OpenTaskStep, FetchApplyStep DEF Next, Client

LEMMA LastStep ==
  ASSUME IInv, [Next]_vars
  PROVE  last' \in Nat
  <1>1. last \in Nat /\ rec.rev \in Nat
    BY DEF IInv, TypeOK, Records
  <1>2. ASSUME NEW event \in Records, Send(event) PROVE last' \in Nat
    BY <1>1, <1>2 DEF Send, Records
  <1>3. CASE Receive
    <2>1. CASE UNCHANGED last
      BY <1>1, <2>1
    <2>2. CASE Reconciled(Head(queue)) # Dropped /\ Send(Reconciled(Head(queue)))
      <3>1. Head(queue) \in Snapshots
        BY <1>3 DEF IInv, MessagesAreSnapshots, Receive
      <3>2. Reconciled(Head(queue)) \in Records
        BY <2>2, <3>1, ReconciledIsSnapshot DEF Snapshots
      <3>3. QED
        BY <1>2, <2>2, <3>2
    <2>3. QED
      BY <1>3, <2>1, <2>2 DEF Receive
  <1>4. CASE Snapshot
    BY <1>1, <1>4 DEF Snapshot
  <1>5. CASE Keepalive
    <2>1. rec \in Records
      BY DEF IInv, TypeOK
    <2>2. QED
      BY <1>1, <1>2, <1>5, <2>1 DEF Keepalive, Reconcile
  <1>6. ASSUME NEW r \in Runs, Begin(r) \/ Start(r) PROVE UNCHANGED last
    BY <1>6 DEF Begin, Start, Lock, stream
  <1>7. ASSUME NEW t \in Threads, Proceed(t) PROVE UNCHANGED last
    BY <1>7 DEF Proceed, Refuse, Update, Persist, Deliver, stream
  <1>8. ASSUME UnownedWrite \/ Job \/ RunCallback \/ Connect \/ FetchTasks \/ OpenTask \/ FetchRead \/ FetchApply
        PROVE  UNCHANGED last
    BY <1>8 DEF UnownedWrite, Job, JobStart, JobEnds, JobCloses, RunCallback, Connect,
                FetchTasks, OpenTask, FetchRead, FetchApply, stream
  <1>9. CASE UNCHANGED vars
    BY <1>1, <1>9 DEF vars, stream
  <1>10. CASE OnMessage \/ OnError
    <2>1. last' = last \/ last' = 0
      BY <1>10, OnMessageStep DEF OnError, Disconnect
    <2>2. QED
      BY <1>1, <2>1
  <1>11. QED
    BY <1>1, <1>3, <1>4, <1>5, <1>6, <1>7, <1>8, <1>9, <1>10 DEF Next, Generator, Client

-----------------------------------------------------------------------------
(* The invariant and what follows from it.                                 *)

LEMMA InvariantStep == IInv /\ [Next]_vars => IInv'
  <1> SUFFICES ASSUME IInv, [Next]_vars PROVE IInv'
    OBVIOUS
  <1>1. rec' \in Records /\ log' \in Seq(Records) /\ LogIsComplete'
    BY LogStep
  <1>2. MessagesAreSnapshots' /\ Snapshots' \subseteq Records
    BY MessageStep DEF Snapshots
  <1>3. calls' \in Seq(Records) /\ queue' \in Seq(Records) /\ wire' \in Seq(Records)
    BY <1>2, MoreKeeps DEF MessagesAreSnapshots
  <1>4. ServerOK'
    BY ServerStep
  <1>5. TypeOK'
    BY <1>1, <1>3, <1>4, ScreenStep, LastStep DEF TypeOK, ServerOK, ThreadState, ScreenOK, ScreenType, FetchState
  <1>6. QED
    BY <1>1, <1>2, <1>4, <1>5, ScreenStep DEF IInv, ServerOK, ScreenOK

\* The invariant of the header, of every run and every writer.
THEOREM Invariant == Spec => []IInv
  <1>1. Init => IInv
    BY InitIInv
  <1>2. IInv /\ [Next]_vars => IInv'
    BY InvariantStep
  <1>3. QED
    BY <1>1, <1>2, PTL DEF Spec

\* Every variable keeps its type (events.py, task_run.py, taskStateVersion.js).
THEOREM TypeCorrect == Spec => []TypeOK
  BY Invariant, PTL DEF IInv

\* Every versioned message, in a queue, on the wire or in a thread's hands, is
\* the record as it was at that revision (events.py, history.py:76).
THEOREM EventsAreSnapshotsHolds == Spec => []EventsAreSnapshots
  <1>1. IInv => EventsAreSnapshots
    <2> SUFFICES ASSUME IInv, NEW event \in InFlight, event.rev # Unversioned
                 PROVE  event = log[event.rev]
      BY DEF EventsAreSnapshots
    <2>1. event \in Snapshots
      BY DEF IInv, MessagesAreSnapshots, InFlight, Everywhere
    <2>2. QED
      BY <2>1 DEF Snapshots, IsSnapshot
  <1>2. QED
    BY <1>1, Invariant, PTL

\* A worker that is about to deliver is still the record's, and not revoked
\* (task_run.py, pipeline_service.py:374).
THEOREM PublicationIsFencedHolds == Spec => []PublicationIsFenced
  <1>1. IInv => PublicationIsFenced
    BY Names DEF IInv, PublicationIsFenced, Fenced, ThreadsKnowTheirRun
  <1>2. QED
    BY <1>1, Invariant, PTL

\* A stream that closes does so on a record at rest, or on an event of no run.
ClosesForReason ==
  conn = "open" /\ conn' = "closed" => rec.state = "ended" \/ wire'[Len(wire')].rev = Unversioned

\* A terminal event of an older run does not close the stream (events.py:157):
\* what closes it is the record's own outcome, or an event that carries neither
\* run nor revision.
THEOREM OldRunDoesNotCloseStreamHolds == Spec => OldRunDoesNotCloseStream
  <1>1. IInv /\ [Next]_vars => [ClosesForReason]_vars
    <2> SUFFICES ASSUME IInv, [Next]_vars, conn = "open", conn' = "closed"
                 PROVE  rec.state = "ended" \/ wire'[Len(wire')].rev = Unversioned
      BY DEF ClosesForReason
    <2>1. CASE Receive
      <3> DEFINE event == Reconciled(Head(queue))
      <3>1. event # Dropped /\ Send(event) /\ Head(queue) \in Snapshots
        BY <2>1 DEF Receive, IInv, MessagesAreSnapshots
      <3>2. event.state = "ended" /\ wire' = Append(wire, event)
        BY <3>1 DEF Send
      <3>3. CASE event = rec
        BY <3>2, <3>3
      <3>4. CASE event.rev = Unversioned
        <4>1. event \in Snapshots /\ wire \in Seq(Snapshots)
          BY <3>1, ReconciledIsSnapshot DEF IInv, MessagesAreSnapshots
        <4> HIDE DEF event
        <4>2. wire'[Len(wire')] = event
          BY <3>2, <4>1
        <4>3. QED
          BY <3>4, <4>2
      <3>5. CASE event = Head(queue) /\ event # rec /\ event.rev # Unversioned
        <4>1. event.rev \in 1..Len(log) /\ event = log[event.rev]
          BY <3>1, <3>5 DEF Snapshots, IsSnapshot
        <4>2. ~(rec.rev > event.rev)
          BY <3>1, <3>5, <4>1 DEF Reconciled
        <4>3. rec = log[Len(log)] /\ rec.rev = Len(log) /\ Len(log) \in Nat
          BY DEF IInv, TypeOK, LogIsComplete
        <4>4. event = rec
          BY <4>1, <4>2, <4>3
        <4>5. QED
          BY <3>5, <4>4
      <3>6. QED
        BY <3>1, <3>3, <3>4, <3>5 DEF Reconciled
    <2>2. CASE Keepalive
      BY <2>2 DEF Keepalive, Reconcile, Send
    <2>3. ASSUME NEW r \in Runs, Begin(r) \/ Start(r) PROVE FALSE
      BY <2>3 DEF Begin, Start, Lock, stream
    <2>4. ASSUME NEW t \in Threads, Proceed(t) PROVE FALSE
      BY <2>4 DEF Proceed, Refuse, Update, Persist, Deliver, stream
    <2>5. ASSUME UnownedWrite \/ Job \/ RunCallback \/ Connect \/ Snapshot PROVE FALSE
      BY <2>5 DEF UnownedWrite, Job, JobStart, JobEnds, JobCloses, RunCallback, Connect, Snapshot, stream
    <2>6. CASE Client
      <3>1. conn' \in {conn, "none"}
        BY <2>6, OnMessageStep DEF Client, OnError, Disconnect, FetchTasks, OpenTask, FetchRead, FetchApply, stream
      <3>2. QED
        BY <3>1
    <2>7. CASE UNCHANGED vars
      BY <2>7 DEF vars, stream
    <2>8. QED
      BY <2>1, <2>2, <2>3, <2>4, <2>5, <2>6, <2>7 DEF Next, Generator
  <1>2. QED
    BY <1>1, Invariant, PTL DEF Spec, OldRunDoesNotCloseStream, ClosesForReason

\* Unless the user opens the task anew, neither a late response nor a late
\* event takes the screen back to an older revision (taskStateVersion.js:1-2),
\* whatever an earlier opening had put on it.
THEOREM ScreenNeverGoesBackHolds == Spec => ScreenNeverGoesBack
  <1>1. IInv /\ [Next]_vars => [shown'.rev >= shown.rev \/ OpenTask]_vars
    BY ScreenStep
  <1>2. QED
    BY <1>1, Invariant, PTL DEF Spec, ScreenNeverGoesBack
=============================================================================
