------------------------------ MODULE FairLock ------------------------------
(***************************************************************************)
(* What app/core/gpu_manager.py promises ("fair, cancellation-safe         *)
(* orchestration for a single shared GPU"): one owner at a time, served in *)
(* the order of arrival; whoever gives up leaves the line to the others.   *)
(* That a free GPU is given away is promised to Prompt only.               *)
(***************************************************************************)
EXTENDS SequencesExt

CONSTANTS Stages,   \* the stage executions that may ask for the GPU, once each
          Nobody,
          Prompt    \* the stages that a wake-up reaches wherever they wait

VARIABLES line,     \* those who wait, in order of arrival
          owner,    \* the stage that has the GPU
          asked     \* those who have joined the line so far

lockVars == <<line, owner, asked>>

Init == line = <<>> /\ owner = Nobody /\ asked = {}

Join(x) ==
  /\ x \notin asked
  /\ line' = Append(line, x)
  /\ asked' = asked \cup {x}
  /\ UNCHANGED owner

\* Only the first of the line is served, and only when nobody is.
Grant ==
  /\ owner = Nobody /\ line # <<>>
  /\ owner' = Head(line)
  /\ line' = Tail(line)
  /\ UNCHANGED asked

GiveUp(x) ==
  /\ line' = RemoveFirst(line, x)
  /\ UNCHANGED <<owner, asked>>

Release ==
  /\ owner # Nobody
  /\ owner' = Nobody
  /\ UNCHANGED <<line, asked>>

Next == Grant \/ Release \/ \E x \in Stages : Join(x) \/ GiveUp(x)

Safety == Init /\ [][Next]_lockVars

\* A free GPU never stays idle while the first of the line is one of Prompt.
Spec == Safety /\ WF_lockVars(Grant /\ Head(line) \in Prompt)
=============================================================================
