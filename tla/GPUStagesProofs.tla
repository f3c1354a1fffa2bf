-------------------------- MODULE GPUStagesProofs ---------------------------
(***************************************************************************)
(* Exclusion, order and wake-ups of the GPU manager, for every set of      *)
(* stages and every choice of Faults, and that it implements the safety    *)
(* part of FairLock.                                                       *)
(*                                                                         *)
(* The argument: the queue lists, without repetition, exactly the stages   *)
(* that wait (LineIsWaiting; one whose callback raised stays in it), and   *)
(* whoever is between grant and cleanup is the stage that _active names    *)
(* (LeaseIsHeld, OwnerHasLease).  So a grant finds nobody in a lease, and  *)
(* each step that makes the GPU free or changes the head of the queue      *)
(* notifies whoever is then the head, and reaches it unless it sleeps in a *)
(* loop of its own (SleeperHasOwnLoop).                                    *)
(***************************************************************************)
EXTENDS GPUStages, SequenceTheorems, TLAPS

Line == ToSet(queue)

LeaseIsHeld == \A x \in Stages : phase[x] \in Leased => active = x

OwnerHasLease == active # Nobody => phase[active] \in Leased \cup {"failed"}

LineIsWaiting ==
  /\ IsInjective(queue)
  /\ \A x \in Line : phase[x] \in InLine \cup {"failed"}
  /\ \A x \in Stages : phase[x] \in InLine => x \in Line

SleeperHasOwnLoop == \A x \in Stages : phase[x] = "asleep" => LoopOf(x) # Server

\* Unless a load is abandoned or an unload fails.
ModelIsLeased ==
  Faults \cap {"impatient", "unload"} = {} =>
    \A x \in Stages : engine[x] # "off" => phase[x] \in Leased \ {"granted"}

\* Unless a callback raises.
LeftClean ==
  "callback" \notin Faults =>
    \A x \in Stages : phase[x] \in Over => active # x /\ x \notin Line

IInv ==
  /\ TypeOK
  /\ LeaseIsHeld
  /\ OwnerHasLease
  /\ LineIsWaiting
  /\ ModelIsLeased
  /\ LeftClean
  /\ SleeperHasOwnLoop
  /\ ServerIsWoken

-----------------------------------------------------------------------------
(* What joining, being served and leaving do to the line.                  *)

LEMMA JoinLine ==
  ASSUME NEW S, NEW s \in Seq(S), NEW x \in S, x \notin ToSet(s), IsInjective(s)
  PROVE  /\ Append(s, x) \in Seq(S)
         /\ ToSet(Append(s, x)) = ToSet(s) \cup {x}
         /\ IsInjective(Append(s, x))
         /\ Head(Append(s, x)) = IF s = <<>> THEN x ELSE Head(s)
  <1> DEFINE t == Append(s, x)
  <1>1. /\ t \in Seq(S) /\ Len(t) = Len(s) + 1 /\ Len(s) \in Nat
        /\ \A i \in 1..Len(s) : t[i] = s[i]
        /\ t[Len(s) + 1] = x
    BY AppendProperties, LenProperties
  <1>2. DOMAIN s = 1..Len(s) /\ DOMAIN t = 1..Len(s) + 1
    BY <1>1, LenProperties
  <1>3. Head(t) = IF s = <<>> THEN x ELSE Head(s)
    BY HeadTailAppend
  <1> HIDE DEF t
  <1>4. ToSet(t) = ToSet(s) \cup {x}
    BY <1>1, <1>2 DEF ToSet
  <1>5. IsInjective(t)
    BY <1>1, <1>2 DEF ToSet, IsInjective
  <1>6. QED
    BY <1>1, <1>3, <1>4, <1>5 DEF t

LEMMA HeadInLine ==
  ASSUME NEW S, NEW s \in Seq(S), s # <<>>
  PROVE  Head(s) \in S /\ Head(s) \in ToSet(s)
  <1>1. DOMAIN s = 1..Len(s) /\ Len(s) \in Nat \ {0} /\ Head(s) = s[1] /\ Head(s) \in S
    BY LenProperties, EmptySeq, HeadTailProperties
  <1>2. QED
    BY <1>1 DEF ToSet

LEMMA LineType ==
  ASSUME NEW S, NEW s \in Seq(S)
  PROVE  ToSet(s) \subseteq S /\ (s = <<>> => ToSet(s) = {})
  <1>1. DOMAIN s = 1..Len(s) /\ Len(s) \in Nat
    BY LenProperties
  <1>2. ToSet(s) \subseteq S
    BY <1>1, ElementOfSeq DEF ToSet
  <1>3. ASSUME s = <<>> PROVE ToSet(s) = {}
    BY <1>1, <1>3, EmptySeq DEF ToSet
  <1>4. QED
    BY <1>2, <1>3

LEMMA ServeLine ==
  ASSUME NEW S, NEW s \in Seq(S), s # <<>>, IsInjective(s)
  PROVE  /\ Tail(s) \in Seq(S)
         /\ ToSet(Tail(s)) = ToSet(s) \ {Head(s)}
         /\ IsInjective(Tail(s))
  <1> DEFINE t == Tail(s)
  <1>1. /\ t \in Seq(S) /\ Len(t) = Len(s) - 1 /\ Len(s) \in Nat \ {0}
        /\ \A i \in 1..Len(t) : t[i] = s[i+1]
    BY HeadTailProperties, EmptySeq
  <1>2. DOMAIN s = 1..Len(s) /\ DOMAIN t = 1..Len(s) - 1 /\ Head(s) = s[1]
    BY <1>1, LenProperties
  <1> HIDE DEF t
  <1>3. IsInjective(t)
    BY <1>1, <1>2 DEF IsInjective
  <1>4. ASSUME NEW y \in ToSet(t) PROVE y \in ToSet(s) \ {Head(s)}
    <2>1. PICK i \in 1..Len(s) - 1 : y = s[i+1]
      BY <1>1, <1>2 DEF ToSet
    <2>2. i + 1 \in 1..Len(s) /\ i + 1 # 1 /\ 1 \in 1..Len(s)
      BY <1>1
    <2>3. QED
      BY <1>2, <2>1, <2>2 DEF ToSet, IsInjective
  <1>5. ASSUME NEW y \in ToSet(s) \ {Head(s)} PROVE y \in ToSet(t)
    <2>1. PICK i \in 1..Len(s) : y = s[i] /\ i # 1
      BY <1>2 DEF ToSet
    <2>2. i - 1 \in 1..Len(s) - 1 /\ (i - 1) + 1 = i
      BY <1>1, <2>1
    <2>3. y = t[i - 1]
      BY <1>1, <2>1, <2>2
    <2>4. QED
      BY <1>2, <2>2, <2>3 DEF ToSet
  <1>6. QED
    BY <1>1, <1>3, <1>4, <1>5 DEF t

LEMMA RemovedAt ==
  ASSUME NEW S, NEW s \in Seq(S), NEW i \in 1..Len(s)
  PROVE  /\ RemoveAt(s, i) \in Seq(S)
         /\ Len(RemoveAt(s, i)) = Len(s) - 1
         /\ \A j \in 1..Len(s) - 1 : RemoveAt(s, i)[j] = IF j < i THEN s[j] ELSE s[j+1]
  <1> DEFINE u == SubSeq(s, 1, i-1)
             v == SubSeq(s, i+1, Len(s))
  <1>1. Len(s) \in Nat
    BY LenProperties
  <1>2. u \in Seq(S) /\ Len(u) = i - 1 /\ \A j \in 1..i-1 : u[j] = s[j]
    <2>1. \A j \in 1..i-1 : s[j] \in S
      BY <1>1, ElementOfSeq
    <2>2. QED
      BY <1>1, <2>1, SubSeqProperties
  <1>3. v \in Seq(S) /\ Len(v) = Len(s) - i /\ \A j \in 1..Len(s)-i : v[j] = s[i+j]
    <2>1. \A j \in i+1..Len(s) : s[j] \in S
      BY <1>1, ElementOfSeq
    <2>2. QED
      BY <1>1, <2>1, SubSeqProperties
  <1> HIDE DEF u, v
  <1>4. /\ u \o v \in Seq(S) /\ Len(u \o v) = Len(u) + Len(v)
        /\ \A j \in 1..Len(u) + Len(v) : (u \o v)[j] = IF j <= Len(u) THEN u[j] ELSE v[j - Len(u)]
    BY <1>2, <1>3, ConcatProperties
  <1>5. RemoveAt(s, i) = u \o v
    BY DEF RemoveAt, u, v
  <1>6. ASSUME NEW j \in 1..Len(s) - 1
        PROVE (u \o v)[j] = IF j < i THEN s[j] ELSE s[j+1]
    <2>1. CASE j < i
      BY <1>1, <1>2, <1>3, <1>4, <2>1
    <2>2. CASE j >= i
      <3>1. j - Len(u) \in 1..Len(s) - i /\ i + (j - Len(u)) = j + 1 /\ ~(j <= Len(u)) /\ j \in 1..Len(u) + Len(v)
        BY <1>1, <1>2, <1>3, <2>2
      <3>2. (u \o v)[j] = v[j - Len(u)] /\ v[j - Len(u)] = s[i + (j - Len(u))]
        BY <1>3, <1>4, <3>1
      <3>3. QED
        BY <2>2, <3>1, <3>2
    <2>3. j < i \/ j >= i
      BY <1>1
    <2>4. QED
      BY <2>1, <2>2, <2>3, Zenon
  <1>7. QED
    BY <1>1, <1>2, <1>3, <1>4, <1>5, <1>6

LEMMA QuitLine ==
  ASSUME NEW S, NEW s \in Seq(S), NEW x \in ToSet(s), IsInjective(s)
  PROVE  /\ RemoveFirst(s, x) \in Seq(S)
         /\ ToSet(RemoveFirst(s, x)) = ToSet(s) \ {x}
         /\ IsInjective(RemoveFirst(s, x))
  <1>1. Len(s) \in Nat /\ DOMAIN s = 1..Len(s)
    BY LenProperties
  <1>2. PICK k \in 1..Len(s) : s[k] = x
    BY <1>1 DEF ToSet
  <1>3. {i \in 1..Len(s) : s[i] = x} = {k}
    BY <1>1, <1>2 DEF IsInjective
  <1>4. Min({k}) = k
    BY <1>2 DEF Min
  <1>5. RemoveFirst(s, x) = RemoveAt(s, k)
    BY <1>2, <1>3, <1>4 DEF RemoveFirst, SelectInSeq
  <1> DEFINE t == RemoveAt(s, k)
  <1>6. /\ t \in Seq(S) /\ Len(t) = Len(s) - 1
        /\ \A j \in 1..Len(s) - 1 : t[j] = IF j < k THEN s[j] ELSE s[j+1]
    BY <1>2, RemovedAt
  <1>7. DOMAIN t = 1..Len(s) - 1
    BY <1>6, LenProperties
  <1> HIDE DEF t
  <1>8. IsInjective(t)
    BY <1>1, <1>6, <1>7 DEF IsInjective
  <1>9. ASSUME NEW y \in ToSet(t) PROVE y \in ToSet(s) \ {x}
    <2>1. PICK j \in 1..Len(s) - 1 : y = t[j]
      BY <1>7 DEF ToSet
    <2>2. PICK i \in 1..Len(s) : y = s[i] /\ i # k
      BY <1>1, <1>2, <1>6, <2>1
    <2>3. QED
      BY <1>1, <1>2, <2>2 DEF ToSet, IsInjective
  <1>10. ASSUME NEW y \in ToSet(s) \ {x} PROVE y \in ToSet(t)
    <2>1. PICK i \in 1..Len(s) : y = s[i] /\ i # k
      BY <1>1, <1>2 DEF ToSet
    <2>2. CASE i < k
      BY <1>1, <1>2, <1>6, <1>7, <2>1, <2>2 DEF ToSet
    <2>3. CASE i > k
      <3>1. i - 1 \in 1..Len(s) - 1 /\ ~(i - 1 < k) /\ (i - 1) + 1 = i
        BY <1>1, <1>2, <2>3
      <3>2. y = t[i - 1]
        BY <1>6, <2>1, <3>1
      <3>3. QED
        BY <1>7, <3>1, <3>2 DEF ToSet
    <2>4. QED
      BY <1>1, <1>2, <2>1, <2>2, <2>3
  <1>11. QED
    BY <1>5, <1>6, <1>8, <1>9, <1>10 DEF t

-----------------------------------------------------------------------------
(* The type invariant.                                                     *)

LEMMA TypeStep == TypeOK /\ LineIsWaiting /\ [Next]_vars => TypeOK'
  <1> SUFFICES ASSUME TypeOK, LineIsWaiting, [Next]_vars PROVE TypeOK'
    OBVIOUS
  <1> USE DEF Leased, Over, InLine
  <1>1. CASE UNCHANGED vars
    BY <1>1 DEF TypeOK, vars
  <1>2. ASSUME NEW x \in Stages, Enqueue(x) PROVE TypeOK'
    BY <1>2, AppendProperties DEF TypeOK, Enqueue, Goes
  <1>3. ASSUME NEW x \in Stages, Announce(x) PROVE TypeOK'
    BY <1>3 DEF TypeOK, Announce, Goes
  <1>4. ASSUME NEW x \in Stages, TakeTurn(x) PROVE TypeOK'
    <2>1. Tail(queue) \in Seq(Stages)
      BY <1>4, HeadTailProperties DEF TypeOK, TakeTurn, MyTurn
    <2>2. QED
      BY <1>4, <2>1 DEF TypeOK, TakeTurn
  <1>5. ASSUME NEW x \in Stages, Sleep(x) PROVE TypeOK'
    BY <1>5 DEF TypeOK, Sleep, LoopOf
  <1>6. ASSUME NEW x \in Stages, LeaveLine(x), phase[x] \in {"trying", "waiting"}
        PROVE  queue' \in Seq(Stages) /\ notified' \subseteq Stages
    BY <1>6, QuitLine DEF TypeOK, LineIsWaiting, Line, LeaveLine, Waiting
  <1>7. ASSUME NEW x \in Stages, Refused(x) PROVE TypeOK'
    BY <1>6, <1>7 DEF TypeOK, Refused, Awake
  <1>8. ASSUME NEW x \in Stages, CancelWait(x) PROVE TypeOK'
    BY <1>6, <1>8 DEF TypeOK, CancelWait, Goes
  <1>9. ASSUME NEW x \in Stages, Lifecycle(x) PROVE TypeOK'
    <2>1. CASE Switch(x)
      BY <2>1 DEF TypeOK, Switch, Goes
    <2>2. CASE Load(x) \/ LeaveBody(x)
      BY <2>2 DEF TypeOK, Load, LeaveBody, Goes, Engine
    <2>3. CASE LoadFails(x) \/ Unload(x) \/ UnloadFails(x)
      BY <2>3 DEF TypeOK, LoadFails, Unload, UnloadFails, Goes, Engine, Release, Waiting
    <2>4. QED
      BY <1>9, <2>1, <2>2, <2>3 DEF Lifecycle
  <1>10. ASSUME NEW x \in Stages, Impatient(x) PROVE TypeOK'
    BY <1>10 DEF TypeOK, Impatient, Goes, Engine, Release, Waiting
  <1>11. ASSUME NEW x \in Stages, Settle(x) PROVE TypeOK'
    BY <1>11 DEF TypeOK, Settle, Engine
  <1>12. ASSUME NEW x \in Stages, Doze(x) PROVE TypeOK'
    BY <1>12 DEF TypeOK, Doze, Goes
  <1>13. QED
    BY <1>1, <1>2, <1>3, <1>4, <1>5, <1>7, <1>8, <1>9, <1>10, <1>11, <1>12 DEF Next, Turn

LEMMA SleeperKeeps ==
  ASSUME IInv, NEW x \in Stages, NEW to, to = "asleep" => LoopOf(x) # Server,
         phase' = [phase EXCEPT ![x] = to]
  PROVE  SleeperHasOwnLoop'
  BY DEF IInv, TypeOK, SleeperHasOwnLoop, LoopOf

-----------------------------------------------------------------------------
(* The steps that change the line.                                         *)

LEMMA EnqueueKeeps ==
  ASSUME IInv, TypeOK', NEW x \in Stages, Enqueue(x)
  PROVE  IInv'
  <1> USE DEF Leased, Over, InLine
  <1>1. x \notin Line /\ queue \in Seq(Stages) /\ IsInjective(queue)
    BY DEF IInv, TypeOK, LineIsWaiting, Enqueue, Goes
  <1>2. /\ Line' = Line \cup {x} /\ IsInjective(queue')
        /\ Head(queue') = IF queue = <<>> THEN x ELSE Head(queue)
    BY <1>1, JoinLine DEF Line, Enqueue
  <1>3. phase' = [phase EXCEPT ![x] = phase'[x]] /\ phase[x] = "new" /\ phase'[x] \in {"trying", "queued"}
    BY DEF IInv, TypeOK, Enqueue, Goes
  <1>4. LeaseIsHeld' /\ OwnerHasLease' /\ LineIsWaiting'
    <2>1. LeaseIsHeld'
      BY <1>3 DEF IInv, TypeOK, LeaseIsHeld, Enqueue
    <2>2. OwnerHasLease'
      BY <1>3 DEF IInv, TypeOK, OwnerHasLease, Enqueue
    <2>3. LineIsWaiting'
      <3>1. Line \subseteq Stages
        BY <1>1, LineType DEF Line
      <3>2. QED
        BY <1>2, <1>3, <3>1 DEF IInv, TypeOK, LineIsWaiting
    <2>4. QED
      BY <2>1, <2>2, <2>3
  <1>5. ModelIsLeased'
    BY <1>3 DEF IInv, TypeOK, ModelIsLeased, Enqueue
  <1>6. LeftClean'
    BY <1>2, <1>3 DEF IInv, TypeOK, LeftClean, Enqueue
  <1>7. ServerIsWoken'
    <2>1. queue # <<>> => Head(queue) \in Line
      BY <1>1, HeadInLine DEF Line
    <2>2. CASE queue = <<>>
      BY <1>2, <1>3, <2>2 DEF ServerIsWoken, HeadIsWoken
    <2>3. CASE queue # <<>>
      <3>1. Head(queue') = Head(queue) /\ Head(queue) # x /\ phase'[Head(queue)] = phase[Head(queue)]
        BY <1>1, <1>2, <1>3, <2>1, <2>3 DEF IInv, TypeOK
      <3>2. QED
        BY <2>3, <3>1 DEF IInv, ServerIsWoken, HeadIsWoken, Enqueue
    <2>4. QED
      BY <2>2, <2>3
  <1>8. SleeperHasOwnLoop'
    BY <1>3, SleeperKeeps
  <1>9. QED
    BY <1>4, <1>5, <1>6, <1>7, <1>8 DEF IInv

LEMMA TakeTurnKeeps ==
  ASSUME IInv, TypeOK', NEW x \in Stages, TakeTurn(x)
  PROVE  IInv'
  <1> USE DEF Leased, Over, InLine
  <1>1. queue \in Seq(Stages) /\ IsInjective(queue) /\ queue # <<>> /\ Head(queue) = x /\ active = Nobody
    BY DEF IInv, TypeOK, LineIsWaiting, TakeTurn, MyTurn
  <1>2. Line' = Line \ {x} /\ IsInjective(queue')
    BY <1>1, ServeLine DEF Line, TakeTurn
  <1>3. phase' = [phase EXCEPT ![x] = "granted"] /\ active' = x /\ engine' = engine
    BY DEF TakeTurn
  <1>4. x # Nobody /\ phase \in [Stages -> Leased \cup Over \cup InLine \cup {"new"}]
    BY StagesAssumption DEF IInv, TypeOK
  <1>5. LeaseIsHeld' /\ OwnerHasLease'
    <2>1. \A y \in Stages : phase[y] \notin Leased
      BY <1>1, StagesAssumption DEF IInv, LeaseIsHeld
    <2>2. QED
      BY <1>3, <1>4, <2>1 DEF LeaseIsHeld, OwnerHasLease
  <1>6. LineIsWaiting'
    BY <1>2, <1>3, <1>4 DEF IInv, LineIsWaiting
  <1>7. ModelIsLeased' /\ LeftClean'
    <2>1. phase[x] \in {"trying", "waiting"}
      BY DEF TakeTurn, Awake
    <2>2. QED
      BY <1>2, <1>3, <1>4, <2>1 DEF IInv, ModelIsLeased, LeftClean
  <1>8. ServerIsWoken'
    BY <1>3, <1>4 DEF ServerIsWoken, HeadIsWoken
  <1>9. SleeperHasOwnLoop'
    BY <1>3, SleeperKeeps
  <1>10. QED
    BY <1>5, <1>6, <1>7, <1>8, <1>9 DEF IInv

\* Whoever leaves the line wakes the next one.
LEMMA LeaveLineKeeps ==
  ASSUME IInv, TypeOK', NEW x \in Stages, phase[x] \in {"trying", "waiting"}, LeaveLine(x),
         NEW over \in Over, phase' = [phase EXCEPT ![x] = over], UNCHANGED <<active, engine>>
  PROVE  IInv'
  <1> USE DEF Leased, Over, InLine
  <1>1. /\ queue \in Seq(Stages) /\ IsInjective(queue) /\ x \in Line
        /\ phase \in [Stages -> Leased \cup Over \cup InLine \cup {"new"}]
    BY DEF IInv, TypeOK, LineIsWaiting
  <1>2. Line' = Line \ {x} /\ IsInjective(queue') /\ queue' \in Seq(Stages)
    BY <1>1, QuitLine DEF Line, LeaveLine
  <1>3. LeaseIsHeld' /\ OwnerHasLease'
    BY <1>1 DEF IInv, TypeOK, LeaseIsHeld, OwnerHasLease
  <1>4. LineIsWaiting'
    BY <1>1, <1>2 DEF IInv, LineIsWaiting
  <1>5. ModelIsLeased'
    BY <1>1 DEF IInv, ModelIsLeased
  <1>6. active # x
    BY <1>1, StagesAssumption DEF IInv, OwnerHasLease
  <1>7. LeftClean'
    BY <1>1, <1>2, <1>6 DEF IInv, LeftClean
  <1>8. ServerIsWoken'
    <2>1. SUFFICES ASSUME queue' # <<>>, LoopOf(Head(queue')) = Server PROVE ServerIsWoken'
      BY DEF ServerIsWoken, LoopOf
    <2>2. Head(queue') \in Line' /\ Head(queue') \in Stages
      BY <1>2, <2>1, HeadInLine DEF Line
    <2>3. phase'[Head(queue')] \in InLine \cup {"failed"} /\ Head(queue') # x
      BY <1>2, <1>4, <2>2 DEF LineIsWaiting
    <2>4. phase[Head(queue')] = "waiting" => Head(queue') \in notified'
      BY <2>2, <2>3 DEF LeaveLine, Waiting
    <2>5. phase[Head(queue')] = phase'[Head(queue')] /\ phase[Head(queue')] # "asleep"
      BY <1>1, <2>1, <2>2, <2>3 DEF IInv, SleeperHasOwnLoop
    <2>6. QED
      BY <2>3, <2>4, <2>5 DEF ServerIsWoken, HeadIsWoken
  <1>9. SleeperHasOwnLoop'
    BY SleeperKeeps
  <1>10. QED
    BY <1>3, <1>4, <1>5, <1>7, <1>8, <1>9 DEF IInv

-----------------------------------------------------------------------------
(* The steps that leave the line alone.                                    *)

LEMMA AnnounceKeeps ==
  ASSUME IInv, TypeOK', NEW x \in Stages, Announce(x)
  PROVE  IInv'
  <1> USE DEF Leased, Over, InLine
  <1>1. /\ phase \in [Stages -> Leased \cup Over \cup InLine \cup {"new"}]
        /\ queue \in Seq(Stages) /\ phase[x] = "queued" /\ x \in Line /\ active # x
    BY StagesAssumption DEF IInv, TypeOK, LineIsWaiting, OwnerHasLease, Announce, Goes
  <1>2. /\ Line' = Line /\ UNCHANGED <<queue, active, notified, engine>>
        /\ \/ phase' = [phase EXCEPT ![x] = "trying"]
           \/ phase' = [phase EXCEPT ![x] = "failed"] /\ "callback" \in Faults
    BY DEF Announce, Goes, Line
  <1>3. Line \subseteq Stages
    BY <1>1, LineType DEF Line
  <1>4. LeaseIsHeld' /\ OwnerHasLease'
    BY <1>1, <1>2 DEF IInv, TypeOK, LeaseIsHeld, OwnerHasLease
  <1>5. LineIsWaiting'
    BY <1>1, <1>2, <1>3 DEF IInv, LineIsWaiting
  <1>6. ModelIsLeased' /\ LeftClean'
    BY <1>1, <1>2 DEF IInv, ModelIsLeased, LeftClean
  <1>7. ServerIsWoken'
    <2>1. queue # <<>> => Head(queue) \in Stages
      BY <1>1, HeadInLine
    <2>2. QED
      BY <1>1, <1>2, <2>1 DEF IInv, ServerIsWoken, HeadIsWoken
  <1>8. SleeperHasOwnLoop'
    BY <1>1, <1>2, SleeperKeeps
  <1>9. QED
    BY <1>4, <1>5, <1>6, <1>7, <1>8 DEF IInv

LEMMA SleepKeeps ==
  ASSUME IInv, TypeOK', NEW x \in Stages, Sleep(x)
  PROVE  IInv'
  <1> USE DEF Leased, Over, InLine
  <1>1. /\ phase \in [Stages -> Leased \cup Over \cup InLine \cup {"new"}]
        /\ queue \in Seq(Stages) /\ phase[x] \in {"trying", "waiting"} /\ active # x
    BY StagesAssumption DEF IInv, TypeOK, OwnerHasLease, Sleep, Awake
  <1>2. /\ Line' = Line /\ UNCHANGED <<queue, active, engine>>
        /\ phase' = [phase EXCEPT ![x] = "waiting"] /\ notified' = notified \ {x}
    BY DEF Sleep, Line
  <1>3. Line \subseteq Stages
    BY <1>1, LineType DEF Line
  <1>4. LeaseIsHeld' /\ OwnerHasLease'
    BY <1>1, <1>2 DEF IInv, TypeOK, LeaseIsHeld, OwnerHasLease
  <1>5. LineIsWaiting'
    BY <1>1, <1>2, <1>3 DEF IInv, LineIsWaiting
  <1>6. ModelIsLeased' /\ LeftClean'
    BY <1>1, <1>2 DEF IInv, ModelIsLeased, LeftClean
  <1>7. ServerIsWoken'
    <2>1. SUFFICES ASSUME active = Nobody, queue # <<>> PROVE ServerIsWoken'
      BY <1>2 DEF ServerIsWoken, HeadIsWoken
    <2>2. Head(queue) \in Stages /\ Head(queue) # x
      BY <1>1, <2>1, HeadInLine DEF Sleep, MyTurn
    <2>3. QED
      BY <1>1, <1>2, <2>2 DEF IInv, ServerIsWoken, HeadIsWoken
  <1>8. SleeperHasOwnLoop'
    BY <1>1, <1>2, SleeperKeeps
  <1>9. QED
    BY <1>4, <1>5, <1>6, <1>7, <1>8 DEF IInv

LEMMA DozeKeeps ==
  ASSUME IInv, TypeOK', NEW x \in Stages, Doze(x)
  PROVE  IInv'
  <1> USE DEF Leased, Over, InLine
  <1>1. /\ phase \in [Stages -> Leased \cup Over \cup InLine \cup {"new"}]
        /\ queue \in Seq(Stages) /\ phase[x] = "waiting" /\ active # x /\ LoopOf(x) # Server
    BY StagesAssumption DEF IInv, TypeOK, OwnerHasLease, Doze, Goes
  <1>2. /\ Line' = Line /\ UNCHANGED <<queue, active, notified, engine>>
        /\ phase' = [phase EXCEPT ![x] = "asleep"]
    BY DEF Doze, Goes, Line
  <1>3. Line \subseteq Stages
    BY <1>1, LineType DEF Line
  <1>4. LeaseIsHeld' /\ OwnerHasLease'
    BY <1>1, <1>2 DEF IInv, TypeOK, LeaseIsHeld, OwnerHasLease
  <1>5. LineIsWaiting'
    BY <1>1, <1>2, <1>3 DEF IInv, LineIsWaiting
  <1>6. ModelIsLeased' /\ LeftClean'
    BY <1>1, <1>2 DEF IInv, ModelIsLeased, LeftClean
  <1>7. ServerIsWoken'
    <2>1. SUFFICES ASSUME active = Nobody, queue # <<>>, LoopOf(Head(queue)) = Server PROVE ServerIsWoken'
      BY <1>2 DEF ServerIsWoken, LoopOf
    <2>2. Head(queue) \in Stages /\ Head(queue) # x
      BY <1>1, <2>1, HeadInLine
    <2>3. QED
      BY <1>1, <1>2, <2>1, <2>2 DEF IInv, ServerIsWoken, HeadIsWoken
  <1>8. SleeperHasOwnLoop'
    BY <1>1, <1>2, SleeperKeeps
  <1>9. QED
    BY <1>4, <1>5, <1>6, <1>7, <1>8 DEF IInv

\* A stage that goes on in its lease, or that its callback throws out of it.
LEMMA LeasedKeeps ==
  ASSUME IInv, TypeOK', NEW x \in Stages, NEW to \in (Leased \ {"granted"}) \cup {"failed"},
         phase[x] \in Leased, phase' = [phase EXCEPT ![x] = to],
         to = "failed" => "callback" \in Faults /\ phase[x] = "granted" /\ UNCHANGED engine,
         \A y \in Stages \ {x} : engine'[y] = engine[y],
         UNCHANGED <<queue, active, notified>>
  PROVE  IInv'
  <1> USE DEF Leased, Over, InLine
  <1>1. /\ phase \in [Stages -> Leased \cup Over \cup InLine \cup {"new"}]
        /\ queue \in Seq(Stages) /\ Line' = Line /\ active = x
    BY DEF IInv, TypeOK, LeaseIsHeld, Line
  <1>2. Line \subseteq Stages /\ x \notin Line
    BY <1>1, LineType DEF Line, IInv, LineIsWaiting
  <1>3. LeaseIsHeld' /\ OwnerHasLease'
    BY <1>1 DEF IInv, TypeOK, LeaseIsHeld, OwnerHasLease
  <1>4. LineIsWaiting'
    BY <1>1, <1>2 DEF IInv, LineIsWaiting
  <1>5. ModelIsLeased'
    BY <1>1 DEF IInv, ModelIsLeased
  <1>6. LeftClean'
    BY <1>1, <1>2 DEF IInv, LeftClean
  <1>7. ServerIsWoken'
    BY <1>1, StagesAssumption DEF ServerIsWoken, HeadIsWoken
  <1>8. SleeperHasOwnLoop'
    BY SleeperKeeps
  <1>9. QED
    BY <1>3, <1>4, <1>5, <1>6, <1>7, <1>8 DEF IInv

\* The end of a lease wakes whoever waits.
LEMMA ReleaseKeeps ==
  ASSUME IInv, TypeOK', NEW x \in Stages, NEW to \in Over,
         phase[x] \in Leased, phase' = [phase EXCEPT ![x] = to], Release(x),
         \A y \in Stages \ {x} : engine'[y] = engine[y],
         Faults \cap {"impatient", "unload"} = {} => engine'[x] = "off",
         UNCHANGED queue
  PROVE  IInv'
  <1> USE DEF Leased, Over, InLine
  <1>1. /\ phase \in [Stages -> Leased \cup Over \cup InLine \cup {"new"}]
        /\ queue \in Seq(Stages) /\ Line' = Line /\ active = x /\ active' = Nobody
        /\ notified' = notified \cup Waiting
    BY DEF IInv, TypeOK, LeaseIsHeld, Line, Release
  <1>2. Line \subseteq Stages /\ x \notin Line
    BY <1>1, LineType DEF Line, IInv, LineIsWaiting
  <1>3. LeaseIsHeld' /\ OwnerHasLease'
    BY <1>1 DEF IInv, TypeOK, LeaseIsHeld, OwnerHasLease
  <1>4. LineIsWaiting'
    BY <1>1, <1>2 DEF IInv, LineIsWaiting
  <1>5. ModelIsLeased'
    BY <1>1 DEF IInv, ModelIsLeased
  <1>6. LeftClean'
    BY <1>1, <1>2, StagesAssumption DEF IInv, LeftClean
  <1>7. ServerIsWoken'
    <2>1. SUFFICES ASSUME queue # <<>>, LoopOf(Head(queue)) = Server PROVE ServerIsWoken'
      BY DEF ServerIsWoken, LoopOf
    <2>2. Head(queue) \in Line /\ Head(queue) \in Stages
      BY <1>1, <2>1, HeadInLine DEF Line
    <2>3. phase[Head(queue)] \in InLine \cup {"failed"} /\ Head(queue) # x
      BY <1>2, <2>2 DEF IInv, LineIsWaiting
    <2>4. phase'[Head(queue)] = phase[Head(queue)] /\ phase[Head(queue)] # "asleep"
      BY <1>1, <2>1, <2>2, <2>3 DEF IInv, SleeperHasOwnLoop
    <2>5. QED
      BY <1>1, <2>2, <2>3, <2>4 DEF ServerIsWoken, HeadIsWoken, Waiting
  <1>8. SleeperHasOwnLoop'
    BY SleeperKeeps
  <1>9. QED
    BY <1>3, <1>4, <1>5, <1>6, <1>7, <1>8 DEF IInv

LEMMA SwitchKeeps ==
  ASSUME IInv, TypeOK', NEW x \in Stages, Switch(x)
  PROVE  IInv'
  <1>1. /\ phase[x] = "granted" /\ UNCHANGED <<queue, active, notified>>
        /\ \A y \in Stages \ {x} : engine'[y] = engine[y]
    BY DEF IInv, TypeOK, Switch, Goes
  <1>2. CASE phase' = [phase EXCEPT ![x] = "starting"]
    BY <1>1, <1>2, LeasedKeeps DEF Leased
  <1>3. CASE "callback" \in Faults /\ phase' = [phase EXCEPT ![x] = "failed"] /\ UNCHANGED engine
    BY <1>1, <1>3, LeasedKeeps DEF Leased
  <1>4. QED
    BY <1>2, <1>3 DEF Switch, Goes

LEMMA LifecycleKeeps ==
  ASSUME IInv, TypeOK', NEW x \in Stages, Lifecycle(x)
  PROVE  IInv'
  <1>1. engine \in [Stages -> {"off", "loading", "on", "unloading"}]
    BY DEF IInv, TypeOK
  <1>2. CASE Switch(x)
    BY <1>2, SwitchKeeps
  <1>3. CASE Load(x)
    <2>1. phase[x] = "starting" /\ phase' = [phase EXCEPT ![x] = "body"]
      BY <1>3 DEF Load, Goes
    <2>2. QED
      BY <1>1, <1>3, <2>1, LeasedKeeps DEF Load, Engine, Leased
  <1>4. CASE LeaveBody(x)
    <2>1. phase[x] = "body" /\ phase' = [phase EXCEPT ![x] = "stopping"]
      BY <1>4 DEF LeaveBody, Goes
    <2>2. QED
      BY <1>1, <1>4, <2>1, LeasedKeeps DEF LeaveBody, Engine, Leased
  <1>5. CASE LoadFails(x)
    <2>1. phase[x] = "starting" /\ phase' = [phase EXCEPT ![x] = "failed"]
      BY <1>5 DEF LoadFails, Goes
    <2>2. QED
      BY <1>1, <1>5, <2>1, ReleaseKeeps DEF LoadFails, Engine, Leased, Over
  <1>6. CASE Unload(x)
    <2>1. phase[x] = "stopping" /\ phase' = [phase EXCEPT ![x] = "finished"]
      BY <1>6 DEF Unload, Goes
    <2>2. QED
      BY <1>1, <1>6, <2>1, ReleaseKeeps DEF Unload, Engine, Leased, Over
  <1>7. CASE UnloadFails(x)
    <2>1. phase[x] = "stopping" /\ phase' = [phase EXCEPT ![x] = "failed"] /\ "unload" \in Faults
      BY <1>7 DEF UnloadFails, Goes
    <2>2. QED
      BY <1>1, <1>7, <2>1, ReleaseKeeps DEF UnloadFails, Engine, Leased, Over
  <1>8. QED
    BY <1>2, <1>3, <1>4, <1>5, <1>6, <1>7 DEF Lifecycle

LEMMA ImpatientKeeps ==
  ASSUME IInv, TypeOK', NEW x \in Stages, Impatient(x)
  PROVE  IInv'
  <1>1. "impatient" \in Faults /\ UNCHANGED queue /\ engine \in [Stages -> {"off", "loading", "on", "unloading"}]
    BY DEF IInv, TypeOK, Impatient
  <1>2. CASE Goes(x, "starting", "stopping") /\ Engine(x, "unloading") /\ UNCHANGED <<active, notified>>
    BY <1>1, <1>2, LeasedKeeps DEF Goes, Engine, Leased
  <1>3. CASE (Goes(x, "starting", "cancelled") \/ Goes(x, "stopping", "cancelled"))
             /\ UNCHANGED engine /\ Release(x)
    BY <1>1, <1>3, ReleaseKeeps DEF Goes, Leased, Over
  <1>4. QED
    BY <1>2, <1>3 DEF Impatient

LEMMA SettleKeeps ==
  ASSUME IInv, TypeOK', NEW x \in Stages, Settle(x)
  PROVE  IInv'
  <1>1. /\ UNCHANGED <<queue, active, phase, notified>> /\ Line' = Line
        /\ phase[x] \in Over /\ engine[x] # "off"
        /\ \A y \in Stages \ {x} : engine'[y] = engine[y]
    BY DEF IInv, TypeOK, Settle, Engine, Line
  <1>2. LeaseIsHeld' /\ OwnerHasLease' /\ LineIsWaiting' /\ LeftClean' /\ SleeperHasOwnLoop' /\ ServerIsWoken'
    BY <1>1 DEF IInv, LeaseIsHeld, OwnerHasLease, LineIsWaiting, LeftClean, SleeperHasOwnLoop, LoopOf,
       ServerIsWoken, HeadIsWoken
  <1>3. ModelIsLeased'
    BY <1>1 DEF IInv, ModelIsLeased, Over, Leased
  <1>4. QED
    BY <1>2, <1>3 DEF IInv

-----------------------------------------------------------------------------
(* The invariant.                                                          *)

LEMMA InvariantInit == Init => IInv
  <1> SUFFICES ASSUME Init PROVE IInv
    OBVIOUS
  <1>1. queue = <<>> /\ queue \in Seq(Stages) /\ Line = {}
    BY EmptySeq, LineType DEF Init, Line
  <1>2. IsInjective(queue)
    <2>1. DOMAIN queue = 1..Len(queue) /\ Len(queue) = 0
      BY <1>1, LenProperties, EmptySeq
    <2>2. QED
      BY <2>1 DEF IsInjective
  <1>3. TypeOK
    BY <1>1 DEF Init, TypeOK
  <1>4. QED
    BY <1>1, <1>2, <1>3 DEF Init, IInv, LeaseIsHeld, OwnerHasLease, LineIsWaiting,
       ModelIsLeased, LeftClean, SleeperHasOwnLoop, ServerIsWoken, HeadIsWoken, Leased, Over, InLine

LEMMA InvariantStep == IInv /\ [Next]_vars => IInv'
  <1> SUFFICES ASSUME IInv, [Next]_vars PROVE IInv'
    OBVIOUS
  <1>1. TypeOK'
    BY TypeStep DEF IInv
  <1>2. CASE UNCHANGED vars
    BY <1>1, <1>2 DEF vars, IInv, LeaseIsHeld, OwnerHasLease, LineIsWaiting,
       ModelIsLeased, LeftClean, SleeperHasOwnLoop, ServerIsWoken, HeadIsWoken, Line
  <1>3. ASSUME NEW x \in Stages, Enqueue(x) PROVE IInv'
    BY <1>1, <1>3, EnqueueKeeps
  <1>4. ASSUME NEW x \in Stages, Announce(x) PROVE IInv'
    BY <1>1, <1>4, AnnounceKeeps
  <1>5. ASSUME NEW x \in Stages, TakeTurn(x) PROVE IInv'
    BY <1>1, <1>5, TakeTurnKeeps
  <1>6. ASSUME NEW x \in Stages, Sleep(x) PROVE IInv'
    BY <1>1, <1>6, SleepKeeps
  <1>7. ASSUME NEW x \in Stages, Refused(x) PROVE IInv'
    BY <1>1, <1>7, LeaveLineKeeps DEF Refused, Awake, Over
  <1>8. ASSUME NEW x \in Stages, CancelWait(x) PROVE IInv'
    BY <1>1, <1>8, LeaveLineKeeps DEF CancelWait, Goes, Over
  <1>9. ASSUME NEW x \in Stages, Lifecycle(x) PROVE IInv'
    BY <1>1, <1>9, LifecycleKeeps
  <1>10. ASSUME NEW x \in Stages, Impatient(x) PROVE IInv'
    BY <1>1, <1>10, ImpatientKeeps
  <1>11. ASSUME NEW x \in Stages, Settle(x) PROVE IInv'
    BY <1>1, <1>11, SettleKeeps
  <1>12. ASSUME NEW x \in Stages, Doze(x) PROVE IInv'
    BY <1>1, <1>12, DozeKeeps
  <1>13. QED
    BY <1>2, <1>3, <1>4, <1>5, <1>6, <1>7, <1>8, <1>9, <1>10, <1>11, <1>12 DEF Next, Turn

\* The queue, the lease, the models and the wake-ups agree in every state that
\* acquire, release and the providers' lifecycles reach, whatever fails.
THEOREM Invariant == Spec => []IInv
  <1> QED
    BY InvariantInit, InvariantStep, PTL DEF Spec

\* The variables have their types, whatever fails.
THEOREM TypeCorrect == Spec => []TypeOK
  <1>1. IInv => TypeOK
    BY DEF IInv
  <1>2. QED
    BY Invariant, <1>1, PTL

\* Leases exclude each other, whatever fails.
THEOREM OneLeaseHolds == Spec => []OneLease
  <1>1. IInv => OneLease
    BY DEF IInv, LeaseIsHeld, OneLease
  <1>2. QED
    BY Invariant, <1>1, PTL

\* When the GPU is free, a stage of the server's loop that may have it is
\* awake or about to be, whoever is cancelled, refused or thrown out, and
\* from whichever thread the last lease was given back (gpu_manager.py:83-101).
THEOREM ServerIsWokenHolds == Spec => []ServerIsWoken
  <1>1. IInv => ServerIsWoken
    BY DEF IInv
  <1>2. QED
    BY Invariant, <1>1, PTL

\* Models exclude each other, unless a load is abandoned or an unload fails.
THEOREM OneEngineHolds ==
  ASSUME Faults \cap {"impatient", "unload"} = {}
  PROVE  Spec => []OneEngine
  <1>1. IInv => OneEngine
    BY DEF IInv, LeaseIsHeld, ModelIsLeased, OneEngine
  <1>2. QED
    BY Invariant, <1>1, PTL

\* A stage that is over has neither lease nor place, unless a callback raises.
THEOREM CleanupGuaranteedHolds ==
  ASSUME "callback" \notin Faults
  PROVE  Spec => []CleanupGuaranteed
  <1>1. IInv => CleanupGuaranteed
    <2> SUFFICES ASSUME IInv PROVE CleanupGuaranteed
      OBVIOUS
    <2>1. DOMAIN queue = 1..Len(queue)
      BY LenProperties DEF IInv, TypeOK
    <2>2. QED
      BY <2>1 DEF IInv, LeftClean, CleanupGuaranteed, Line, ToSet
  <1>2. QED
    BY Invariant, <1>1, PTL

-----------------------------------------------------------------------------
(* The manager is a lock that serves in the order of arrival.              *)

Arrived == {x \in Stages : phase[x] # "new"}

LEMMA LockStep == IInv /\ IInv' /\ [Next]_vars => [Lock!Next]_(Lock!lockVars)
  <1> SUFFICES ASSUME IInv, IInv', [Next]_vars
               PROVE  Lock!Next \/ UNCHANGED <<queue, active, Arrived>>
    BY DEF Lock!lockVars, Arrived
  <1> USE DEF Leased, Over, InLine
  <1>1. phase \in [Stages -> Leased \cup Over \cup InLine \cup {"new"}]
    BY DEF IInv, TypeOK
  <1>2. CASE UNCHANGED vars
    BY <1>2 DEF vars, Arrived
  <1>3. ASSUME NEW x \in Stages, Enqueue(x) PROVE Lock!Join(x)
    BY <1>1, <1>3 DEF Enqueue, Goes, Lock!Join
  <1>4. ASSUME NEW x \in Stages, TakeTurn(x) PROVE Lock!Grant
    <2>1. Arrived' = Arrived
      BY <1>1, <1>4 DEF TakeTurn, Awake, Arrived
    <2>2. QED
      BY <1>4, <2>1 DEF TakeTurn, MyTurn, Lock!Grant, Arrived
  <1>5. ASSUME NEW x \in Stages, phase[x] # "new", LeaveLine(x), UNCHANGED active,
               NEW over \in Over, phase' = [phase EXCEPT ![x] = over]
        PROVE  Lock!GiveUp(x)
    <2>1. Arrived' = Arrived
      BY <1>1, <1>5 DEF Arrived
    <2>2. Lock!RemoveFirst(queue, x) = RemoveFirst(queue, x)
      BY DEF RemoveFirst, RemoveAt, SelectInSeq, Min,
             Lock!RemoveFirst, Lock!RemoveAt, Lock!SelectInSeq, Lock!Min
    <2>3. QED
      BY <1>5, <2>1, <2>2 DEF LeaveLine, Lock!GiveUp, Arrived
  <1>6. ASSUME NEW x \in Stages, phase[x] \in Leased, Release(x), UNCHANGED queue,
               NEW over \in Over, phase' = [phase EXCEPT ![x] = over]
        PROVE  Lock!Release
    <2>1. Arrived' = Arrived /\ active = x /\ active # Nobody /\ active' = Nobody
      BY <1>1, <1>6, StagesAssumption DEF Arrived, IInv, LeaseIsHeld, Release
    <2>2. QED
      BY <1>6, <2>1 DEF Lock!Release, Arrived
  <1>7. ASSUME NEW x \in Stages, Announce(x) \/ Sleep(x) \/ Doze(x) \/ Switch(x) \/ Load(x) \/ LeaveBody(x) \/ Settle(x)
        PROVE  UNCHANGED <<queue, active, Arrived>>
    BY <1>1, <1>7 DEF Announce, Sleep, Doze, Awake, Switch, Load, LeaveBody, Settle, Goes, Arrived
  <1>8. ASSUME NEW x \in Stages, Refused(x) \/ CancelWait(x) PROVE Lock!GiveUp(x)
    BY <1>5, <1>8 DEF Refused, CancelWait, Awake, Goes
  <1>9. ASSUME NEW x \in Stages, LoadFails(x) \/ Unload(x) \/ UnloadFails(x) PROVE Lock!Release
    BY <1>6, <1>9 DEF LoadFails, Unload, UnloadFails, Goes
  <1>10. ASSUME NEW x \in Stages, Impatient(x) PROVE Lock!Release \/ UNCHANGED <<queue, active, Arrived>>
    <2>1. CASE Goes(x, "starting", "stopping") /\ UNCHANGED active
      BY <1>1, <1>10, <2>1 DEF Impatient, Goes, Arrived
    <2>2. CASE (Goes(x, "starting", "cancelled") \/ Goes(x, "stopping", "cancelled")) /\ Release(x)
      BY <1>6, <1>10, <2>2 DEF Impatient, Goes
    <2>3. QED
      BY <1>10, <2>1, <2>2 DEF Impatient
  <1>11. QED
    BY <1>2, <1>3, <1>4, <1>7, <1>8, <1>9, <1>10 DEF Next, Turn, Lifecycle, Lock!Next

\* Every behaviour of the manager, with whatever faults, is one of FairLock's.
THEOREM ImplementsLock == Spec => Lock!Safety
  <1>1. Init => Lock!Init
    BY DEF Init, Lock!Init
  <1>2. QED
    BY Invariant, LockStep, <1>1, PTL DEF Spec, Lock!Safety
=============================================================================
