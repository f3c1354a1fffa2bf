--------------------------- MODULE ServicesProofs ---------------------------
(* Two parts of the services, for any size.                                   *)
(*                                                                            *)
(* The installer of the runtimes: the former bundle is never lost, and a      *)
(* failed request gives it back, for any number of requests, runtimes and     *)
(* revisions.  Only the request that has the lock changes the disk            *)
(* (LockIsHeld), so what it moved aside is what it found (FormerIsKept), and  *)
(* what it puts in its place is complete and of this application's revision   *)
(* (StagingIsReady, NewIsInstalled).                                          *)
(*                                                                            *)
(* The algorithms that the run "algorithms" checks on short inputs, for       *)
(* inputs of any length: loops are recursive functions, which exist           *)
(* (Recursion) and of which the loop's invariant is proved by induction       *)
(* (EveryNumber).                                                             *)
EXTENDS QwenInstaller, MCAlgorithms, WellFoundedInduction, FiniteSetTheorems, SequenceTheorems, TLAPS

-----------------------------------------------------------------------------
(* The installer.                                                          *)

AtWork == {"checking", "building", "activating", "activated", "failing", "losing"}

LockIsHeld == \A r \in Requests : pc[r] \in AtWork => lock = r

\* Until the two renames, nothing has been touched.
NothingMoved(r) ==
  /\ pc[r] \in {"new", "waiting", "checking", "building"} => backup[r] = NoBundle
  /\ pc[r] \in {"checking", "building", "failing"} => dest = before[r]

StagingIsReady(r) ==
  /\ pc[r] \in {"building", "activating", "failing", "losing"} => staging[r] # NoBundle
  /\ pc[r] \in {"building", "activating"} => staging[r].revision = PackageRevision
  /\ pc[r] = "activating" => staging[r].parts = Parts

\* Between the renames the former bundle is aside, or there was none.
FormerIsKept(r) ==
  /\ pc[r] = "building" => Upgradable(dest)
  /\ pc[r] = "activating" => dest = NoBundle /\ backup[r] = before[r]
  /\ pc[r] \in {"activating", "activated"} => Upgradable(backup[r])

NewIsInstalled(r) ==
  pc[r] = "activated" =>
    dest # NoBundle /\ dest.parts = Parts /\ dest.revision = PackageRevision

Good(r) == NothingMoved(r) /\ StagingIsReady(r) /\ FormerIsKept(r) /\ NewIsInstalled(r)

IInv ==
  /\ TypeOK
  /\ LockIsHeld
  /\ \A r \in Requests : Good(r)

\* The inductive invariant of the installer: initially, and in each step.
LEMMA InitIInv == Init => IInv
  BY InstallerAssumption DEF Init, IInv, TypeOK, LockIsHeld, AtWork,
     Good, NothingMoved, StagingIsReady, FormerIsKept, NewIsInstalled

\* A step keeps the types.
LEMMA TypeStep == IInv /\ [Next]_vars => TypeOK'
  <1> SUFFICES ASSUME IInv, [Next]_vars PROVE TypeOK'
    OBVIOUS
  <1> USE DEF IInv, TypeOK
  <1>1. ASSUME NEW r \in Requests,
               Ask(r) \/ TakeLock(r) \/ Refuse(r) \/ BuildFails(r) \/ NothingToKeep(r) \/ Succeed(r)
        PROVE  TypeOK'
    BY <1>1 DEF Ask, TakeLock, Refuse, BuildFails, NothingToKeep, Succeed, At, To, Answer
  <1>2. ASSUME NEW r \in Requests, BeginStaging(r) PROVE TypeOK'
    <2>1. [device |-> device[r], revision |-> PackageRevision, parts |-> {}] \in Bundles
      BY InstallerAssumption DEF Bundles
    <2>2. QED
      BY <1>2, <2>1 DEF BeginStaging, To, At
  <1>3. ASSUME NEW r \in Requests, Build(r) PROVE TypeOK'
    <2>1. PICK p \in Parts : staging' = [staging EXCEPT ![r].parts = @ \cup {p}]
      BY <1>3 DEF Build
    <2>2. staging[r] \in Bundles
      BY <1>3 DEF Build, At, Good, StagingIsReady
    <2>3. [staging[r] EXCEPT !.parts = @ \cup {p}] \in Bundles
      BY <2>2 DEF Bundles, Parts
    <2>4. QED
      BY <1>3, <2>1, <2>3 DEF Build
  <1>4. ASSUME NEW r \in Requests, KeepFormer(r) \/ Activate(r) \/ ActivationFails(r) PROVE TypeOK'
    BY <1>4 DEF KeepFormer, Activate, ActivationFails, At, To
  <1>5. ASSUME NEW r \in Requests, RemoveFormer(r) PROVE TypeOK'
    <2>1. backup[r] \in Bundles
      BY <1>5 DEF RemoveFormer
    <2>2. ASSUME NEW p \in backup[r].parts
          PROVE  [backup[r] EXCEPT !.parts = @ \ {p}] \in Bundles
      BY <2>1 DEF Bundles
    <2>3. QED
      BY <1>5, <2>2 DEF RemoveFormer
  <1>6. ASSUME NEW r \in Requests, Fail(r) \/ FailWithout(r) PROVE TypeOK'
    <2>1. staging[r] \in Bundles
      BY <1>6 DEF Fail, FailWithout, ClearStaging, At, Good, StagingIsReady
    <2>2. ASSUME NEW some \in SUBSET staging[r].parts
          PROVE  [staging[r] EXCEPT !.parts = some] \in Bundles
      BY <2>1 DEF Bundles
    <2>3. QED
      BY <1>6, <2>2 DEF Fail, FailWithout, ClearStaging, Answer
  <1>7. CASE Crash
    BY <1>7 DEF Crash
  <1>8. CASE UNCHANGED vars
    BY <1>8 DEF vars
  <1>9. QED
    BY <1>1, <1>2, <1>3, <1>4, <1>5, <1>6, <1>7, <1>8 DEF Next

-----------------------------------------------------------------------------
\* Nobody else is at work, whoever has the lock.
LEMMA OthersAreIdle ==
  ASSUME IInv, NEW r \in Requests, lock = r, NEW q \in Requests, q # r
  PROVE  pc[q] \notin AtWork
  BY DEF IInv, LockIsHeld

\* A step leaves the lock with the request that is at work.
LEMMA LockStep == IInv /\ [Next]_vars => LockIsHeld'
  <1> SUFFICES ASSUME IInv, [Next]_vars PROVE LockIsHeld'
    OBVIOUS
  <1> USE DEF IInv, TypeOK, LockIsHeld, AtWork, At, To, Answer
  <1>1. ASSUME NEW r \in Requests, Ask(r) \/ TakeLock(r) \/ BeginStaging(r) \/ Refuse(r) PROVE LockIsHeld'
    BY <1>1, InstallerAssumption DEF Ask, TakeLock, BeginStaging, Refuse
  <1>2. ASSUME NEW r \in Requests, Build(r) \/ BuildFails(r) \/ KeepFormer(r) \/ NothingToKeep(r)
        PROVE LockIsHeld'
    BY <1>2 DEF Build, BuildFails, KeepFormer, NothingToKeep
  <1>3. ASSUME NEW r \in Requests, Activate(r) \/ ActivationFails(r) \/ RemoveFormer(r) PROVE LockIsHeld'
    BY <1>3 DEF Activate, ActivationFails, RemoveFormer
  <1>4. ASSUME NEW r \in Requests, Succeed(r) \/ Fail(r) \/ FailWithout(r) PROVE LockIsHeld'
    BY <1>4 DEF Succeed, Fail, FailWithout, ClearStaging
  <1>5. CASE Crash
    BY <1>5 DEF Crash
  <1>6. CASE UNCHANGED vars
    BY <1>6 DEF vars
  <1>7. QED
    BY <1>1, <1>2, <1>3, <1>4, <1>5, <1>6 DEF Next

\* A request that is not at work stays as it is while another one works.
LEMMA OthersStayGood ==
  ASSUME NEW q \in Requests, Good(q), pc[q] \notin AtWork,
         pc'[q] = pc[q], backup'[q] = backup[q]
  PROVE  Good(q)'
  BY DEF Good, NothingMoved, StagingIsReady, FormerIsKept, NewIsInstalled, AtWork

\* What the working request itself does.
LEMMA WorkerStaysGood ==
  ASSUME IInv, NEW r \in Requests,
         \/ Ask(r) \/ TakeLock(r) \/ BeginStaging(r) \/ Refuse(r) \/ Build(r)
         \/ BuildFails(r) \/ KeepFormer(r) \/ NothingToKeep(r) \/ Activate(r)
         \/ ActivationFails(r) \/ RemoveFormer(r) \/ Succeed(r) \/ Fail(r) \/ FailWithout(r)
  PROVE  Good(r)'
  <1> USE DEF NothingMoved, StagingIsReady, FormerIsKept, NewIsInstalled
  <1>1. Good(r) /\ TypeOK
    BY DEF IInv
  <1>2. ASSUME Ask(r) \/ TakeLock(r) \/ BeginStaging(r) \/ Refuse(r) PROVE Good(r)'
    BY <1>1, <1>2, InstallerAssumption
    DEF Good, TypeOK, Ask, TakeLock, BeginStaging, Refuse, At, To, Answer, Bundles
  <1>3. ASSUME Build(r) PROVE Good(r)'
    <2>1. PICK p \in Parts : staging' = [staging EXCEPT ![r].parts = @ \cup {p}]
      BY <1>3 DEF Build
    <2>2. staging[r] \in Bundles
      BY <1>1, <1>3 DEF TypeOK, Good, Build, At
    <2>3. /\ staging'[r] = [staging[r] EXCEPT !.parts = @ \cup {p}]
          /\ staging'[r] \in Bundles
      BY <1>1, <2>1, <2>2 DEF TypeOK, Bundles, Parts
    <2>4. staging'[r] # NoBundle /\ staging'[r].revision = staging[r].revision
      BY <2>2, <2>3, InstallerAssumption DEF Bundles, Parts
    <2>5. QED
      BY <1>1, <1>3, <2>4 DEF Good, Build, At
  <1>4. ASSUME BuildFails(r) \/ KeepFormer(r) \/ NothingToKeep(r) PROVE Good(r)'
    BY <1>1, <1>4 DEF Good, TypeOK, BuildFails, KeepFormer, NothingToKeep, At, To
  <1>5. ASSUME Activate(r) \/ ActivationFails(r) PROVE Good(r)'
    BY <1>1, <1>5 DEF Good, TypeOK, Activate, ActivationFails, At, To
  <1>6. ASSUME RemoveFormer(r) PROVE Good(r)'
    <2>1. backup[r] \in Bundles /\ backup[r] # NoBundle /\ Upgradable(backup[r])
      BY <1>1, <1>6 DEF TypeOK, Good, RemoveFormer, At
    <2>2. Upgradable(backup'[r])
      <3>1. CASE backup' = [backup EXCEPT ![r] = NoBundle]
        BY <1>1, <3>1 DEF TypeOK, Upgradable
      <3>2. ASSUME NEW p \in backup[r].parts, backup' = [backup EXCEPT ![r].parts = @ \ {p}]
            PROVE  Upgradable(backup'[r])
        <4>1. /\ backup'[r].revision = backup[r].revision
              /\ Managed(backup'[r]) => Managed(backup[r])
          BY <1>1, <2>1, <3>2 DEF TypeOK, Bundles, Managed
        <4>2. QED
          BY <2>1, <4>1 DEF Upgradable
      <3>3. QED
        BY <1>6, <3>1, <3>2 DEF RemoveFormer
    <2>3. QED
      BY <1>1, <1>6, <2>2 DEF Good, RemoveFormer, At
  <1>7. ASSUME Succeed(r) \/ Fail(r) \/ FailWithout(r) PROVE Good(r)'
    BY <1>1, <1>7 DEF Good, TypeOK, Succeed, Fail, FailWithout, ClearStaging, At, Answer
  <1>8. QED
    BY <1>2, <1>3, <1>4, <1>5, <1>6, <1>7

\* What a request has moved and built stays what it relies on.
LEMMA GoodStep == IInv /\ [Next]_vars => (\A q \in Requests : Good(q))'
  <1> SUFFICES ASSUME IInv, [Next]_vars, NEW q \in Requests PROVE Good(q)'
    OBVIOUS
  <1>1. Good(q) /\ TypeOK /\ LockIsHeld
    BY DEF IInv
  <1>2. ASSUME NEW r \in Requests, r # q, Ask(r) PROVE Good(q)'
    BY <1>1, <1>2 DEF Ask, To, Good, NothingMoved, StagingIsReady, FormerIsKept, NewIsInstalled,
                      Upgradable, TypeOK
  <1>3. ASSUME NEW r \in Requests, r # q,
               TakeLock(r) \/ BeginStaging(r) \/ Refuse(r) \/ Build(r) \/ BuildFails(r) \/ KeepFormer(r)
        PROVE  Good(q)'
    <2>1. pc[q] \notin AtWork
      BY <1>1, <1>3, InstallerAssumption
      DEF LockIsHeld, TakeLock, BeginStaging, Refuse, Build, BuildFails, KeepFormer, At
    <2>2. pc'[q] = pc[q] /\ backup'[q] = backup[q]
      BY <1>1, <1>3 DEF TypeOK, TakeLock, BeginStaging, Refuse, Build, BuildFails, KeepFormer, To, Answer
    <2>3. QED
      BY <1>1, <2>1, <2>2, OthersStayGood
  <1>4. ASSUME NEW r \in Requests, r # q,
               \/ NothingToKeep(r) \/ Activate(r) \/ ActivationFails(r) \/ RemoveFormer(r)
               \/ Succeed(r) \/ Fail(r) \/ FailWithout(r)
        PROVE  Good(q)'
    <2>1. lock = r
      BY <1>4 DEF NothingToKeep, Activate, ActivationFails, RemoveFormer, Succeed, Fail, FailWithout,
                  ClearStaging, At
    <2>2. pc[q] \notin AtWork
      BY <1>1, <1>4, <2>1 DEF LockIsHeld
    <2>3. pc'[q] = pc[q] /\ backup'[q] = backup[q]
      BY <1>1, <1>4 DEF TypeOK, NothingToKeep, Activate, ActivationFails, RemoveFormer, Succeed, Fail,
                        FailWithout, ClearStaging, To, Answer
    <2>4. QED
      BY <1>1, <2>2, <2>3, OthersStayGood
  <1>5. CASE Crash
    BY <1>1, <1>5 DEF Good, NothingMoved, StagingIsReady, FormerIsKept, NewIsInstalled, TypeOK, Crash
  <1>6. CASE UNCHANGED vars
    BY <1>1, <1>6 DEF Good, NothingMoved, StagingIsReady, FormerIsKept, NewIsInstalled, Upgradable, vars
  <1>7. QED
    BY <1>2, <1>3, <1>4, <1>5, <1>6, WorkerStaysGood DEF Next

\* Together.
LEMMA InvariantStep == IInv /\ [Next]_vars => IInv'
  BY TypeStep, LockStep, GoodStep DEF IInv

\* The types and the named parts hold in every state, for any number of
\* requests, runtimes and revisions.
THEOREM Invariant == Spec => []IInv
  BY InitIInv, InvariantStep, PTL DEF Spec

\* The variables have their types.
THEOREM TypeCorrect == Spec => []TypeOK
  <1>1. IInv => TypeOK
    BY DEF IInv
  <1>2. QED
    BY Invariant, <1>1, PTL

-----------------------------------------------------------------------------
\* What one step does to the complete bundles on the disk.
LEMMA LostStep ==
  ASSUME IInv, [Next]_vars, NEW b \in Kept
  PROVE  b \in Kept' \/ (dest' \in Kept' /\ RevisionOf(b) <= RevisionOf(dest'))
  <1> DEFINE Stays == b \in Kept'
  <1>1. TypeOK /\ b # NoBundle /\ Whole(b) /\ b \in Bundles
    BY DEF IInv, Kept, TypeOK
  <1>2. ASSUME UNCHANGED <<dest, backup>> PROVE Stays
    BY <1>2 DEF Kept
  <1>3. ASSUME NEW r \in Requests,
               \/ Ask(r) \/ TakeLock(r) \/ BeginStaging(r) \/ Refuse(r) \/ Build(r) \/ BuildFails(r)
               \/ NothingToKeep(r) \/ Succeed(r) \/ Fail(r) \/ FailWithout(r)
        PROVE  Stays
    BY <1>2, <1>3 DEF Ask, TakeLock, BeginStaging, Refuse, Build, BuildFails, NothingToKeep, Succeed,
                      Fail, FailWithout, ClearStaging
  <1>4. ASSUME NEW r \in Requests, KeepFormer(r) PROVE Stays
    <2>1. backup[r] = NoBundle /\ backup' = [backup EXCEPT ![r] = dest]
      BY <1>4 DEF IInv, Good, NothingMoved, KeepFormer, At
    <2>2. b \in {backup'[q] : q \in Requests}
      BY <1>1, <2>1 DEF Kept, TypeOK
    <2>3. QED
      BY <1>1, <2>2 DEF Kept
  <1>5. ASSUME NEW r \in Requests, Activate(r) PROVE Stays
    <2>1. dest = NoBundle /\ UNCHANGED backup
      BY <1>5 DEF IInv, Good, FormerIsKept, Activate, At
    <2>2. QED
      BY <1>1, <2>1 DEF Kept
  <1>6. ASSUME NEW r \in Requests, ActivationFails(r) PROVE Stays
    <2>1. dest = NoBundle
      BY <1>6 DEF IInv, Good, FormerIsKept, ActivationFails, At
    <2>2. PICK q \in Requests : b = backup[q]
      BY <1>1, <2>1 DEF Kept
    <2>3. CASE q = r
      BY <1>1, <1>2, <1>6, <2>2, <2>3 DEF ActivationFails, Kept
    <2>4. CASE q # r
      <3>1. b = backup'[q]
        BY <1>1, <1>6, <2>2, <2>4 DEF ActivationFails, TypeOK
      <3>2. QED
        BY <1>1, <3>1 DEF Kept
    <2>5. QED
      BY <2>3, <2>4
  <1>7. ASSUME NEW r \in Requests, RemoveFormer(r)
        PROVE  Stays \/ (dest' \in Kept' /\ RevisionOf(b) <= RevisionOf(dest'))
    <2>1. /\ UNCHANGED dest
          /\ dest # NoBundle /\ dest.parts = Parts /\ dest.revision = PackageRevision
          /\ backup[r] # NoBundle => Upgradable(backup[r])
      BY <1>7 DEF IInv, Good, FormerIsKept, NewIsInstalled, RemoveFormer, At
    <2>2. dest' \in Kept' /\ RevisionOf(dest') = PackageRevision
      BY <2>1 DEF Kept, Whole, Parts, RevisionOf, Managed
    <2>3. CASE b = dest
      BY <2>1, <2>2, <2>3
    <2>4. CASE b = backup[r]
      <3>1. RevisionOf(b) \in 0 .. PackageRevision
        BY <1>1, <2>1, <2>4, InstallerAssumption DEF Upgradable, RevisionOf, Bundles
      <3>2. QED
        BY <2>2, <3>1, InstallerAssumption
    <2>5. ASSUME NEW q \in Requests, q # r, b = backup[q] PROVE Stays
      <3>1. b = backup'[q]
        BY <1>1, <1>7, <2>5 DEF RemoveFormer, TypeOK
      <3>2. QED
        BY <1>1, <3>1 DEF Kept
    <2>6. QED
      BY <2>3, <2>4, <2>5 DEF Kept
  <1>8. CASE Crash \/ UNCHANGED vars
    BY <1>2, <1>8 DEF Crash, vars
  <1>9. QED
    BY <1>3, <1>4, <1>5, <1>6, <1>7, <1>8 DEF Next

\* A complete bundle disappears only once one that is not older is installed.
THEOREM NothingLostHolds == Spec => NothingLost
  <1>1. IInv /\ [Next]_vars => [KeepsBundles]_vars
    BY LostStep DEF KeepsBundles
  <1>2. QED
    BY Invariant, <1>1, PTL DEF Spec, NothingLost

\* A request that fails leaves what was installed before it.
THEOREM FailureKeepsTheFormerHolds == Spec => FailureKeepsTheFormer
  <1>1. IInv /\ [Next]_vars => [FailsInPlace]_vars
    <2> SUFFICES ASSUME IInv, Next, NEW r \in Requests, pc[r] # "failed", pc'[r] = "failed"
                 PROVE  dest' = before[r]
      BY DEF vars, FailsInPlace
    <2>1. TypeOK /\ Good(r)
      BY DEF IInv
    <2>2. Refuse(r) \/ Fail(r)
      BY <2>1 DEF TypeOK, Next, Ask, TakeLock, BeginStaging, Build, BuildFails, KeepFormer, NothingToKeep,
                  Activate, ActivationFails, RemoveFormer, Succeed, Refuse, Fail, FailWithout,
                  ClearStaging, Crash, To, Answer
    <2>3. QED
      BY <2>1, <2>2 DEF Refuse, Fail, ClearStaging, At, Good, NothingMoved
  <1>2. QED
    BY Invariant, <1>1, PTL DEF Spec, FailureKeepsTheFormer

-----------------------------------------------------------------------------
(* Induction, recursion and products.                                      *)

\* Induction: a set that has 0, and the successor of each number it has, has
\* every number.  (The library's theorem takes a predicate for its parameter,
\* which a set replaces.)
LEMMA EveryNumber ==
  ASSUME NEW S, 0 \in S, \A n \in Nat : n \in S => n + 1 \in S
  PROVE  Nat \subseteq S
  <1> DEFINE T == Nat \ S
             R == {ss \in Nat \X Nat : ss[1] < ss[2]}
  <1>1. ASSUME T # {} PROVE FALSE
    <2>1. IsWellFoundedOn(R, Nat)
      BY NatLessThanWellFounded DEF OpToRel
    <2>2. PICK x \in T : \A y \in T : ~(<<y, x>> \in R)
      <3>1. T \subseteq Nat
        OBVIOUS
      <3> HIDE DEF T, R
      <3>2. QED
        BY <1>1, <2>1, <3>1, WFMin
    <2>3. x \in Nat /\ x - 1 \in Nat /\ x - 1 < x
      OBVIOUS
    <2>4. <<x - 1, x>> \in R
      BY <2>3
    <2>5. x - 1 \in S
      BY <2>2, <2>3, <2>4
    <2>6. QED
      BY <2>3, <2>5
  <1>2. QED
    BY <1>1

Recurs(g, N, base, step) == g = [n \in 0..N |-> IF n = 0 THEN base ELSE step[n][g[n - 1]]]

\* A recursive function exists: the functions that obey the first n equations are
\* extended one by one.
LEMMA Recursion ==
  ASSUME NEW N \in Nat, NEW X, NEW base \in X, NEW step \in [1..N -> [X -> X]]
  PROVE  \E g \in [0..N -> X] : Recurs(g, N, base, step)
  <1> DEFINE Partly(g, m) == g \in [0..m -> X] /\ g[0] = base /\ \A n \in 1..m : g[n] = step[n][g[n - 1]]
             T == {m \in Nat : m <= N => \E g \in [0..m -> X] : Partly(g, m)}
  <1>1. 0 \in T
    <2> DEFINE g == [n \in 0..0 |-> base]
    <2>1. Partly(g, 0)
      OBVIOUS
    <2> QED
      BY <2>1
  <1>2. ASSUME NEW m \in Nat, m \in T PROVE m + 1 \in T
    <2> SUFFICES ASSUME m + 1 <= N PROVE \E g \in [0..m + 1 -> X] : Partly(g, m + 1)
      OBVIOUS
    <2>1. PICK g \in [0..m -> X] : Partly(g, m)
      BY <1>2
    <2> DEFINE h == [n \in 0..m + 1 |-> IF n = m + 1 THEN step[m + 1][g[m]] ELSE g[n]]
    <2>2. g[m] \in X /\ m + 1 \in 1..N
      OBVIOUS
    <2>3. step[m + 1][g[m]] \in X
      BY <2>2
    <2>4. h \in [0..m + 1 -> X] /\ h[0] = base
      BY <2>1, <2>3
    <2>5. ASSUME NEW n \in 1..m + 1 PROVE h[n] = step[n][h[n - 1]]
      <3>1. CASE n = m + 1
        BY <3>1
      <3>2. CASE n \in 1..m
        <4>1. h[n] = g[n] /\ h[n - 1] = g[n - 1]
          BY <3>2
        <4>2. g[n] = step[n][g[n - 1]]
          BY <2>1, <3>2
        <4> QED
          BY <4>1, <4>2
      <3> QED
        BY <3>1, <3>2
    <2>6. Partly(h, m + 1)
      BY <2>4, <2>5
    <2> QED
      BY <2>2, <2>4, <2>6
  <1>3. Nat \subseteq T
    <2> HIDE DEF T
    <2> QED BY <1>1, <1>2, EveryNumber, Zenon
  <1>4. PICK g \in [0..N -> X] : Partly(g, N)
    BY <1>3
  <1>5. g = [n \in 0..N |-> IF n = 0 THEN base ELSE step[n][g[n - 1]]]
    <2>1. ASSUME NEW n \in 0..N PROVE g[n] = IF n = 0 THEN base ELSE step[n][g[n - 1]]
      BY <1>4
    <2> QED
      BY <2>1
  <1> QED
    BY <1>5 DEF Recurs

RecursFromOne(g, N, first, step) == g = [n \in 1..N |-> IF n = 1 THEN first ELSE step[n][g[n - 1]]]

\* The same, of a recursion that begins with 1.
LEMMA RecursionFromOne ==
  ASSUME NEW N \in Nat, NEW X, NEW first \in X, NEW step \in [1..N -> [X -> X]]
  PROVE  \E g \in [1..N -> X] : RecursFromOne(g, N, first, step)
  <1> DEFINE next == [n \in 1..N |-> IF n = 1 THEN [x \in X |-> first] ELSE step[n]]
  <1>1. next \in [1..N -> [X -> X]]
    OBVIOUS
  <1>2. PICK g \in [0..N -> X] : Recurs(g, N, first, next)
    <2> HIDE DEF next
    <2> QED BY <1>1, Recursion
  <1> DEFINE h == [n \in 1..N |-> g[n]]
  <1>3. h \in [1..N -> X]
    OBVIOUS
  <1>4. ASSUME NEW n \in 1..N PROVE h[n] = IF n = 1 THEN first ELSE step[n][h[n - 1]]
    <2>1. g[n] = next[n][g[n - 1]]
      <3> HIDE DEF next
      <3> QED BY <1>2 DEF Recurs
    <2>2. CASE n = 1
      BY <2>1, <2>2
    <2>3. CASE n # 1
      <3>1. n - 1 \in 1..N
        BY <2>3
      <3> QED
        BY <2>1, <2>3, <3>1
    <2> QED
      BY <2>2, <2>3
  <1>5. h = [n \in 1..N |-> IF n = 1 THEN first ELSE step[n][h[n - 1]]]
    BY <1>3, <1>4
  <1> QED
    BY <1>3, <1>5 DEF RecursFromOne

\* What the provers need to know of products; each is used where the factors are
\* long expressions.
LEMMA Product == \A a, b \in Nat : a * b \in Nat
  OBVIOUS
LEMMA ProductInt == \A a, b \in Int : a * b \in Int
  OBVIOUS
LEMMA ProductGrows == \A a, b \in Int : \A c \in Nat : a <= b => a * c <= b * c
  OBVIOUS
LEMMA ProductCancels == \A a, b \in Int : \A c \in Nat \ {0} : a * c <= b * c => a <= b
  OBVIOUS
LEMMA ProductSwaps == \A a, b, c \in Int : (a * b) * c = (a * c) * b
  OBVIOUS
LEMMA ProductAdds == \A a, b, c \in Int : (a + b) * c = a * c + b * c
  OBVIOUS

-----------------------------------------------------------------------------
(* The timeline of a dubbing (services/dubbing_service.py).                *)

Spoken  == [start : Nat, end : Nat, rows : SUBSET Nat, speech : Nat]
Pace    == [gap : Nat, lead : Nat]
Placed  == [start : Nat, end : Nat]

\* The larger of two numbers is one of them.
LEMMA LargerType == \A a, b \in Int : Larger(a, b) \in Int /\ Larger(a, b) >= a /\ Larger(a, b) >= b
                                      /\ Larger(a, b) \in {a, b}
  BY DEF Larger

\* An utterance is placed at its start or after the former one, for as long as it
\* is spoken.
LEMMA PositionType ==
  ASSUME NEW u \in Spoken, NEW earliest \in Nat, NEW tempo \in Nat, NEW pacing \in Pace
  PROVE  /\ Position(u, earliest, tempo, pacing) \in Placed
         /\ Position(u, earliest, tempo, pacing).end = Position(u, earliest, tempo, pacing).start + u.speech * Unit
         /\ Position(u, earliest, tempo, pacing).start
              = Larger(Larger(0, u.start - pacing.lead) * tempo, earliest)
  <1> DEFINE early == Larger(0, u.start - pacing.lead)
             start == Larger(early * tempo, earliest)
  <1>1. u.start \in Nat /\ u.speech \in Nat /\ pacing.lead \in Nat /\ Unit \in Nat
    BY DEF Spoken, Pace, Unit
  <1>2. early \in Nat
    BY <1>1 DEF Larger
  <1>3. early * tempo \in Nat /\ u.speech * Unit \in Nat
    <2> HIDE DEF early
    <2> QED BY <1>1, <1>2, Product
  <1>4. start \in Nat
    <2> HIDE DEF early
    <2> QED BY <1>3 DEF Larger
  <1>5. Position(u, earliest, tempo, pacing) = [start |-> start, end |-> start + u.speech * Unit]
    BY DEF Position
  <1> HIDE DEF start, early
  <1>6. [start |-> start, end |-> start + u.speech * Unit] \in Placed
    BY <1>3, <1>4 DEF Placed
  <1> QED
    BY <1>5, <1>6 DEF start, early

\* The plan of the code's loop obeys its recursion.
LEMMA PlanDef ==
  ASSUME NEW us \in Seq(Spoken), NEW tempo \in Nat, NEW pacing \in Pace
  PROVE  TimelinePlan(us, tempo, pacing) =
           [i \in DOMAIN us |->
              Position(us[i], IF i = 1 THEN 0 ELSE TimelinePlan(us, tempo, pacing)[i - 1].end + pacing.gap * tempo, tempo, pacing)]
  <1> DEFINE N == Len(us)
             first == Position(us[1], 0, tempo, pacing)
             step == [n \in 1..N |-> [x \in Placed |-> Position(us[n], x.end + pacing.gap * tempo, tempo, pacing)]]
  <1>1. N \in Nat /\ DOMAIN us = 1..N /\ \A n \in 1..N : us[n] \in Spoken
    OBVIOUS
  <1>2. pacing.gap * tempo \in Nat
    BY Product DEF Pace
  <1>3. step \in [1..N -> [Placed -> Placed]]
    <2>1. ASSUME NEW n \in 1..N, NEW x \in Placed
          PROVE  Position(us[n], x.end + pacing.gap * tempo, tempo, pacing) \in Placed
      <3>1. x.end + pacing.gap * tempo \in Nat
        BY <1>2 DEF Placed
      <3> HIDE DEF N
      <3> QED
        BY <1>1, <3>1, PositionType
    <2> HIDE DEF N
    <2> QED
      BY <2>1
  <1>4. CASE N = 0
    <2> DEFINE g == [i \in DOMAIN us |->
              Position(us[i], IF i = 1 THEN 0 ELSE us[i - 1].end + pacing.gap * tempo, tempo, pacing)]
    <2>1. g = [i \in DOMAIN us |->
              Position(us[i], IF i = 1 THEN 0 ELSE g[i - 1].end + pacing.gap * tempo, tempo, pacing)]
      BY <1>4
    <2> HIDE DEF g
    <2> QED
      BY <2>1, Zenon DEF TimelinePlan
  <1>5. CASE N # 0
    <2>1. first \in Placed
      <3> HIDE DEF N
      <3>1. 1 \in 1..N
        BY <1>1, <1>5
      <3> QED
        BY <1>1, <3>1, PositionType
    <2>2. PICK g \in [1..N -> Placed] : RecursFromOne(g, N, first, step)
      <3> HIDE DEF N, first, step
      <3> QED
        BY <1>1, <1>3, <2>1, RecursionFromOne
    <2>3. ASSUME NEW n \in 1..N
          PROVE  g[n] = Position(us[n], IF n = 1 THEN 0 ELSE g[n - 1].end + pacing.gap * tempo, tempo, pacing)
      <3>1. CASE n = 1
        <4> HIDE DEF step
        <4> QED
          BY <2>2, <3>1 DEF RecursFromOne
      <3>2. CASE n # 1
        <4>1. g[n - 1] \in Placed
          <5> HIDE DEF N, first, step
          <5> QED BY <1>1, <2>2, <3>2
        <4>2. g[n] = step[n][g[n - 1]]
          <5> HIDE DEF step
          <5> QED BY <2>2, <3>2 DEF RecursFromOne
        <4> HIDE DEF N, first
        <4> QED
          BY <3>2, <4>1, <4>2
      <3> QED
        BY <3>1, <3>2
    <2>4. g = [i \in DOMAIN us |->
              Position(us[i], IF i = 1 THEN 0 ELSE g[i - 1].end + pacing.gap * tempo, tempo, pacing)]
      <3> HIDE DEF N, first, step
      <3> QED BY <1>1, <2>3
    <2> QED
      BY <2>4, Zenon DEF TimelinePlan
  <1> QED
    BY <1>4, <1>5

\* The parts of a plan.
PlanIs(us, tempo, pacing, plan) ==
  /\ plan \in [1..Len(us) -> Placed]
  /\ \A i \in 1..Len(us) :
       /\ plan[i].end = plan[i].start + us[i].speech * Unit
       /\ plan[i].start = Larger(Larger(0, us[i].start - pacing.lead) * tempo,
                                   IF i = 1 THEN 0 ELSE plan[i - 1].end + pacing.gap * tempo)

\* What the loop does to each utterance.
LEMMA PlanParts ==
  ASSUME NEW us \in Seq(Spoken), NEW tempo \in Nat, NEW pacing \in Pace
  PROVE  PlanIs(us, tempo, pacing, TimelinePlan(us, tempo, pacing))
  <1> DEFINE plan == TimelinePlan(us, tempo, pacing)
             N == Len(us)
             S == {n \in Nat : n \in 1..N => plan[n] \in Placed}
             Early(i) == IF i = 1 THEN 0 ELSE plan[i - 1].end + pacing.gap * tempo
  <1>1. N \in Nat /\ DOMAIN us = 1..N /\ \A n \in 1..N : us[n] \in Spoken
    OBVIOUS
  <1>2. plan = [i \in 1..N |-> Position(us[i], Early(i), tempo, pacing)]
    BY PlanDef
  <1>3. pacing.gap * tempo \in Nat
    BY Product DEF Pace
  <1> HIDE DEF plan, N
  <1>4. ASSUME NEW i \in 1..N, i # 1 => plan[i - 1] \in Placed
        PROVE  /\ plan[i] \in Placed
               /\ plan[i].end = plan[i].start + us[i].speech * Unit
               /\ plan[i].start = Larger(Larger(0, us[i].start - pacing.lead) * tempo, Early(i))
    <2>1. Early(i) \in Nat
      BY <1>3, <1>4 DEF Placed
    <2> HIDE DEF Early
    <2>2. plan[i] = Position(us[i], Early(i), tempo, pacing)
      BY <1>2
    <2> QED
      BY <1>1, <2>1, <2>2, PositionType
  <1>5. Nat \subseteq S
    <2>1. 0 \in S
      BY <1>1
    <2>2. ASSUME NEW n \in Nat, n \in S PROVE n + 1 \in S
      <3>1. ASSUME n + 1 \in 1..N PROVE plan[n + 1] \in Placed
        <4>1. n + 1 # 1 => plan[(n + 1) - 1] \in Placed
          BY <1>1, <2>2, <3>1
        <4> HIDE DEF Early, S
        <4> QED
          BY <3>1, <4>1, <1>4
      <3> QED
        BY <3>1
    <2> HIDE DEF S
    <2> QED
      BY <2>1, <2>2, EveryNumber, Zenon
  <1>6. \A i \in 1..N : plan[i] \in Placed
    BY <1>1, <1>5
  <1>7. \A i \in 1..N : i # 1 => plan[i - 1] \in Placed
    BY <1>1, <1>6
  <1>8. plan \in [1..N -> Placed]
    <2> HIDE DEF Early
    <2> QED BY <1>2, <1>6
  <1>9. \A i \in 1..N : /\ plan[i].end = plan[i].start + us[i].speech * Unit
                        /\ plan[i].start = Larger(Larger(0, us[i].start - pacing.lead) * tempo, Early(i))
    <2> HIDE DEF Early, S
    <2> QED BY <1>4, <1>7
  <1> QED
    BY <1>8, <1>9 DEF PlanIs, N, plan

\* Scaling keeps the larger one the larger one.
LEMMA LargerScales == \A a, b \in Int : \A c \in Nat : Larger(a, b) * c = Larger(a * c, b * c)
  <1> SUFFICES ASSUME NEW a \in Int, NEW b \in Int, NEW c \in Nat
               PROVE  Larger(a, b) * c = Larger(a * c, b * c)
    OBVIOUS
  <1>1. a * c \in Int /\ b * c \in Int
    BY ProductInt
  <1>2. CASE a >= b
    <2>1. b * c <= a * c
      BY <1>2, ProductGrows
    <2> QED
      BY <1>1, <1>2, <2>1 DEF Larger
  <1>3. CASE ~(a >= b)
    <2>1. a * c <= b * c
      BY <1>3, ProductGrows
    <2> QED
      BY <1>1, <1>3, <2>1 DEF Larger
  <1> QED
    BY <1>2, <1>3

\* The larger one grows with both.
LEMMA LargerGrows ==
  \A a, b, c, d \in Int : a <= c /\ b <= d => Larger(a, b) <= Larger(c, d)
  BY DEF Larger

\* A position that is in time at one tempo is in time at another one where it
\* is no later.
LEMMA Scales ==
  ASSUME NEW a \in Int, NEW b \in Int, NEW limit \in Int, NEW p \in Nat \ {0}, NEW q \in Nat \ {0},
         a * p <= b * q, b <= limit * p
  PROVE  a <= limit * q
  <1>1. limit * p \in Int /\ limit * q \in Int /\ a * p \in Int /\ b * q \in Int
        /\ (limit * p) * q \in Int /\ (limit * q) * p \in Int
    BY ProductInt
  <1>2. b * q <= (limit * p) * q
    BY <1>1, ProductGrows
  <1>3. (limit * p) * q = (limit * q) * p
    BY ProductSwaps
  <1>4. a * p <= (limit * q) * p
    BY <1>1, <1>2, <1>3
  <1> QED
    BY <1>1, <1>4, ProductCancels

Earlier(i, fast, q, slow, p) ==
  fast[i].start * p <= slow[i].start * q /\ fast[i].end * p <= slow[i].end * q

\* At a higher tempo no utterance starts or ends later.
LEMMA FasterIsEarlier ==
  ASSUME NEW us \in Seq(Spoken), NEW pacing \in Pace, NEW p \in Nat \ {0}, NEW q \in Nat \ {0}, p <= q,
         NEW slow, PlanIs(us, p, pacing, slow), NEW fast, PlanIs(us, q, pacing, fast)
  PROVE  \A i \in 1..Len(us) : Earlier(i, fast, q, slow, p)
  <1> DEFINE N == Len(us)
             S == {n \in Nat : n \in 1..N => Earlier(n, fast, q, slow, p)}
             Early(i) == Larger(0, us[i].start - pacing.lead)
             After(i, plan, tempo) == IF i = 1 THEN 0 ELSE plan[i - 1].end + pacing.gap * tempo
  <1>1. N \in Nat /\ \A n \in 1..N : us[n] \in Spoken
    OBVIOUS
  <1> HIDE DEF N
  <1>2. \A i \in 1..N : fast[i] \in Placed /\ slow[i] \in Placed
    BY DEF PlanIs, N
  <1>3. ASSUME NEW i \in 1..N, i # 1 => Earlier(i - 1, fast, q, slow, p)
        PROVE  Earlier(i, fast, q, slow, p)
    <2>1. us[i].start \in Nat /\ us[i].speech \in Nat /\ pacing.lead \in Nat /\ pacing.gap \in Nat
      BY <1>1 DEF Spoken, Pace
    <2>2. Early(i) \in Nat
      BY <2>1 DEF Larger
    <2>3. After(i, fast, q) \in Nat /\ After(i, slow, p) \in Nat /\ After(i, fast, q) * p <= After(i, slow, p) * q
      <3>1. CASE i = 1
        BY <3>1
      <3>2. CASE i # 1
        <4> DEFINE e == fast[i - 1].end
                   f == slow[i - 1].end
        <4>1. e \in Nat /\ f \in Nat /\ e * p <= f * q
          BY <1>1, <1>2, <1>3, <3>2 DEF Earlier, Placed
        <4>2. After(i, fast, q) = e + pacing.gap * q /\ After(i, slow, p) = f + pacing.gap * p
          BY <3>2
        <4> HIDE DEF e, f, After
        <4>3. pacing.gap * q \in Nat /\ pacing.gap * p \in Nat
          BY <2>1, Product
        <4>4. (e + pacing.gap * q) * p = e * p + (pacing.gap * q) * p /\ (f + pacing.gap * p) * q = f * q + (pacing.gap * p) * q
          BY <4>1, <4>3, ProductAdds
        <4>5. (pacing.gap * q) * p = (pacing.gap * p) * q /\ (pacing.gap * q) * p \in Nat /\ e * p \in Nat /\ f * q \in Nat
          BY <2>1, <4>1, <4>3, ProductSwaps, Product, SMTT(30)
        <4>6. e * p + (pacing.gap * q) * p <= f * q + (pacing.gap * p) * q
          BY <4>1, <4>5
        <4>7. (e + pacing.gap * q) * p <= (f + pacing.gap * p) * q
          BY <4>4, <4>6, Zenon
        <4>8. e + pacing.gap * q \in Nat /\ f + pacing.gap * p \in Nat
          BY <4>1, <4>3
        <4> QED
          BY <4>2, <4>7, <4>8, Zenon
      <3> QED
        BY <3>1, <3>2
    <2>4. fast[i].start = Larger(Early(i) * q, After(i, fast, q)) /\ slow[i].start = Larger(Early(i) * p, After(i, slow, p))
      BY DEF PlanIs, N
    <2>5. fast[i].end = fast[i].start + us[i].speech * Unit /\ slow[i].end = slow[i].start + us[i].speech * Unit
      BY DEF PlanIs, N
    <2> DEFINE a == Early(i)
               e == After(i, fast, q)
               f == After(i, slow, p)
               d == us[i].speech * Unit
    <2>6. a \in Nat /\ e \in Nat /\ f \in Nat /\ d \in Nat /\ e * p <= f * q
      <3>1. us[i].speech * Unit \in Nat
        BY <2>1, Product DEF Unit
      <3> HIDE DEF Early, After
      <3> QED
        BY <2>2, <2>3, <3>1
    <2> HIDE DEF a, e, f, d, Early, After
    <2>7. a * q \in Nat /\ a * p \in Nat /\ (a * q) * p = (a * p) * q /\ (a * q) * p \in Nat
          /\ e * p \in Nat /\ f * q \in Nat
      BY <2>6, Product, ProductSwaps
    <2>8. Larger(a * q, e) * p <= Larger(a * p, f) * q
      <3>1. Larger(a * q, e) * p = Larger((a * q) * p, e * p)
        <4> DEFINE x == a * q
        <4>1. x \in Int /\ e \in Int
          BY <2>6, <2>7
        <4> HIDE DEF x
        <4>2. Larger(x, e) * p = Larger(x * p, e * p)
          BY <4>1, LargerScales
        <4> QED
          BY <4>2, Zenon DEF x
      <3>3. Larger(a * p, f) * q = Larger((a * p) * q, f * q)
        <4> DEFINE x == a * p
        <4>1. x \in Int /\ f \in Int
          BY <2>6, <2>7
        <4> HIDE DEF x
        <4>2. Larger(x, f) * q = Larger(x * q, f * q)
          BY <4>1, LargerScales
        <4> QED
          BY <4>2, Zenon DEF x
      <3>2. Larger((a * q) * p, e * p) <= Larger((a * p) * q, f * q)
        BY <2>6, <2>7, LargerGrows
      <3> QED
        BY <3>1, <3>2, <3>3
    <2>9. fast[i].start * p <= slow[i].start * q
      BY <2>4, <2>8 DEF a, e, f
    <2>10. fast[i].end * p <= slow[i].end * q
      <3> DEFINE s == fast[i].start
                 t == slow[i].start
      <3>1. s \in Nat /\ t \in Nat
        BY <1>2 DEF Placed
      <3>2. fast[i].end = s + d /\ slow[i].end = t + d
        BY <2>5 DEF d
      <3>3. s * p <= t * q
        BY <2>9
      <3> HIDE DEF s, t
      <3>4. (s + d) * p = s * p + d * p /\ (t + d) * q = t * q + d * q
        BY <2>6, <3>1, ProductAdds
      <3>5. d * p <= d * q
        BY <2>6
      <3>6. s * p \in Nat /\ t * q \in Nat /\ d * p \in Nat /\ d * q \in Nat
        BY <2>6, <3>1, Product
      <3>7. s * p + d * p <= t * q + d * q
        BY <3>3, <3>5, <3>6
      <3> QED
        BY <3>2, <3>4, <3>7
    <2> QED
      BY <2>9, <2>10 DEF Earlier
  <1>4. Nat \subseteq S
    <2>1. 0 \in S
      BY <1>1
    <2>2. ASSUME NEW n \in Nat, n \in S PROVE n + 1 \in S
      <3>1. ASSUME n + 1 \in 1..N PROVE Earlier(n + 1, fast, q, slow, p)
        <4>1. n + 1 # 1 => Earlier((n + 1) - 1, fast, q, slow, p)
          BY <1>1, <2>2, <3>1
        <4> HIDE DEF S
        <4> QED
          BY <3>1, <4>1, <1>3
      <3> QED
        BY <3>1
    <2> HIDE DEF S
    <2> QED
      BY <2>1, <2>2, EveryNumber, Zenon
  <1> QED
    BY <1>1, <1>4 DEF N

\* A plan fits when each utterance begins and ends in time, and the last one before
\* the end of the video.
LEMMA FitsParts ==
  ASSUME NEW us \in Seq(Spoken), NEW tempo \in Nat, NEW pacing \in Pace, NEW total \in Nat
  PROVE  LET plan == TimelinePlan(us, tempo, pacing) IN
         Fits(us, tempo, pacing, total) <=>
           /\ Len(us) # 0 => plan[Len(us)].end <= (total + 1) * tempo
           /\ \A i \in 1..Len(us) : /\ plan[i].start <= (us[i].start + MaxLag) * tempo
                                    /\ plan[i].end <= (us[i].end + MaxLag) * tempo
  <1> DEFINE plan == TimelinePlan(us, tempo, pacing)
             N == Len(us)
  <1>1. plan \in [1..N -> Placed]
    BY PlanParts DEF PlanIs
  <1>2. N \in Nat /\ DOMAIN us = 1..N
    OBVIOUS
  <1>3. Fits(us, tempo, pacing, total) <=> Inside(plan, tempo, total) /\ \A i \in DOMAIN us : InTime(us, plan, tempo, i)
    BY DEF Fits
  <1> HIDE DEF plan, N
  <1>4. plan \in Seq(Placed) /\ Len(plan) = N
    BY <1>1, <1>2, LenProperties
  <1>5. Inside(plan, tempo, total) <=> (N # 0 => plan[N].end <= (total + 1) * tempo)
    BY <1>4, EmptySeq DEF Inside, Last
  <1>6. \A i \in 1..N : InTime(us, plan, tempo, i) <=>
                          /\ plan[i].start <= (us[i].start + MaxLag) * tempo
                          /\ plan[i].end <= (us[i].end + MaxLag) * tempo
    BY DEF InTime
  <1>7. (\A i \in DOMAIN us : InTime(us, plan, tempo, i)) <=>
          \A i \in 1..N : /\ plan[i].start <= (us[i].start + MaxLag) * tempo
                          /\ plan[i].end <= (us[i].end + MaxLag) * tempo
    BY <1>2, <1>6
  <1>8. Fits(us, tempo, pacing, total) <=>
           /\ N # 0 => plan[N].end <= (total + 1) * tempo
           /\ \A i \in 1..N : /\ plan[i].start <= (us[i].start + MaxLag) * tempo
                              /\ plan[i].end <= (us[i].end + MaxLag) * tempo
    BY <1>3, <1>5, <1>7, Zenon
  <1> QED
    BY <1>8 DEF plan, N

\* A track that fits at one tempo fits at every higher one.
THEOREM FasterFits ==
  ASSUME NEW us \in Seq(Spoken), NEW pacing \in Pace, NEW total \in Nat,
         NEW p \in Nat \ {0}, NEW q \in Nat \ {0}, p <= q, Fits(us, p, pacing, total)
  PROVE  Fits(us, q, pacing, total)
  <1> DEFINE slow == TimelinePlan(us, p, pacing)
             fast == TimelinePlan(us, q, pacing)
             N == Len(us)
  <1>1. PlanIs(us, p, pacing, slow) /\ PlanIs(us, q, pacing, fast)
    BY PlanParts
  <1>2. N \in Nat /\ \A n \in 1..N : us[n] \in Spoken
    OBVIOUS
  <1>3. /\ N # 0 => slow[N].end <= (total + 1) * p
        /\ \A i \in 1..N : /\ slow[i].start <= (us[i].start + MaxLag) * p
                           /\ slow[i].end <= (us[i].end + MaxLag) * p
    BY FitsParts
  <1>4. /\ N # 0 => fast[N].end <= (total + 1) * q
        /\ \A i \in 1..N : /\ fast[i].start <= (us[i].start + MaxLag) * q
                           /\ fast[i].end <= (us[i].end + MaxLag) * q
        => Fits(us, q, pacing, total)
    BY FitsParts
  <1> HIDE DEF slow, fast
  <1>5. \A i \in 1..N : Earlier(i, fast, q, slow, p)
    BY <1>1, FasterIsEarlier
  <1>6. \A i \in 1..N : /\ fast[i].start \in Int /\ fast[i].end \in Int
                        /\ slow[i].start \in Int /\ slow[i].end \in Int
    BY <1>1 DEF PlanIs, Placed
  <1> HIDE DEF N
  <1>7. ASSUME NEW i \in 1..N
        PROVE  fast[i].start <= (us[i].start + MaxLag) * q /\ fast[i].end <= (us[i].end + MaxLag) * q
    <2>1. us[i].start + MaxLag \in Int /\ us[i].end + MaxLag \in Int
      <3>1. us[i] \in Spoken
        BY <1>2
      <3>2. us[i].start \in Nat /\ us[i].end \in Nat
        BY <3>1 DEF Spoken
      <3> QED
        BY <3>2 DEF MaxLag
    <2>2. fast[i].start * p <= slow[i].start * q /\ fast[i].end * p <= slow[i].end * q
      BY <1>5 DEF Earlier
    <2>3. slow[i].start <= (us[i].start + MaxLag) * p /\ slow[i].end <= (us[i].end + MaxLag) * p
      BY <1>3
    <2>4. fast[i].start <= (us[i].start + MaxLag) * q
      <3> DEFINE a == fast[i].start
                 b == slow[i].start
                 limit == us[i].start + MaxLag
      <3>1. a \in Int /\ b \in Int /\ limit \in Int /\ a * p <= b * q /\ b <= limit * p
        BY <1>6, <2>1, <2>2, <2>3
      <3> HIDE DEF a, b, limit
      <3>2. a <= limit * q
        BY <3>1, Scales
      <3> QED
        BY <3>2 DEF a, limit
    <2>5. fast[i].end <= (us[i].end + MaxLag) * q
      <3> DEFINE a == fast[i].end
                 b == slow[i].end
                 limit == us[i].end + MaxLag
      <3>1. a \in Int /\ b \in Int /\ limit \in Int /\ a * p <= b * q /\ b <= limit * p
        BY <1>6, <2>1, <2>2, <2>3
      <3> HIDE DEF a, b, limit
      <3>2. a <= limit * q
        BY <3>1, Scales
      <3> QED
        BY <3>2 DEF a, limit
    <2> QED
      BY <2>4, <2>5
  <1>8. ASSUME N # 0 PROVE fast[N].end <= (total + 1) * q
    <2>1. N \in 1..N
      BY <1>2, <1>8
    <2>2. fast[N].end * p <= slow[N].end * q
      BY <1>5, <2>1 DEF Earlier
    <2>3. slow[N].end <= (total + 1) * p
      BY <1>3, <1>8
    <2>4. total + 1 \in Int /\ fast[N].end \in Int /\ slow[N].end \in Int
      BY <1>6, <2>1
    <2> QED
      BY <2>2, <2>3, <2>4, Scales
  <1> QED
    BY <1>4, <1>7, <1>8

HalvedIs(h, width, times) ==
  /\ h \in [0..times -> Nat] /\ h[0] = width
  /\ \A n \in 1..times : h[n] = (h[n - 1] + 1) \div 2

\* The width of the search after each bisection.
LEMMA HalvedParts ==
  ASSUME NEW width \in Nat, NEW times \in Nat
  PROVE  \E h : HalvedIs(h, width, times) /\ Halving(width, times) = h[times]
  <1> DEFINE step == [n \in 1..times |-> [x \in Nat |-> (x + 1) \div 2]]
             h == CHOOSE f : f = [n \in 0..times |-> IF n = 0 THEN width ELSE (f[n - 1] + 1) \div 2]
             S == {n \in Nat : n \in 0..times => h[n] \in Nat}
  <1>1. step \in [1..times -> [Nat -> Nat]]
    OBVIOUS
  <1>2. PICK g \in [0..times -> Nat] : Recurs(g, times, width, step)
    <2> HIDE DEF step
    <2> QED BY <1>1, Recursion
  <1>3. g = [n \in 0..times |-> IF n = 0 THEN width ELSE (g[n - 1] + 1) \div 2]
    <2>1. ASSUME NEW n \in 0..times, n # 0 PROVE step[n][g[n - 1]] = (g[n - 1] + 1) \div 2
      BY <2>1
    <2> HIDE DEF step
    <2> QED BY <1>2, <2>1 DEF Recurs
  <1>4. h = [n \in 0..times |-> IF n = 0 THEN width ELSE (h[n - 1] + 1) \div 2]
    BY <1>3, Zenon
  <1>5. Halving(width, times) = h[times]
    BY Zenon DEF Halving
  <1> HIDE DEF h
  <1>6. Nat \subseteq S
    <2>1. 0 \in S
      BY <1>4
    <2>2. ASSUME NEW n \in Nat, n \in S PROVE n + 1 \in S
      <3>1. ASSUME n + 1 \in 0..times PROVE h[n + 1] \in Nat
        <4>1. h[n + 1] = (h[(n + 1) - 1] + 1) \div 2 /\ (n + 1) - 1 = n
          BY <1>4, <3>1, SMTT(30)
        <4>2. h[n] \in Nat
          BY <2>2, <3>1
        <4> QED
          BY <4>1, <4>2
      <3> QED
        BY <3>1
    <2> HIDE DEF S
    <2> QED
      BY <2>1, <2>2, EveryNumber, Zenon
  <1>7. \A n \in 0..times : h[n] \in Nat
    BY <1>6
  <1>8. h \in [0..times -> Nat]
    BY <1>4, <1>7
  <1>9. h[0] = width /\ \A n \in 1..times : h[n] = (h[n - 1] + 1) \div 2
    BY <1>4
  <1>10. HalvedIs(h, width, times)
    BY <1>8, <1>9 DEF HalvedIs
  <1> QED
    BY <1>5, <1>10

Bounds == [low : Nat, high : Nat]

SearchIs(us, cap, pacing, total, s) ==
  /\ s[0] = [low |-> Unit, high |-> cap]
  /\ \A n \in 1..Bisections :
       s[n] = LET b      == s[n - 1]
                  middle == (b.low + b.high) \div 2
              IN IF Fits(us, middle, pacing, total) THEN [low |-> b.low, high |-> middle]
                                                    ELSE [low |-> middle, high |-> b.high]

\* The bisection of _build_timeline obeys its recursion.
LEMMA SearchDef ==
  ASSUME NEW us, NEW pacing, NEW total, NEW cap \in Nat
  PROVE  SearchIs(us, cap, pacing, total, Search(us, cap, pacing, total))
  <1> DEFINE Fit(x) == Fits(us, x, pacing, total)
             Following(b) == IF Fit((b.low + b.high) \div 2) THEN [low |-> b.low, high |-> (b.low + b.high) \div 2]
                                                        ELSE [low |-> (b.low + b.high) \div 2, high |-> b.high]
             start == [low |-> Unit, high |-> cap]
             step == [n \in 1..Bisections |-> [b \in Bounds |-> Following(b)]]
  <1> HIDE DEF Fit
  <1>1. ASSUME NEW b \in Bounds PROVE Following(b) \in Bounds
    <2>1. b.low \in Nat /\ b.high \in Nat /\ (b.low + b.high) \div 2 \in Nat
      BY DEF Bounds
    <2> QED
      BY <2>1 DEF Bounds
  <1> HIDE DEF Following
  <1>2. step \in [1..Bisections -> [Bounds -> Bounds]] /\ start \in Bounds /\ Bisections \in Nat
    BY <1>1, TimelineAssumption DEF Bounds, Unit
  <1>3. PICK g \in [0..Bisections -> Bounds] : Recurs(g, Bisections, start, step)
    <2> HIDE DEF step, start
    <2> QED BY <1>2, Recursion
  <1>4. g = [n \in 0..Bisections |-> IF n = 0 THEN start ELSE Following(g[n - 1])]
    <2>1. ASSUME NEW n \in 0..Bisections, n # 0 PROVE step[n][g[n - 1]] = Following(g[n - 1])
      <3>1. n - 1 \in 0..Bisections /\ n \in 1..Bisections
        BY <1>2, <2>1
      <3>2. g[n - 1] \in Bounds
        BY <3>1
      <3> QED
        BY <3>1, <3>2
    <2> HIDE DEF step, start
    <2> QED BY <1>3, <2>1 DEF Recurs
  <1> DEFINE s == CHOOSE f : f = [n \in 0..Bisections |-> IF n = 0 THEN start ELSE Following(f[n - 1])]
  <1>5. s = [n \in 0..Bisections |-> IF n = 0 THEN start ELSE Following(s[n - 1])]
    <2> HIDE DEF start
    <2> QED BY <1>4, Zenon
  <1>6. Search(us, cap, pacing, total) = s
    BY Zenon DEF Search, Following, Fit
  <1> HIDE DEF s
  <1>7. s[0] = start
    BY <1>2, <1>5
  <1>8. \A n \in 1..Bisections : s[n] = Following(s[n - 1])
    BY <1>2, <1>5
  <1>9. SearchIs(us, cap, pacing, total, s)
    BY <1>7, <1>8 DEF SearchIs, Following, Fit
  <1> QED
    BY <1>6, <1>9

\* What each halving keeps: too low a tempo, one that fits, and less and less
\* between them.
Between(us, cap, pacing, total, b, width) ==
  /\ b \in Bounds /\ Unit <= b.low /\ b.low <= b.high /\ b.high <= cap /\ b.high - b.low <= width
  /\ ~Fits(us, b.low, pacing, total) /\ Fits(us, b.high, pacing, total)

\* Bounds between which the search is: too slow, and fast enough.
LEMMA Together ==
  ASSUME NEW us, NEW cap, NEW pacing, NEW total, NEW low \in Nat, NEW high \in Nat, NEW width,
         Unit <= low, low <= high, high <= cap, high - low <= width,
         ~Fits(us, low, pacing, total), Fits(us, high, pacing, total)
  PROVE  Between(us, cap, pacing, total, [low |-> low, high |-> high], width)
  BY DEF Between, Bounds

\* The search stays between a tempo that does not fit and one that does, and halves
\* what is between them.
LEMMA SearchKeeps ==
  ASSUME NEW us, NEW pacing, NEW total, NEW cap \in Nat, Unit <= cap,
         ~Fits(us, Unit, pacing, total), Fits(us, cap, pacing, total),
         NEW h, HalvedIs(h, cap - Unit, Bisections)
  PROVE  Between(us, cap, pacing, total, Search(us, cap, pacing, total)[Bisections], h[Bisections])
  <1> DEFINE s == Search(us, cap, pacing, total)
             Fit(x) == Fits(us, x, pacing, total)
             S == {n \in Nat : n <= Bisections => Between(us, cap, pacing, total, s[n], h[n])}
  <1>1. SearchIs(us, cap, pacing, total, s)
    BY SearchDef
  <1>2. Bisections \in Nat /\ Unit \in Nat
    BY TimelineAssumption DEF Unit
  <1> HIDE DEF s
  <1>3. 0 \in S
    <2>1. s[0] = [low |-> Unit, high |-> cap] /\ h[0] = cap - Unit
      BY <1>1 DEF SearchIs, HalvedIs
    <2> QED
      BY <1>2, <2>1 DEF Between, Bounds
  <1>4. ASSUME NEW n \in Nat, n \in S PROVE n + 1 \in S
    <2> SUFFICES ASSUME n + 1 <= Bisections PROVE Between(us, cap, pacing, total, s[n + 1], h[n + 1])
      OBVIOUS
    <2> DEFINE b == s[n]
               middle == (b.low + b.high) \div 2
    <2>1. Between(us, cap, pacing, total, b, h[n]) /\ n + 1 \in 1..Bisections /\ n \in 0..Bisections
      BY <1>2, <1>4
    <2>2. s[n + 1] = IF Fit(middle) THEN [low |-> b.low, high |-> middle]
                                    ELSE [low |-> middle, high |-> b.high]
      <3>1. s[n + 1] = LET c == s[(n + 1) - 1]
                           m == (c.low + c.high) \div 2
                       IN IF Fits(us, m, pacing, total) THEN [low |-> c.low, high |-> m]
                                                        ELSE [low |-> m, high |-> c.high]
        <4> HIDE DEF middle, b
        <4> QED BY <1>1, <2>1 DEF SearchIs
      <3>2. (n + 1) - 1 = n
        OBVIOUS
      <3> QED
        BY <3>1, <3>2, Zenon
    <2>3. h[n + 1] = (h[n] + 1) \div 2 /\ h[n] \in Nat
      BY <2>1 DEF HalvedIs
    <2> HIDE DEF b, Fit
    <2>4. b.low \in Nat /\ b.high \in Nat /\ Unit <= b.low /\ b.low <= b.high /\ b.high <= cap /\ b.high - b.low <= h[n]
          /\ ~Fit(b.low) /\ Fit(b.high)
      BY <2>1 DEF Between, Bounds, Fit
    <2>5. middle \in Nat /\ b.low <= middle /\ middle <= b.high
          /\ middle - b.low <= h[n + 1] /\ b.high - middle <= h[n + 1]
      BY <2>3, <2>4
    <2> HIDE DEF middle
    <2>6. CASE Fit(middle)
      <3>1. s[n + 1] = [low |-> b.low, high |-> middle]
        BY <2>2, <2>6
      <3> QED
        <4>1. Between(us, cap, pacing, total, [low |-> b.low, high |-> middle], h[n + 1])
          <5>1. middle <= cap
            BY <2>4, <2>5
          <5> QED
            BY <2>4, <2>5, <2>6, <5>1, Together DEF Fit
        <4> QED
          BY <3>1, <4>1
    <2>7. CASE ~Fit(middle)
      <3>1. s[n + 1] = [low |-> middle, high |-> b.high]
        BY <2>2, <2>7
      <3> QED
        <4>1. Between(us, cap, pacing, total, [low |-> middle, high |-> b.high], h[n + 1])
          <5>1. Unit <= middle
            BY <1>2, <2>4, <2>5
          <5> QED
            BY <2>4, <2>5, <2>7, <5>1, Together DEF Fit
        <4> QED
          BY <3>1, <4>1
    <2> QED
      BY <2>6, <2>7
  <1>5. Nat \subseteq S
    <2> HIDE DEF S
    <2> QED
      BY <1>3, <1>4, EveryNumber, Zenon
  <1> QED
    BY <1>2, <1>5 DEF s

\* The pacings, of which the last one is the tightest.
LEMMA PacingParts ==
  /\ DOMAIN Pacing = 1..3
  /\ \A k \in 1..3 : Pacing[k] \in Pace /\ Pacing[k].lead <= MaxLead /\ Pacing[k].gap >= MinGap
  /\ Pacing[3] = Tightest /\ Tightest.gap = MinGap /\ Tightest.lead = MaxLead
  <1>1. DOMAIN Pacing = 1..3
    BY DEF Pacing
  <1>2. Pacing[1] = [gap |-> 32, lead |-> 0] /\ Pacing[2] = [gap |-> 32, lead |-> MaxLead]
        /\ Pacing[3] = [gap |-> MinGap, lead |-> MaxLead]
    BY DEF Pacing
  <1>3. \A k \in 1..3 : k = 1 \/ k = 2 \/ k = 3
    OBVIOUS
  <1>4. Tightest = Pacing[3]
    BY DEF Tightest
  <1> QED
    BY <1>1, <1>2, <1>3, <1>4 DEF Pace, MaxLead, MinGap

\* The first pacing that fits.
LEMMA LeastOf ==
  ASSUME NEW some, some \subseteq 1..3, some # {}
  PROVE  Min(some) \in some /\ \A k \in some : Min(some) <= k
  <1>1. \E k \in some : \A j \in some : k <= j
    <2>1. CASE 1 \in some
      BY <2>1
    <2>2. CASE 1 \notin some /\ 2 \in some
      <3>1. \A j \in some : 2 <= j
        BY <2>2
      <3> QED
        BY <2>2, <3>1
    <2>3. CASE 1 \notin some /\ 2 \notin some
      <3>1. \A k \in some : k = 3
        BY <2>3
      <3>2. PICK k \in some : TRUE
        OBVIOUS
      <3> QED
        BY <3>1, <3>2
    <2> QED
      BY <2>1, <2>2, <2>3
  <1> QED
    BY <1>1 DEF Min

TempoIs(us, cap, pacing, total, tempo) ==
  /\ tempo \in Nat /\ Unit <= tempo /\ tempo <= cap /\ Fits(us, tempo, pacing, total)
  /\ tempo > Unit => ~Fits(us, Larger(Unit, tempo - Halving(cap - Unit, Bisections)), pacing, total)
  /\ Fits(us, Unit, pacing, total) => tempo = Unit

\* The tempo that is found fits, and the track does not fit at one that is
\* slower by what the search leaves open.
LEMMA TempoParts ==
  ASSUME NEW us \in Seq(Spoken), NEW pacing \in Pace, NEW total \in Nat, NEW cap \in Nat, Unit <= cap,
         Fits(us, cap, pacing, total)
  PROVE  TempoIs(us, cap, pacing, total, Tempo(us, cap, pacing, total))
  <1> DEFINE tempo == Tempo(us, cap, pacing, total)
             step == Halving(cap - Unit, Bisections)
  <1>1. Unit \in Nat \ {0} /\ cap - Unit \in Nat /\ Bisections \in Nat
    BY TimelineAssumption DEF Unit
  <1>2. CASE Fits(us, Unit, pacing, total)
    <2>1. tempo = Unit
      BY <1>2 DEF Tempo
    <2> HIDE DEF tempo
    <2>2. tempo \in Nat /\ Unit <= tempo /\ tempo <= cap /\ ~(tempo > Unit)
      BY <1>1, <2>1
    <2> QED
      BY <1>2, <2>1, <2>2 DEF tempo, TempoIs
  <1>3. CASE ~Fits(us, Unit, pacing, total)
    <2>1. PICK h : HalvedIs(h, cap - Unit, Bisections) /\ step = h[Bisections]
      BY <1>1, HalvedParts
    <2> DEFINE b == Search(us, cap, pacing, total)[Bisections]
    <2>2. tempo = b.high
      BY <1>3 DEF Tempo
    <2>3. Between(us, cap, pacing, total, b, h[Bisections])
      <3> HIDE DEF step
      <3> QED
        BY <1>3, <2>1, SearchKeeps
    <2>4. h[Bisections] \in Nat
      BY <1>1, <2>1 DEF HalvedIs
    <2> HIDE DEF b, tempo, step
    <2>5. b.low \in Nat /\ tempo \in Nat /\ step \in Nat /\ Unit <= b.low /\ b.low <= tempo /\ tempo <= cap
          /\ tempo - b.low <= step /\ ~Fits(us, b.low, pacing, total) /\ Fits(us, tempo, pacing, total)
      BY <2>1, <2>2, <2>3, <2>4 DEF Between, Bounds
    <2> DEFINE slower == Larger(Unit, tempo - step)
    <2>6. slower \in Nat \ {0} /\ slower <= b.low /\ b.low \in Nat \ {0}
      BY <1>1, <2>5 DEF Larger
    <2> HIDE DEF slower
    <2>7. ~Fits(us, slower, pacing, total)
      BY <2>5, <2>6, FasterFits
    <2>8. Unit <= tempo
      BY <1>1, <2>5
    <2>9. ~Fits(us, Larger(Unit, tempo - step), pacing, total)
      BY <2>7 DEF slower
    <2> QED
      BY <1>3, <2>5, <2>8, <2>9, Zenon DEF tempo, step, TempoIs
  <1> QED
    BY <1>2, <1>3

Able(us, cap, total) == {k \in DOMAIN Pacing : Fits(us, cap, Pacing[k], total)}

\* A timeline is accepted with the first pacing that can fit, in time and no faster
\* than the search can tell it must be.
LEMMA Accepted ==
  ASSUME NEW us \in Seq(Spoken), NEW total \in Nat, NEW cap \in Nat, Unit <= cap,
         Able(us, cap, total) # {}
  PROVE  Timeline(us, cap, total).fits /\ AcceptedIsInTime(us, Timeline(us, cap, total), cap, total)
  <1> DEFINE able == Able(us, cap, total)
             least == Min(able)
             pacing == Pacing[least]
             tempo == Tempo(us, cap, pacing, total)
             plan == TimelinePlan(us, tempo, pacing)
             made == Timeline(us, cap, total)
  <1>1. least \in able /\ (\A k \in able : least <= k) /\ able \subseteq 1..3
    <2>1. able \subseteq 1..3
      BY PacingParts DEF Able
    <2> HIDE DEF able
    <2> QED
      BY <2>1, LeastOf DEF able
  <1>2. made = [fits |-> TRUE, tempo |-> tempo, pacing |-> pacing, plan |-> plan]
    BY DEF Timeline, Able
  <1>3. made.fits /\ made.tempo = tempo /\ made.pacing = pacing /\ made.plan = plan
    <2> HIDE DEF tempo, pacing, plan, made
    <2> QED
      BY <1>2
  <1> HIDE DEF made, able, least
  <1>4. pacing \in Pace /\ pacing.lead <= MaxLead /\ pacing.gap >= MinGap
    BY <1>1, PacingParts
  <1>5. Fits(us, cap, pacing, total)
    BY <1>1 DEF able, Able
  <1> HIDE DEF pacing
  <1>6. TempoIs(us, cap, pacing, total, tempo)
    BY <1>4, <1>5, TempoParts
  <1> HIDE DEF tempo
  <1>7. Unit <= tempo /\ tempo <= cap /\ tempo \in Nat /\ Fits(us, tempo, pacing, total)
    BY <1>6 DEF TempoIs
  <1>8. PlanIs(us, tempo, pacing, plan)
    BY <1>4, <1>7, PlanParts
  <1>9. Inside(plan, tempo, total) /\ \A i \in DOMAIN us : InTime(us, plan, tempo, i)
    BY <1>7 DEF Fits
  <1>10. Fits(us, Unit, Pacing[1], total) => plan = TimelinePlan(us, Unit, Pacing[1])
    <2> SUFFICES ASSUME Fits(us, Unit, Pacing[1], total) PROVE plan = TimelinePlan(us, Unit, Pacing[1])
      OBVIOUS
    <2>1. Pacing[1] \in Pace /\ 1 \in DOMAIN Pacing
      BY PacingParts
    <2>2. Fits(us, cap, Pacing[1], total)
      BY <2>1, FasterFits DEF Unit
    <2>3. 1 \in able
      BY <2>1, <2>2 DEF able, Able
    <2>4. least = 1
      BY <1>1, <2>3
    <2>5. pacing = Pacing[1]
      BY <2>4 DEF pacing
    <2>6. tempo = Unit
      BY <1>6, <2>5 DEF TempoIs
    <2> QED
      BY <2>5, <2>6
  <1> HIDE DEF plan
  <1>11. ASSUME NEW i \in DOMAIN us
         PROVE  /\ plan[i].start >= (us[i].start - MaxLead) * tempo
                /\ i > 1 => plan[i].start >= plan[i - 1].end + MinGap * tempo
    <2>1. us[i] \in Spoken /\ i \in 1..Len(us) /\ Len(us) \in Nat
      OBVIOUS
    <2> DEFINE early == Larger(0, us[i].start - pacing.lead)
               after == IF i = 1 THEN 0 ELSE plan[i - 1].end + pacing.gap * tempo
    <2>2. plan[i].start = Larger(early * tempo, after) /\ plan[i] \in Placed
      BY <1>8, <2>1 DEF PlanIs
    <2>3. us[i].start \in Nat /\ pacing.lead \in Nat /\ pacing.gap \in Nat /\ MaxLead \in Nat /\ MinGap \in Nat
      BY <1>4, <2>1 DEF Spoken, Pace, MaxLead, MinGap
    <2>4. early \in Nat /\ us[i].start - MaxLead \in Int /\ us[i].start - MaxLead <= early
      BY <1>4, <2>3, SMTT(30) DEF Larger
    <2> HIDE DEF early
    <2>5. (us[i].start - MaxLead) * tempo <= early * tempo
      <3> DEFINE x == us[i].start - MaxLead
      <3>1. x \in Int /\ early \in Int /\ x <= early
        BY <2>4
      <3> HIDE DEF x
      <3>2. x * tempo <= early * tempo
        BY <1>7, <3>1, ProductGrows
      <3> QED
        BY <3>2 DEF x
    <2>6. i > 1 => plan[i - 1] \in Placed
      BY <1>8, <2>1 DEF PlanIs
    <2>7. pacing.gap * tempo \in Nat /\ MinGap * tempo \in Nat /\ MinGap * tempo <= pacing.gap * tempo
      <3> DEFINE g == pacing.gap
      <3>1. g \in Nat /\ MinGap \in Nat /\ MinGap <= g
        BY <1>4, <2>3
      <3> HIDE DEF g
      <3>2. g * tempo \in Nat /\ MinGap * tempo \in Nat
        BY <1>7, <3>1, Product
      <3>3. MinGap * tempo <= g * tempo
        BY <1>7, <3>1, ProductGrows
      <3> QED
        BY <3>2, <3>3 DEF g
    <2>8. i > 1 => after = plan[i - 1].end + pacing.gap * tempo /\ plan[i - 1].end \in Nat
      BY <2>6 DEF Placed
    <2>9. after \in Nat
      BY <2>1, <2>7, <2>8
    <2>10. i > 1 => plan[i - 1].end + MinGap * tempo <= after
      BY <2>7, <2>8
    <2> HIDE DEF after
    <2>11. early * tempo \in Int /\ (us[i].start - MaxLead) * tempo \in Int
      BY <1>7, <2>4, ProductInt
    <2> DEFINE x == early * tempo
               y == (us[i].start - MaxLead) * tempo
               z == MinGap * tempo
    <2>12. x \in Int /\ y \in Int /\ y <= x /\ plan[i].start = Larger(x, after) /\ z \in Nat
           /\ (i > 1 => plan[i - 1].end + z <= after /\ plan[i - 1].end \in Nat)
      BY <2>2, <2>5, <2>7, <2>8, <2>10, <2>11
    <2> HIDE DEF x, y, z
    <2>13. plan[i].start \in Int /\ plan[i].start >= x /\ plan[i].start >= after
      <3>1. after \in Int
        BY <2>9
      <3>2. Larger(x, after) \in Int /\ Larger(x, after) >= x /\ Larger(x, after) >= after
        BY <2>12, <3>1, LargerType, Zenon
      <3> QED
        BY <2>12, <3>2, Zenon
    <2>14. plan[i].start >= y
      BY <2>12, <2>13
    <2>15. i > 1 => plan[i].start >= plan[i - 1].end + z
      BY <2>9, <2>12, <2>13
    <2> QED
      BY <2>14, <2>15 DEF y, z
  <1>12. AcceptedIsInTime(us, made, cap, total)
    BY <1>3, <1>6, <1>7, <1>9, <1>10, <1>11, Zenon DEF AcceptedIsInTime, TempoIs
  <1> QED
    BY <1>3, <1>12 DEF made

Ahead(weight, i, j) == weight[j] > weight[i] \/ (weight[j] = weight[i] /\ j > i)

\* One of some numbers has the greatest weight, and is the last that has it.
LEMMA GreatestExists ==
  ASSUME NEW N \in Nat, NEW weight \in [1..N -> Int], NEW some \in SUBSET (1..N), some # {}
  PROVE  \E i \in some : \A j \in some : ~Ahead(weight, i, j)
  <1> DEFINE Top(n) == (\E j \in some : j <= n) =>
                          \E i \in some : i <= n /\ \A j \in some : j <= n => ~Ahead(weight, i, j)
             S == {n \in Nat : Top(n)}
  <1>1. \A j \in some : j \in 1..N /\ weight[j] \in Int
    OBVIOUS
  <1>2. 0 \in S
    BY <1>1
  <1>3. ASSUME NEW n \in Nat, n \in S PROVE n + 1 \in S
    <2>1. CASE n + 1 \notin some
      <3>1. \A j \in some : j <= n + 1 <=> j <= n
        BY <1>1, <2>1
      <3> QED
        BY <1>3, <3>1, SMTT(30)
    <2>2. CASE n + 1 \in some
      <3>1. CASE \A j \in some : ~(j <= n)
        <4>1. \A j \in some : j <= n + 1 => ~Ahead(weight, n + 1, j)
          BY <1>1, <2>2, <3>1 DEF Ahead
        <4> QED
          BY <2>2, <4>1
      <3>2. CASE \E j \in some : j <= n
        <4>1. PICK i \in some : i <= n /\ \A j \in some : j <= n => ~Ahead(weight, i, j)
          BY <1>3, <3>2
        <4>2. CASE weight[i] > weight[n + 1]
          <5>1. ~Ahead(weight, i, n + 1)
            BY <1>1, <2>2, <4>1, <4>2 DEF Ahead
          <5>2. \A j \in some : j <= n + 1 => ~Ahead(weight, i, j)
            BY <1>1, <4>1, <5>1
          <5> QED
            BY <1>1, <4>1, <5>2
        <4>3. CASE ~(weight[i] > weight[n + 1])
          <5>1. ASSUME NEW j \in some, j <= n + 1 PROVE ~Ahead(weight, n + 1, j)
            <6>1. CASE j = n + 1
              BY <1>1, <6>1 DEF Ahead
            <6>2. CASE j # n + 1
              <7>1. j <= n /\ j \in Int
                BY <1>1, <5>1, <6>2
              <7>2. ~Ahead(weight, i, j)
                BY <4>1, <7>1
              <7>3. weight[i] \in Int /\ weight[j] \in Int /\ weight[n + 1] \in Int
                BY <1>1, <2>2
              <7> QED
                BY <4>3, <7>1, <7>2, <7>3 DEF Ahead
            <6> QED
              BY <6>1, <6>2
          <5> QED
            BY <2>2, <5>1
        <4> QED
          BY <4>2, <4>3
      <3> QED
        BY <3>1, <3>2
    <2> QED
      BY <2>1, <2>2
  <1>4. Nat \subseteq S
    <2> HIDE DEF S
    <2> QED
      BY <1>2, <1>3, EveryNumber, Zenon
  <1>5. Top(N)
    BY <1>4
  <1>6. \A j \in some : j <= N
    BY <1>1
  <1> QED
    BY <1>5, <1>6

\* The worst of some utterances: some of them if there are any, and all of them if
\* they are few.
LEMMA WorstParts ==
  ASSUME NEW N \in Nat, NEW weight \in [1..N -> Int], NEW some \in SUBSET (1..N)
  PROVE  /\ Worst(weight, some) \subseteq some
         /\ some # {} => Worst(weight, some) # {}
         /\ Cardinality(some) <= MaxTargets => Worst(weight, some) = some
  <1> DEFINE Better(i) == {j \in some : Ahead(weight, i, j)}
  <1>1. Worst(weight, some) = {i \in some : Cardinality(Better(i)) < MaxTargets}
    BY DEF Worst, Ahead
  <1>2. IsFiniteSet(some) /\ MaxTargets \in Nat \ {0}
    <2>1. IsFiniteSet(1..N)
      BY FS_Interval
    <2>2. IsFiniteSet(some)
      BY <2>1, FS_Subset
    <2> QED
      BY <2>2, TimelineAssumption
  <1>3. ASSUME some # {} PROVE Worst(weight, some) # {}
    <2>1. PICK i \in some : \A j \in some : ~Ahead(weight, i, j)
      BY <1>3, GreatestExists
    <2>2. Better(i) = {}
      BY <2>1
    <2>3. Cardinality(Better(i)) = 0
      <3> HIDE DEF Better
      <3> QED
        BY <2>2, FS_EmptySet
    <2>4. i \in Worst(weight, some)
      <3> HIDE DEF Better
      <3> QED
        BY <1>1, <1>2, <2>3
    <2> QED
      BY <2>4
  <1>4. ASSUME Cardinality(some) <= MaxTargets, NEW i \in some PROVE i \in Worst(weight, some)
    <2>1. ~Ahead(weight, i, i)
      BY DEF Ahead
    <2>2. Better(i) \subseteq some /\ Better(i) # some
      BY <2>1
    <2> HIDE DEF Better
    <2>3. Cardinality(Better(i)) <= Cardinality(some) /\ Cardinality(Better(i)) # Cardinality(some)
          /\ IsFiniteSet(Better(i))
      BY <1>2, <2>2, FS_Subset
    <2>4. Cardinality(Better(i)) \in Nat /\ Cardinality(some) \in Nat
      BY <1>2, <2>3, FS_CardinalityType
    <2>5. Cardinality(Better(i)) < MaxTargets
      BY <1>2, <1>4, <2>3, <2>4
    <2> QED
      BY <1>1, <2>5
  <1>5. Worst(weight, some) \subseteq some
    BY <1>1
  <1> QED
    BY <1>3, <1>4, <1>5

\* What a refusal is made of: how late each utterance is at the highest tempo.
LateIs(us, plan, cap, total, excess, score) ==
  /\ excess \in [1..Len(us) -> Nat] /\ score \in [1..Len(us) -> Nat]
  /\ \A i \in 1..Len(us) :
       LET late == plan[i].end - Deadline(us, i, Tightest, total) * cap
           lag  == plan[i].start - (us[i].start + MaxLag) * cap
       IN /\ late \in Int /\ lag \in Int
          /\ excess[i] = Larger(Larger(0, late), lag)
          /\ score[i] >= late

\* The time by which an utterance must have ended.
LEMMA DeadlineParts ==
  ASSUME NEW us \in Seq(Spoken), NEW total \in Nat, NEW i \in 1..Len(us)
  PROVE  /\ Deadline(us, i, Tightest, total) \in Int
         /\ Deadline(us, i, Tightest, total) <= us[i].end + MaxLag
         /\ i < Len(us) => Deadline(us, i, Tightest, total) <= us[i + 1].start + MaxLag - MinGap
         /\ i = Len(us) => Deadline(us, i, Tightest, total) <= total
  <1>1. us[i] \in Spoken /\ i \in Nat /\ Len(us) \in Nat /\ (i < Len(us) => us[i + 1] \in Spoken)
    OBVIOUS
  <1>2. us[i].end \in Nat /\ (i < Len(us) => us[i + 1].start \in Nat) /\ MaxLag \in Nat /\ MinGap \in Nat
    BY <1>1 DEF Spoken, MaxLag, MinGap
  <1>3. Tightest.gap = MinGap
    BY PacingParts
  <1> DEFINE next == IF i < Len(us) THEN us[i + 1].start + MaxLag - Tightest.gap ELSE total
  <1>4. Deadline(us, i, Tightest, total) = Smaller(us[i].end + MaxLag, next)
    BY DEF Deadline
  <1>5. CASE i < Len(us)
    BY <1>1, <1>2, <1>3, <1>4, <1>5, SMTT(30) DEF Smaller
  <1>6. CASE ~(i < Len(us))
    BY <1>1, <1>2, <1>4, <1>6 DEF Smaller
  <1> QED
    BY <1>5, <1>6

\* By how much each utterance is late, and too long.
LEMMA LateParts ==
  ASSUME NEW us \in Seq(Spoken), NEW total \in Nat, NEW cap \in Nat,
         NEW plan, PlanIs(us, cap, Tightest, plan)
  PROVE  LateIs(us, plan, cap, total, Excess(us, plan, cap, Tightest, total), Score(us, plan, cap, Tightest, total))
  <1> DEFINE N == Len(us)
             Ending(i) == plan[i].end - Deadline(us, i, Tightest, total) * cap
             Lag(i) == plan[i].start - (us[i].start + MaxLag) * cap
             Over(i) == Larger(0, us[i].speech * Unit - Larger(us[i].end - us[i].start, 10) * cap)
             excess == Excess(us, plan, cap, Tightest, total)
             score == Score(us, plan, cap, Tightest, total)
  <1>1. N \in Nat /\ DOMAIN us = 1..N /\ \A i \in 1..N : us[i] \in Spoken /\ plan[i] \in Placed
    BY DEF PlanIs
  <1>2. excess = [i \in 1..N |-> Larger(Larger(0, Ending(i)), Lag(i))]
    BY <1>1 DEF Excess
  <1>3. score = [i \in 1..N |-> Larger(0, Ending(i)) + Over(i)]
    BY <1>1 DEF Score
  <1>4. ASSUME NEW i \in 1..N PROVE Ending(i) \in Int /\ Lag(i) \in Int /\ Over(i) \in Nat
    <2>1. us[i].start \in Nat /\ us[i].end \in Nat /\ us[i].speech \in Nat
          /\ plan[i].start \in Nat /\ plan[i].end \in Nat
      BY <1>1 DEF Spoken, Placed
    <2>2. us[i].start + MaxLag \in Int /\ Larger(us[i].end - us[i].start, 10) \in Int
      BY <2>1 DEF MaxLag, Larger
    <2>8. Deadline(us, i, Tightest, total) \in Int
      BY DeadlineParts DEF N
    <2>3. Deadline(us, i, Tightest, total) * cap \in Int
      BY <2>8, ProductInt
    <2>4. (us[i].start + MaxLag) * cap \in Int
      BY <2>2, ProductInt
    <2>5. Larger(us[i].end - us[i].start, 10) * cap \in Int
      BY <2>2, ProductInt
    <2>6. us[i].speech * Unit \in Int
      BY <2>1, ProductInt DEF Unit
    <2>7. \A x, y \in Int : Larger(0, x - y) \in Nat
      BY DEF Larger
    <2>9. Over(i) \in Nat
      BY <2>5, <2>6, <2>7, Zenon
    <2>10. \A x, y \in Int : x - y \in Int
      OBVIOUS
    <2>11. Ending(i) \in Int
      <3> DEFINE y == Deadline(us, i, Tightest, total) * cap
      <3> HIDE DEF y
      <3>1. plan[i].end - y \in Int
        BY <2>1, <2>3 DEF y
      <3> QED
        BY <3>1 DEF y
    <2>12. Lag(i) \in Int
      <3> DEFINE y == (us[i].start + MaxLag) * cap
      <3>1. y \in Int
        BY <2>4
      <3> HIDE DEF y
      <3>2. plan[i].start - y \in Int
        BY <2>1, <3>1
      <3> QED
        BY <3>2 DEF y
    <2> QED
      BY <2>9, <2>11, <2>12
  <1> HIDE DEF N, Ending, Lag, Over, excess, score
  <1>5. \A x, y \in Int : Larger(Larger(0, x), y) \in Nat
    BY DEF Larger
  <1>6. \A x \in Int, y \in Nat : Larger(0, x) + y \in Nat /\ Larger(0, x) + y >= x
    BY DEF Larger
  <1>7. excess \in [1..N -> Nat] /\ score \in [1..N -> Nat]
    BY <1>2, <1>3, <1>4, <1>5, <1>6
  <1>8. \A i \in 1..N : excess[i] = Larger(Larger(0, Ending(i)), Lag(i)) /\ score[i] >= Ending(i)
    BY <1>2, <1>3, <1>4, <1>6
  <1> QED
    BY <1>4, <1>7, <1>8 DEF LateIs, N, Ending, Lag, excess, score

\* Some utterance of a track that does not fit is late.
LEMMA SomeIsLate ==
  ASSUME NEW us \in Seq(Spoken), NEW total \in Nat, NEW cap \in Nat,
         ~Fits(us, cap, Tightest, total),
         NEW excess, NEW score, LateIs(us, TimelinePlan(us, cap, Tightest), cap, total, excess, score)
  PROVE  \E i \in 1..Len(us) : excess[i] > 0
  <1> DEFINE plan == TimelinePlan(us, cap, Tightest)
             N == Len(us)
             D(i) == Deadline(us, i, Tightest, total)
  <1>1. Tightest \in Pace
    BY PacingParts
  <1>2. N \in Nat /\ \A i \in 1..N : us[i] \in Spoken
    OBVIOUS
  <1>3. PlanIs(us, cap, Tightest, plan)
    BY <1>1, PlanParts
  <1>4. \/ N # 0 /\ ~(plan[N].end <= (total + 1) * cap)
        \/ \E i \in 1..N : ~(plan[i].start <= (us[i].start + MaxLag) * cap)
        \/ \E i \in 1..N : ~(plan[i].end <= (us[i].end + MaxLag) * cap)
    BY <1>1, FitsParts
  <1>5. \A i \in 1..N : plan[i].start \in Nat /\ plan[i].end \in Nat
    BY <1>3 DEF PlanIs, Placed
  <1>6. \A i \in 1..N : us[i].start + MaxLag \in Int /\ us[i].end + MaxLag \in Int
    BY <1>2, SMTT(30) DEF Spoken, MaxLag
  <1>7. \A i \in 1..N : D(i) \in Int /\ D(i) <= us[i].end + MaxLag /\ (i = N => D(i) <= total)
    BY DeadlineParts
  <1> HIDE DEF plan, N, D
  <1>8. \A i \in 1..N : /\ plan[i].end - D(i) * cap \in Int /\ plan[i].start - (us[i].start + MaxLag) * cap \in Int
                        /\ excess[i] = Larger(Larger(0, plan[i].end - D(i) * cap), plan[i].start - (us[i].start + MaxLag) * cap)
    BY DEF LateIs, plan, N, D
  <1>9. \A x, y \in Int : x > 0 \/ y > 0 => Larger(Larger(0, x), y) > 0
    BY DEF Larger
  <1>10. ASSUME NEW i \in 1..N, ~(plan[i].start <= (us[i].start + MaxLag) * cap) PROVE excess[i] > 0
    <2> DEFINE y == (us[i].start + MaxLag) * cap
    <2>1. y \in Int
      BY <1>6, ProductInt
    <2>2. plan[i].start - y > 0
      <3>1. ~(plan[i].start <= y)
        BY <1>10
      <3> HIDE DEF y
      <3> QED
        BY <1>5, <2>1, <3>1
    <2> QED
      BY <1>8, <1>9, <2>2
  <1>11. ASSUME NEW i \in 1..N, NEW limit \in Int, D(i) <= limit, ~(plan[i].end <= limit * cap) PROVE excess[i] > 0
    <2> DEFINE x == D(i) * cap
               y == limit * cap
    <2>1. x <= y /\ x \in Int /\ y \in Int
      BY <1>7, <1>11, ProductInt, ProductGrows
    <2>2. plan[i].end - x > 0
      <3>1. ~(plan[i].end <= y)
        BY <1>11
      <3> HIDE DEF x, y
      <3> QED
        BY <1>5, <2>1, <3>1
    <2> QED
      BY <1>8, <1>9, <2>2
  <1>12. CASE N # 0 /\ ~(plan[N].end <= (total + 1) * cap)
    <2>1. N \in 1..N /\ total + 1 \in Int /\ D(N) <= total + 1
      BY <1>2, <1>7, <1>12
    <2> QED
      BY <1>11, <1>12, <2>1 DEF N
  <1>13. CASE \E i \in 1..N : ~(plan[i].start <= (us[i].start + MaxLag) * cap)
    BY <1>10, <1>13 DEF N
  <1>14. CASE \E i \in 1..N : ~(plan[i].end <= (us[i].end + MaxLag) * cap)
    <2>1. PICK i \in 1..N : ~(plan[i].end <= (us[i].end + MaxLag) * cap)
      BY <1>14
    <2>2. us[i].end + MaxLag \in Int /\ D(i) <= us[i].end + MaxLag
      BY <1>6, <1>7
    <2> QED
      BY <1>11, <2>1, <2>2 DEF N
  <1> QED
    BY <1>4, <1>12, <1>13, <1>14

\* A script whose utterances share no row.
Apart(us) ==
  \A i, j \in 1..Len(us) : us[i].rows # {} /\ (i # j => us[i].rows \cap us[j].rows = {})

\* An utterance that is late by some time makes itself, or the one before it,
\* as much too long.
LEMMA LateIsOverlong ==
  ASSUME NEW us \in Seq(Spoken), NEW total \in Nat, NEW cap \in Nat,
         NEW plan, PlanIs(us, cap, Tightest, plan),
         NEW excess, NEW score, LateIs(us, plan, cap, total, excess, score),
         NEW i \in 1..Len(us), NEW limit \in Nat, excess[i] > limit
  PROVE  score[i] > limit \/ (i > 1 /\ score[i - 1] > limit)
  <1> DEFINE N == Len(us)
             D(k) == Deadline(us, k, Tightest, total)
             late == plan[i].end - D(i) * cap
             lag == plan[i].start - (us[i].start + MaxLag) * cap
  <1>1. N \in Nat /\ us[i] \in Spoken /\ plan[i] \in Placed /\ i \in Nat /\ i >= 1 /\ i <= N
    BY DEF PlanIs
  <1>2. score[i] \in Nat /\ late \in Int /\ lag \in Int /\ excess[i] = Larger(Larger(0, late), lag) /\ score[i] >= late
    BY DEF LateIs
  <1> HIDE DEF N, late, lag, D
  <1>3. late > limit \/ lag > limit
    BY <1>2 DEF Larger
  <1>4. CASE late > limit
    BY <1>2, <1>4
  <1>5. CASE lag > limit
    <2> DEFINE early == Larger(0, us[i].start - Tightest.lead)
               top == (us[i].start + MaxLag) * cap
    <2>1. us[i].start \in Nat /\ plan[i].start \in Nat /\ Tightest.lead = MaxLead /\ Tightest.gap = MinGap
      BY <1>1, PacingParts DEF Spoken, Placed
    <2>2. early \in Nat /\ us[i].start + MaxLag \in Nat /\ early <= us[i].start + MaxLag
      BY <2>1, SMTT(30) DEF Larger, MaxLag, MaxLead
    <2>3. early * cap <= top /\ early * cap \in Nat /\ top \in Nat
      <3> HIDE DEF early
      <3> DEFINE x == us[i].start + MaxLag
      <3>1. x \in Nat /\ early <= x /\ early \in Nat
        BY <2>2
      <3> HIDE DEF x
      <3>2. early * cap <= x * cap /\ early * cap \in Nat /\ x * cap \in Nat
        BY <3>1, ProductGrows, Product
      <3> QED
        BY <3>2 DEF x
    <2>4. plan[i].start = Larger(early * cap, IF i = 1 THEN 0 ELSE plan[i - 1].end + MinGap * cap)
      BY <2>1 DEF PlanIs
    <2>5. plan[i].start - top > limit
      BY <1>5 DEF lag
    <2> HIDE DEF early, top
    <2>6. i # 1 /\ plan[i].start = plan[i - 1].end + MinGap * cap
      BY <2>1, <2>3, <2>4, <2>5 DEF Larger
    <2>7. i - 1 \in 1..Len(us) /\ i - 1 < Len(us) /\ (i - 1) + 1 = i /\ i > 1
      BY <1>1, <2>6 DEF N
    <2>8. D(i - 1) \in Int /\ D(i - 1) <= us[i].start + MaxLag - MinGap
      <3>1. us[(i - 1) + 1].start = us[i].start
        BY <2>7
      <3> QED
        BY <2>7, <3>1, DeadlineParts DEF D
    <2>9. D(i - 1) * cap + MinGap * cap <= top
      <3> DEFINE x == D(i - 1)
                 y == us[i].start + MaxLag
      <3>1. x \in Int /\ y \in Int /\ x + MinGap <= y /\ MinGap \in Nat
        <4>1. MinGap \in Nat /\ MaxLag \in Nat
          BY DEF MinGap, MaxLag
        <4> QED
          BY <2>1, <2>8, <4>1, SMTT(30)
      <3> HIDE DEF x, y
      <3>2. (x + MinGap) * cap <= y * cap
        BY <3>1, ProductGrows
      <3>3. (x + MinGap) * cap = x * cap + MinGap * cap
        BY <3>1, ProductAdds
      <3>4. x * cap + MinGap * cap <= y * cap
        BY <3>2, <3>3
      <3> QED
        BY <3>4 DEF x, y, top
    <2>10. score[i - 1] \in Nat /\ score[i - 1] >= plan[i - 1].end - D(i - 1) * cap /\ plan[i - 1].end \in Nat
      BY <2>7 DEF LateIs, D, PlanIs, Placed
    <2> DEFINE x == D(i - 1) * cap
               z == MinGap * cap
    <2>11. x \in Int /\ z \in Int
      BY <2>8, ProductInt DEF MinGap
    <2>12. x + z <= top /\ plan[i].start = plan[i - 1].end + z /\ score[i - 1] >= plan[i - 1].end - x
      BY <2>6, <2>9, <2>10
    <2> HIDE DEF x, z
    <2>14. \A a, b, c, d, e, f \in Int :
             a - b > limit /\ c + d <= b /\ a = e + d /\ f >= e - c => f > limit
      OBVIOUS
    <2>15. plan[i].start \in Int /\ top \in Int /\ plan[i - 1].end \in Int /\ score[i - 1] \in Int
      BY <2>1, <2>3, <2>10
    <2>13. score[i - 1] > limit
      BY <2>5, <2>11, <2>12, <2>14, <2>15, Zenon
    <2> QED
      BY <2>7, <2>13
  <1> QED
    BY <1>3, <1>4, <1>5

\* The utterances that the user is told to shorten.
LEMMA TargetsParts ==
  ASSUME NEW us \in Seq(Spoken), NEW cap \in Nat, NEW score \in [1..Len(us) -> Nat], Len(us) # 0
  PROVE  /\ Targets(us, score, cap) \subseteq 1..Len(us) /\ Targets(us, score, cap) # {}
         /\ Cardinality(Overlong(score, cap)) <= MaxTargets => Overlong(score, cap) \subseteq Targets(us, score, cap)
  <1> DEFINE N == Len(us)
             long == Overlong(score, cap)
             speech == [i \in DOMAIN us |-> us[i].speech]
  <1>1. N \in Nat /\ DOMAIN us = 1..N /\ \A i \in 1..N : us[i] \in Spoken
    OBVIOUS
  <1>2. long \in SUBSET (1..N) /\ score \in [1..N -> Int]
    BY DEF Overlong
  <1>3. speech \in [1..N -> Int]
    BY <1>1 DEF Spoken
  <1>4. 1..N \in SUBSET (1..N) /\ 1..N # {}
    BY <1>1
  <1> HIDE DEF N, long, speech
  <1>5. CASE long # {}
    <2>1. Targets(us, score, cap) = Worst(score, long)
      BY <1>5 DEF Targets, long
    <2>2. Worst(score, long) \subseteq long /\ Worst(score, long) # {} /\ (Cardinality(long) <= MaxTargets => Worst(score, long) = long)
      BY <1>1, <1>2, <1>5, WorstParts
    <2> QED
      BY <1>2, <2>1, <2>2 DEF N, long
  <1>6. CASE long = {}
    <2>1. Targets(us, score, cap) = Worst(speech, 1..N)
      BY <1>1, <1>6 DEF Targets, long, speech
    <2>2. Worst(speech, 1..N) \subseteq 1..N /\ Worst(speech, 1..N) # {}
      BY <1>1, <1>3, <1>4, WorstParts, SMTT(30)
    <2> QED
      BY <1>6, <2>1, <2>2 DEF N, long
  <1> QED
    BY <1>5, <1>6

\* A timeline is refused only if no tempo fits, and names utterances whose
\* shortening is needed.
LEMMA RefusedRightly ==
  ASSUME NEW us \in Seq(Spoken), NEW total \in Nat, NEW cap \in Nat, Unit <= cap, Apart(us),
         Able(us, cap, total) = {}
  PROVE  ~Timeline(us, cap, total).fits /\ RefusalIsRight(us, Timeline(us, cap, total), cap, total)
  <1> DEFINE made == Timeline(us, cap, total)
             plan == TimelinePlan(us, cap, Tightest)
             excess == Excess(us, plan, cap, Tightest, total)
             score == Score(us, plan, cap, Tightest, total)
             targets == Targets(us, score, cap)
             named == UNION {us[i].rows : i \in targets}
             N == Len(us)
  <1>1. made = [fits |-> FALSE, excess |-> excess, rows |-> named]
    BY DEF Timeline, Able
  <1>2. ~made.fits /\ made.excess = excess /\ made.rows = named
    <2> HIDE DEF made, excess, named
    <2> QED
      BY <1>1
  <1>3. \A k \in DOMAIN Pacing : ~Fits(us, Unit, Pacing[k], total) /\ ~Fits(us, cap, Pacing[k], total)
    <2> SUFFICES ASSUME NEW k \in DOMAIN Pacing
                 PROVE  ~Fits(us, Unit, Pacing[k], total) /\ ~Fits(us, cap, Pacing[k], total)
      OBVIOUS
    <2>1. ~Fits(us, cap, Pacing[k], total)
      BY DEF Able
    <2>2. Pacing[k] \in Pace /\ Unit \in Nat \ {0} /\ cap \in Nat \ {0}
      BY PacingParts DEF Unit
    <2> QED
      BY <2>1, <2>2, FasterFits
  <1>4. Tightest \in Pace /\ ~Fits(us, cap, Tightest, total)
    BY <1>3, PacingParts
  <1>5. PlanIs(us, cap, Tightest, plan)
    BY <1>4, PlanParts
  <1>6. LateIs(us, plan, cap, total, excess, score)
    BY <1>5, LateParts
  <1>7. N \in Nat /\ DOMAIN us = 1..N
    OBVIOUS
  <1> HIDE DEF made, excess, score, named, plan
  <1>8. PICK i \in 1..N : excess[i] > 0
    BY <1>4, <1>6, SomeIsLate DEF plan
  <1>9. score \in [1..N -> Nat]
    BY <1>6 DEF LateIs
  <1>10. targets \subseteq 1..N /\ targets # {}
         /\ (Cardinality(Overlong(score, cap)) <= MaxTargets => Overlong(score, cap) \subseteq targets)
    BY <1>7, <1>8, <1>9, TargetsParts
  <1> HIDE DEF targets
  <1>11. named # {}
    <2>1. PICK k \in targets : TRUE
      BY <1>10
    <2>2. PICK row \in us[k].rows : TRUE
      BY <1>10, <2>1 DEF Apart
    <2> QED
      BY <2>1, <2>2 DEF named
  <1>12. \A k \in targets : us[k].rows \subseteq named
    BY DEF named
  <1>13. ASSUME NEW k \in 1..N PROVE us[k].rows \subseteq named \/ us[k].rows \cap named = {}
    <2>1. CASE k \in targets
      BY <1>12, <2>1
    <2>2. CASE k \notin targets
      <3>1. \A j \in targets : us[k].rows \cap us[j].rows = {}
        BY <1>10, <2>2 DEF Apart
      <3> QED
        BY <3>1 DEF named
    <2> QED
      BY <2>1, <2>2
  <1>14. ASSUME Cardinality(Overlong(score, cap)) <= MaxTargets, NEW k \in 1..N, excess[k] > 5 * cap
         PROVE  \E j \in {k - 1, k} \cap DOMAIN us : us[j].rows \subseteq named
    <2>1. 5 * cap \in Nat
      OBVIOUS
    <2>2. score[k] > 5 * cap \/ (k > 1 /\ score[k - 1] > 5 * cap)
      BY <1>5, <1>6, <1>14, <2>1, LateIsOverlong
    <2>3. \E j \in {k - 1, k} \cap (1..N) : score[j] > 5 * cap
      <3> HIDE DEF N
      <3> QED
        BY <1>7, <2>2
    <2>4. PICK j \in {k - 1, k} \cap (1..N) : score[j] > 5 * cap
      BY <2>3
    <2>5. j \in Overlong(score, cap)
      BY <1>9, <2>4 DEF Overlong
    <2>6. j \in targets
      BY <1>10, <1>14, <2>5
    <2> QED
      BY <1>7, <1>12, <2>4, <2>6
  <1>15. {k \in DOMAIN us : made.excess[k] > 0} # {}
    BY <1>2, <1>7, <1>8
  <1>16. made.rows # {}
    BY <1>2, <1>11
  <1>17. \A k \in DOMAIN us : us[k].rows \subseteq made.rows \/ us[k].rows \cap made.rows = {}
    BY <1>2, <1>7, <1>13
  <1>18. Cardinality(Overlong(score, cap)) <= MaxTargets =>
           \A k \in {n \in DOMAIN us : made.excess[n] > 0} : made.excess[k] > 5 * cap =>
             \E j \in {k - 1, k} \cap DOMAIN us : us[j].rows \subseteq made.rows
    BY <1>2, <1>7, <1>14
  <1>19. RefusalIsRight(us, made, cap, total)
    BY <1>3, <1>15, <1>16, <1>17, <1>18, Zenon DEF RefusalIsRight, score, plan
  <1> QED
    BY <1>2, <1>19 DEF made

ScriptRow == [start : Nat, end : Nat, text : {"blank", "part", "end"}, speech : Nat]

\* The first and the last of a group, wherever they stand.
LEMMA EnvelopeParts ==
  ASSUME NEW rows \in Seq(ScriptRow), NEW group \in Seq(1..Len(rows)), group # <<>>
  PROVE  /\ Envelope(rows, group).start \in Nat /\ Envelope(rows, group).end \in Nat
         /\ \E m \in 1..Len(group) : Envelope(rows, group).end = rows[group[m]].end
  <1> DEFINE L == Len(group)
             starts == {rows[i].start : i \in Range(group)}
             ends == {rows[i].end : i \in Range(group)}
  <1>1. L \in Nat /\ 1..L # {} /\ DOMAIN group = 1..L /\ \A m \in 1..L : group[m] \in 1..Len(rows)
    <2>1. L \in Nat /\ DOMAIN group = 1..L /\ \A m \in 1..L : group[m] \in 1..Len(rows)
      OBVIOUS
    <2>2. L # 0
      BY EmptySeq
    <2> HIDE DEF L
    <2>3. 1 \in 1..L
      BY <2>1, <2>2
    <2> QED
      BY <2>1, <2>3
  <1>2. \A i \in 1..Len(rows) : rows[i].start \in Nat /\ rows[i].end \in Nat
    <2>1. \A i \in 1..Len(rows) : rows[i] \in ScriptRow
      OBVIOUS
    <2> QED
      BY <2>1 DEF ScriptRow
  <1>3. Range(group) = {group[m] : m \in 1..L}
    BY <1>1 DEF Range
  <1> HIDE DEF L
  <1>4. \E m \in 1..L : \A k \in 1..L : rows[group[m]].end >= rows[group[k]].end
    <2> DEFINE weight == [m \in 1..L |-> rows[group[m]].end]
    <2>1. weight \in [1..L -> Int]
      BY <1>1, <1>2
    <2>2. 1..L \in SUBSET (1..L)
      OBVIOUS
    <2>3. PICK m \in 1..L : \A k \in 1..L : ~Ahead(weight, m, k)
      <3> HIDE DEF weight
      <3> QED
        BY <1>1, <2>1, <2>2, GreatestExists
    <2>4. \A k \in 1..L : weight[m] >= weight[k]
      <3>1. \A k \in 1..L : weight[k] \in Int
        BY <2>1
      <3> HIDE DEF weight
      <3> QED
        BY <2>3, <3>1 DEF Ahead
    <2> QED
      BY <2>4
  <1>5. \E m \in 1..L : \A k \in 1..L : rows[group[m]].start <= rows[group[k]].start
    <2> DEFINE weight == [m \in 1..L |-> -rows[group[m]].start]
    <2>1. weight \in [1..L -> Int]
      BY <1>1, <1>2
    <2>2. 1..L \in SUBSET (1..L)
      OBVIOUS
    <2>3. PICK m \in 1..L : \A k \in 1..L : ~Ahead(weight, m, k)
      <3> HIDE DEF weight
      <3> QED
        BY <1>1, <2>1, <2>2, GreatestExists
    <2>4. \A k \in 1..L : weight[m] >= weight[k]
      <3>1. \A k \in 1..L : weight[k] \in Int
        BY <2>1
      <3> HIDE DEF weight
      <3> QED
        BY <2>3, <3>1 DEF Ahead
    <2>5. \A k \in 1..L : weight[k] = -rows[group[k]].start /\ rows[group[k]].start \in Nat
      BY <1>1, <1>2
    <2> HIDE DEF weight
    <2>6. \A k \in 1..L : rows[group[m]].start <= rows[group[k]].start
      <3> SUFFICES ASSUME NEW k \in 1..L PROVE rows[group[m]].start <= rows[group[k]].start
        OBVIOUS
      <3> DEFINE a == rows[group[m]].start
                 b == rows[group[k]].start
      <3>1. a \in Nat /\ b \in Nat /\ weight[m] = -a /\ weight[k] = -b /\ weight[m] >= weight[k]
        BY <2>4, <2>5
      <3> HIDE DEF a, b
      <3>2. a <= b
        BY <3>1
      <3> QED
        BY <3>2 DEF a, b
    <2> QED
      BY <2>6
  <1>6. starts = {rows[group[m]].start : m \in 1..L} /\ ends = {rows[group[m]].end : m \in 1..L}
    BY <1>3
  <1> HIDE DEF starts, ends
  <1>7. Max(ends) \in ends
    <2>1. \E x \in ends : \A y \in ends : x >= y
      BY <1>4, <1>6
    <2> QED
      BY <2>1 DEF Max
  <1>8. Min(starts) \in starts
    <2>1. \E x \in starts : \A y \in starts : x <= y
      BY <1>5, <1>6
    <2> QED
      BY <2>1 DEF Min
  <1>9. Envelope(rows, group).start = Min(starts) /\ Envelope(rows, group).end = Max(ends)
    BY DEF Envelope, starts, ends
  <1>10. PICK m \in 1..L : Max(ends) = rows[group[m]].end
    BY <1>6, <1>7
  <1>11. PICK k \in 1..L : Min(starts) = rows[group[k]].start
    BY <1>6, <1>8
  <1> QED
    BY <1>1, <1>2, <1>9, <1>10, <1>11 DEF L

\* What the grouping keeps.
GroupIsGood(rows, g) ==
  /\ g \in Seq(1..Len(rows)) /\ g # <<>>
  /\ \A m, k \in 1..Len(g) : m < k => g[m] < g[k]
  /\ Len(g) > 1 => Envelope(rows, g).end - Envelope(rows, g).start <= MaxGroup
  /\ \A n \in 1..Len(g) - 1 :
       /\ rows[g[n]].text = "part"
       /\ \E m \in 1..n : rows[g[n + 1]].start <= rows[g[m]].end + MaxPause

Before(g, h) == \A m \in 1..Len(g), k \in 1..Len(h) : g[m] < h[k]

Holds(acc, i) ==
  \/ \E g \in 1..Len(acc.done) : \E m \in 1..Len(acc.done[g]) : acc.done[g][m] = i
  \/ \E m \in 1..Len(acc.open) : acc.open[m] = i

Grouped(rows, acc, n) ==
  /\ acc \in [done : Seq(Seq(1..Len(rows))), open : Seq(1..Len(rows))]
  /\ \A i \in 1..Len(rows) : Holds(acc, i) <=> i <= n /\ rows[i].text # "blank"
  /\ \A g \in 1..Len(acc.done) : GroupIsGood(rows, acc.done[g])
  /\ \A g, h \in 1..Len(acc.done) : g < h => Before(acc.done[g], acc.done[h])
  /\ \A g \in 1..Len(acc.done) : Before(acc.done[g], acc.open)
  /\ acc.open # <<>> => GroupIsGood(rows, acc.open)

Unfinished(rows, acc) == \A m \in 1..Len(acc.open) : rows[acc.open[m]].text = "part"

\* Closing a group keeps the grouping.
LEMMA FlushedParts ==
  ASSUME NEW rows \in Seq(ScriptRow), NEW n \in Nat, NEW acc, Grouped(rows, acc, n)
  PROVE  Grouped(rows, Flushed(acc), n) /\ Flushed(acc).open = <<>> /\ Unfinished(rows, Flushed(acc))
  <1>1. CASE acc.open = <<>>
    BY <1>1 DEF Flushed, Unfinished
  <1>2. CASE acc.open # <<>>
    <2> DEFINE new == Flushed(acc)
               D == Len(acc.done)
    <2>1. acc.done \in Seq(Seq(1..Len(rows))) /\ acc.open \in Seq(1..Len(rows)) /\ D \in Nat
      BY DEF Grouped
    <2>2. new = [done |-> Append(acc.done, acc.open), open |-> <<>>]
      BY <1>2 DEF Flushed
    <2>3. /\ new.done = Append(acc.done, acc.open) /\ new.open = <<>> /\ Len(new.open) = 0
          /\ new \in [done : Seq(Seq(1..Len(rows))), open : Seq(1..Len(rows))]
      BY <2>1, <2>2
    <2>4. Len(new.done) = D + 1 /\ new.done[D + 1] = acc.open /\ \A g \in 1..D : new.done[g] = acc.done[g]
      BY <2>1, <2>3
    <2> HIDE DEF new
    <2>5. \A g \in 1..D + 1 : g \in 1..D \/ g = D + 1
      BY <2>1
    <2>6. ASSUME NEW i \in 1..Len(rows) PROVE Holds(new, i) <=> Holds(acc, i)
      <3>1. ASSUME Holds(acc, i) PROVE Holds(new, i)
        <4>1. CASE \E g \in 1..D : \E m \in 1..Len(acc.done[g]) : acc.done[g][m] = i
          <5>1. PICK g \in 1..D : \E m \in 1..Len(acc.done[g]) : acc.done[g][m] = i
            BY <4>1
          <5>2. g \in 1..Len(new.done) /\ new.done[g] = acc.done[g]
            BY <2>1, <2>4
          <5> QED
            BY <5>1, <5>2 DEF Holds
        <4>2. CASE \E m \in 1..Len(acc.open) : acc.open[m] = i
          <5>1. D + 1 \in 1..Len(new.done)
            BY <2>1, <2>4
          <5> QED
            BY <2>4, <4>2, <5>1 DEF Holds
        <4> QED
          BY <3>1, <4>1, <4>2 DEF Holds
      <3>2. ASSUME Holds(new, i) PROVE Holds(acc, i)
        <4>1. PICK g \in 1..D + 1 : \E m \in 1..Len(new.done[g]) : new.done[g][m] = i
          <5>1. Len(new.open) = 0 /\ Len(new.done) = D + 1
            BY <2>3, <2>4
          <5>2. ~ \E m \in 1..Len(new.open) : new.open[m] = i
            BY <5>1
          <5> QED
            BY <3>2, <5>1, <5>2 DEF Holds
        <4>2. CASE g \in 1..D
          BY <2>4, <4>1, <4>2 DEF Holds
        <4>3. CASE g = D + 1
          BY <2>4, <4>1, <4>3 DEF Holds
        <4> QED
          BY <2>5, <4>2, <4>3
      <3> QED
        BY <3>1, <3>2
    <2>7. \A g \in 1..Len(new.done) : GroupIsGood(rows, new.done[g])
      BY <1>2, <2>4, <2>5 DEF Grouped
    <2>8. \A g, h \in 1..Len(new.done) : g < h => Before(new.done[g], new.done[h])
      <3> SUFFICES ASSUME NEW g \in 1..D + 1, NEW h \in 1..D + 1, g < h PROVE Before(new.done[g], new.done[h])
        BY <2>4
      <3>1. g \in 1..D
        BY <2>1
      <3>2. CASE h = D + 1
        BY <2>4, <3>1, <3>2 DEF Grouped
      <3>3. CASE h \in 1..D
        BY <2>4, <3>1, <3>3 DEF Grouped
      <3> QED
        BY <2>5, <3>2, <3>3
    <2>9. \A g \in 1..Len(new.done) : Before(new.done[g], new.open)
      BY <2>3 DEF Before
    <2>10. Grouped(rows, new, n)
      BY <2>3, <2>6, <2>7, <2>8, <2>9 DEF Grouped
    <2> QED
      BY <2>3, <2>10 DEF Unfinished, new
  <1> QED
    BY <1>1, <1>2

\* The rows in the groups so far are rows of the script.
LEMMA HeldRows ==
  ASSUME NEW rows \in Seq(ScriptRow), NEW n \in Nat, NEW acc, Grouped(rows, acc, n)
  PROVE  /\ \A g \in 1..Len(acc.done) : \A m \in 1..Len(acc.done[g]) : acc.done[g][m] \in 1..Len(rows) /\ acc.done[g][m] <= n
         /\ \A m \in 1..Len(acc.open) : acc.open[m] \in 1..Len(rows) /\ acc.open[m] <= n
  <1>1. acc.done \in Seq(Seq(1..Len(rows))) /\ acc.open \in Seq(1..Len(rows))
    BY DEF Grouped
  <1>2. ASSUME NEW g \in 1..Len(acc.done), NEW m \in 1..Len(acc.done[g])
        PROVE  acc.done[g][m] \in 1..Len(rows) /\ acc.done[g][m] <= n
    <2>1. acc.done[g] \in Seq(1..Len(rows))
      BY <1>1
    <2>2. acc.done[g][m] \in 1..Len(rows)
      BY <2>1
    <2>3. Holds(acc, acc.done[g][m])
      BY DEF Holds
    <2> QED
      BY <2>2, <2>3 DEF Grouped
  <1>3. ASSUME NEW m \in 1..Len(acc.open)
        PROVE  acc.open[m] \in 1..Len(rows) /\ acc.open[m] <= n
    <2>1. acc.open[m] \in 1..Len(rows)
      BY <1>1
    <2>2. Holds(acc, acc.open[m])
      BY DEF Holds
    <2> QED
      BY <2>1, <2>2 DEF Grouped
  <1> QED
    BY <1>2, <1>3

\* A row that joins a group leaves it good: in order, in reach of its envelope.
LEMMA JoinedGroup ==
  ASSUME NEW rows \in Seq(ScriptRow), NEW i \in 1..Len(rows), NEW open \in Seq(1..Len(rows)),
         \A m \in 1..Len(open) : open[m] < i /\ rows[open[m]].text = "part",
         open # <<>> => GroupIsGood(rows, open),
         open = <<>> \/ Joins(rows, open, i)
  PROVE  GroupIsGood(rows, Append(open, i))
  <1> DEFINE g == Append(open, i)
             L == Len(open)
  <1>1. /\ g \in Seq(1..Len(rows)) /\ Len(g) = L + 1 /\ L \in Nat /\ g[L + 1] = i
        /\ \A m \in 1..L : g[m] = open[m] /\ open[m] \in 1..Len(rows)
    OBVIOUS
  <1>2. L = 0 <=> open = <<>>
    BY EmptySeq
  <1> HIDE DEF g, L
  <1>3. g # <<>>
    BY <1>1, EmptySeq
  <1>4. ASSUME NEW m \in 1..Len(g), NEW k \in 1..Len(g), m < k PROVE g[m] < g[k]
    <2>1. m \in 1..L
      BY <1>1, <1>4
    <2>2. CASE k = L + 1
      BY <1>1, <2>1, <2>2 DEF L
    <2>3. CASE k \in 1..L
      BY <1>1, <1>2, <1>4, <2>1, <2>3 DEF GroupIsGood, L
    <2> QED
      BY <1>1, <2>2, <2>3
  <1>5. ASSUME Len(g) > 1 PROVE Envelope(rows, g).end - Envelope(rows, g).start <= MaxGroup
    <2>1. open # <<>>
      BY <1>1, <1>2, <1>5
    <2> QED
      BY <2>1 DEF Joins, g
  <1>6. ASSUME NEW n \in 1..Len(g) - 1
        PROVE  /\ rows[g[n]].text = "part"
               /\ \E m \in 1..n : rows[g[n + 1]].start <= rows[g[m]].end + MaxPause
    <2>1. n \in 1..L /\ open # <<>>
      BY <1>1, <1>2
    <2>2. rows[g[n]].text = "part"
      BY <1>1, <2>1 DEF L
    <2>3. CASE n = L
      <3>1. rows[i].start - Envelope(rows, open).end <= MaxPause
        BY <2>1 DEF Joins
      <3>2. PICK m \in 1..L : Envelope(rows, open).end = rows[open[m]].end
        BY <2>1, EnvelopeParts DEF L
      <3>3. rows[open[m]].end \in Nat /\ rows[i].start \in Nat
        <4>1. rows[open[m]] \in ScriptRow /\ rows[i] \in ScriptRow
          BY <1>1, <3>2
        <4> QED
          BY <4>1 DEF ScriptRow
      <3>4. rows[i].start <= rows[open[m]].end + MaxPause
        <4> DEFINE a == rows[i].start
                   b == rows[open[m]].end
        <4>1. a - b <= MaxPause /\ a \in Nat /\ b \in Nat /\ MaxPause \in Nat
          BY <3>1, <3>2, <3>3 DEF MaxPause
        <4> HIDE DEF a, b
        <4>2. a <= b + MaxPause
          BY <4>1
        <4> QED
          BY <4>2 DEF a, b
      <3>5. g[n + 1] = i /\ g[m] = open[m] /\ m \in 1..n
        BY <1>1, <2>3, <3>2
      <3> QED
        BY <2>2, <3>4, <3>5
    <2>4. CASE n # L
      <3>1. n \in 1..L - 1 /\ n + 1 \in 1..L
        BY <1>1, <2>1, <2>4
      <3>2. PICK m \in 1..n : rows[open[n + 1]].start <= rows[open[m]].end + MaxPause
        BY <2>1, <3>1 DEF GroupIsGood, L
      <3>3. m \in 1..L
        BY <1>1, <3>1, <3>2
      <3>4. g[n + 1] = open[n + 1] /\ g[m] = open[m]
        BY <1>1, <3>1, <3>3
      <3> QED
        BY <2>2, <3>2, <3>4
    <2> QED
      BY <2>3, <2>4
  <1> QED
    BY <1>1, <1>3, <1>4, <1>5, <1>6 DEF GroupIsGood, g

\* The same of the grouping as a whole.
LEMMA JoinedParts ==
  ASSUME NEW rows \in Seq(ScriptRow), NEW n \in Nat, n + 1 \in 1..Len(rows), rows[n + 1].text # "blank",
         NEW base, Grouped(rows, base, n), Unfinished(rows, base),
         base.open = <<>> \/ Joins(rows, base.open, n + 1)
  PROVE  Grouped(rows, [base EXCEPT !.open = Append(@, n + 1)], n + 1)
  <1> DEFINE i == n + 1
             new == [base EXCEPT !.open = Append(@, i)]
             L == Len(base.open)
  <1>1. base \in [done : Seq(Seq(1..Len(rows))), open : Seq(1..Len(rows))] /\ i \in 1..Len(rows) /\ i \in Nat
    BY DEF Grouped
  <1> HIDE DEF i
  <1>2. new.done = base.done /\ new.open = Append(base.open, i)
        /\ new \in [done : Seq(Seq(1..Len(rows))), open : Seq(1..Len(rows))]
    <2>1. base.open \in Seq(1..Len(rows))
      BY <1>1
    <2>2. Append(base.open, i) \in Seq(1..Len(rows))
      BY <1>1, <2>1
    <2> QED
      BY <1>1, <2>2
  <1>3. Len(new.open) = L + 1 /\ L \in Nat /\ new.open[L + 1] = i /\ \A m \in 1..L : new.open[m] = base.open[m]
    BY <1>1, <1>2
  <1> HIDE DEF new
  <1>4. /\ \A g \in 1..Len(base.done) : \A m \in 1..Len(base.done[g]) : base.done[g][m] \in 1..Len(rows) /\ base.done[g][m] < i
        /\ \A m \in 1..L : base.open[m] \in 1..Len(rows) /\ base.open[m] < i
    <2>1. \A m \in Int : m <= n => m < i
      BY DEF i
    <2>2. /\ \A g \in 1..Len(base.done) : \A m \in 1..Len(base.done[g]) :
               base.done[g][m] \in 1..Len(rows) /\ base.done[g][m] <= n
          /\ \A m \in 1..L : base.open[m] \in 1..Len(rows) /\ base.open[m] <= n
      BY HeldRows
    <2>3. \A m \in 1..Len(rows) : m \in Int
      OBVIOUS
    <2> HIDE DEF L
    <2> QED
      BY <2>1, <2>2, <2>3
  <1>5. GroupIsGood(rows, new.open)
    <2>1. \A m \in 1..L : base.open[m] < i /\ rows[base.open[m]].text = "part"
      BY <1>4 DEF Unfinished
    <2>2. base.open \in Seq(1..Len(rows))
      BY <1>1
    <2>3. base.open # <<>> => GroupIsGood(rows, base.open)
      BY DEF Grouped
    <2>4. base.open = <<>> \/ Joins(rows, base.open, i)
      BY DEF i
    <2> QED
      BY <1>1, <1>2, <2>1, <2>2, <2>3, <2>4, JoinedGroup
  <1>6. \A m \in 1..L + 1 : m \in 1..L \/ m = L + 1
    BY <1>3
  <1>7. ASSUME NEW k \in 1..Len(rows) PROVE Holds(new, k) <=> k <= i /\ rows[k].text # "blank"
    <2>1. Holds(base, k) <=> k <= n /\ rows[k].text # "blank"
      BY DEF Grouped
    <2>2. Holds(new, k) <=> Holds(base, k) \/ k = i
      <3>1. ASSUME Holds(new, k) PROVE Holds(base, k) \/ k = i
        BY <1>2, <1>3, <1>6, <3>1 DEF Holds
      <3>2. ASSUME Holds(base, k) PROVE Holds(new, k)
        <4>1. CASE \E m \in 1..L : base.open[m] = k
          <5>1. PICK m \in 1..L : base.open[m] = k
            BY <4>1
          <5>2. m \in 1..Len(new.open) /\ new.open[m] = k
            BY <1>3, <5>1
          <5> QED
            BY <5>2 DEF Holds
        <4>2. CASE ~ \E m \in 1..L : base.open[m] = k
          BY <1>2, <3>2, <4>2 DEF Holds
        <4> QED
          BY <4>1, <4>2
      <3>3. L + 1 \in 1..Len(new.open)
        BY <1>3
      <3>4. ASSUME k = i PROVE Holds(new, k)
        BY <1>3, <3>3, <3>4 DEF Holds
      <3> QED
        BY <3>1, <3>2, <3>4
    <2>3. k <= i <=> k <= n \/ k = i
      BY DEF i
    <2>4. rows[i].text # "blank"
      BY DEF i
    <2> QED
      BY <2>1, <2>2, <2>3, <2>4
  <1>8. \A g \in 1..Len(new.done) : Before(new.done[g], new.open)
    <2> SUFFICES ASSUME NEW g \in 1..Len(base.done), NEW m \in 1..Len(base.done[g]), NEW k \in 1..L + 1
                 PROVE  base.done[g][m] < new.open[k]
      BY <1>2, <1>3 DEF Before
    <2>1. CASE k = L + 1
      BY <1>3, <1>4, <2>1
    <2>2. CASE k \in 1..L
      BY <1>3, <2>2 DEF Grouped, Before
    <2> QED
      BY <1>6, <2>1, <2>2
  <1>9. /\ \A g \in 1..Len(new.done) : GroupIsGood(rows, new.done[g])
        /\ \A g, h \in 1..Len(new.done) : g < h => Before(new.done[g], new.done[h])
    BY <1>2 DEF Grouped
  <1>10. Grouped(rows, new, i)
    BY <1>2, <1>5, <1>7, <1>8, <1>9 DEF Grouped
  <1> QED
    BY <1>10 DEF new, i

\* Each row of the script enters the grouping.
LEMMA AddedRow ==
  ASSUME NEW rows \in Seq(ScriptRow), NEW n \in Nat, n + 1 \in 1..Len(rows),
         NEW acc, Grouped(rows, acc, n), Unfinished(rows, acc)
  PROVE  LET new == AddRow(rows, acc, n + 1) IN Grouped(rows, new, n + 1) /\ Unfinished(rows, new)
  <1> DEFINE i == n + 1
             base == IF acc.open = <<>> \/ Joins(rows, acc.open, i) THEN acc ELSE Flushed(acc)
             joined == [base EXCEPT !.open = Append(@, i)]
             new == AddRow(rows, acc, i)
  <1>1. rows[i] \in ScriptRow /\ rows[i].text \in {"blank", "part", "end"}
    <2>1. rows[i] \in ScriptRow
      OBVIOUS
    <2> QED
      BY <2>1 DEF ScriptRow
  <1>2. CASE rows[i].text = "blank"
    <2>1. new = acc
      BY <1>2 DEF AddRow
    <2>2. \A k \in 1..Len(rows) : k <= i /\ rows[k].text # "blank" <=> k <= n /\ rows[k].text # "blank"
      BY <1>2
    <2>3. Grouped(rows, acc, i)
      <3> HIDE DEF i
      <3> QED
        BY <2>2, Zenon DEF Grouped
    <2> HIDE DEF new
    <2> QED
      BY <2>1, <2>3 DEF new, i
  <1>3. CASE rows[i].text # "blank"
    <2>1. Grouped(rows, base, n) /\ Unfinished(rows, base) /\ (base.open = <<>> \/ Joins(rows, base.open, i))
      <3>1. CASE acc.open = <<>> \/ Joins(rows, acc.open, i)
        <4>1. base = acc
          BY <3>1
        <4> HIDE DEF base
        <4> QED
          BY <3>1, <4>1
      <3>2. CASE ~(acc.open = <<>> \/ Joins(rows, acc.open, i))
        <4>1. base = Flushed(acc)
          BY <3>2
        <4> HIDE DEF base
        <4> QED
          BY <4>1, FlushedParts
      <3> QED
        BY <3>1, <3>2
    <2>2. new = IF rows[i].text = "end" THEN Flushed(joined) ELSE joined
      BY <1>3 DEF AddRow
    <2> HIDE DEF base, new
    <2>3. Grouped(rows, joined, i)
      BY <1>3, <2>1, JoinedParts
    <2>4. i \in Nat
      OBVIOUS
    <2>5. CASE rows[i].text = "end"
      <3> HIDE DEF joined, i
      <3>1. new = Flushed(joined)
        BY <2>2, <2>5
      <3> QED
        BY <2>3, <2>4, <3>1, FlushedParts DEF new, i
    <2>6. CASE rows[i].text # "end"
      <3>1. rows[i].text = "part"
        BY <1>1, <1>3, <2>6
      <3>2. base.open \in Seq(1..Len(rows)) /\ base \in [done : Seq(Seq(1..Len(rows))), open : Seq(1..Len(rows))]
        BY <2>1 DEF Grouped
      <3>3. joined.open = Append(base.open, i)
        BY <3>2
      <3>4. ASSUME NEW m \in 1..Len(joined.open) PROVE rows[joined.open[m]].text = "part"
        <4> DEFINE L == Len(base.open)
        <4>1. L \in Nat /\ Len(joined.open) = L + 1 /\ joined.open[L + 1] = i /\ \A k \in 1..L : joined.open[k] = base.open[k]
          BY <3>2, <3>3
        <4>2. CASE m = L + 1
          BY <3>1, <4>1, <4>2
        <4>3. CASE m \in 1..L
          BY <2>1, <4>1, <4>3 DEF Unfinished
        <4> HIDE DEF joined, i, L
        <4> QED
          BY <4>1, <4>2, <4>3
      <3>5. new = joined
        BY <2>2, <2>6
      <3> HIDE DEF joined
      <3> QED
        BY <2>3, <3>4, <3>5 DEF Unfinished, new, i
    <2> QED
      BY <2>5, <2>6
  <1> QED
    BY <1>2, <1>3

Groupings(rows) == [done : Seq(Seq(1..Len(rows))), open : Seq(1..Len(rows))]

\* Types of the grouping.
LEMMA FlushedType ==
  ASSUME NEW rows, NEW acc \in Groupings(rows)
  PROVE  Flushed(acc) \in Groupings(rows)
  <1>1. acc.done \in Seq(Seq(1..Len(rows))) /\ acc.open \in Seq(1..Len(rows))
    BY DEF Groupings
  <1>2. Append(acc.done, acc.open) \in Seq(Seq(1..Len(rows))) /\ <<>> \in Seq(1..Len(rows))
    BY <1>1
  <1> QED
    BY <1>2 DEF Flushed, Groupings

\* Types of the grouping after a row.
LEMMA AddRowType ==
  ASSUME NEW rows, NEW acc \in Groupings(rows), NEW i \in 1..Len(rows)
  PROVE  AddRow(rows, acc, i) \in Groupings(rows)
  <1> DEFINE base == IF acc.open = <<>> \/ Joins(rows, acc.open, i) THEN acc ELSE Flushed(acc)
             joined == [base EXCEPT !.open = Append(@, i)]
  <1>1. base \in Groupings(rows)
    BY FlushedType
  <1> HIDE DEF base
  <1>2. joined \in Groupings(rows)
    <2>1. base.open \in Seq(1..Len(rows))
      BY <1>1 DEF Groupings
    <2>2. Append(base.open, i) \in Seq(1..Len(rows))
      BY <2>1
    <2> QED
      BY <1>1, <2>2 DEF Groupings
  <1> HIDE DEF joined
  <1>3. AddRow(rows, acc, i) = IF rows[i].text = "blank" THEN acc
                               ELSE IF rows[i].text = "end" THEN Flushed(joined) ELSE joined
    BY DEF AddRow, joined, base
  <1> QED
    BY <1>2, <1>3, FlushedType

GroupingIs(rows, after) ==
  /\ after[0] = [done |-> <<>>, open |-> <<>>]
  /\ \A n \in 1..Len(rows) : after[n] = AddRow(rows, after[n - 1], n)

\* The loop of _group_segments_for_dubbing obeys its recursion.
LEMMA GroupingDef ==
  ASSUME NEW rows, Len(rows) \in Nat
  PROVE  GroupingIs(rows, Grouping(rows))
  <1> DEFINE N == Len(rows)
             X == Groupings(rows)
             start == [done |-> <<>>, open |-> <<>>]
             step == [n \in 1..N |-> [acc \in X |-> AddRow(rows, acc, n)]]
             after == CHOOSE f : f = [n \in 0..N |-> IF n = 0 THEN start ELSE AddRow(rows, f[n - 1], n)]
  <1>1. start \in X
    BY DEF Groupings
  <1>2. step \in [1..N -> [X -> X]]
    BY AddRowType
  <1>3. PICK g \in [0..N -> X] : Recurs(g, N, start, step)
    <2> HIDE DEF step, start, X, N
    <2>1. N \in Nat
      BY DEF N
    <2> QED BY <1>1, <1>2, <2>1, Recursion
  <1>4. g = [n \in 0..N |-> IF n = 0 THEN start ELSE AddRow(rows, g[n - 1], n)]
    <2>1. ASSUME NEW n \in 0..N, n # 0 PROVE step[n][g[n - 1]] = AddRow(rows, g[n - 1], n)
      <3>1. n - 1 \in 0..N /\ n \in 1..N
        BY <2>1
      <3>2. g[n - 1] \in X
        BY <3>1
      <3> QED
        BY <3>1, <3>2
    <2> HIDE DEF step, start
    <2> QED BY <1>3, <2>1 DEF Recurs
  <1>5. after = [n \in 0..N |-> IF n = 0 THEN start ELSE AddRow(rows, after[n - 1], n)]
    <2> HIDE DEF start, N
    <2> QED BY <1>4, Zenon
  <1>6. Grouping(rows) = after
    BY Zenon DEF Grouping
  <1> HIDE DEF after
  <1>7. GroupingIs(rows, after)
    BY <1>5 DEF GroupingIs
  <1> QED
    BY <1>6, <1>7

\* After each row, the groups hold the rows so far.
LEMMA GroupingKeeps ==
  ASSUME NEW rows \in Seq(ScriptRow)
  PROVE  Grouped(rows, Grouping(rows)[Len(rows)], Len(rows)) /\ Unfinished(rows, Grouping(rows)[Len(rows)])
  <1> DEFINE N == Len(rows)
             after == Grouping(rows)
             S == {n \in Nat : n <= N => Grouped(rows, after[n], n) /\ Unfinished(rows, after[n])}
  <1>1. N \in Nat
    OBVIOUS
  <1>2. GroupingIs(rows, after)
    BY GroupingDef
  <1> HIDE DEF after
  <1>3. 0 \in S
    <2>1. after[0] = [done |-> <<>>, open |-> <<>>]
      BY <1>2 DEF GroupingIs
    <2>2. /\ after[0].done = <<>> /\ after[0].open = <<>> /\ Len(after[0].done) = 0 /\ Len(after[0].open) = 0
          /\ after[0] \in [done : Seq(Seq(1..Len(rows))), open : Seq(1..Len(rows))]
      BY <2>1
    <2>3. \A i \in 1..Len(rows) : ~Holds(after[0], i) /\ ~(i <= 0)
      <3>1. \A i \in 1..Len(rows) : ~(i <= 0)
        OBVIOUS
      <3>2. 1..Len(after[0].done) = {} /\ 1..Len(after[0].open) = {}
        BY <2>2
      <3> QED
        BY <3>1, <3>2 DEF Holds
    <2>4. Grouped(rows, after[0], 0) /\ Unfinished(rows, after[0])
      <3>1. 1..Len(after[0].done) = {} /\ 1..Len(after[0].open) = {}
        BY <2>2
      <3> QED
        BY <2>2, <2>3, <3>1 DEF Grouped, Unfinished
    <2> QED
      BY <2>4
  <1>4. ASSUME NEW n \in Nat, n \in S PROVE n + 1 \in S
    <2> SUFFICES ASSUME n + 1 <= N PROVE Grouped(rows, after[n + 1], n + 1) /\ Unfinished(rows, after[n + 1])
      OBVIOUS
    <2>1. n + 1 \in 1..N /\ n <= N /\ (n + 1) - 1 = n
      BY <1>1
    <2>2. after[n + 1] = AddRow(rows, after[n], n + 1)
      <3>1. after[n + 1] = AddRow(rows, after[(n + 1) - 1], n + 1)
        BY <1>2, <2>1 DEF GroupingIs
      <3> QED
        BY <2>1, <3>1
    <2>3. Grouped(rows, after[n], n) /\ Unfinished(rows, after[n])
      BY <1>4, <2>1
    <2> HIDE DEF S
    <2> QED
      BY <2>1, <2>2, <2>3, AddedRow
  <1>5. Nat \subseteq S
    <2> HIDE DEF S
    <2> QED
      BY <1>3, <1>4, EveryNumber, Zenon
  <1> QED
    BY <1>1, <1>5 DEF after

\* What the groups of a script are.
GroupsAre(rows, groups) ==
  /\ groups \in Seq(Seq(1..Len(rows)))
  /\ \A i \in 1..Len(rows) : rows[i].text # "blank" <=>
       \E g \in 1..Len(groups) : \E m \in 1..Len(groups[g]) : groups[g][m] = i
  /\ \A g \in 1..Len(groups) : GroupIsGood(rows, groups[g])
  /\ \A g, h \in 1..Len(groups) : g < h => Before(groups[g], groups[h])

\* The groups hold the whole script.
LEMMA GroupsParts ==
  ASSUME NEW rows \in Seq(ScriptRow)
  PROVE  GroupsAre(rows, Groups(rows))
  <1> DEFINE acc == Flushed(Grouping(rows)[Len(rows)])
  <1>1. Grouped(rows, acc, Len(rows)) /\ acc.open = <<>> /\ Len(rows) \in Nat
    BY GroupingKeeps, FlushedParts
  <1>2. Groups(rows) = acc.done
    BY DEF Groups
  <1> HIDE DEF acc
  <1>3. \A i \in 1..Len(rows) : i <= Len(rows)
    BY <1>1
  <1>4. 1..Len(acc.open) = {}
    BY <1>1
  <1>5. \A i \in 1..Len(rows) : Holds(acc, i) <=>
          \E g \in 1..Len(acc.done) : \E m \in 1..Len(acc.done[g]) : acc.done[g][m] = i
    BY <1>4 DEF Holds
  <1>6. acc.done \in Seq(Seq(1..Len(rows)))
    BY <1>1 DEF Grouped
  <1>7. GroupsAre(rows, acc.done)
    BY <1>1, <1>3, <1>5, <1>6 DEF Grouped, GroupsAre
  <1> QED
    BY <1>2, <1>7

\* Every row that is not blank is spoken once, and in order.
LEMMA ScriptKept ==
  ASSUME NEW rows \in Seq(ScriptRow)
  PROVE  ScriptIsKept(rows)
  <1> DEFINE groups == Groups(rows)
  <1>1. GroupsAre(rows, groups)
    BY GroupsParts
  <1> HIDE DEF groups
  <1>2. DOMAIN groups = 1..Len(groups) /\ Len(groups) \in Nat /\ DOMAIN rows = 1..Len(rows)
        /\ \A g \in 1..Len(groups) : groups[g] \in Seq(1..Len(rows))
    BY <1>1 DEF GroupsAre
  <1>3. \A g \in 1..Len(groups) : DOMAIN groups[g] = 1..Len(groups[g]) /\ Len(groups[g]) \in Nat
          /\ \A m \in 1..Len(groups[g]) : groups[g][m] \in 1..Len(rows)
    BY <1>2
  <1>4. \A g \in 1..Len(groups) : Range(groups[g]) = {groups[g][m] : m \in 1..Len(groups[g])}
    BY <1>3 DEF Range
  <1>5. UNION {Range(groups[g]) : g \in DOMAIN groups} = {i \in DOMAIN rows : rows[i].text # "blank"}
    <2>1. ASSUME NEW i, i \in UNION {Range(groups[g]) : g \in DOMAIN groups}
          PROVE  i \in {k \in DOMAIN rows : rows[k].text # "blank"}
      <3>1. PICK g \in 1..Len(groups) : i \in Range(groups[g])
        BY <1>2, <2>1
      <3>2. PICK m \in 1..Len(groups[g]) : i = groups[g][m]
        BY <1>4, <3>1
      <3>3. i \in 1..Len(rows)
        BY <1>3, <3>2
      <3>4. rows[i].text # "blank"
        BY <1>1, <3>2, <3>3 DEF GroupsAre
      <3> QED
        BY <1>2, <3>3, <3>4
    <2>2. ASSUME NEW i \in 1..Len(rows), rows[i].text # "blank"
          PROVE  i \in UNION {Range(groups[g]) : g \in DOMAIN groups}
      <3>1. PICK g \in 1..Len(groups) : \E m \in 1..Len(groups[g]) : groups[g][m] = i
        BY <1>1, <2>2 DEF GroupsAre
      <3>2. i \in Range(groups[g])
        BY <1>4, <3>1
      <3> QED
        BY <1>2, <3>1, <3>2
    <2> QED
      BY <1>2, <2>1, <2>2
  <1>6. ASSUME NEW g \in DOMAIN groups, NEW h \in DOMAIN groups,
               NEW m \in DOMAIN groups[g], NEW n \in DOMAIN groups[h], g < h \/ (g = h /\ m < n)
        PROVE  groups[g][m] < groups[h][n]
    <2>1. g \in 1..Len(groups) /\ h \in 1..Len(groups) /\ m \in 1..Len(groups[g]) /\ n \in 1..Len(groups[h])
      BY <1>2, <1>3
    <2>2. CASE g < h
      BY <1>1, <2>1, <2>2 DEF GroupsAre, Before
    <2>3. CASE g = h /\ m < n
      BY <1>1, <2>1, <2>3 DEF GroupsAre, GroupIsGood
    <2> QED
      BY <1>6, <2>2, <2>3
  <1>7. ASSUME NEW g \in DOMAIN groups
        PROVE  /\ Len(groups[g]) > 1 => Envelope(rows, groups[g]).end - Envelope(rows, groups[g]).start <= MaxGroup
               /\ \A n \in 1..Len(groups[g]) - 1 :
                    /\ rows[groups[g][n]].text = "part"
                    /\ \E m \in 1..n : rows[groups[g][n + 1]].start <= rows[groups[g][m]].end + MaxPause
    BY <1>1, <1>2 DEF GroupsAre, GroupIsGood
  <1> QED
    BY <1>5, <1>6, <1>7 DEF ScriptIsKept, groups

SpeakingIs(rows, group, after) ==
  after[0] = 0 /\ \A n \in 1..Len(group) : after[n] = after[n - 1] + rows[group[n]].speech

\* The speech of a group has a length.
LEMMA SpeechType ==
  ASSUME NEW rows \in Seq(ScriptRow), NEW group \in Seq(1..Len(rows))
  PROVE  Speaking(rows, group)[Len(group)] \in Nat
  <1> DEFINE N == Len(group)
             speech == [n \in 1..N |-> rows[group[n]].speech]
             step == [n \in 1..N |-> [x \in Nat |-> x + speech[n]]]
             after == CHOOSE f : f = [n \in 0..N |-> IF n = 0 THEN 0 ELSE f[n - 1] + rows[group[n]].speech]
             S == {n \in Nat : n <= N => after[n] \in Nat}
  <1>1. N \in Nat
    OBVIOUS
  <1>2. \A n \in 1..N : rows[group[n]].speech \in Nat
    <2>1. \A n \in 1..N : group[n] \in 1..Len(rows)
      OBVIOUS
    <2>2. \A i \in 1..Len(rows) : rows[i] \in ScriptRow
      OBVIOUS
    <2> QED
      BY <2>1, <2>2 DEF ScriptRow
  <1> HIDE DEF N
  <1>3. step \in [1..N -> [Nat -> Nat]]
    BY <1>2
  <1>4. PICK g \in [0..N -> Nat] : Recurs(g, N, 0, step)
    <2> HIDE DEF step
    <2> QED BY <1>1, <1>3, Recursion
  <1>5. g = [n \in 0..N |-> IF n = 0 THEN 0 ELSE g[n - 1] + rows[group[n]].speech]
    <2>1. ASSUME NEW n \in 0..N, n # 0 PROVE step[n][g[n - 1]] = g[n - 1] + rows[group[n]].speech
      <3>1. n - 1 \in 0..N /\ n \in 1..N
        BY <1>1, <2>1
      <3>2. g[n - 1] \in Nat
        BY <3>1
      <3> QED
        BY <3>1, <3>2
    <2> HIDE DEF step
    <2> QED BY <1>4, <2>1 DEF Recurs
  <1>6. after = [n \in 0..N |-> IF n = 0 THEN 0 ELSE after[n - 1] + rows[group[n]].speech]
    BY <1>5, Zenon
  <1>7. Speaking(rows, group) = after
    BY Zenon DEF Speaking, N
  <1> HIDE DEF after
  <1>8. Nat \subseteq S
    <2>1. 0 \in S
      BY <1>1, <1>6
    <2>2. ASSUME NEW n \in Nat, n \in S PROVE n + 1 \in S
      <3> SUFFICES ASSUME n + 1 <= N PROVE after[n + 1] \in Nat
        OBVIOUS
      <3>1. n + 1 \in 1..N /\ n + 1 \in 0..N /\ n + 1 # 0 /\ (n + 1) - 1 = n
        BY <1>1
      <3>2. after[n + 1] = after[n] + rows[group[n + 1]].speech
        BY <1>6, <3>1
      <3>3. after[n] \in Nat
        BY <1>1, <2>2, <3>1
      <3> QED
        BY <1>2, <3>1, <3>2, <3>3
    <2> HIDE DEF S
    <2> QED
      BY <2>1, <2>2, EveryNumber, Zenon
  <1>9. after[N] \in Nat
    BY <1>1, <1>8
  <1> QED
    BY <1>7, <1>9 DEF N

\* Utterances have times, and begin one after the other.
LEMMA UtterancesParts ==
  ASSUME NEW rows \in Seq(ScriptRow)
  PROVE  Utterances(rows) \in Seq(Spoken) /\ Apart(Utterances(rows))
  <1> DEFINE groups == Groups(rows)
             us == Utterances(rows)
             G == Len(groups)
  <1>1. GroupsAre(rows, groups)
    BY GroupsParts
  <1>2. us = [g \in DOMAIN groups |-> Utterance(rows, groups[g])]
    BY DEF Utterances
  <1> HIDE DEF groups, us
  <1>3. DOMAIN groups = 1..G /\ G \in Nat /\ \A g \in 1..G : groups[g] \in Seq(1..Len(rows)) /\ groups[g] # <<>>
    BY <1>1 DEF GroupsAre, GroupIsGood
  <1> HIDE DEF G
  <1>4. ASSUME NEW g \in 1..G
        PROVE  /\ Utterance(rows, groups[g]) \in Spoken
               /\ Utterance(rows, groups[g]).rows = {groups[g][m] : m \in 1..Len(groups[g])}
    <2> DEFINE group == groups[g]
    <2>1. group \in Seq(1..Len(rows)) /\ group # <<>>
      BY <1>3
    <2> HIDE DEF group
    <2>2. Range(group) = {group[m] : m \in 1..Len(group)} /\ Range(group) \subseteq Nat
      BY <2>1 DEF Range
    <2>3. Envelope(rows, group).start \in Nat /\ Envelope(rows, group).end \in Nat
      BY <2>1, EnvelopeParts
    <2>4. Speaking(rows, group)[Len(group)] \in Nat
      BY <2>1, SpeechType
    <2>5. Utterance(rows, group) \in Spoken /\ Utterance(rows, group).rows = Range(group)
      BY <2>2, <2>3, <2>4 DEF Utterance, Spoken
    <2> QED
      BY <2>2, <2>5 DEF group
  <1>5. us \in [1..G -> Spoken]
    BY <1>2, <1>3, <1>4
  <1>6. us \in Seq(Spoken) /\ Len(us) = G
    BY <1>3, <1>5, LenProperties
  <1>7. \A g \in 1..G : us[g].rows = {groups[g][m] : m \in 1..Len(groups[g])}
    BY <1>2, <1>3, <1>4
  <1>8. ASSUME NEW g \in 1..G PROVE us[g].rows # {}
    <2>1. groups[g] \in Seq(1..Len(rows)) /\ groups[g] # <<>>
      BY <1>3
    <2>2. Len(groups[g]) \in Nat /\ Len(groups[g]) # 0
      BY <2>1, EmptySeq
    <2>3. 1 \in 1..Len(groups[g])
      BY <2>2
    <2>4. groups[g][1] \in us[g].rows
      BY <1>7, <2>3
    <2> QED
      BY <2>4
  <1>9. ASSUME NEW g \in 1..G, NEW h \in 1..G, g < h PROVE us[g].rows \cap us[h].rows = {}
    <2>1. Before(groups[g], groups[h])
      BY <1>1, <1>9 DEF GroupsAre, G
    <2>2. \A m \in 1..Len(groups[g]), k \in 1..Len(groups[h]) : groups[g][m] # groups[h][k]
      <3> SUFFICES ASSUME NEW m \in 1..Len(groups[g]), NEW k \in 1..Len(groups[h]), groups[g][m] = groups[h][k]
                   PROVE FALSE
        OBVIOUS
      <3>1. groups[g] \in Seq(1..Len(rows)) /\ groups[h] \in Seq(1..Len(rows))
        BY <1>3
      <3>2. groups[g][m] \in Int /\ groups[h][k] \in Int
        BY <3>1
      <3>3. groups[g][m] < groups[h][k]
        BY <2>1 DEF Before
      <3> QED
        BY <3>2, <3>3
    <2> QED
      BY <1>7, <2>2
  <1>10. Apart(us)
    <2> SUFFICES ASSUME NEW g \in 1..G, NEW h \in 1..G, g # h PROVE us[g].rows \cap us[h].rows = {}
      BY <1>6, <1>8 DEF Apart
    <2>1. g < h \/ h < g
      OBVIOUS
    <2> QED
      BY <1>9, <2>1
  <1> QED
    BY <1>6, <1>10 DEF us

\* The caps that a provider's tempo leaves are at least the natural tempo.
LEMMA CapsParts == \A cap \in Caps : cap \in Nat /\ Unit <= cap
  <1> SUFFICES ASSUME NEW cap \in Caps PROVE cap \in Nat /\ Unit <= cap
    OBVIOUS
  <1>1. PICK p \in DOMAIN MaxTempo : \E speed \in {Unit, MaxTempo[p]} : cap = TempoCap(p, speed)
    BY DEF Caps
  <1>2. PICK speed \in {Unit, MaxTempo[p]} : cap = (MaxTempo[p] * Unit) \div speed
    BY <1>1 DEF TempoCap
  <1>3. MaxTempo[p] \in {512, 448, 400}
    BY DEF MaxTempo
  <1> QED
    BY <1>2, <1>3 DEF Unit

\* Any script is spoken whole, in order and in time, or refused for a reason.
THEOREM AnyScriptKeepsTime ==
  ASSUME NEW rows \in Seq(ScriptRow), NEW total \in Nat
  PROVE  SpeechKeepsTime(rows, total)
  <1> DEFINE us == Utterances(rows)
  <1>1. us \in Seq(Spoken) /\ Apart(us)
    BY UtterancesParts
  <1>2. ScriptIsKept(rows)
    BY ScriptKept
  <1> HIDE DEF us
  <1>3. ASSUME NEW cap \in Caps
        PROVE  IF Timeline(us, cap, total).fits THEN AcceptedIsInTime(us, Timeline(us, cap, total), cap, total)
                                                ELSE RefusalIsRight(us, Timeline(us, cap, total), cap, total)
    <2>1. cap \in Nat /\ Unit <= cap
      BY CapsParts
    <2>2. CASE Able(us, cap, total) # {}
      <3>1. Timeline(us, cap, total).fits /\ AcceptedIsInTime(us, Timeline(us, cap, total), cap, total)
        BY <1>1, <2>1, <2>2, Accepted
      <3> QED
        BY <3>1, Zenon
    <2>3. CASE Able(us, cap, total) = {}
      <3>1. ~Timeline(us, cap, total).fits /\ RefusalIsRight(us, Timeline(us, cap, total), cap, total)
        BY <1>1, <2>1, <2>3, RefusedRightly
      <3> QED
        BY <3>1, Zenon
    <2> QED
      BY <2>2, <2>3
  <1> QED
    BY <1>2, <1>3, Zenon DEF SpeechKeepsTime, us

\* A script is made of rows.
IsScript == of = "script" => input \in Seq(ScriptRow)

\* The inputs that the run makes are scripts.
LEMMA ScriptsAreRows == Inputs => []IsScript
  <1>1. FirstInput => IsScript
    BY DEF FirstInput, IsScript
  <1>2. IsScript /\ [NextInput]_<<of, input>> => IsScript'
    <2> SUFFICES ASSUME IsScript, [NextInput]_<<of, input>> PROVE IsScript'
      OBVIOUS
    <2>1. CASE AddLine
      <3>1. of = "script" /\ of' = of
        BY <2>1, Zenon DEF AddLine, Extend
      <3>2. PICK times \in ScriptTimes, text \in {"blank", "part", "end"}, speech \in {40, 124, 420} :
              /\ \A n \in DOMAIN input : input[n].start <= times[1]
              /\ text = "blank" => speech = 40
              /\ Extend([start |-> times[1], end |-> times[2], text |-> text, speech |-> speech])
        BY <2>1, Zenon DEF AddLine
      <3>3. times[1] \in Nat /\ times[2] \in Nat
        BY DEF ScriptTimes
      <3>4. [start |-> times[1], end |-> times[2], text |-> text, speech |-> speech] \in ScriptRow
        BY <3>3 DEF ScriptRow
      <3> QED
        BY <3>1, <3>2, <3>4, AppendProperties DEF IsScript, Extend
    <2>2. CASE AddSubtitle
      <3>1. of = "repair" /\ of' = of
        BY <2>2, Zenon DEF AddSubtitle, Extend
      <3> QED
        BY <3>1 DEF IsScript
    <2>3. CASE AddWord
      <3>1. of = "speech" /\ of' = of
        BY <2>3, Zenon DEF AddWord, Extend
      <3> QED
        BY <3>1 DEF IsScript
    <2>4. CASE AddEntry
      <3>1. of = "settings" /\ of' = of
        BY <2>4, Zenon DEF AddEntry, Extend
      <3> QED
        BY <3>1 DEF IsScript
    <2>5. CASE AddEncoder
      <3>1. of = "video" /\ of' = of
        BY <2>5 DEF AddEncoder, Extend
      <3> QED
        BY <3>1 DEF IsScript
    <2>6. CASE UNCHANGED <<of, input>>
      BY <2>6 DEF IsScript
    <2> QED
      BY <2>1, <2>2, <2>3, <2>4, <2>5, <2>6 DEF NextInput
  <1> QED
    BY <1>1, <1>2, PTL DEF Inputs

\* What the run about the algorithms checks up to a length, for any length:
\* _group_segments_for_dubbing and _build_timeline speak each script whole, in
\* order and in time, or refuse it for a reason that the user can act on.
THEOREM ScriptsKeepTimeHolds == Inputs => []ScriptsKeepTime
  <1>1. IsScript => ScriptsKeepTime
    <2> SUFFICES ASSUME IsScript, of = "script", NEW total \in {700, 1310} PROVE SpeechKeepsTime(input, total)
      BY DEF ScriptsKeepTime
    <2> QED
      BY AnyScriptKeepsTime DEF IsScript
  <1> QED
    BY <1>1, ScriptsAreRows, PTL

-----------------------------------------------------------------------------
(* The chunks of a recording (chunking_service.py).                        *)

\* The lesser of two numbers.
LEMMA LesserOf ==
  ASSUME NEW a \in Int, NEW b \in Int
  PROVE  Speech!Min({a, b}) = IF a <= b THEN a ELSE b
  <1> DEFINE s == {a, b}
             m == IF a <= b THEN a ELSE b
  <1>1. m \in s /\ \A y \in s : m <= y
    OBVIOUS
  <1>2. \A x \in s : (\A y \in s : x <= y) => x = m
    OBVIOUS
  <1>3. Speech!Min(s) = CHOOSE x \in s : \A y \in s : x <= y
    BY DEF Speech!Min
  <1> HIDE DEF s, m
  <1>4. Speech!Min(s) = m
    BY <1>1, <1>2, <1>3
  <1> QED
    BY <1>4 DEF s, m

\* A quotient and its remainder.
LEMMA Quotient ==
  ASSUME NEW a \in Int, NEW b \in Nat \ {0}
  PROVE  /\ a \div b \in Int
         /\ (a \div b) * b <= a /\ a < (a \div b) * b + b
         /\ a >= 0 => a \div b >= 0
  OBVIOUS

\* Of two numbers, the greater one has the greater quotient.
LEMMA QuotientGrows ==
  ASSUME NEW a \in Int, NEW c \in Int, NEW b \in Nat \ {0}, a <= c
  PROVE  a \div b <= c \div b
  <1> DEFINE p == a \div b
             q == c \div b
  <1>1. p \in Int /\ q \in Int /\ p * b <= a /\ c < q * b + b
    BY Quotient
  <1> HIDE DEF p, q
  <1>2. (q + 1) * b = q * b + b /\ (q + 1) * b \in Int /\ p * b \in Int /\ q * b \in Int
    BY <1>1, ProductAdds, ProductInt
  <1>3. ~(q + 1 <= p)
    <2>1. ASSUME q + 1 <= p PROVE (q + 1) * b <= p * b
      BY <1>1, <2>1, ProductGrows
    <2> DEFINE x == p * b
               y == q * b
               z == (q + 1) * b
    <2>2. x \in Int /\ y \in Int /\ z = y + b /\ x <= a /\ c < y + b /\ (q + 1 <= p => z <= x)
      BY <1>1, <1>2, <2>1
    <2> HIDE DEF x, y, z
    <2> QED
      BY <2>2
  <1>4. p <= q
    BY <1>1, <1>3
  <1> QED
    BY <1>4 DEF p, q

\* The chunks that split_audio makes of any recording cover it, and a sound that
\* is no longer than the overlap is whole in one of them.
THEOREM AnyRecordingIsCovered ==
  ASSUME NEW duration \in Nat, NEW chunk \in Nat, NEW overlap \in Nat, overlap < chunk
  PROVE  Speech!ChunksCover(duration, chunk, overlap)
  <1> DEFINE step == chunk - overlap
             count == ((duration - 1) \div step) + 1
             First(n) == (n - 1) * step
             Length(n) == Speech!Min({chunk, duration - First(n)})
             chunks == [n \in 1..count |-> [start |-> First(n), end |-> First(n) + Length(n)]]
  <1>1. Speech!Chunks(duration, chunk, overlap) = chunks
    BY DEF Speech!Chunks
  <1>2. step \in Nat \ {0}
    OBVIOUS
  <1> HIDE DEF step
  <1>3. count \in Int
    BY <1>2, Quotient
  <1> HIDE DEF count
  <1>4. ASSUME NEW n \in 1..count
        PROVE  First(n) \in Int /\ Length(n) = IF chunk <= duration - First(n) THEN chunk ELSE duration - First(n)
    <2>1. First(n) \in Int
      BY <1>2, <1>3, ProductInt
    <2> HIDE DEF First
    <2>2. duration - First(n) \in Int
      BY <2>1
    <2> QED
      BY <2>1, <2>2, LesserOf
  <1>5. DOMAIN chunks = 1..count /\ \A n \in 1..count : chunks[n].start = First(n) /\ chunks[n].end = First(n) + Length(n)
    OBVIOUS
  <1> HIDE DEF Length, chunks
  <1>6. ASSUME NEW n \in DOMAIN chunks PROVE chunks[n].end - chunks[n].start <= chunk
    <2> HIDE DEF First
    <2> QED
      BY <1>4, <1>5
  <1>7. ASSUME NEW s \in 0..duration - 1, NEW e \in {s + 1, Speech!Min({s + overlap, duration})}
        PROVE  \E n \in DOMAIN chunks : chunks[n].start <= s /\ e <= chunks[n].end
    <2> DEFINE q == s \div step
               f == q * step
    <2>1. q \in Int /\ f <= s /\ s < f + step /\ q >= 0 /\ f \in Int
      BY <1>2, Quotient, ProductInt
    <2>2. q <= (duration - 1) \div step
      BY <1>2, QuotientGrows
    <2> HIDE DEF q
    <2>3. (duration - 1) \div step \in Int
      BY <1>2, Quotient
    <2>4. q + 1 \in 1..count
      BY <2>1, <2>2, <2>3, <1>3 DEF count
    <2>5. First(q + 1) = f
      BY <2>1
    <2> HIDE DEF f, First
    <2>6. Length(q + 1) = IF chunk <= duration - f THEN chunk ELSE duration - f
      BY <1>4, <2>4, <2>5
    <2>7. Speech!Min({s + overlap, duration}) = IF s + overlap <= duration THEN s + overlap ELSE duration
      BY LesserOf
    <2>8. e \in Int /\ e <= duration /\ (e <= s + 1 \/ e <= s + overlap)
      BY <2>7
    <2>9. e <= f + Length(q + 1)
      BY <1>2, <2>1, <2>6, <2>8 DEF step
    <2> QED
      BY <1>5, <2>1, <2>4, <2>5, <2>9
  <1> QED
    BY <1>1, <1>6, <1>7, Zenon DEF Speech!ChunksCover

-----------------------------------------------------------------------------
(* The settings (core/config.py).                                          *)

\* The values a configuration may have: those of the file and of the updates,
\* which an exception is not, and those the program stores.
Values(V) == V \cup {"a", "b", "none", "empty"}
Entry(K, V) == [key : K, value : V]

DroppingIs(entries, keys, d) ==
  d = [n \in 0..Len(entries) |->
         IF n = 0 THEN <<>>
         ELSE IF entries[n].key \in keys THEN d[n - 1] ELSE Append(d[n - 1], entries[n])]

\* The entries that are left obey the recursion.
LEMMA DroppingDef ==
  ASSUME NEW E, NEW entries \in Seq(E), NEW keys
  PROVE  DroppingIs(entries, keys, Config!Dropping(entries, keys))
  <1> DEFINE N == Len(entries)
             X == Seq(E)
             Step(n, s) == IF entries[n].key \in keys THEN s ELSE Append(s, entries[n])
             step == [n \in 1..N |-> [s \in X |-> Step(n, s)]]
             after == CHOOSE f : f = [n \in 0..N |->
                        IF n = 0 THEN <<>>
                        ELSE IF entries[n].key \in keys THEN f[n - 1] ELSE Append(f[n - 1], entries[n])]
  <1>1. <<>> \in X /\ N \in Nat /\ \A n \in 1..N : entries[n] \in E
    OBVIOUS
  <1>2. \A n \in 1..N, s \in X : Step(n, s) \in X
    BY <1>1, AppendProperties
  <1>3. step \in [1..N -> [X -> X]]
    <2> HIDE DEF Step, X, N
    <2> QED
      BY <1>2
  <1>4. PICK g \in [0..N -> X] : Recurs(g, N, <<>>, step)
    <2> HIDE DEF step, X, N
    <2> QED BY <1>1, <1>3, Recursion
  <1>5. g = [n \in 0..N |-> IF n = 0 THEN <<>> ELSE Step(n, g[n - 1])]
    <2>1. ASSUME NEW n \in 0..N, n # 0 PROVE step[n][g[n - 1]] = Step(n, g[n - 1])
      <3>1. n - 1 \in 0..N /\ n \in 1..N
        BY <2>1
      <3>2. g[n - 1] \in X
        BY <3>1
      <3> HIDE DEF Step, X
      <3> QED
        BY <3>1, <3>2
    <2> HIDE DEF step
    <2> QED BY <1>4, <2>1 DEF Recurs
  <1>6. after = [n \in 0..N |->
                   IF n = 0 THEN <<>>
                   ELSE IF entries[n].key \in keys THEN after[n - 1] ELSE Append(after[n - 1], entries[n])]
    <2> HIDE DEF N
    <2> QED BY <1>5, Zenon DEF Step
  <1>7. Config!Dropping(entries, keys) = after
    BY Zenon DEF Config!Dropping
  <1> HIDE DEF after
  <1>8. DroppingIs(entries, keys, after)
    BY <1>6 DEF DroppingIs
  <1> QED
    BY <1>7, <1>8

\* The first entries of a sequence, up to the m-th.
AreFirst(s, entries, m) == Len(s) = m /\ \A k \in 1..m : s[k] = entries[k]

\* What is left when the keys are those of the entries after the m-th.
LEMMA WithoutTheRest ==
  ASSUME NEW E, NEW entries \in Seq(E), NEW keys, NEW m \in 0..Len(entries),
         \A k \in 1..m : entries[k].key \notin keys,
         \A k \in m + 1..Len(entries) : entries[k].key \in keys
  PROVE  Config!Without(entries, keys) \in Seq(E) /\ AreFirst(Config!Without(entries, keys), entries, m)
  <1> DEFINE d == Config!Dropping(entries, keys)
             N == Len(entries)
             Upto(n) == IF n <= m THEN n ELSE m
             S == {n \in Nat : n <= N => d[n] \in Seq(E) /\ AreFirst(d[n], entries, Upto(n))}
  <1>1. N \in Nat /\ \A n \in 1..N : entries[n] \in E
    OBVIOUS
  <1>2. DroppingIs(entries, keys, d)
    BY DroppingDef
  <1> HIDE DEF d
  <1>3. 0 \in S
    <2>1. d[0] = <<>>
      BY <1>2 DEF DroppingIs
    <2>2. Upto(0) = 0 /\ 1..0 = {}
      OBVIOUS
    <2>3. d[0] \in Seq(E) /\ Len(d[0]) = 0
      BY <2>1
    <2>4. d[0] \in Seq(E) /\ AreFirst(d[0], entries, Upto(0))
      BY <2>2, <2>3 DEF AreFirst
    <2> QED
      BY <2>4
  <1>4. ASSUME NEW n \in Nat, n \in S PROVE n + 1 \in S
    <2> SUFFICES ASSUME n + 1 <= N PROVE d[n + 1] \in Seq(E) /\ AreFirst(d[n + 1], entries, Upto(n + 1))
      OBVIOUS
    <2>1. n + 1 \in 1..N /\ n + 1 \in 0..N /\ n + 1 # 0 /\ (n + 1) - 1 = n /\ n <= N
      BY <1>1
    <2>2. d[n] \in Seq(E) /\ AreFirst(d[n], entries, Upto(n))
      BY <1>4, <2>1
    <2>3. d[n + 1] = IF entries[n + 1].key \in keys THEN d[n] ELSE Append(d[n], entries[n + 1])
      <3> HIDE DEF N
      <3> QED
        BY <1>2, <2>1 DEF DroppingIs, N
    <2> HIDE DEF S
    <2>4. CASE n + 1 <= m
      <3>1. d[n + 1] = Append(d[n], entries[n + 1])
        BY <2>1, <2>3, <2>4
      <3>2. Len(d[n]) = n /\ \A k \in 1..n : d[n][k] = entries[k]
        BY <2>2, <2>4 DEF AreFirst
      <3>3. d[n + 1] \in Seq(E) /\ Len(d[n + 1]) = n + 1 /\ d[n + 1][n + 1] = entries[n + 1]
            /\ \A k \in 1..n : d[n + 1][k] = d[n][k]
        BY <1>1, <2>1, <2>2, <3>1, <3>2, AppendProperties
      <3> QED
        BY <2>4, <3>2, <3>3 DEF AreFirst
    <2>5. CASE n + 1 > m
      <3>1. d[n + 1] = d[n]
        BY <2>1, <2>3, <2>5
      <3> QED
        BY <2>2, <2>5, <3>1
    <2> QED
      BY <2>4, <2>5
  <1>5. Nat \subseteq S
    <2> HIDE DEF S
    <2> QED
      BY <1>3, <1>4, EveryNumber, Zenon
  <1>6. N \in S /\ Upto(N) = m
    BY <1>1, <1>5
  <1>7. d[N] \in Seq(E) /\ AreFirst(d[N], entries, m)
    BY <1>1, <1>6
  <1> QED
    BY <1>7 DEF Config!Without, d, N

\* Nothing of the dropped keys stays, and nothing is added.
LEMMA WithoutParts ==
  ASSUME NEW E, NEW entries \in Seq(E), NEW keys
  PROVE  /\ Config!Without(entries, keys) \in Seq(E)
         /\ \A k \in 1..Len(Config!Without(entries, keys)) :
              /\ Config!Without(entries, keys)[k].key \notin keys
              /\ \E n \in 1..Len(entries) : entries[n] = Config!Without(entries, keys)[k]
  <1> DEFINE d == Config!Dropping(entries, keys)
             N == Len(entries)
             Rest(s) == s \in Seq(E) /\ \A k \in 1..Len(s) : /\ s[k].key \notin keys
                                                             /\ \E n \in 1..N : entries[n] = s[k]
             S == {n \in Nat : n <= N => Rest(d[n])}
  <1>1. N \in Nat /\ \A n \in 1..N : entries[n] \in E
    OBVIOUS
  <1>2. DroppingIs(entries, keys, d)
    BY DroppingDef
  <1> HIDE DEF d
  <1>3. 0 \in S
    <2>1. d[0] = <<>>
      BY <1>2 DEF DroppingIs
    <2>2. Rest(<<>>)
      OBVIOUS
    <2> HIDE DEF Rest
    <2> QED
      BY <2>1, <2>2
  <1>4. ASSUME NEW n \in Nat, n \in S PROVE n + 1 \in S
    <2> SUFFICES ASSUME n + 1 <= N PROVE Rest(d[n + 1])
      OBVIOUS
    <2>1. n + 1 \in 1..N /\ n + 1 \in 0..N /\ n + 1 # 0 /\ (n + 1) - 1 = n /\ n <= N
      BY <1>1
    <2>2. Rest(d[n])
      <3> HIDE DEF Rest
      <3> QED BY <1>4, <2>1
    <2>3. d[n + 1] = IF entries[n + 1].key \in keys THEN d[n] ELSE Append(d[n], entries[n + 1])
      <3> HIDE DEF N
      <3> QED
        BY <1>2, <2>1 DEF DroppingIs, N
    <2> HIDE DEF S
    <2>4. CASE entries[n + 1].key \notin keys
      <3> DEFINE e == entries[n + 1]
                 s == d[n]
                 L == Len(s)
                 t == Append(s, e)
      <3>1. e \in E /\ s \in Seq(E) /\ e.key \notin keys /\ L \in Nat
        BY <1>1, <2>1, <2>2, <2>4
      <3>2. t \in Seq(E) /\ Len(t) = L + 1 /\ t[L + 1] = e /\ \A k \in 1..L : t[k] = s[k]
        <4> HIDE DEF e, s
        <4> QED BY <3>1, AppendProperties
      <3>3. \A k \in 1..L : s[k].key \notin keys /\ \E i \in 1..N : entries[i] = s[k]
        BY <2>2
      <3>4. \E i \in 1..N : entries[i] = e
        BY <2>1
      <3> HIDE DEF e, s, t, L
      <3>5. ASSUME NEW k \in 1..L + 1 PROVE t[k].key \notin keys /\ \E i \in 1..N : entries[i] = t[k]
        <4>1. CASE k = L + 1
          BY <3>1, <3>2, <3>4, <4>1
        <4>2. CASE k \in 1..L
          BY <3>2, <3>3, <4>2
        <4> QED
          BY <3>1, <4>1, <4>2
      <3>6. Rest(t)
        BY <3>2, <3>5
      <3> HIDE DEF Rest
      <3> QED
        BY <2>3, <2>4, <3>6 DEF t, e, s
    <2>5. CASE entries[n + 1].key \in keys
      BY <2>2, <2>3, <2>5
    <2> QED
      BY <2>4, <2>5
  <1>5. Nat \subseteq S
    <2> HIDE DEF S
    <2> QED
      BY <1>3, <1>4, EveryNumber, Zenon
  <1>6. Rest(d[N])
    <2> HIDE DEF Rest
    <2> QED BY <1>1, <1>5
  <1> QED
    BY <1>6 DEF Config!Without, d, N

\* What may be stored under a key of the settings.
Storable(key, value) ==
  /\ value # Config!Fails
  /\ key \in {"provider", "seconds", "batch"} => value \in {"a", "b"}
  /\ key = "secret" => value # "mask"

Stored(V) == {known \in [Config!Known -> Values(V)] : \A key \in Config!Known : Storable(key, known[key])}
Acc(V, E) == [known : Stored(V), unknown : Seq(E), stopped : BOOLEAN]

\* The keys.
LEMMA KeysDef == /\ Config!Known = {"provider", "secret", "path", "seconds", "batch"}
                 /\ Config!Editable = {"provider", "secret", "path", "seconds"}
  BY DEF Config!Known, Config!Editable

\* A value that is read can be stored, and is read back as it is, or as none for
\* an empty text.
LEMMA ReadParts ==
  ASSUME NEW V, Config!Fails \notin V, NEW key \in Config!Known, NEW value \in Values(V),
         Config!Read(key, value) # Config!Fails
  PROVE  Config!Read(key, value) \in Values(V) /\ Storable(key, Config!Read(key, value))
  BY KeysDef DEF Config!Read, Config!Normal, Config!Fails, Values, Storable

\* A value that is accepted from the page can be stored.
LEMMA NormalParts ==
  ASSUME NEW V, Config!Fails \notin V, NEW key \in Config!Editable, NEW value \in Values(V),
         Config!Normal(key, value) # Config!Fails, ~(key = "secret" /\ value = "mask")
  PROVE  Config!Normal(key, value) \in Values(V) /\ Storable(key, Config!Normal(key, value))
  BY KeysDef DEF Config!Normal, Config!Fails, Values, Storable

\* A value that was stored can be read.
LEMMA ReadAgain ==
  ASSUME NEW V, Config!Fails \notin V, NEW key \in Config!Known, NEW value \in Values(V), Storable(key, value)
  PROVE  Config!Read(key, value) # Config!Fails /\ Config!SameValue(Config!Read(key, value), value)
  BY KeysDef DEF Config!Read, Config!Normal, Config!Fails, Values, Storable, Config!SameValue

\* So can the defaults.
LEMMA DefaultIsStored ==
  ASSUME NEW V PROVE Config!Default \in Stored(V)
  BY KeysDef DEF Config!Default, Config!Fails, Stored, Values, Storable

\* What reading one entry does to the settings read so far.
LEMMA ReadEntryParts ==
  ASSUME NEW V, NEW K, Config!Fails \notin V, NEW e \in Entry(K, V), NEW acc \in Acc(V, Entry(K, V))
  PROVE  /\ Config!ReadEntry(acc, e) \in Acc(V, Entry(K, V))
         /\ acc.stopped => Config!ReadEntry(acc, e) = acc
         /\ ~acc.stopped /\ e.key \notin Config!Known =>
              Config!ReadEntry(acc, e) = [known |-> acc.known, unknown |-> Append(acc.unknown, e), stopped |-> FALSE]
         /\ ~acc.stopped /\ e.key \in Config!Known /\ Config!Read(e.key, e.value) # Config!Fails =>
              Config!ReadEntry(acc, e) =
                [known |-> [acc.known EXCEPT ![e.key] = Config!Read(e.key, e.value)], unknown |-> acc.unknown, stopped |-> FALSE]
         /\ ~acc.stopped /\ e.key \in Config!Known /\ Config!Read(e.key, e.value) = Config!Fails =>
              Config!ReadEntry(acc, e) = [known |-> acc.known, unknown |-> acc.unknown, stopped |-> TRUE]
  <1> DEFINE r == Config!ReadEntry(acc, e)
             v == Config!Read(e.key, e.value)
             E == Entry(K, V)
  <1>1. /\ acc.known \in Stored(V) /\ acc.unknown \in Seq(E) /\ acc.stopped \in BOOLEAN
        /\ acc = [known |-> acc.known, unknown |-> acc.unknown, stopped |-> acc.stopped]
        /\ e.value \in Values(V)
    BY DEF Acc, Entry, Values
  <1>2. CASE acc.stopped
    BY <1>2 DEF Config!ReadEntry
  <1>3. CASE ~acc.stopped /\ e.key \notin Config!Known
    <2>1. r = [known |-> acc.known, unknown |-> Append(acc.unknown, e), stopped |-> FALSE]
      BY <1>1, <1>3 DEF Config!ReadEntry
    <2>2. Append(acc.unknown, e) \in Seq(E)
      <3> HIDE DEF E
      <3>1. e \in E
        BY DEF E
      <3> QED
        BY <1>1, <3>1, AppendProperties
    <2> QED
      BY <1>1, <1>3, <2>1, <2>2 DEF Acc
  <1>4. CASE ~acc.stopped /\ e.key \in Config!Known /\ v # Config!Fails
    <2> DEFINE new == [acc.known EXCEPT ![e.key] = v]
    <2>1. r = [known |-> new, unknown |-> acc.unknown, stopped |-> FALSE]
      BY <1>1, <1>4 DEF Config!ReadEntry
    <2>2. v \in Values(V) /\ Storable(e.key, v)
      BY <1>1, <1>4, ReadParts
    <2>3. new \in Stored(V)
      <3> HIDE DEF v
      <3>1. /\ acc.known \in [Config!Known -> Values(V)]
            /\ \A key \in Config!Known : Storable(key, acc.known[key])
        BY <1>1 DEF Stored
      <3>2. new \in [Config!Known -> Values(V)] /\ \A key \in Config!Known : new[key] = IF key = e.key THEN v ELSE acc.known[key]
        BY <2>2, <3>1
      <3> QED
        BY <1>4, <2>2, <3>1, <3>2 DEF Stored
    <2> QED
      BY <1>1, <1>4, <2>1, <2>3 DEF Acc
  <1>5. CASE ~acc.stopped /\ e.key \in Config!Known /\ v = Config!Fails
    <2>1. r = [known |-> acc.known, unknown |-> acc.unknown, stopped |-> TRUE]
      BY <1>1, <1>5 DEF Config!ReadEntry
    <2> QED
      BY <1>1, <1>5, <2>1 DEF Acc
  <1> QED
    BY <1>2, <1>3, <1>4, <1>5

Nothing == [known |-> Config!Default, unknown |-> <<>>, stopped |-> FALSE]
ReadingIs(entries, r) ==
  r = [n \in 0..Len(entries) |-> IF n = 0 THEN Nothing ELSE Config!ReadEntry(r[n - 1], entries[n])]

\* Before the first entry there are the defaults.
LEMMA NothingIsRead == ASSUME NEW V, NEW E PROVE Nothing \in Acc(V, E)
  BY DefaultIsStored DEF Nothing, Acc

\* The loop over the entries obeys its recursion.
LEMMA ReadingDef ==
  ASSUME NEW V, NEW K, Config!Fails \notin V, NEW entries \in Seq(Entry(K, V))
  PROVE  /\ ReadingIs(entries, Config!Reading(entries))
         /\ \A n \in 0..Len(entries) : Config!Reading(entries)[n] \in Acc(V, Entry(K, V))
  <1> DEFINE N == Len(entries)
             E == Entry(K, V)
             X == Acc(V, E)
             step == [n \in 1..N |-> [acc \in X |-> Config!ReadEntry(acc, entries[n])]]
             after == CHOOSE f : f = [n \in 0..N |->
                        IF n = 0 THEN [known |-> Config!Default, unknown |-> <<>>, stopped |-> FALSE]
                                 ELSE Config!ReadEntry(f[n - 1], entries[n])]
  <1>1. N \in Nat /\ \A n \in 1..N : entries[n] \in E
    <2> HIDE DEF E
    <2> QED BY DEF E
  <1>2. Nothing \in X
    BY NothingIsRead
  <1>3. step \in [1..N -> [X -> X]]
    <2>1. \A n \in 1..N, acc \in X : Config!ReadEntry(acc, entries[n]) \in X
      BY <1>1, ReadEntryParts
    <2> HIDE DEF X
    <2> QED
      BY <2>1
  <1>4. PICK g \in [0..N -> X] : Recurs(g, N, Nothing, step)
    <2> HIDE DEF step, X, N
    <2> QED BY <1>1, <1>2, <1>3, Recursion
  <1>5. g = [n \in 0..N |-> IF n = 0 THEN Nothing ELSE Config!ReadEntry(g[n - 1], entries[n])]
    <2>1. ASSUME NEW n \in 0..N, n # 0 PROVE step[n][g[n - 1]] = Config!ReadEntry(g[n - 1], entries[n])
      <3>1. n - 1 \in 0..N /\ n \in 1..N
        BY <2>1
      <3>2. g[n - 1] \in X
        BY <3>1
      <3> HIDE DEF X
      <3> QED
        BY <3>1, <3>2
    <2> HIDE DEF step
    <2> QED BY <1>4, <2>1 DEF Recurs
  <1>6. after = [n \in 0..N |-> IF n = 0 THEN Nothing ELSE Config!ReadEntry(after[n - 1], entries[n])]
    <2> HIDE DEF N
    <2> QED BY <1>5, Zenon DEF Nothing
  <1>7. Config!Reading(entries) = after
    BY Zenon DEF Config!Reading
  <1> HIDE DEF after
  <1>8. ReadingIs(entries, after)
    BY <1>6 DEF ReadingIs
  <1> DEFINE S == {n \in Nat : n <= N => after[n] \in X}
  <1>9. after[0] = Nothing /\ \A n \in 1..N : after[n] = Config!ReadEntry(after[n - 1], entries[n])
    <2> HIDE DEF N
    <2>1. 0 \in 0..N /\ \A n \in 1..N : n \in 0..N /\ n # 0
      BY <1>1
    <2> QED
      BY <1>6, <2>1
  <1>10. 0 \in S
    BY <1>2, <1>9
  <1>11. ASSUME NEW n \in Nat, n \in S PROVE n + 1 \in S
    <2> SUFFICES ASSUME n + 1 <= N PROVE after[n + 1] \in X
      OBVIOUS
    <2>1. n + 1 \in 1..N /\ (n + 1) - 1 = n /\ n <= N
      BY <1>1
    <2>2. after[n] \in X /\ entries[n + 1] \in E
      <3> HIDE DEF X, E
      <3> QED BY <1>1, <1>11, <2>1
    <2>3. after[n + 1] = Config!ReadEntry(after[n], entries[n + 1])
      BY <1>9, <2>1
    <2> QED
      BY <2>2, <2>3, ReadEntryParts
  <1>12. Nat \subseteq S
    <2> HIDE DEF S
    <2> QED
      BY <1>10, <1>11, EveryNumber, Zenon
  <1>13. \A n \in 0..N : after[n] \in X
    <2> HIDE DEF X
    <2> QED BY <1>1, <1>12
  <1> QED
    BY <1>7, <1>8, <1>13

\* What has been read of some entries is that of the last entry of each key,
\* when none of them fails; the others are kept as they were.
Heeds(entries, acc, n) ==
  /\ ~acc.stopped
  /\ acc.unknown = Config!Dropping(entries, Config!Known)[n]
  /\ \A i \in 1..n :
       entries[i].key \in Config!Known /\ (\A j \in i + 1..n : entries[j].key # entries[i].key) =>
         acc.known[entries[i].key] = Config!Read(entries[i].key, entries[i].value)
  /\ \A key \in Config!Known : (\A i \in 1..n : entries[i].key # key) => acc.known[key] = Config!Default[key]

\* In a file that can be read, the last entry of each key is heeded, and the unknown
\* ones are kept in order.
LEMMA ReadingHeeds ==
  ASSUME NEW V, NEW K, Config!Fails \notin V, NEW entries \in Seq(Entry(K, V)),
         \A n \in 1..Len(entries) :
           entries[n].key \in Config!Known => Config!Read(entries[n].key, entries[n].value) # Config!Fails
  PROVE  Heeds(entries, Config!Reading(entries)[Len(entries)], Len(entries))
  <1> DEFINE N == Len(entries)
             E == Entry(K, V)
             r == Config!Reading(entries)
             d == Config!Dropping(entries, Config!Known)
             S == {n \in Nat : n <= N => Heeds(entries, r[n], n)}
  <1>1. N \in Nat /\ \A n \in 1..N : entries[n] \in E
    <2> HIDE DEF E
    <2> QED BY DEF E
  <1>2. ReadingIs(entries, r) /\ \A n \in 0..N : r[n] \in Acc(V, E)
    BY ReadingDef
  <1>3. DroppingIs(entries, Config!Known, d)
    <2> HIDE DEF E
    <2> QED BY DroppingDef DEF E
  <1>4. /\ r[0] = Nothing /\ d[0] = <<>>
        /\ \A n \in 1..N : /\ r[n] = Config!ReadEntry(r[n - 1], entries[n])
                           /\ d[n] = IF entries[n].key \in Config!Known THEN d[n - 1] ELSE Append(d[n - 1], entries[n])
    <2> HIDE DEF r, d
    <2>1. 0 \in 0..N /\ \A n \in 1..N : n \in 0..N /\ n # 0
      BY <1>1
    <2> QED
      BY <1>2, <1>3, <2>1 DEF ReadingIs, DroppingIs
  <1> HIDE DEF r, d
  <1>5. 0 \in S
    BY <1>4 DEF Heeds, Nothing, d
  <1>6. ASSUME NEW n \in Nat, n \in S PROVE n + 1 \in S
    <2> SUFFICES ASSUME n + 1 <= N PROVE Heeds(entries, r[n + 1], n + 1)
      OBVIOUS
    <2> DEFINE m == n + 1
               e == entries[m]
               old == r[n]
               new == r[m]
    <2>1. m \in 1..N /\ m - 1 = n /\ n \in 0..N
      BY <1>1
    <2>2. Heeds(entries, old, n)
      BY <1>6, <2>1
    <2>3. new = Config!ReadEntry(old, e) /\ old \in Acc(V, E) /\ e \in E
          /\ d[m] = IF e.key \in Config!Known THEN d[n] ELSE Append(d[n], e)
      <3> HIDE DEF E
      <3>1. r[m] = Config!ReadEntry(r[m - 1], entries[m]) /\ d[m] = IF e.key \in Config!Known THEN d[m - 1] ELSE Append(d[m - 1], e)
        BY <1>4, <2>1
      <3> QED
        BY <1>1, <1>2, <2>1, <3>1
    <2>4. \A i \in 1..m : i = m \/ i \in 1..n
      BY <2>1
    <2>5. \A i \in 1..n : (\A j \in i + 1..m : entries[j].key # entries[i].key)
                          => e.key # entries[i].key /\ \A j \in i + 1..n : entries[j].key # entries[i].key
      BY <2>1
    <2> HIDE DEF S, m, e, old, new
    <2>6. ~old.stopped /\ old.unknown = d[n]
      BY <2>2 DEF Heeds, d
    <2>7. CASE e.key \notin Config!Known
      <3>1. new = [known |-> old.known, unknown |-> Append(old.unknown, e), stopped |-> FALSE]
        BY <2>3, <2>6, <2>7, ReadEntryParts
      <3>2. ~new.stopped /\ new.unknown = d[m] /\ new.known = old.known
        BY <2>3, <2>6, <2>7, <3>1
      <3>3. ASSUME NEW i \in 1..m, entries[i].key \in Config!Known, \A j \in i + 1..m : entries[j].key # entries[i].key
            PROVE  new.known[entries[i].key] = Config!Read(entries[i].key, entries[i].value)
        <4>1. i \in 1..n
          BY <2>4, <2>7, <3>3 DEF e
        <4>2. \A j \in i + 1..n : entries[j].key # entries[i].key
          BY <2>5, <3>3, <4>1
        <4> QED
          BY <2>2, <3>2, <3>3, <4>1, <4>2 DEF Heeds
      <3>4. ASSUME NEW key \in Config!Known, \A i \in 1..m : entries[i].key # key
            PROVE  new.known[key] = Config!Default[key]
        <4>1. \A i \in 1..n : entries[i].key # key
          BY <2>1, <3>4
        <4> QED
          BY <2>2, <3>2, <4>1 DEF Heeds
      <3> QED
        BY <3>2, <3>3, <3>4 DEF Heeds, d, new, m
    <2>8. CASE e.key \in Config!Known
      <3> DEFINE v == Config!Read(e.key, e.value)
      <3>1. v # Config!Fails
        BY <2>1, <2>8 DEF e
      <3>2. new = [known |-> [old.known EXCEPT ![e.key] = v], unknown |-> old.unknown, stopped |-> FALSE]
        BY <2>3, <2>6, <2>8, <3>1, ReadEntryParts
      <3>3. old.known \in [Config!Known -> Values(V)]
        BY <2>3 DEF Acc, Stored
      <3> HIDE DEF v
      <3>4. /\ ~new.stopped /\ new.unknown = d[m]
            /\ \A key \in Config!Known : new.known[key] = IF key = e.key THEN v ELSE old.known[key]
        BY <2>3, <2>6, <2>8, <3>2, <3>3
      <3>5. ASSUME NEW i \in 1..m, entries[i].key \in Config!Known, \A j \in i + 1..m : entries[j].key # entries[i].key
            PROVE  new.known[entries[i].key] = Config!Read(entries[i].key, entries[i].value)
        <4>1. CASE i = m
          BY <2>8, <3>4, <4>1 DEF e, v
        <4>2. CASE i \in 1..n
          <5>1. e.key # entries[i].key /\ \A j \in i + 1..n : entries[j].key # entries[i].key
            BY <2>5, <3>5, <4>2
          <5>2. old.known[entries[i].key] = Config!Read(entries[i].key, entries[i].value)
            BY <2>2, <3>5, <4>2, <5>1 DEF Heeds
          <5> QED
            BY <3>4, <3>5, <5>1, <5>2
        <4> QED
          BY <2>4, <4>1, <4>2
      <3>6. ASSUME NEW key \in Config!Known, \A i \in 1..m : entries[i].key # key
            PROVE  new.known[key] = Config!Default[key]
        <4>1. \A i \in 1..n : entries[i].key # key
          BY <2>1, <3>6 DEF m
        <4>2. key # e.key
          BY <2>1, <3>6 DEF e
        <4>3. old.known[key] = Config!Default[key]
          BY <2>2, <4>1 DEF Heeds
        <4> QED
          BY <3>4, <4>2, <4>3
      <3> QED
        BY <3>4, <3>5, <3>6 DEF Heeds, d, new, m
    <2> QED
      BY <2>7, <2>8
  <1>7. Nat \subseteq S
    <2> HIDE DEF S
    <2> QED
      BY <1>5, <1>6, EveryNumber, Zenon
  <1>8. N \in S
    BY <1>1, <1>7
  <1> QED
    BY <1>1, <1>8 DEF r

\* Keys and values enough for what the program itself adds.
Enough(K, V) == Config!Known \subseteq K /\ {"a", "b", "none", "empty"} \subseteq V /\ Config!Fails \notin V

\* The values that the program adds are values of the file.
LEMMA EnoughValues == ASSUME NEW K, NEW V, Enough(K, V) PROVE Values(V) = V
  BY DEF Enough, Values

\* Entries that the program does not know, and that no migration looks for.
AreForeign(s) == \A k \in 1..Len(s) : s[k].key \notin Config!Known /\ s[k].key # Config!Legacy
NoLegacy(s) == \A k \in 1..Len(s) : s[k].key # Config!Legacy

\* After the migration, no legacy key is left.
LEMMA MigratedParts ==
  ASSUME NEW K, NEW V, Enough(K, V), NEW file, file.entries \in Seq(Entry(K, V))
  PROVE  Config!Migrated(file) \in Seq(Entry(K, V)) /\ NoLegacy(Config!Migrated(file))
  <1> DEFINE E == Entry(K, V)
             kept == Config!Without(file.entries, {Config!Legacy})
             legacy == CHOOSE n \in DOMAIN file.entries : file.entries[n].key = Config!Legacy
             Has(key) == \E n \in DOMAIN file.entries : file.entries[n].key = key
             value == IF Has(Config!Legacy) /\ file.entries[legacy].value \in {"a", "b"}
                      THEN file.entries[legacy].value ELSE "b"
             more == [key |-> "seconds", value |-> value]
  <1>1. kept \in Seq(E) /\ \A k \in 1..Len(kept) : kept[k].key # Config!Legacy
    BY WithoutParts
  <1>2. value \in {"a", "b"}
    OBVIOUS
  <1>3. Config!Migrated(file) \in {kept, Append(kept, more)}
    BY Zenon DEF Config!Migrated
  <1> HIDE DEF kept, value
  <1>4. more \in E /\ more.key # Config!Legacy
    BY <1>2, KeysDef DEF Enough, Entry, Config!Legacy
  <1> HIDE DEF more, E
  <1>5. Append(kept, more) \in Seq(E) /\ \A k \in 1..Len(Append(kept, more)) : Append(kept, more)[k].key # Config!Legacy
    BY <1>1, <1>4, AppendProperties
  <1> QED
    BY <1>1, <1>3, <1>5 DEF NoLegacy, E

\* A file that was saved needs no migration.
LEMMA MigratedAgain ==
  ASSUME NEW E, NEW file, file.entries \in Seq(E), file.version = Config!CurrentVersion, NoLegacy(file.entries)
  PROVE  Config!Migrated(file) = file.entries
  <1> DEFINE kept == Config!Without(file.entries, {Config!Legacy})
             N == Len(file.entries)
  <1>1. Config!Migrated(file) = kept
    <2>1. ~(file.version < Config!CurrentVersion)
      BY DEF Config!CurrentVersion
    <2> QED
      BY <2>1, Zenon DEF Config!Migrated
  <1>2. N \in Nat /\ N \in 0..N /\ N + 1..N = {}
    OBVIOUS
  <1>3. \A k \in 1..N : file.entries[k].key \notin {Config!Legacy}
    BY DEF NoLegacy
  <1>4. kept \in Seq(E) /\ AreFirst(kept, file.entries, N)
    BY <1>2, <1>3, WithoutTheRest
  <1> HIDE DEF kept
  <1>5. Len(kept) = Len(file.entries) /\ \A k \in 1..Len(kept) : kept[k] = file.entries[k]
    BY <1>4 DEF AreFirst
  <1> QED
    BY <1>1, <1>4, <1>5, SeqEqual

\* What is not understood is neither a known nor a legacy key.
LEMMA ReadingIsForeign ==
  ASSUME NEW V, NEW K, Config!Fails \notin V, NEW entries \in Seq(Entry(K, V)), NoLegacy(entries)
  PROVE  AreForeign(Config!Reading(entries)[Len(entries)].unknown)
  <1> DEFINE N == Len(entries)
             E == Entry(K, V)
             r == Config!Reading(entries)
             S == {n \in Nat : n <= N => AreForeign(r[n].unknown)}
  <1>1. N \in Nat /\ \A n \in 1..N : entries[n] \in E /\ entries[n].key # Config!Legacy
    <2> HIDE DEF E
    <2> QED BY DEF E, NoLegacy
  <1>2. ReadingIs(entries, r) /\ \A n \in 0..N : r[n] \in Acc(V, E)
    BY ReadingDef
  <1>3. r[0] = Nothing /\ \A n \in 1..N : r[n] = Config!ReadEntry(r[n - 1], entries[n])
    <2> HIDE DEF r
    <2>1. 0 \in 0..N /\ \A n \in 1..N : n \in 0..N /\ n # 0
      BY <1>1
    <2> QED
      BY <1>2, <2>1 DEF ReadingIs
  <1> HIDE DEF r
  <1>4. 0 \in S
    BY <1>3 DEF AreForeign, Nothing
  <1>5. ASSUME NEW n \in Nat, n \in S PROVE n + 1 \in S
    <2> SUFFICES ASSUME n + 1 <= N PROVE AreForeign(r[n + 1].unknown)
      OBVIOUS
    <2> DEFINE e == entries[n + 1]
               old == r[n]
               new == r[n + 1]
    <2>1. n + 1 \in 1..N /\ (n + 1) - 1 = n /\ n \in 0..N
      BY <1>1
    <2>2. AreForeign(old.unknown)
      BY <1>5, <2>1
    <2>3. new = Config!ReadEntry(old, e) /\ old \in Acc(V, E) /\ e \in E /\ e.key # Config!Legacy
      <3> HIDE DEF E
      <3>1. r[n + 1] = Config!ReadEntry(r[(n + 1) - 1], entries[n + 1])
        BY <1>3, <2>1
      <3> QED
        BY <1>1, <1>2, <2>1, <3>1
    <2>4. old.unknown \in Seq(E) /\ old.stopped \in BOOLEAN
      BY <2>3 DEF Acc
    <2> HIDE DEF S, e, old, new
    <2>5. ASSUME ~old.stopped /\ e.key \notin Config!Known PROVE AreForeign(new.unknown)
      <3>1. new.unknown = Append(old.unknown, e)
        BY <2>3, <2>5, ReadEntryParts
      <3>2. new.unknown = Append(old.unknown, e) /\ e \in E /\ old.unknown \in Seq(E) /\ Len(old.unknown) \in Nat
        BY <2>3, <2>4, <3>1
      <3> DEFINE L == Len(old.unknown)
      <3> HIDE DEF E
      <3>3. /\ Len(new.unknown) = L + 1 /\ new.unknown[L + 1] = e
            /\ \A k \in 1..L : new.unknown[k] = old.unknown[k]
        BY <3>2, AppendProperties
      <3>4. \A k \in 1..L : old.unknown[k].key \notin Config!Known /\ old.unknown[k].key # Config!Legacy
        BY <2>2 DEF AreForeign
      <3> HIDE DEF L
      <3>5. ASSUME NEW k \in 1..L + 1 PROVE new.unknown[k].key \notin Config!Known /\ new.unknown[k].key # Config!Legacy
        <4>1. CASE k = L + 1
          BY <2>3, <2>5, <3>3, <4>1
        <4>2. CASE k \in 1..L
          BY <3>3, <3>4, <4>2
        <4> QED
          BY <3>2, <4>1, <4>2 DEF L
      <3> QED
        BY <3>3, <3>5 DEF AreForeign
    <2>6. ASSUME old.stopped \/ e.key \in Config!Known PROVE AreForeign(new.unknown)
      <3>1. new.unknown = old.unknown
        <4>1. CASE old.stopped
          BY <2>3, <4>1, ReadEntryParts
        <4>2. CASE ~old.stopped /\ e.key \in Config!Known /\ Config!Read(e.key, e.value) = Config!Fails
          BY <2>3, <4>2, ReadEntryParts
        <4>3. CASE ~old.stopped /\ e.key \in Config!Known /\ Config!Read(e.key, e.value) # Config!Fails
          BY <2>3, <4>3, ReadEntryParts
        <4> QED
          BY <2>6, <4>1, <4>2, <4>3
      <3> QED
        BY <2>2, <3>1
    <2>7. AreForeign(new.unknown)
      BY <2>4, <2>5, <2>6
    <2> QED
      BY <2>7 DEF new
  <1>6. Nat \subseteq S
    <2> HIDE DEF S
    <2> QED
      BY <1>4, <1>5, EveryNumber, Zenon
  <1>7. N \in S
    BY <1>1, <1>6
  <1> QED
    BY <1>1, <1>7 DEF r

\* What the program may have in its memory.
Memory(K, V) == [known : Stored(V), unknown : {s \in Seq(Entry(K, V)) : AreForeign(s)}]

\* What a start finds, in any file, can be stored.
LEMMA LoadParts ==
  ASSUME NEW K, NEW V, Enough(K, V), NEW file, file.entries \in Seq(Entry(K, V))
  PROVE  Config!Load(file) \in Memory(K, V)
  <1> DEFINE entries == IF Config!Supported(file) THEN Config!Migrated(file) ELSE <<>>
             read == Config!Reading(entries)[Len(entries)]
  <1>1. entries \in Seq(Entry(K, V)) /\ NoLegacy(entries)
    <2>1. Config!Migrated(file) \in Seq(Entry(K, V)) /\ NoLegacy(Config!Migrated(file))
      BY MigratedParts
    <2>2. <<>> \in Seq(Entry(K, V)) /\ NoLegacy(<<>>)
      BY DEF NoLegacy
    <2> QED
      BY <2>1, <2>2, Zenon
  <1>2. Config!Load(file) = [known |-> read.known, unknown |-> read.unknown]
    BY Zenon DEF Config!Load
  <1> HIDE DEF entries
  <1>3. Config!Fails \notin V
    BY DEF Enough
  <1>4. Len(entries) \in 0..Len(entries)
    BY <1>1
  <1>5. read \in Acc(V, Entry(K, V)) /\ AreForeign(read.unknown)
    BY <1>1, <1>3, <1>4, ReadingDef, ReadingIsForeign
  <1> HIDE DEF read
  <1> QED
    BY <1>2, <1>5 DEF Acc, Memory

\* A file that has been saved: first the unknown entries, then one for each key.
SavedIs(memory, file) ==
  LET U == Len(memory.unknown)
  IN /\ file.version = Config!CurrentVersion /\ Len(file.entries) = U + 5
     /\ \A k \in 1..U : file.entries[k] = memory.unknown[k]
     /\ \A k \in 1..5 : file.entries[U + k] = [key |-> Config!Order[k], value |-> memory.known[Config!Order[k]]]

\* A function over 1..n is a sequence.
LEMMA ASequence ==
  ASSUME NEW n \in Nat, NEW S, NEW s \in [1..n -> S]
  PROVE  s \in Seq(S) /\ Len(s) = n
  OBVIOUS

\* A save writes each known key once.
LEMMA OrderParts ==
  /\ Config!Order \in [1..5 -> Config!Known] /\ DOMAIN Config!Order = 1..5
  /\ \A key \in Config!Known : \E k \in 1..5 : Config!Order[k] = key
  /\ \A j, k \in 1..5 : Config!Order[j] = Config!Order[k] => j = k
  BY KeysDef DEF Config!Order

\* A save writes first what it did not understand, then the known keys.
LEMMA SavedParts ==
  ASSUME NEW K, NEW V, Enough(K, V), NEW memory \in Memory(K, V)
  PROVE  Config!Saved(memory).entries \in Seq(Entry(K, V)) /\ SavedIs(memory, Config!Saved(memory))
  <1> DEFINE E == Entry(K, V)
             last == [n \in DOMAIN Config!Order |-> [key |-> Config!Order[n], value |-> memory.known[Config!Order[n]]]]
             entries == memory.unknown \o last
  <1>1. memory.unknown \in Seq(E) /\ memory.known \in [Config!Known -> V]
    BY EnoughValues DEF Memory, Stored
  <1>2. Config!Saved(memory) = [version |-> Config!CurrentVersion, entries |-> entries]
    BY Zenon DEF Config!Saved
  <1>3. last = [n \in 1..5 |-> [key |-> Config!Order[n], value |-> memory.known[Config!Order[n]]]]
    BY OrderParts
  <1> HIDE DEF last
  <1>4. \A n \in 1..5 : [key |-> Config!Order[n], value |-> memory.known[Config!Order[n]]] \in E
    BY <1>1, OrderParts DEF Enough, Entry
  <1> HIDE DEF E
  <1>5. last \in [1..5 -> E]
    BY <1>3, <1>4
  <1>6. last \in Seq(E) /\ Len(last) = 5
    BY <1>5, ASequence
  <1>7. /\ entries \in Seq(E) /\ Len(entries) = Len(memory.unknown) + 5
        /\ \A n \in 1..Len(memory.unknown) + 5 :
             entries[n] = IF n <= Len(memory.unknown) THEN memory.unknown[n] ELSE last[n - Len(memory.unknown)]
    <2> DEFINE s == memory.unknown
    <2>1. s \in Seq(E)
      BY <1>1
    <2> HIDE DEF s
    <2>2. /\ s \o last \in Seq(E) /\ Len(s \o last) = Len(s) + Len(last)
          /\ \A n \in 1..Len(s) + Len(last) : (s \o last)[n] = IF n <= Len(s) THEN s[n] ELSE last[n - Len(s)]
      BY <1>6, <2>1, ConcatProperties, Zenon
    <2>3. Len(s) + Len(last) = Len(s) + 5
      BY <1>6
    <2> QED
      BY <2>2, <2>3, Zenon DEF s
  <1> HIDE DEF entries
  <1>8. Len(memory.unknown) \in Nat
    BY <1>1
  <1>9. \A k \in 1..Len(memory.unknown) : entries[k] = memory.unknown[k]
    BY <1>7, <1>8
  <1>10. ASSUME NEW k \in 1..5 PROVE entries[Len(memory.unknown) + k] = last[k]
    <2> DEFINE U == Len(memory.unknown)
    <2>1. U \in Nat /\ U + k \in 1..U + 5 /\ ~(U + k <= U) /\ (U + k) - U = k
      BY <1>8
    <2> HIDE DEF U
    <2> QED
      BY <1>7, <2>1 DEF U
  <1> QED
    BY <1>2, <1>3, <1>7, <1>9, <1>10 DEF SavedIs, E

\* The unknown entries of a file that has been saved are those of the memory.
LEMMA SavedKeepsUnknown ==
  ASSUME NEW K, NEW V, Enough(K, V), NEW memory \in Memory(K, V)
  PROVE  Config!Without(Config!Saved(memory).entries, Config!Known) = memory.unknown
  <1> DEFINE E == Entry(K, V)
             entries == Config!Saved(memory).entries
             U == Len(memory.unknown)
  <1> HIDE DEF E
  <1>1. entries \in Seq(E) /\ SavedIs(memory, Config!Saved(memory))
    BY SavedParts DEF E
  <1>2. memory.unknown \in Seq(E) /\ AreForeign(memory.unknown)
    BY DEF Memory, E
  <1>3. U \in Nat
    BY <1>2
  <1>4. /\ Len(entries) = U + 5
        /\ \A k \in 1..U : entries[k] = memory.unknown[k]
        /\ \A k \in 1..5 : entries[U + k] = [key |-> Config!Order[k], value |-> memory.known[Config!Order[k]]]
    BY <1>1, Zenon DEF SavedIs
  <1> HIDE DEF entries
  <1>5. \A n \in 1..U : entries[n].key \notin Config!Known
    BY <1>2, <1>4 DEF AreForeign
  <1>6. ASSUME NEW n \in U + 1..U + 5 PROVE entries[n].key \in Config!Known
    <2> DEFINE k == n - U
    <2>1. k \in 1..5 /\ U + k = n
      BY <1>3
    <2> HIDE DEF k
    <2>2. entries[U + k].key = Config!Order[k]
      BY <1>4, <2>1, SMTT(30)
    <2> QED
      BY <2>1, <2>2, OrderParts
  <1>7. U \in 0..Len(entries)
    BY <1>3, <1>4
  <1> HIDE DEF U
  <1>8. Config!Without(entries, Config!Known) \in Seq(E) /\ AreFirst(Config!Without(entries, Config!Known), entries, U)
    BY <1>1, <1>4, <1>5, <1>6, <1>7, WithoutTheRest
  <1> DEFINE rest == Config!Without(entries, Config!Known)
  <1>9. rest \in Seq(E) /\ Len(rest) = U /\ \A k \in 1..U : rest[k] = memory.unknown[k]
    BY <1>4, <1>8 DEF AreFirst
  <1> HIDE DEF rest
  <1>10. rest = memory.unknown
    BY <1>2, <1>9, SeqEqual DEF U
  <1> QED
    BY <1>10 DEF rest, entries

\* What is saved is found again.
LEMMA SavedIsFound ==
  ASSUME NEW K, NEW V, Enough(K, V), NEW memory \in Memory(K, V)
  PROVE  Config!SameMemory(Config!Load(Config!Saved(memory)), memory)
  <1> DEFINE E == Entry(K, V)
             file == Config!Saved(memory)
             entries == file.entries
             U == Len(memory.unknown)
             read == Config!Reading(entries)[Len(entries)]
  <1>1. entries \in Seq(E) /\ SavedIs(memory, file)
    BY SavedParts
  <1>2. /\ memory.unknown \in Seq(E) /\ AreForeign(memory.unknown)
        /\ memory.known \in [Config!Known -> V] /\ \A key \in Config!Known : Storable(key, memory.known[key])
        /\ U \in Nat /\ Config!Fails \notin V
    <2>1. memory.known \in Stored(V) /\ memory.unknown \in Seq(E) /\ AreForeign(memory.unknown)
      BY DEF Memory
    <2>2. memory.known \in [Config!Known -> V] /\ \A key \in Config!Known : Storable(key, memory.known[key])
      BY <2>1, EnoughValues DEF Stored
    <2>3. U \in Nat
      <3> HIDE DEF E
      <3> QED BY <2>1
    <2> QED
      BY <2>1, <2>2, <2>3 DEF Enough
  <1> HIDE DEF file, U, E
  <1>3. /\ file.version = Config!CurrentVersion /\ Len(entries) = U + 5
        /\ \A k \in 1..U : entries[k] = memory.unknown[k]
        /\ \A k \in 1..5 : entries[U + k].key = Config!Order[k] /\ entries[U + k].value = memory.known[Config!Order[k]]
    <2> DEFINE es == file.entries
    <2>1. /\ file.version = Config!CurrentVersion /\ Len(es) = U + 5
          /\ \A k \in 1..U : es[k] = memory.unknown[k]
          /\ \A k \in 1..5 : es[U + k] = [key |-> Config!Order[k], value |-> memory.known[Config!Order[k]]]
      BY <1>1, Zenon DEF SavedIs, U
    <2> HIDE DEF es
    <2>2. \A k \in 1..5 : es[U + k].key = Config!Order[k] /\ es[U + k].value = memory.known[Config!Order[k]]
      BY <2>1
    <2> QED
      BY <2>1, <2>2 DEF es
  <1>4. \A n \in U + 1..U + 5 : n - U \in 1..5 /\ U + (n - U) = n
    BY <1>2
  <1>5. \A n \in U + 1..U + 5 :
          entries[n].key = Config!Order[n - U] /\ entries[n].value = memory.known[Config!Order[n - U]]
    <2> SUFFICES ASSUME NEW n \in U + 1..U + 5
                 PROVE  entries[n].key = Config!Order[n - U] /\ entries[n].value = memory.known[Config!Order[n - U]]
      OBVIOUS
    <2> DEFINE k == n - U
    <2>1. k \in 1..5 /\ U + k = n
      BY <1>4
    <2> HIDE DEF k, entries
    <2>2. entries[U + k].key = Config!Order[k] /\ entries[U + k].value = memory.known[Config!Order[k]]
      BY <1>3, <2>1
    <2> QED
      BY <2>1, <2>2 DEF k
  <1>6. \A n \in U + 1..U + 5 : entries[n].key \in Config!Known
    BY <1>4, <1>5, OrderParts
  <1>7. \A n \in 1..U : entries[n].key \notin Config!Known /\ entries[n].key # Config!Legacy
    BY <1>2, <1>3 DEF AreForeign, U
  <1>8. \A n \in 1..U + 5 : n \in 1..U \/ n \in U + 1..U + 5
    BY <1>2
  <1>9. NoLegacy(entries)
    <2>1. Config!Legacy \notin Config!Known
      BY KeysDef DEF Config!Legacy
    <2> QED
      BY <1>3, <1>6, <1>7, <1>8, <2>1 DEF NoLegacy
  <1>10. Config!Load(file) = [known |-> read.known, unknown |-> read.unknown]
    <2>1. Config!Supported(file)
      BY <1>3 DEF Config!Supported, Config!CurrentVersion
    <2>2. Config!Migrated(file) = entries
      BY <1>1, <1>3, <1>9, MigratedAgain
    <2> QED
      BY <2>1, <2>2, Zenon DEF Config!Load
  <1> HIDE DEF entries
  <1>11. ASSUME NEW n \in 1..Len(entries), entries[n].key \in Config!Known
         PROVE  /\ Config!Read(entries[n].key, entries[n].value) # Config!Fails
                /\ Config!SameValue(Config!Read(entries[n].key, entries[n].value), memory.known[entries[n].key])
    <2>1. n \in U + 1..U + 5
      BY <1>3, <1>7, <1>8, <1>11
    <2>2. entries[n].value = memory.known[entries[n].key]
      BY <1>5, <2>1
    <2>3. memory.known[entries[n].key] \in Values(V) /\ Storable(entries[n].key, memory.known[entries[n].key])
      BY <1>2, <1>11 DEF Values
    <2> QED
      BY <1>2, <1>11, <2>2, <2>3, ReadAgain
  <1>12. Heeds(entries, read, Len(entries))
    BY <1>1, <1>2, <1>11, ReadingHeeds DEF E
  <1>13. read.unknown = memory.unknown
    <2>1. read.unknown = Config!Without(entries, Config!Known)
      BY <1>12 DEF Heeds, Config!Without
    <2>2. Config!Without(entries, Config!Known) = memory.unknown
      BY SavedKeepsUnknown DEF entries, file
    <2> QED
      BY <2>1, <2>2
  <1>14. ASSUME NEW key \in Config!Known PROVE Config!SameValue(read.known[key], memory.known[key])
    <2>1. PICK k \in 1..5 : Config!Order[k] = key
      BY OrderParts
    <2> DEFINE n == U + k
    <2>2. n \in 1..Len(entries) /\ n \in U + 1..U + 5 /\ n - U = k
      BY <1>2, <1>3
    <2> HIDE DEF n
    <2>3. entries[n].key = key
      BY <1>5, <2>1, <2>2
    <2>4. ASSUME NEW j \in n + 1..Len(entries) PROVE entries[j].key # entries[n].key
      <3>1. j \in U + 1..U + 5 /\ j - U \in 1..5 /\ j - U # k
        BY <1>2, <1>3, <2>2
      <3> QED
        BY <1>5, <2>1, <2>3, <3>1, OrderParts
    <2>5. read.known[key] = Config!Read(key, entries[n].value)
      <3> HIDE DEF read
      <3> QED
        BY <1>12, <2>2, <2>3, <2>4 DEF Heeds
    <2>6. Config!SameValue(Config!Read(key, entries[n].value), memory.known[key])
      BY <1>11, <2>2, <2>3
    <2> QED
      BY <2>5, <2>6
  <1> HIDE DEF read
  <1>15. Config!Load(file).unknown = memory.unknown /\ Config!Load(file).known = read.known
    BY <1>10, <1>13
  <1> QED
    BY <1>14, <1>15 DEF Config!SameMemory, file

\* An update that is accepted and written.
UpdateIs(K, V, memory, batch, after) ==
  /\ after.memory \in Memory(K, V) /\ after.file = Config!Saved(after.memory)
  /\ after.memory.unknown = memory.unknown
  /\ \A key \in Config!Known :
       after.memory.known[key] = IF key \in Config!Sent(batch) THEN Config!Normal(key, batch[key])
                                                               ELSE memory.known[key]

\* An accepted update sets the keys that it sends, and no other.
LEMMA UpdateParts ==
  ASSUME NEW K, NEW V, Enough(K, V), NEW memory \in Memory(K, V), NEW file,
         NEW keys, NEW batch \in [keys -> V], Config!Accepted(batch)
  PROVE  UpdateIs(K, V, memory, batch, Config!Update(memory, file, batch, TRUE))
  <1> DEFINE known == [key \in Config!Known |-> IF key \in Config!Sent(batch) THEN Config!Normal(key, batch[key])
                                                                             ELSE memory.known[key]]
             new == [memory EXCEPT !.known = known]
  <1>1. Config!Update(memory, file, batch, TRUE) = [memory |-> new, file |-> Config!Saved(new)]
    BY Zenon DEF Config!Update
  <1>2. /\ memory.known \in [Config!Known -> Values(V)] /\ \A key \in Config!Known : Storable(key, memory.known[key])
        /\ memory.unknown \in Seq(Entry(K, V)) /\ AreForeign(memory.unknown)
        /\ memory = [known |-> memory.known, unknown |-> memory.unknown]
    BY DEF Memory, Stored
  <1>3. ASSUME NEW key \in Config!Known PROVE known[key] \in Values(V) /\ Storable(key, known[key])
    <2>1. CASE key \in Config!Sent(batch)
      <3>1. /\ key \in keys /\ key \in Config!Editable /\ ~(key = "secret" /\ batch[key] = "mask")
            /\ Config!Normal(key, batch[key]) # Config!Fails
        BY <2>1 DEF Config!Sent, Config!Accepted
      <3>2. batch[key] \in Values(V)
        BY <3>1 DEF Values
      <3>3. Config!Fails \notin V
        BY DEF Enough
      <3>4. Config!Normal(key, batch[key]) \in Values(V) /\ Storable(key, Config!Normal(key, batch[key]))
        BY <3>1, <3>2, <3>3, NormalParts
      <3> QED
        BY <2>1, <3>4
    <2>2. CASE key \notin Config!Sent(batch)
      BY <1>2, <2>2
    <2> QED
      BY <2>1, <2>2
  <1>4. \A key \in Config!Known :
          known[key] = IF key \in Config!Sent(batch) THEN Config!Normal(key, batch[key]) ELSE memory.known[key]
    OBVIOUS
  <1>5. known = [key \in Config!Known |-> known[key]]
    OBVIOUS
  <1> HIDE DEF known
  <1>6. known \in Stored(V)
    BY <1>3, <1>5 DEF Stored
  <1>7. new = [known |-> known, unknown |-> memory.unknown]
    BY <1>2
  <1>8. new \in Memory(K, V) /\ new.known = known /\ new.unknown = memory.unknown
    BY <1>2, <1>6, <1>7 DEF Memory
  <1> HIDE DEF new
  <1>9. UpdateIs(K, V, memory, batch, [memory |-> new, file |-> Config!Saved(new)])
    BY <1>4, <1>8 DEF UpdateIs
  <1> QED
    BY <1>1, <1>9

\* The page as it is shown changes nothing when it is saved.
LEMMA PageAsShown ==
  ASSUME NEW K, NEW V, Enough(K, V), "mask" \in V, NEW memory \in Memory(K, V), NEW file
  PROVE  Config!SameMemory(Config!Update(memory, file, Config!Public(memory), TRUE).memory, memory)
  <1> DEFINE page == Config!Public(memory)
             after == Config!Update(memory, file, page, TRUE)
  <1>1. memory.known \in [Config!Known -> V] /\ \A key \in Config!Known : Storable(key, memory.known[key])
    BY EnoughValues DEF Memory, Stored
  <1>2. /\ DOMAIN page = Config!Editable
        /\ \A key \in Config!Editable :
             page[key] = IF key = "secret" /\ memory.known[key] # "empty" THEN "mask"
                         ELSE IF memory.known[key] = "none" THEN "empty" ELSE memory.known[key]
        /\ page = [key \in Config!Editable |-> page[key]]
    BY DEF Config!Public
  <1> HIDE DEF page
  <1>3. Config!Editable \subseteq Config!Known
    BY KeysDef
  <1>4. \A key \in Config!Editable : page[key] \in V
    BY <1>1, <1>2, <1>3 DEF Enough
  <1>5. page \in [Config!Editable -> V]
    BY <1>2, <1>4
  <1>6. ASSUME NEW key \in Config!Sent(page)
        PROVE  /\ Config!Normal(key, page[key]) # Config!Fails
               /\ Config!SameValue(Config!Normal(key, page[key]), memory.known[key])
    <2>1. key \in Config!Editable /\ key \in Config!Known /\ ~(key = "secret" /\ page[key] = "mask")
      BY <1>2, <1>3 DEF Config!Sent
    <2>2. Storable(key, memory.known[key])
      BY <1>1, <2>1
    <2>3. page[key] = IF key = "secret" /\ memory.known[key] # "empty" THEN "mask"
                      ELSE IF memory.known[key] = "none" THEN "empty" ELSE memory.known[key]
      BY <1>2, <2>1
    <2> DEFINE v == memory.known[key]
               p == page[key]
    <2> HIDE DEF v, p
    <2>4. p = IF key = "secret" /\ v # "empty" THEN "mask" ELSE IF v = "none" THEN "empty" ELSE v
      BY <2>3 DEF p, v
    <2>5. Storable(key, v) /\ ~(key = "secret" /\ p = "mask")
      BY <2>1, <2>2 DEF p, v
    <2>6. Config!Normal(key, p) # Config!Fails /\ Config!SameValue(Config!Normal(key, p), v)
      BY <2>1, <2>4, <2>5, KeysDef DEF Config!Normal, Config!Fails, Storable, Config!SameValue
    <2> QED
      BY <2>6 DEF p, v
  <1>7. Config!Accepted(page)
    BY <1>6 DEF Config!Accepted
  <1>8. /\ after.memory.unknown = memory.unknown
        /\ \A key \in Config!Known :
             after.memory.known[key] = IF key \in Config!Sent(page) THEN Config!Normal(key, page[key])
                                                                    ELSE memory.known[key]
    <2>1. UpdateIs(K, V, memory, page, after)
      BY <1>5, <1>7, UpdateParts
    <2> QED
      BY <2>1 DEF UpdateIs
  <1> HIDE DEF after
  <1>9. ASSUME NEW key \in Config!Known PROVE Config!SameValue(after.memory.known[key], memory.known[key])
    <2>1. CASE key \in Config!Sent(page)
      BY <1>6, <1>8, <2>1
    <2>2. CASE key \notin Config!Sent(page)
      BY <1>8, <2>2 DEF Config!SameValue
    <2> QED
      BY <2>1, <2>2
  <1> QED
    BY <1>8, <1>9 DEF Config!SameMemory, after, page

\* What a save keeps of a file that can be read to its end.
LEMMA ReadableIsKept ==
  ASSUME NEW K, NEW V, Enough(K, V), NEW file, file.entries \in Seq(Entry(K, V)), Config!Readable(file)
  PROVE  LET entries == Config!Migrated(file)
             memory  == Config!Load(file)
         IN /\ entries \in Seq(Entry(K, V))
            /\ memory.unknown = Config!Without(entries, Config!Known)
            /\ \A n \in DOMAIN entries :
                 \/ entries[n].key \notin Config!Known
                 \/ \E m \in n + 1..Len(entries) : entries[m].key = entries[n].key
                 \/ memory.known[entries[n].key] = Config!Read(entries[n].key, entries[n].value)
  <1> DEFINE entries == Config!Migrated(file)
             read == Config!Reading(entries)[Len(entries)]
  <1>1. entries \in Seq(Entry(K, V))
    BY MigratedParts
  <1>2. Config!Load(file) = [known |-> read.known, unknown |-> read.unknown]
    BY Zenon DEF Config!Load, Config!Readable
  <1>3. DOMAIN entries = 1..Len(entries)
    <2> HIDE DEF entries
    <2> QED BY <1>1
  <1>4. \A n \in 1..Len(entries) : entries[n].key \in Config!Known =>
          Config!Read(entries[n].key, entries[n].value) # Config!Fails
    BY <1>3 DEF Config!Readable
  <1> HIDE DEF entries
  <1>5. Config!Fails \notin V
    BY DEF Enough
  <1>6. Heeds(entries, read, Len(entries))
    BY <1>1, <1>4, <1>5, ReadingHeeds
  <1> HIDE DEF read
  <1>7. Config!Load(file).known = read.known /\ Config!Load(file).unknown = read.unknown
    BY <1>2
  <1>8. read.unknown = Config!Without(entries, Config!Known)
    BY <1>6 DEF Heeds, Config!Without
  <1>9. ASSUME NEW n \in 1..Len(entries), entries[n].key \in Config!Known,
               \A m \in n + 1..Len(entries) : entries[m].key # entries[n].key
        PROVE  read.known[entries[n].key] = Config!Read(entries[n].key, entries[n].value)
    BY <1>6, <1>9 DEF Heeds
  <1> QED
    BY <1>1, <1>3, <1>7, <1>8, <1>9 DEF entries

\* Any file and any update.
THEOREM AnySettingsSurvive ==
  ASSUME NEW K, NEW V, Enough(K, V), "mask" \in V, NEW file, file.entries \in Seq(Entry(K, V)),
         NEW keys, NEW batch \in [keys -> V]
  PROVE  Config!SettingsSurvive(file, batch)
  <1> DEFINE memory == Config!Load(file)
             after(writes) == Config!Update(memory, file, batch, writes)
             entries == Config!Migrated(file)
  <1>1. memory \in Memory(K, V)
    BY LoadParts
  <1>2. ASSUME NEW writes \in BOOLEAN, ~(Config!Accepted(batch) /\ writes)
        PROVE  after(writes).memory = memory /\ after(writes).file = file
    <2>1. after(writes) = [memory |-> memory, file |-> file]
      BY <1>2, Zenon DEF Config!Update
    <2> HIDE DEF memory, after
    <2> QED
      BY <2>1
  <1> HIDE DEF memory
  <1>3. ASSUME Config!Accepted(batch)
        PROVE  /\ after(TRUE).memory \in Memory(K, V) /\ after(TRUE).file = Config!Saved(after(TRUE).memory)
               /\ after(TRUE).memory.unknown = memory.unknown
               /\ \A key \in Config!Known :
                    after(TRUE).memory.known[key] = IF key \in Config!Sent(batch) THEN Config!Normal(key, batch[key])
                                                                                  ELSE memory.known[key]
    <2>1. UpdateIs(K, V, memory, batch, after(TRUE))
      BY <1>1, <1>3, UpdateParts
    <2> HIDE DEF after
    <2> QED
      BY <2>1 DEF UpdateIs
  <1> HIDE DEF after
  <1>4. ASSUME NEW writes \in BOOLEAN
        PROVE  after(writes).memory \in Memory(K, V) /\ Config!SameMemory(Config!Load(after(writes).file), after(writes).memory)
    <2>1. CASE Config!Accepted(batch) /\ writes
      <3>1. writes = TRUE
        BY <2>1
      <3> QED
        BY <1>3, <2>1, <3>1, SavedIsFound
    <2>2. CASE ~(Config!Accepted(batch) /\ writes)
      <3>1. Config!Load(after(writes).file) = after(writes).memory
        BY <1>2, <2>2 DEF memory
      <3> QED
        BY <1>1, <1>2, <2>2, <3>1 DEF Config!SameMemory, Config!SameValue
    <2> QED
      BY <2>1, <2>2
  <1>5. ASSUME NEW writes \in BOOLEAN
        PROVE  /\ Config!SameMemory(Config!Update(after(writes).memory, after(writes).file,
                                                  Config!Public(after(writes).memory), TRUE).memory, after(writes).memory)
               /\ after(writes).memory.known["secret"] # "mask"
    <2>1. after(writes).memory \in Memory(K, V)
      BY <1>4
    <2>2. after(writes).memory.known["secret"] # "mask"
      BY <2>1, KeysDef DEF Memory, Stored, Storable
    <2> QED
      BY <2>1, <2>2, PageAsShown
  <1>6. ASSUME NEW writes \in BOOLEAN, Config!Readable(file), writes, Config!Accepted(batch)
        PROVE  /\ Config!Without(after(writes).file.entries, Config!Known) = Config!Without(entries, Config!Known)
               /\ \A n \in DOMAIN entries :
                    \/ entries[n].key \notin Config!Known \/ entries[n].key \in Config!Sent(batch)
                    \/ \E m \in n + 1..Len(entries) : entries[m].key = entries[n].key
                    \/ Config!SameValue(after(writes).memory.known[entries[n].key],
                                        Config!Read(entries[n].key, entries[n].value))
    <2> DEFINE new == after(TRUE).memory
    <2>1. writes = TRUE
      BY <1>6
    <2>2. /\ memory.unknown = Config!Without(entries, Config!Known)
          /\ \A n \in DOMAIN entries :
               \/ entries[n].key \notin Config!Known
               \/ \E m \in n + 1..Len(entries) : entries[m].key = entries[n].key
               \/ memory.known[entries[n].key] = Config!Read(entries[n].key, entries[n].value)
      <3> HIDE DEF entries
      <3> QED BY <1>6, ReadableIsKept DEF memory, entries
    <2>3. /\ new \in Memory(K, V) /\ after(TRUE).file = Config!Saved(new) /\ new.unknown = memory.unknown
          /\ \A key \in Config!Known : key \notin Config!Sent(batch) => new.known[key] = memory.known[key]
      BY <1>3, <1>6
    <2> HIDE DEF new, entries
    <2>4. Config!Without(Config!Saved(new).entries, Config!Known) = new.unknown
      BY <2>3, SavedKeepsUnknown
    <2>5. ASSUME NEW n \in DOMAIN entries, entries[n].key \in Config!Known, entries[n].key \notin Config!Sent(batch),
                 ~ \E m \in n + 1..Len(entries) : entries[m].key = entries[n].key
          PROVE  Config!SameValue(new.known[entries[n].key], Config!Read(entries[n].key, entries[n].value))
      <3>1. memory.known[entries[n].key] = Config!Read(entries[n].key, entries[n].value)
        BY <2>2, <2>5
      <3> QED
        BY <2>3, <2>5, <3>1 DEF Config!SameValue
    <2> QED
      BY <2>1, <2>2, <2>3, <2>4, <2>5 DEF new
  <1>7. \A writes \in BOOLEAN : ~(Config!Accepted(batch) /\ writes) => after(writes).memory = memory
    BY <1>2
  <1> QED
    BY <1>4, <1>5, <1>6, <1>7, Zenon DEF Config!SettingsSurvive, memory, after, entries

\* The keys and the values of the configuration files and of the updates.
FileKeys == Config!Known \cup {Config!Legacy, "extension"}
FileValues == {"a", "A", "b", "bad", "mask", "empty", "none"}

\* A configuration file is made of entries.
IsConfiguration == of = "settings" => input \in Seq(Entry(FileKeys, FileValues))

\* The inputs that the run makes are configuration files.
LEMMA FilesAreEntries == Inputs => []IsConfiguration
  <1>1. FirstInput => IsConfiguration
    BY DEF FirstInput, IsConfiguration
  <1>2. IsConfiguration /\ [NextInput]_<<of, input>> => IsConfiguration'
    <2> SUFFICES ASSUME IsConfiguration, [NextInput]_<<of, input>> PROVE IsConfiguration'
      OBVIOUS
    <2>1. CASE AddEntry
      <3>1. of = "settings" /\ of' = of
        BY <2>1, Zenon DEF AddEntry, Extend
      <3>2. PICK key \in Config!Known \cup {Config!Legacy, "extension"},
                 value \in {"a", "A", "bad", "mask", "empty", "none"} :
              Extend([key |-> key, value |-> value])
        BY <2>1, Zenon DEF AddEntry
      <3>3. [key |-> key, value |-> value] \in Entry(FileKeys, FileValues)
        BY DEF Entry, FileKeys, FileValues
      <3> QED
        BY <3>1, <3>2, <3>3, AppendProperties DEF IsConfiguration, Extend
    <2>2. CASE AddSubtitle
      <3>1. of = "repair" /\ of' = of
        BY <2>2, Zenon DEF AddSubtitle, Extend
      <3> QED
        BY <3>1 DEF IsConfiguration
    <2>3. CASE AddWord
      <3>1. of = "speech" /\ of' = of
        BY <2>3, Zenon DEF AddWord, Extend
      <3> QED
        BY <3>1 DEF IsConfiguration
    <2>4. CASE AddLine
      <3>1. of = "script" /\ of' = of
        BY <2>4, Zenon DEF AddLine, Extend
      <3> QED
        BY <3>1 DEF IsConfiguration
    <2>5. CASE AddEncoder
      <3>1. of = "video" /\ of' = of
        BY <2>5 DEF AddEncoder, Extend
      <3> QED
        BY <3>1 DEF IsConfiguration
    <2>6. CASE UNCHANGED <<of, input>>
      BY <2>6 DEF IsConfiguration
    <2> QED
      BY <2>1, <2>2, <2>3, <2>4, <2>5, <2>6 DEF NextInput
  <1> QED
    BY <1>1, <1>2, PTL DEF Inputs

\* What the run about the algorithms checks up to a length, for configuration
\* files of any length: a start finds the settings that the last save left, no
\* placeholder becomes a secret, and a save changes what the user changed only.
THEOREM SettingsArePreservedHolds == Inputs => []SettingsArePreserved
  <1>1. IsConfiguration => SettingsArePreserved
    <2> SUFFICES ASSUME IsConfiguration, of = "settings", NEW file \in Files, NEW page \in Pages
                 PROVE  Config!SettingsSurvive(file, page)
      BY DEF SettingsArePreserved
    <2>1. PICK keys \in {{}, {"batch"}, {"secret"}, {"path", "seconds"}, {"provider", "secret"}} :
            page \in [keys -> {"a", "bad", "mask", "empty"}]
      BY DEF Pages
    <2>2. page \in [keys -> FileValues]
      BY <2>1 DEF FileValues
    <2>3. file.entries \in Seq(Entry(FileKeys, FileValues))
      BY DEF IsConfiguration, Files
    <2>4. Enough(FileKeys, FileValues) /\ "mask" \in FileValues
      BY DEF Enough, FileKeys, FileValues, Config!Fails
    <2> QED
      BY <2>2, <2>3, <2>4, AnySettingsSurvive
  <1> QED
    BY <1>1, FilesAreEntries, PTL

-----------------------------------------------------------------------------
(* The words of a recording.                                               *)

\* A step that each number up to the last one takes.
LEMMA EachStep ==
  ASSUME NEW N \in Nat, NEW S, 0 \in S, \A n \in 1..N : n - 1 \in S => n \in S
  PROVE  \A n \in 0..N : n \in S
  <1> DEFINE T == {n \in Nat : n <= N => n \in S}
  <1>1. 0 \in T
    OBVIOUS
  <1>2. ASSUME NEW n \in Nat, n \in T PROVE n + 1 \in T
    <2> SUFFICES ASSUME n + 1 <= N PROVE n + 1 \in S
      OBVIOUS
    <2>1. n + 1 \in 1..N /\ (n + 1) - 1 = n /\ n \in S
      BY <1>2
    <2> QED
      BY <2>1
  <1>3. Nat \subseteq T
    <2> HIDE DEF T
    <2> QED
      BY <1>1, <1>2, EveryNumber, Zenon
  <1> QED
    BY <1>3

\* The greatest and the least of some indices.
LEMMA Extremes ==
  ASSUME NEW N \in Nat, NEW S \in SUBSET (1..N), S # {}
  PROVE  /\ Speech!Max(S) \in S /\ \A y \in S : y <= Speech!Max(S)
         /\ Speech!Min(S) \in S /\ \A y \in S : Speech!Min(S) <= y
  <1> DEFINE up == [n \in 1..N |-> n]
             down == [n \in 1..N |-> -n]
  <1>1. \A n \in S : n \in 1..N /\ n \in Int
    OBVIOUS
  <1>2. up \in [1..N -> Int] /\ down \in [1..N -> Int]
    OBVIOUS
  <1>3. \E i \in S : \A j \in S : ~Ahead(up, i, j)
    <2> HIDE DEF up
    <2> QED
      BY <1>2, GreatestExists
  <1>4. \E i \in S : \A j \in S : ~Ahead(down, i, j)
    <2> HIDE DEF down
    <2> QED
      BY <1>2, GreatestExists
  <1>5. \A i, j \in S : ~Ahead(up, i, j) => i >= j
    BY <1>1 DEF Ahead
  <1>6. \A i, j \in S : ~Ahead(down, i, j) => i <= j
    BY <1>1 DEF Ahead
  <1> HIDE DEF up, down
  <1>7. \E i \in S : \A j \in S : i >= j
    BY <1>3, <1>5
  <1>8. \E i \in S : \A j \in S : i <= j
    BY <1>4, <1>6
  <1>9. Speech!Max(S) \in S /\ \A y \in S : Speech!Max(S) >= y
    BY <1>7, Zenon DEF Speech!Max
  <1>10. Speech!Min(S) \in S /\ \A y \in S : Speech!Min(S) <= y
    BY <1>8, Zenon DEF Speech!Min
  <1> QED
    BY <1>1, <1>9, <1>10

\* The greater of two numbers.
LEMMA GreaterOf ==
  ASSUME NEW a \in Int, NEW b \in Int
  PROVE  Speech!Max({a, b}) = IF a <= b THEN b ELSE a
  <1> DEFINE s == {a, b}
             m == IF a <= b THEN b ELSE a
  <1>1. m \in s /\ \A y \in s : m >= y
    OBVIOUS
  <1>2. \A x \in s : (\A y \in s : x >= y) => x = m
    OBVIOUS
  <1>3. Speech!Max(s) = CHOOSE x \in s : \A y \in s : x >= y
    BY DEF Speech!Max
  <1> HIDE DEF s, m
  <1>4. Speech!Max(s) = m
    BY <1>1, <1>2, <1>3
  <1> QED
    BY <1>4 DEF s, m

\* The sequences one after the other, after each of them.
FlatteningIs(ss, f) ==
  f[0] = <<>> /\ \A n \in 1..Len(ss) : f[n] = f[n - 1] \o ss[n]

\* What the library's recursion does: it appends the sequences one by one.
LEMMA FlattenDef ==
  ASSUME NEW E, NEW ss \in Seq(Seq(E))
  PROVE  \E f \in [0..Len(ss) -> Seq(E)] : FlatteningIs(ss, f) /\ Speech!FlattenSeq(ss) = f[Len(ss)]
  <1> DEFINE N == Len(ss)
             X == Seq(E)
             step == [n \in 1..N |-> [s \in X |-> s \o ss[n]]]
             flat == CHOOSE f : f = [i \in 1..N |-> IF i = 1 THEN ss[i] ELSE f[i - 1] \o ss[i]]
  <1>1. <<>> \in X /\ N \in Nat /\ \A n \in 1..N : ss[n] \in X
    OBVIOUS
  <1>2. \A n \in 1..N, s \in X : s \o ss[n] \in X
    BY <1>1, ConcatProperties
  <1>3. step \in [1..N -> [X -> X]]
    <2> HIDE DEF X, N
    <2> QED
      BY <1>2
  <1>4. CASE N = 0
    <2> DEFINE f == [n \in 0..0 |-> <<>>]
    <2>1. ss = <<>>
      BY <1>4
    <2>2. Speech!FlattenSeq(ss) = <<>>
      BY <2>1, <1>4 DEF Speech!FlattenSeq
    <2>3. f \in [0..Len(ss) -> X] /\ f[0] = <<>>
      BY <1>4
    <2>4. FlatteningIs(ss, f)
      BY <1>4, <2>3 DEF FlatteningIs
    <2> HIDE DEF f
    <2> QED
      BY <1>4, <2>2, <2>3, <2>4
  <1>5. CASE N # 0
    <2>1. PICK g \in [1..N -> X] : RecursFromOne(g, N, ss[1], step)
      <3>1. ss[1] \in X
        BY <1>1, <1>5
      <3> HIDE DEF step, X, N
      <3> QED
        BY <1>1, <1>3, <3>1, RecursionFromOne
    <2>2. g = [i \in 1..N |-> IF i = 1 THEN ss[1] ELSE step[i][g[i - 1]]]
      BY <2>1 DEF RecursFromOne
    <2>3. ASSUME NEW i \in 1..N, i # 1 PROVE step[i][g[i - 1]] = g[i - 1] \o ss[i]
      <3>1. i - 1 \in 1..N
        BY <1>1, <2>3
      <3>2. g[i - 1] \in X
        BY <3>1
      <3> HIDE DEF X
      <3> QED
        BY <3>2
    <2> HIDE DEF step
    <2>4. g = [i \in 1..N |-> IF i = 1 THEN ss[i] ELSE g[i - 1] \o ss[i]]
      BY <2>2, <2>3
    <2>5. flat = [i \in 1..N |-> IF i = 1 THEN ss[i] ELSE flat[i - 1] \o ss[i]]
      <3> HIDE DEF N
      <3> QED
        BY <2>4, Zenon
    <2>6. Speech!FlattenSeq(ss) = flat[N]
      BY <1>5, Zenon DEF Speech!FlattenSeq
    <2> HIDE DEF flat
    <2> DEFINE S == {n \in Nat : n = 0 \/ flat[n] \in X}
    <2>7. \A n \in 0..N : n \in S
      <3>1. 0 \in S
        OBVIOUS
      <3>2. ASSUME NEW n \in 1..N, n - 1 \in S PROVE n \in S
        <4>1. CASE n = 1
          <5>1. flat[n] = ss[n]
            BY <2>5, <4>1
          <5> QED
            BY <1>1, <5>1
        <4>2. CASE n # 1
          <5>1. n - 1 # 0 /\ flat[n - 1] \in X
            BY <3>2, <4>2
          <5>3. flat[n] = flat[n - 1] \o ss[n]
            BY <2>5, <4>2, Zenon
          <5>2. flat[n] \in X
            <6> HIDE DEF X
            <6> QED BY <1>2, <5>1, <5>3
          <5> QED
            BY <5>2
        <4> QED
          BY <4>1, <4>2
      <3> HIDE DEF S
      <3> QED
        BY <1>1, <3>1, <3>2, EachStep
    <2> DEFINE f == [n \in 0..N |-> IF n = 0 THEN <<>> ELSE flat[n]]
    <2>8. f \in [0..N -> X] /\ f[0] = <<>> /\ f[N] = flat[N]
      BY <1>1, <1>5, <2>7
    <2>9. ASSUME NEW n \in 1..N PROVE f[n] = f[n - 1] \o ss[n]
      <3>1. CASE n = 1
        <4>1. f[n] = ss[n] /\ f[n - 1] = <<>>
          BY <2>5, <3>1
        <4>2. <<>> \o ss[n] = ss[n]
          BY <1>1, ConcatEmptySeq
        <4> QED
          BY <4>1, <4>2
      <3>2. CASE n # 1
        <4>1. flat[n] = flat[n - 1] \o ss[n]
          BY <2>5, <3>2, Zenon
        <4>2. n \in 0..N /\ n - 1 \in 0..N /\ n # 0 /\ n - 1 # 0
          BY <1>1, <3>2
        <4>3. f[n] = flat[n] /\ f[n - 1] = flat[n - 1]
          BY <4>2, Zenon
        <4> QED
          BY <4>1, <4>3
      <3> QED
        BY <3>1, <3>2
    <2> HIDE DEF f
    <2>10. FlatteningIs(ss, f)
      BY <2>8, <2>9 DEF FlatteningIs
    <2> QED
      BY <2>6, <2>8, <2>10
  <1> QED
    BY <1>4, <1>5

\* Words and rows of some texts; what the recogniser returns of a piece.
Word(T)    == [start : Int, end : Int, text : T, stop : BOOLEAN]
SpeechRow(T) == [start : Int, end : Int, words : Seq(T), confidence : Int]
Segment(T) == [start : Int, end : Int, words : Seq(Word(T)), confidence : Int]

\* A row of the words from the a-th to the b-th.
RowIs(row, words, a, b) ==
  /\ a \in 1..Len(words) /\ b \in a..Len(words)
  /\ row.start = words[a].start /\ row.end = words[b].end
  /\ Len(row.words) = b - a + 1
  /\ \A k \in 1..b - a + 1 : row.words[k] = words[a + k - 1].text

\* The last word of a row.
LEMMA LastOfRowParts ==
  ASSUME NEW T, NEW words \in Seq(Word(T)), NEW n \in 1..Len(words), NEW limit \in Nat
  PROVE  /\ Speech!LastOfRow(words, n, limit) \in n..Len(words)
         /\ \/ Speech!LastOfRow(words, n, limit) = n
            \/ words[Speech!LastOfRow(words, n, limit)].end <= words[n].start + limit
  <1> DEFINE N == Len(words)
             fitting == Speech!Fitting(words, n, limit)
             stops == {m \in fitting : words[m].stop}
             last == Speech!LastOfRow(words, n, limit)
  <1>1. N \in Nat /\ n \in Int
    OBVIOUS
  <1>2. \A m \in fitting : m \in n..N /\ words[m].end <= words[n].start + limit
    BY DEF Speech!Fitting
  <1>3. last = IF stops # {} THEN Speech!Max(stops) ELSE Speech!Max(fitting \cup {n})
    BY DEF Speech!LastOfRow
  <1> HIDE DEF fitting, last, N
  <1>4. CASE stops # {}
    <2>1. stops \in SUBSET (1..N)
      BY <1>1, <1>2 DEF N
    <2>2. Speech!Max(stops) \in stops
      <3> HIDE DEF stops
      <3> QED
        BY <1>1, <1>4, <2>1, Extremes
    <2> QED
      BY <1>2, <1>3, <1>4, <2>2 DEF last, N
  <1>5. CASE stops = {}
    <2> DEFINE all == fitting \cup {n}
    <2>1. all \in SUBSET (1..N) /\ all # {}
      BY <1>1, <1>2 DEF N
    <2>2. Speech!Max(all) \in all
      <3> HIDE DEF all
      <3> QED
        BY <1>1, <2>1, Extremes
    <2>3. last = Speech!Max(all)
      BY <1>3, <1>5
    <2> QED
      BY <1>1, <1>2, <2>2, <2>3 DEF last, N
  <1> QED
    BY <1>4, <1>5

\* The rows so far, and the last word of each.
CutsAre(words, limit, rows, cut) ==
  /\ cut \in [0..Len(rows) -> 0..Len(words)] /\ cut[0] = 0
  /\ \A r \in 1..Len(rows) :
       /\ cut[r - 1] < cut[r] /\ RowIs(rows[r], words, cut[r - 1] + 1, cut[r])
       /\ cut[r] = cut[r - 1] + 1 \/ rows[r].end - rows[r].start <= limit

SplittingIs(segment, limit, s) ==
  s = [n \in 0..Len(segment.words) |->
         IF n = 0 THEN [rows |-> <<>>, last |-> 0]
         ELSE LET acc == s[n - 1]
                  m   == Speech!LastOfRow(segment.words, n, limit)
              IN IF acc.last >= n THEN acc
                 ELSE [rows |-> Append(acc.rows, Speech!RowOf(segment, n, m)), last |-> m]]

\* What is split so far.
Splits(T, N) == [rows : Seq(SpeechRow(T)), last : 0..N]

\* The row of the words n to m.
LEMMA RowOfParts ==
  ASSUME NEW T, NEW segment \in Segment(T), NEW n \in 1..Len(segment.words), NEW m \in n..Len(segment.words)
  PROVE  /\ Speech!RowOf(segment, n, m) \in SpeechRow(T)
         /\ RowIs(Speech!RowOf(segment, n, m), segment.words, n, m)
         /\ Speech!RowOf(segment, n, m).confidence = segment.confidence
  <1> DEFINE words == segment.words
             N == Len(words)
             text == [k \in 1..m - n + 1 |-> words[n + k - 1].text]
             row == Speech!RowOf(segment, n, m)
  <1>1. words \in Seq(Word(T)) /\ N \in Nat /\ n \in Nat /\ m \in Nat /\ n <= m /\ m <= N
        /\ segment.confidence \in Int
    BY DEF Segment
  <1>2. row = [start |-> words[n].start, end |-> words[m].end, confidence |-> segment.confidence, words |-> text]
    BY DEF Speech!RowOf
  <1>3. \A k \in 1..N : words[k].start \in Int /\ words[k].end \in Int /\ words[k].text \in T
    <2> HIDE DEF words
    <2>1. \A k \in 1..N : words[k] \in Word(T)
      BY <1>1
    <2> HIDE DEF N
    <2> QED
      BY <2>1 DEF Word
  <1>4. text \in [1..m - n + 1 -> T]
    <2>1. ASSUME NEW k \in 1..m - n + 1 PROVE n + k - 1 \in 1..N
      BY <1>1
    <2> HIDE DEF words, N
    <2> QED
      BY <1>3, <2>1
  <1> HIDE DEF words, row
  <1>5. text \in Seq(T) /\ Len(text) = m - n + 1 /\ \A k \in 1..m - n + 1 : text[k] = words[n + k - 1].text
    <2>1. \A k \in 1..m - n + 1 : text[k] = words[n + k - 1].text
      OBVIOUS
    <2> HIDE DEF text
    <2>2. m - n + 1 \in Nat
      BY <1>1
    <2> QED
      BY <1>4, <2>1, <2>2, ASequence
  <1> HIDE DEF text
  <1>6. row \in SpeechRow(T)
    BY <1>1, <1>2, <1>3, <1>5 DEF SpeechRow
  <1>7. RowIs(row, words, n, m)
    BY <1>1, <1>2, <1>5 DEF RowIs
  <1> QED
    BY <1>2, <1>6, <1>7 DEF row, words

\* The loop of _split_words obeys its recursion.
LEMMA SplittingDef ==
  ASSUME NEW T, NEW segment \in Segment(T), NEW limit \in Nat
  PROVE  SplittingIs(segment, limit, Speech!Splitting(segment, limit))
  <1> DEFINE words == segment.words
             N == Len(words)
             X == Splits(T, N)
             M(n) == Speech!LastOfRow(words, n, limit)
             Step(n, acc) == IF acc.last >= n THEN acc
                             ELSE [rows |-> Append(acc.rows, Speech!RowOf(segment, n, M(n))), last |-> M(n)]
             step == [n \in 1..N |-> [x \in X |-> Step(n, x)]]
             base == [rows |-> <<>>, last |-> 0]
             after == CHOOSE f : f = [n \in 0..N |->
                        IF n = 0 THEN [rows |-> <<>>, last |-> 0]
                        ELSE LET acc == f[n - 1]
                                 m   == Speech!LastOfRow(segment.words, n, limit)
                             IN IF acc.last >= n THEN acc
                                ELSE [rows |-> Append(acc.rows, Speech!RowOf(segment, n, m)), last |-> m]]
  <1>1. words \in Seq(Word(T)) /\ N \in Nat
    BY DEF Segment
  <1>2. base \in X
    BY <1>1 DEF Splits
  <1>3. ASSUME NEW n \in 1..N, NEW x \in X PROVE Step(n, x) \in X
    <2>1. M(n) \in n..N
      BY <1>1, LastOfRowParts
    <2>2. Speech!RowOf(segment, n, M(n)) \in SpeechRow(T)
      <3> HIDE DEF M
      <3> QED
        BY <2>1, RowOfParts
    <2>3. x.rows \in Seq(SpeechRow(T))
      BY DEF Splits
    <2>4. Append(x.rows, Speech!RowOf(segment, n, M(n))) \in Seq(SpeechRow(T))
      <3> HIDE DEF M
      <3> QED
        BY <2>2, <2>3, AppendProperties
    <2>5. M(n) \in 0..N
      <3> HIDE DEF M
      <3> QED
        BY <1>1, <2>1
    <2> HIDE DEF M
    <2>6. [rows |-> Append(x.rows, Speech!RowOf(segment, n, M(n))), last |-> M(n)] \in X
      BY <2>4, <2>5 DEF Splits
    <2> HIDE DEF X
    <2> QED
      BY <2>6
  <1>4. step \in [1..N -> [X -> X]]
    <2> HIDE DEF Step, X, N
    <2> QED
      BY <1>3
  <1>5. PICK g \in [0..N -> X] : Recurs(g, N, base, step)
    <2> HIDE DEF step, X, N, base
    <2> QED
      BY <1>1, <1>2, <1>4, Recursion
  <1>6. g = [n \in 0..N |-> IF n = 0 THEN base ELSE Step(n, g[n - 1])]
    <2>1. ASSUME NEW n \in 0..N, n # 0 PROVE step[n][g[n - 1]] = Step(n, g[n - 1])
      <3>1. n - 1 \in 0..N /\ n \in 1..N
        BY <2>1
      <3>2. g[n - 1] \in X
        BY <3>1
      <3> HIDE DEF Step, X
      <3> QED
        BY <3>1, <3>2
    <2> HIDE DEF step, base
    <2> QED
      BY <1>5, <2>1 DEF Recurs
  <1>7. after = [n \in 0..N |->
                   IF n = 0 THEN [rows |-> <<>>, last |-> 0]
                   ELSE LET acc == after[n - 1]
                            m   == Speech!LastOfRow(segment.words, n, limit)
                        IN IF acc.last >= n THEN acc
                           ELSE [rows |-> Append(acc.rows, Speech!RowOf(segment, n, m)), last |-> m]]
    <2> HIDE DEF N
    <2> QED
      BY <1>6, Zenon DEF Step, base, M, words
  <1>8. Speech!Splitting(segment, limit) = after
    BY Zenon DEF Speech!Splitting, N, words
  <1> HIDE DEF after
  <1>9. SplittingIs(segment, limit, after)
    BY <1>7, Zenon DEF SplittingIs, N, words
  <1> QED
    BY <1>8, <1>9

CutUpTo(words, limit, rows, c) == \E cut : CutsAre(words, limit, rows, cut) /\ cut[Len(rows)] = c

\* What has been split when n words have been looked at.
SplitUpTo(T, segment, limit, acc, n) ==
  /\ acc.rows \in Seq(SpeechRow(T)) /\ acc.last \in n..Len(segment.words)
  /\ \A r \in 1..Len(acc.rows) : acc.rows[r].confidence = segment.confidence
  /\ CutUpTo(segment.words, limit, acc.rows, acc.last)

\* A row that begins after the last word of the others is added to them.
LEMMA NextCut ==
  ASSUME NEW T, NEW words \in Seq(Word(T)), NEW limit \in Nat, NEW rows \in Seq(SpeechRow(T)),
         NEW row \in SpeechRow(T), NEW a \in Nat, NEW b, CutUpTo(words, limit, rows, a - 1),
         RowIs(row, words, a, b), b = a \/ row.end - row.start <= limit
  PROVE  CutUpTo(words, limit, Append(rows, row), b)
  <1>0. PICK cut : CutsAre(words, limit, rows, cut) /\ cut[Len(rows)] = a - 1
    BY DEF CutUpTo
  <1> DEFINE L == Len(rows)
             N == Len(words)
             new == Append(rows, row)
             more == [r \in 0..L + 1 |-> IF r = L + 1 THEN b ELSE cut[r]]
  <1>1. L \in Nat /\ N \in Nat
    OBVIOUS
  <1>2. new \in Seq(SpeechRow(T)) /\ Len(new) = L + 1 /\ new[L + 1] = row /\ \A r \in 1..L : new[r] = rows[r]
    BY AppendProperties
  <1>3. /\ cut \in [0..L -> 0..N] /\ cut[0] = 0
        /\ \A r \in 1..L : /\ cut[r - 1] < cut[r] /\ RowIs(rows[r], words, cut[r - 1] + 1, cut[r])
                           /\ cut[r] = cut[r - 1] + 1 \/ rows[r].end - rows[r].start <= limit
    BY <1>0 DEF CutsAre
  <1>4. cut[L] \in 0..N
    BY <1>1, <1>3
  <1>5. b \in 0..N /\ cut[L] < b
    BY <1>0, <1>1, <1>4 DEF RowIs
  <1> HIDE DEF L, N, new
  <1>6. more \in [0..L + 1 -> 0..N]
    BY <1>1, <1>3, <1>5
  <1>7. more[0] = 0 /\ more[L + 1] = b /\ \A r \in 0..L : more[r] = cut[r]
    BY <1>1, <1>3
  <1> HIDE DEF more
  <1>8. ASSUME NEW r \in 1..L + 1
        PROVE  /\ more[r - 1] < more[r] /\ RowIs(new[r], words, more[r - 1] + 1, more[r])
               /\ more[r] = more[r - 1] + 1 \/ new[r].end - new[r].start <= limit
    <2>1. CASE r = L + 1
      <3>1. more[r - 1] = cut[L] /\ more[r] = b /\ new[r] = row
        BY <1>1, <1>2, <1>7, <2>1
      <3> QED
        BY <1>0, <1>5, <3>1 DEF L
    <2>2. CASE r \in 1..L
      <3>1. r \in 0..L /\ r - 1 \in 0..L
        BY <1>1, <2>2
      <3>2. more[r - 1] = cut[r - 1] /\ more[r] = cut[r] /\ new[r] = rows[r]
        BY <1>2, <1>7, <2>2, <3>1
      <3> QED
        BY <1>3, <2>2, <3>2
    <2> QED
      BY <1>1, <2>1, <2>2
  <1>9. CutsAre(words, limit, new, more)
    BY <1>2, <1>6, <1>7, <1>8 DEF CutsAre, N
  <1> QED
    BY <1>2, <1>7, <1>9 DEF new, CutUpTo

\* After n words, the rows have the words up to one that is not before the n-th.
LEMMA SplittingKeeps ==
  ASSUME NEW T, NEW segment \in Segment(T), NEW limit \in Nat
  PROVE  \A n \in 0..Len(segment.words) : SplitUpTo(T, segment, limit, Speech!Splitting(segment, limit)[n], n)
  <1> DEFINE words == segment.words
             N == Len(words)
             s == Speech!Splitting(segment, limit)
             S == {n \in Nat : SplitUpTo(T, segment, limit, s[n], n)}
  <1>1. words \in Seq(Word(T)) /\ N \in Nat
    BY DEF Segment
  <1>2. SplittingIs(segment, limit, s)
    BY SplittingDef
  <1> HIDE DEF s
  <1>3. 0 \in S
    <2> DEFINE cut == [n \in 0..0 |-> 0]
    <2>1. s[0] = [rows |-> <<>>, last |-> 0]
      BY <1>1, <1>2 DEF SplittingIs
    <2>2. CutsAre(words, limit, <<>>, cut) /\ cut[Len(<<>>)] = 0
      BY <1>1 DEF CutsAre
    <2> HIDE DEF cut
    <2>3. SplitUpTo(T, segment, limit, [rows |-> <<>>, last |-> 0], 0)
      BY <1>1, <2>2 DEF SplitUpTo, CutUpTo
    <2> QED
      BY <2>1, <2>3
  <1>4. ASSUME NEW n \in 1..N, n - 1 \in S PROVE n \in S
    <2> DEFINE acc == s[n - 1]
               m == Speech!LastOfRow(words, n, limit)
               row == Speech!RowOf(segment, n, m)
    <2>1. s[n] = IF acc.last >= n THEN acc ELSE [rows |-> Append(acc.rows, row), last |-> m]
      <3>1. n \in 0..N /\ n # 0
        BY <1>1
      <3> HIDE DEF S
      <3> QED
        BY <1>2, <3>1, Zenon DEF SplittingIs, words
    <2>2. SplitUpTo(T, segment, limit, acc, n - 1)
      BY <1>4
    <2> HIDE DEF acc, m
    <2>3. CASE acc.last >= n
      <3>1. SplitUpTo(T, segment, limit, acc, n)
        BY <1>1, <2>2, <2>3 DEF SplitUpTo
      <3> QED
        BY <2>1, <2>3, <3>1
    <2>4. CASE ~(acc.last >= n)
      <3>1. acc.last = n - 1 /\ acc.rows \in Seq(SpeechRow(T))
            /\ \A r \in 1..Len(acc.rows) : acc.rows[r].confidence = segment.confidence
        BY <1>1, <2>2, <2>4 DEF SplitUpTo
      <3>2. CutUpTo(words, limit, acc.rows, n - 1)
        BY <2>2, <3>1 DEF SplitUpTo
      <3>3. m \in n..N /\ (m = n \/ words[m].end <= words[n].start + limit)
        BY <1>1, LastOfRowParts DEF m
      <3>4. row \in SpeechRow(T) /\ RowIs(row, words, n, m) /\ row.confidence = segment.confidence
        BY <1>1, <3>3, RowOfParts
      <3> DEFINE new == Append(acc.rows, row)
      <3> HIDE DEF row
      <3>6. m = n \/ row.end - row.start <= limit
        <4>1. row.start = words[n].start /\ row.end = words[m].end
          BY <3>4 DEF RowIs
        <4>2. row.start \in Int /\ row.end \in Int
          BY <3>4 DEF SpeechRow
        <4> QED
          BY <3>3, <4>1, <4>2
      <3> HIDE DEF words, N
      <3>7. CutUpTo(words, limit, new, m)
        <4> DEFINE rows == acc.rows
        <4>1. rows \in Seq(SpeechRow(T)) /\ CutUpTo(words, limit, rows, n - 1)
          BY <3>1, <3>2
        <4>2. row \in SpeechRow(T) /\ words \in Seq(Word(T)) /\ RowIs(row, words, n, m) /\ n \in Nat
          BY <1>1, <3>4
        <4> HIDE DEF rows
        <4> QED
          BY <3>6, <4>1, <4>2, NextCut DEF rows
      <3>8. new \in Seq(SpeechRow(T)) /\ \A r \in 1..Len(new) : new[r].confidence = segment.confidence
        <4> DEFINE L == Len(acc.rows)
        <4>1. /\ new \in Seq(SpeechRow(T)) /\ Len(new) = L + 1 /\ new[L + 1] = row /\ L \in Nat
              /\ \A r \in 1..L : new[r] = acc.rows[r]
          BY <3>1, <3>4, AppendProperties
        <4>2. ASSUME NEW r \in 1..L + 1 PROVE new[r].confidence = segment.confidence
          <5> HIDE DEF L, new
          <5>1. CASE r = L + 1
            BY <3>4, <4>1, <5>1
          <5>2. CASE r \in 1..L
            BY <3>1, <4>1, <5>2 DEF L
          <5> QED
            BY <4>1, <5>1, <5>2
        <4> QED
          BY <4>1, <4>2
      <3> HIDE DEF new
      <3>9. SplitUpTo(T, segment, limit, [rows |-> new, last |-> m], n)
        BY <3>3, <3>7, <3>8 DEF SplitUpTo, words, N
      <3>10. s[n] = [rows |-> new, last |-> m]
        BY <2>1, <2>4 DEF new
      <3> QED
        BY <3>9, <3>10
    <2> QED
      BY <2>3, <2>4
  <1>5. \A n \in 0..N : n \in S
    <2> HIDE DEF S, N
    <2> QED
      BY <1>1, <1>3, <1>4, EachStep
  <1> QED
    BY <1>5 DEF s

\* The rows of a segment's words: all words, each once.
LEMMA SplitWordsParts ==
  ASSUME NEW T, NEW segment \in Segment(T), NEW limit \in Nat
  PROVE  /\ Speech!SplitWords(segment, limit) \in Seq(SpeechRow(T))
         /\ \A r \in 1..Len(Speech!SplitWords(segment, limit)) :
              Speech!SplitWords(segment, limit)[r].confidence = segment.confidence
         /\ CutUpTo(segment.words, limit, Speech!SplitWords(segment, limit), Len(segment.words))
  <1> DEFINE N == Len(segment.words)
             acc == Speech!Splitting(segment, limit)[N]
  <1>1. N \in Nat
    BY DEF Segment
  <1>2. SplitUpTo(T, segment, limit, acc, N)
    BY <1>1, SplittingKeeps
  <1>3. Speech!SplitWords(segment, limit) = acc.rows
    BY DEF Speech!SplitWords
  <1> HIDE DEF acc
  <1>4. acc.last = N
    BY <1>1, <1>2 DEF SplitUpTo
  <1> QED
    BY <1>2, <1>3, <1>4 DEF SplitUpTo

\* Words that do not overlap, in their order.
InTurn(words) ==
  /\ \A i \in 1..Len(words) : words[i].start < words[i].end
  /\ \A i, j \in 1..Len(words) : i < j => words[i].end <= words[j].start

\* Words of which each one ends before the next one begins do not overlap.
LEMMA Successive ==
  ASSUME NEW T, NEW words \in Seq(Word(T)), \A n \in 1..Len(words) : words[n].start < words[n].end,
         \A n \in 1..Len(words) - 1 : words[n].end <= words[n + 1].start
  PROVE  InTurn(words)
  <1> DEFINE N == Len(words)
             S == {j \in Nat : \A i \in 1..N : i < j /\ j <= N => words[i].end <= words[j].start}
  <1>1. N \in Nat /\ \A n \in 1..N : words[n].start \in Int /\ words[n].end \in Int
    <2>1. \A n \in 1..N : words[n] \in Word(T)
      OBVIOUS
    <2> QED
      BY <2>1 DEF Word
  <1>2. 0 \in S
    OBVIOUS
  <1>3. ASSUME NEW j \in 1..N, j - 1 \in S PROVE j \in S
    <2> SUFFICES ASSUME NEW i \in 1..N, i < j PROVE words[i].end <= words[j].start
      BY <1>1
    <2>1. i \in Nat /\ j \in Nat /\ j - 1 \in 1..N - 1 /\ j - 1 \in 1..N /\ (j - 1) + 1 = j
      BY <1>1
    <2>2. words[j - 1].end <= words[j].start
      BY <2>1
    <2>3. CASE i = j - 1
      BY <2>2, <2>3
    <2>4. CASE i # j - 1
      <3>1. i < j - 1 /\ j - 1 <= N
        BY <2>1, <2>4
      <3>2. words[i].end <= words[j - 1].start
        BY <1>3, <3>1
      <3>3. words[j - 1].start < words[j - 1].end
        BY <2>1
      <3> QED
        BY <1>1, <2>1, <2>2, <3>2, <3>3
    <2> QED
      BY <2>3, <2>4
  <1>4. \A j \in 0..N : j \in S
    <2> HIDE DEF S, N
    <2> QED
      BY <1>1, <1>2, <1>3, EachStep
  <1>5. ASSUME NEW i \in 1..N, NEW j \in 1..N, i < j PROVE words[i].end <= words[j].start
    <2>1. j \in S
      <3> HIDE DEF S
      <3> QED
        BY <1>1, <1>4
    <2>2. j <= N
      BY <1>1
    <2> QED
      BY <1>5, <2>1, <2>2
  <1> QED
    BY <1>5 DEF InTurn

\* One sequence alone.
LEMMA FlattenOne ==
  ASSUME NEW E, NEW s \in Seq(E)
  PROVE  Speech!FlattenSeq(<<s>>) = s
  <1> DEFINE ss == <<s>>
  <1>1. ss \in Seq(Seq(E)) /\ Len(ss) = 1 /\ ss[1] = s
    OBVIOUS
  <1> HIDE DEF ss
  <1>2. PICK f \in [0..Len(ss) -> Seq(E)] : FlatteningIs(ss, f) /\ Speech!FlattenSeq(ss) = f[Len(ss)]
    BY <1>1, FlattenDef
  <1>3. f[1] = <<>> \o s
    <2>1. 1 \in 1..Len(ss) /\ 1 - 1 = 0
      BY <1>1
    <2>2. f[0] = <<>> /\ f[1] = f[1 - 1] \o ss[1]
      BY <1>2, <2>1, Zenon DEF FlatteningIs
    <2> QED
      BY <1>1, <2>1, <2>2, Zenon
  <1>4. <<>> \o s = s
    BY ConcatEmptySeq
  <1>5. Speech!FlattenSeq(ss) = s
    BY <1>1, <1>2, <1>3, <1>4
  <1> QED
    BY <1>5 DEF ss

\* A split that is not the whole segment has all its words, in order.
LEMMA SplitParts ==
  ASSUME NEW T, NEW segment \in Segment(T), NEW limit \in Nat
  PROVE  \/ Speech!Split(segment, limit) = <<Speech!Whole(segment)>>
         \/ /\ Speech!Usable(segment)
            /\ Speech!Split(segment, limit) \in Seq(SpeechRow(T))
            /\ \A r \in 1..Len(Speech!Split(segment, limit)) : Speech!Split(segment, limit)[r].confidence = segment.confidence
            /\ CutUpTo(segment.words, limit, Speech!Split(segment, limit), Len(segment.words))
  <1> DEFINE split == Speech!SplitWords(segment, limit)
  <1>1. Speech!Split(segment, limit) = <<Speech!Whole(segment)>>
        \/ (Speech!Usable(segment) /\ Speech!Split(segment, limit) = split)
    BY Zenon DEF Speech!Split
  <1>2. /\ split \in Seq(SpeechRow(T)) /\ \A r \in 1..Len(split) : split[r].confidence = segment.confidence
        /\ CutUpTo(segment.words, limit, split, Len(segment.words))
    BY SplitWordsParts
  <1> HIDE DEF split
  <1> QED
    BY <1>1, <1>2

\* The words that can be trusted are in turn, and in their segment.
LEMMA UsableParts ==
  ASSUME NEW T, NEW segment \in Segment(T), Speech!Usable(segment)
  PROVE  /\ InTurn(segment.words) /\ Len(segment.words) # 0
         /\ \A i \in 1..Len(segment.words) : segment.start <= segment.words[i].start /\ segment.words[i].end <= segment.end
  <1> DEFINE words == segment.words
             N == Len(words)
  <1>1. words \in Seq(Word(T)) /\ N \in Nat /\ segment.start \in Int /\ segment.end \in Int
    BY DEF Segment
  <1>2. /\ words # <<>> /\ words[1].start >= segment.start /\ words[N].end <= segment.end
        /\ \A n \in 1..N : words[n].start < words[n].end
        /\ \A n \in 1..N - 1 : words[n].end <= words[n + 1].start
    BY <1>1 DEF Speech!Usable, Speech!Last
  <1> HIDE DEF words
  <1>3. InTurn(words)
    BY <1>1, <1>2, Successive
  <1>4. N # 0
    BY <1>1, <1>2
  <1>5. \A n \in 1..N : words[n].start \in Int /\ words[n].end \in Int
    <2>1. \A n \in 1..N : words[n] \in Word(T)
      BY <1>1
    <2> QED
      BY <2>1 DEF Word
  <1>6. ASSUME NEW i \in 1..N PROVE segment.start <= words[i].start /\ words[i].end <= segment.end
    <2>1. 1 \in 1..N /\ N \in 1..N
      BY <1>1, <1>4
    <2>2. i = 1 \/ words[1].end <= words[i].start
      BY <1>3, <2>1 DEF InTurn
    <2>3. i = N \/ words[i].end <= words[N].start
      BY <1>1, <1>3, <2>1 DEF InTurn
    <2>4. words[1].start < words[1].end /\ words[N].start < words[N].end
      BY <1>2, <2>1
    <2> QED
      BY <1>1, <1>2, <1>5, <2>1, <2>2, <2>3, <2>4
  <1> QED
    BY <1>3, <1>4, <1>6 DEF words

\* The words of the rows, one row after the other, are the words of the segment.
LEMMA RowsHaveTheWords ==
  ASSUME NEW T, NEW words \in Seq(Word(T)), NEW limit \in Nat, NEW rows \in Seq(SpeechRow(T)),
         CutUpTo(words, limit, rows, Len(words))
  PROVE  Speech!FlattenSeq([n \in DOMAIN rows |-> rows[n].words]) = [n \in DOMAIN words |-> words[n].text]
  <1> DEFINE L == Len(rows)
             N == Len(words)
             ss == [n \in 1..L |-> rows[n].words]
             texts == [n \in 1..N |-> words[n].text]
  <1>1. L \in Nat /\ N \in Nat /\ DOMAIN rows = 1..L /\ DOMAIN words = 1..N
    OBVIOUS
  <1>2. \A n \in 1..L : rows[n].words \in Seq(T)
    <2>1. \A n \in 1..L : rows[n] \in SpeechRow(T)
      OBVIOUS
    <2> QED
      BY <2>1 DEF SpeechRow
  <1>3. \A n \in 1..N : words[n].text \in T
    <2>1. \A n \in 1..N : words[n] \in Word(T)
      OBVIOUS
    <2> QED
      BY <2>1 DEF Word
  <1>4. PICK cut : CutsAre(words, limit, rows, cut) /\ cut[L] = N
    BY DEF CutUpTo
  <1>5. /\ cut \in [0..L -> 0..N] /\ cut[0] = 0
        /\ \A r \in 1..L : cut[r - 1] < cut[r] /\ RowIs(rows[r], words, cut[r - 1] + 1, cut[r])
    BY <1>4 DEF CutsAre
  <1> HIDE DEF L, N
  <1>6. ss \in Seq(Seq(T)) /\ Len(ss) = L /\ \A r \in 1..L : ss[r] = rows[r].words
    <2>1. ss \in [1..L -> Seq(T)] /\ \A r \in 1..L : ss[r] = rows[r].words
      BY <1>2
    <2> HIDE DEF ss
    <2> QED
      BY <1>1, <2>1, ASequence
  <1> HIDE DEF ss
  <1>7. PICK f \in [0..Len(ss) -> Seq(T)] : FlatteningIs(ss, f) /\ Speech!FlattenSeq(ss) = f[Len(ss)]
    BY <1>6, FlattenDef
  <1> DEFINE First(s, m) == Len(s) = m /\ \A k \in 1..m : s[k] = words[k].text
             S == {r \in Nat : r \in 0..L => First(f[r], cut[r])}
  <1>8. 0 \in S
    <2>1. f[0] = <<>>
      BY <1>7 DEF FlatteningIs
    <2>2. First(<<>>, 0)
      OBVIOUS
    <2> HIDE DEF First
    <2> QED
      BY <1>5, <2>1, <2>2
  <1>9. ASSUME NEW r \in 1..L, r - 1 \in S PROVE r \in S
    <2> DEFINE c == cut[r - 1]
               d == cut[r]
               s == f[r - 1]
               t == rows[r].words
    <2>1. r \in Nat /\ r \in 0..L /\ r - 1 \in 0..L
      BY <1>1
    <2>2. c \in 0..N /\ d \in 0..N /\ c < d /\ RowIs(rows[r], words, c + 1, d)
      BY <1>5, <2>1
    <2>3. f[r] = s \o t /\ s \in Seq(T) /\ t \in Seq(T)
      BY <1>2, <1>6, <1>7, <2>1 DEF FlatteningIs
    <2>4. First(s, c)
      BY <1>9, <2>1
    <2> HIDE DEF c, d, s, t
    <2>5. Len(t) = d - c /\ \A k \in 1..d - c : t[k] = words[c + k].text
      <3>1. Len(t) = d - (c + 1) + 1 /\ \A k \in 1..d - (c + 1) + 1 : t[k] = words[c + 1 + k - 1].text
        BY <2>2 DEF RowIs, t
      <3>2. c \in Int /\ d \in Int /\ d - (c + 1) + 1 = d - c
        BY <1>1, <2>2
      <3>3. ASSUME NEW k \in 1..d - c PROVE c + 1 + k - 1 = c + k
        BY <3>2
      <3> QED
        BY <3>1, <3>2, <3>3
    <2>6. /\ s \o t \in Seq(T) /\ Len(s \o t) = d
          /\ \A k \in 1..Len(s) + Len(t) : (s \o t)[k] = IF k <= Len(s) THEN s[k] ELSE t[k - Len(s)]
      <3>1. /\ s \o t \in Seq(T) /\ Len(s \o t) = Len(s) + Len(t)
            /\ \A k \in 1..Len(s) + Len(t) : (s \o t)[k] = IF k <= Len(s) THEN s[k] ELSE t[k - Len(s)]
        BY <2>3, ConcatProperties
      <3>2. Len(s) = c /\ c \in Int /\ d \in Int
        BY <1>1, <2>2, <2>4
      <3>3. Len(t) = d - c
        BY <2>5
      <3>4. Len(s) + Len(t) = d
        BY <3>2, <3>3
      <3> QED
        BY <3>1, <3>4, Zenon
    <2> DEFINE u == s \o t
    <2> HIDE DEF u
    <2>7. ASSUME NEW k \in 1..d PROVE u[k] = words[k].text
      <3>1. k \in Nat /\ c \in Nat /\ d \in Nat /\ Len(s) = c /\ Len(t) = d - c /\ k \in 1..Len(s) + Len(t)
        BY <1>1, <2>2, <2>4, <2>5
      <3>2. CASE k <= c
        <4>1. u[k] = s[k] /\ k \in 1..c
          BY <2>6, <3>1, <3>2 DEF u
        <4> QED
          BY <2>4, <4>1
      <3>3. CASE ~(k <= c)
        <4>1. u[k] = t[k - c] /\ k - c \in 1..d - c /\ c + (k - c) = k
          BY <2>6, <3>1, <3>3 DEF u
        <4> QED
          BY <2>5, <4>1
      <3> QED
        BY <3>2, <3>3
    <2>8. First(u, d)
      BY <2>6, <2>7 DEF u
    <2> HIDE DEF First
    <2> QED
      BY <2>1, <2>3, <2>8 DEF u, d
  <1>10. \A r \in 0..L : r \in S
    <2> HIDE DEF S
    <2> QED
      BY <1>1, <1>8, <1>9, EachStep
  <1>11. First(f[L], N)
    <2> HIDE DEF First
    <2> QED
      BY <1>1, <1>4, <1>10
  <1>12. f[L] \in Seq(T)
    BY <1>1, <1>6, <1>7
  <1>13. f[L] = texts
    <2>1. texts \in Seq(T) /\ Len(texts) = N /\ \A k \in 1..N : texts[k] = words[k].text
      <3>1. texts \in [1..N -> T] /\ \A k \in 1..N : texts[k] = words[k].text
        BY <1>3
      <3> HIDE DEF texts
      <3> QED
        BY <1>1, <3>1, ASequence
    <2> HIDE DEF texts
    <2> QED
      <3> DEFINE u == f[L]
      <3>1. u \in Seq(T) /\ Len(u) = N /\ \A k \in 1..N : u[k] = texts[k]
        BY <1>11, <1>12, <2>1
      <3> HIDE DEF u
      <3> QED
        BY <2>1, <3>1, SeqEqual DEF u
  <1>14. [n \in DOMAIN rows |-> rows[n].words] = ss /\ [n \in DOMAIN words |-> words[n].text] = texts
    BY <1>1 DEF ss
  <1> QED
    BY <1>6, <1>7, <1>13, <1>14

\* The rows of words that do not overlap do not overlap either.
LEMMA RowsInTurn ==
  ASSUME NEW T, NEW words \in Seq(Word(T)), InTurn(words), NEW limit \in Nat, NEW rows \in Seq(SpeechRow(T)),
         CutUpTo(words, limit, rows, Len(words)), NEW r \in 1..Len(rows)
  PROVE  /\ \E i, j \in 1..Len(words) : RowIs(rows[r], words, i, j)
         /\ rows[r].end - rows[r].start <= limit \/ Len(rows[r].words) = 1
         /\ r > 1 => rows[r - 1].end <= rows[r].start
  <1> DEFINE L == Len(rows)
             N == Len(words)
  <1>1. L \in Nat /\ N \in Nat
    OBVIOUS
  <1>2. PICK cut : CutsAre(words, limit, rows, cut) /\ cut[L] = N
    BY DEF CutUpTo
  <1>3. /\ cut \in [0..L -> 0..N] /\ cut[0] = 0
        /\ \A q \in 1..L : /\ cut[q - 1] < cut[q] /\ RowIs(rows[q], words, cut[q - 1] + 1, cut[q])
                           /\ cut[q] = cut[q - 1] + 1 \/ rows[q].end - rows[q].start <= limit
    BY <1>2 DEF CutsAre
  <1> DEFINE a == cut[r - 1]
             b == cut[r]
  <1>4. r - 1 \in 0..L /\ r \in 0..L
    BY <1>1
  <1>5. /\ a \in 0..N /\ b \in 0..N /\ a < b /\ RowIs(rows[r], words, a + 1, b)
        /\ b = a + 1 \/ rows[r].end - rows[r].start <= limit
    BY <1>3, <1>4
  <1> HIDE DEF a, b, L, N
  <1>6. a + 1 \in 1..N /\ b \in 1..N
    BY <1>1, <1>5
  <1>7. b = a + 1 => Len(rows[r].words) = 1
    <2>1. Len(rows[r].words) = b - (a + 1) + 1
      BY <1>5 DEF RowIs
    <2> QED
      BY <1>6, <2>1
  <1>8. ASSUME r > 1 PROVE rows[r - 1].end <= rows[r].start
    <2> DEFINE z == cut[r - 2]
    <2>1. r - 1 \in 1..L /\ r - 2 \in 0..L /\ (r - 1) - 1 = r - 2
      BY <1>1, <1>4, <1>8 DEF L
    <2>2. RowIs(rows[r - 1], words, cut[(r - 1) - 1] + 1, cut[r - 1])
      BY <1>3, <2>1
    <2>3. RowIs(rows[r - 1], words, z + 1, a)
      BY <2>1, <2>2, Zenon DEF a
    <2>4. z \in 0..N
      BY <1>3, <2>1
    <2> HIDE DEF z
    <2>5. a \in 1..N /\ rows[r - 1].end = words[a].end
      BY <1>1, <1>6, <2>3, <2>4 DEF RowIs, N
    <2>6. rows[r].start = words[a + 1].start
      BY <1>5 DEF RowIs
    <2>7. a < a + 1
      BY <1>5
    <2>8. words[a].end <= words[a + 1].start
      BY <1>6, <2>5, <2>7 DEF InTurn, N
    <2> QED
      BY <2>5, <2>6, <2>8
  <1> QED
    BY <1>5, <1>6, <1>7, <1>8 DEF N

\* Each word is in a row.
LEMMA WordsInRows ==
  ASSUME NEW T, NEW words \in Seq(Word(T)), NEW limit \in Nat, NEW rows \in Seq(SpeechRow(T)),
         CutUpTo(words, limit, rows, Len(words)), NEW k \in 1..Len(words)
  PROVE  \E r \in 1..Len(rows) : \E i, j \in 1..Len(words) : i <= k /\ k <= j /\ RowIs(rows[r], words, i, j)
  <1> DEFINE L == Len(rows)
             N == Len(words)
  <1>1. L \in Nat /\ N \in Nat
    OBVIOUS
  <1>2. PICK cut : CutsAre(words, limit, rows, cut) /\ cut[L] = N
    BY DEF CutUpTo
  <1>3. /\ cut \in [0..L -> 0..N] /\ cut[0] = 0
        /\ \A q \in 1..L : cut[q - 1] < cut[q] /\ RowIs(rows[q], words, cut[q - 1] + 1, cut[q])
    BY <1>2 DEF CutsAre
  <1> DEFINE Some(r) == \E q \in 1..L : q <= r /\ cut[q - 1] < k /\ k <= cut[q]
             S == {r \in Nat : r \in 0..L /\ k <= cut[r] => Some(r)}
  <1> HIDE DEF L, N
  <1>4. 0 \in S
    BY <1>1, <1>3
  <1>5. ASSUME NEW r \in 1..L, r - 1 \in S PROVE r \in S
    <2> SUFFICES ASSUME k <= cut[r] PROVE Some(r)
      BY <1>1
    <2>1. r - 1 \in 0..L /\ r - 1 \in Nat /\ r \in 0..L
      BY <1>1
    <2>2. cut[r - 1] \in Int /\ k \in Int
      BY <1>3, <2>1
    <2>3. CASE k <= cut[r - 1]
      <3>1. Some(r - 1)
        BY <1>5, <2>1, <2>3
      <3> QED
        BY <2>1, <3>1
    <2>4. CASE cut[r - 1] < k
      BY <2>1, <2>4
    <2> QED
      BY <2>2, <2>3, <2>4
  <1>6. \A r \in 0..L : r \in S
    <2> HIDE DEF S
    <2> QED
      BY <1>1, <1>4, <1>5, EachStep
  <1>7. L \in S /\ L \in 0..L /\ k <= cut[L]
    <2> HIDE DEF S
    <2> QED
      BY <1>1, <1>2, <1>6 DEF N
  <1>8. Some(L)
    BY <1>7
  <1>9. PICK q \in 1..L : cut[q - 1] < k /\ k <= cut[q]
    BY <1>8
  <1>10. cut[q - 1] \in 0..N /\ cut[q] \in 0..N /\ cut[q - 1] < cut[q] /\ RowIs(rows[q], words, cut[q - 1] + 1, cut[q])
    BY <1>1, <1>3, <1>9
  <1>11. cut[q - 1] + 1 \in 1..N /\ cut[q] \in 1..N /\ cut[q - 1] + 1 <= k
    BY <1>1, <1>9, <1>10 DEF N
  <1> DEFINE i == cut[q - 1] + 1
             j == cut[q]
  <1>12. i \in 1..N /\ j \in 1..N /\ i <= k /\ k <= j /\ RowIs(rows[q], words, i, j)
    BY <1>9, <1>10, <1>11
  <1> HIDE DEF i, j
  <1> QED
    BY <1>12 DEF L, N

\* A split of any segment, at any limit, keeps every word once and in order; its
\* rows follow each other in the segment, and none but a single word is longer
\* than the limit.
THEOREM AnySplitKeepsWords ==
  ASSUME NEW T, NEW segment \in Segment(T), NEW limit \in Nat
  PROVE  Speech!SplitKeepsWords(segment, limit)
  <1> DEFINE rows == Speech!Split(segment, limit)
             words == segment.words
             whole == Speech!Whole(segment)
             texts == [n \in DOMAIN words |-> words[n].text]
  <1>1. words \in Seq(Word(T)) /\ segment.start \in Int /\ segment.end \in Int
    BY DEF Segment
  <1>2. whole = [start |-> segment.start, end |-> segment.end, confidence |-> segment.confidence, words |-> texts]
    BY DEF Speech!Whole
  <1>3. texts \in Seq(T)
    <2> HIDE DEF words
    <2>1. DOMAIN words = 1..Len(words) /\ Len(words) \in Nat
      BY <1>1
    <2>2. \A n \in 1..Len(words) : words[n] \in Word(T)
      BY <1>1
    <2>3. texts \in [1..Len(words) -> T]
      BY <2>1, <2>2 DEF Word
    <2> HIDE DEF texts
    <2> QED
      BY <2>1, <2>3, ASequence
  <1>4. /\ Speech!FlattenSeq([n \in DOMAIN rows |-> rows[n].words]) = texts
        /\ \A n \in DOMAIN rows : segment.start <= rows[n].start /\ rows[n].end <= segment.end
        /\ Len(rows) > 1 => \A n \in DOMAIN rows : /\ rows[n].end - rows[n].start <= limit \/ Len(rows[n].words) = 1
                                                   /\ n > 1 => rows[n - 1].end <= rows[n].start
    <2>1. CASE rows = <<whole>>
      <3>1. Len(rows) = 1 /\ DOMAIN rows = {1} /\ rows[1] = whole
        BY <2>1
      <3>2. [n \in DOMAIN rows |-> rows[n].words] = <<texts>>
        <4>1. whole.words = texts
          BY <1>2
        <4> HIDE DEF rows, texts, whole
        <4> QED
          BY <3>1, <4>1
      <3> HIDE DEF rows, texts
      <3>3. Speech!FlattenSeq(<<texts>>) = texts
        BY <1>3, FlattenOne
      <3>4. whole.start = segment.start /\ whole.end = segment.end
        BY <1>2
      <3> HIDE DEF whole
      <3> QED
        BY <1>1, <3>1, <3>2, <3>3, <3>4
    <2>2. CASE rows # <<whole>>
      <3>1. Speech!Usable(segment) /\ rows \in Seq(SpeechRow(T)) /\ CutUpTo(words, limit, rows, Len(words))
        BY <2>2, SplitParts
      <3>2. /\ InTurn(words)
            /\ \A i \in 1..Len(words) : segment.start <= words[i].start /\ words[i].end <= segment.end
        BY <3>1, UsableParts
      <3> HIDE DEF rows, words, texts
      <3>3. Speech!FlattenSeq([n \in DOMAIN rows |-> rows[n].words]) = texts
        BY <1>1, <3>1, RowsHaveTheWords DEF texts
      <3>4. DOMAIN rows = 1..Len(rows) /\ Len(rows) \in Nat
        BY <3>1
      <3>5. ASSUME NEW n \in 1..Len(rows)
            PROVE  /\ segment.start <= rows[n].start /\ rows[n].end <= segment.end
                   /\ rows[n].end - rows[n].start <= limit \/ Len(rows[n].words) = 1
                   /\ n > 1 => rows[n - 1].end <= rows[n].start
        <4>1. /\ \E i, j \in 1..Len(words) : RowIs(rows[n], words, i, j)
              /\ rows[n].end - rows[n].start <= limit \/ Len(rows[n].words) = 1
              /\ n > 1 => rows[n - 1].end <= rows[n].start
          BY <1>1, <3>1, <3>2, RowsInTurn
        <4>2. PICK i \in 1..Len(words), j \in 1..Len(words) : RowIs(rows[n], words, i, j)
          BY <4>1
        <4>3. rows[n].start = words[i].start /\ rows[n].end = words[j].end
          BY <4>2 DEF RowIs
        <4> QED
          BY <3>2, <4>1, <4>3
      <3> QED
        BY <3>3, <3>4, <3>5
    <2> QED
      BY <2>1, <2>2
  <1>5. whole.words = texts
    BY <1>2
  <1> HIDE DEF rows, texts, whole
  <1> QED
    BY <1>4, <1>5, Zenon DEF Speech!SplitKeepsWords, rows, whole

\* Rows in the order of their starts; the rows of a sequence.
Sorted(s) == \A i, j \in 1..Len(s) : i <= j => s[i].start <= s[j].start
Has(s, row) == \E i \in 1..Len(s) : s[i] = row

\* A row in the m-th place but one.
LEMMA InsertedAfter ==
  ASSUME NEW R, NEW s \in Seq(R), NEW row \in R, NEW m \in 0..Len(s)
  PROVE  /\ Speech!InsertAt(s, m + 1, row) \in Seq(R) /\ Len(Speech!InsertAt(s, m + 1, row)) = Len(s) + 1
         /\ \A k \in 1..Len(s) + 1 : Speech!InsertAt(s, m + 1, row)[k] =
              IF k <= m THEN s[k] ELSE IF k = m + 1 THEN row ELSE s[k - 1]
  <1> DEFINE L == Len(s)
             a == SubSeq(s, 1, m)
             b == <<row>>
             c == SubSeq(s, m + 1, L)
  <1>1. L \in Nat /\ m \in Nat /\ m <= L /\ \A k \in 1..L : s[k] \in R
    OBVIOUS
  <1>2. Speech!InsertAt(s, m + 1, row) = (a \o b) \o c
    <2>1. (m + 1) - 1 = m
      BY <1>1
    <2> QED
      BY <2>1 DEF Speech!InsertAt
  <1> HIDE DEF L
  <1>3. a \in Seq(R) /\ Len(a) = m /\ \A k \in 1..m : a[k] = s[k]
    <2>1. /\ a \in Seq(R) /\ Len(a) = (IF 1 <= m THEN m - 1 + 1 ELSE 0)
          /\ \A k \in 1..m - 1 + 1 : a[k] = s[1 + k - 1]
      <3>1. \A k \in 1..m : s[k] \in R
        BY <1>1
      <3> QED
        BY <1>1, <3>1, SubSeqProperties
    <2> HIDE DEF a
    <2> QED
      BY <1>1, <2>1
  <1>4. b \in Seq(R) /\ Len(b) = 1 /\ b[1] = row
    OBVIOUS
  <1>5. c \in Seq(R) /\ Len(c) = L - m /\ \A k \in 1..L - m : c[k] = s[m + k]
    <2>1. /\ c \in Seq(R) /\ Len(c) = (IF m + 1 <= L THEN L - (m + 1) + 1 ELSE 0)
          /\ \A k \in 1..L - (m + 1) + 1 : c[k] = s[(m + 1) + k - 1]
      <3>1. \A k \in m + 1..L : s[k] \in R
        BY <1>1
      <3> QED
        BY <1>1, <3>1, SubSeqProperties
    <2> HIDE DEF c
    <2>2. L - (m + 1) + 1 = L - m /\ \A k \in 1..L - m : (m + 1) + k - 1 = m + k
      BY <1>1
    <2> QED
      BY <1>1, <2>1, <2>2
  <1> HIDE DEF a, b, c
  <1> DEFINE d == a \o b
             e == d \o c
  <1>6. d \in Seq(R) /\ Len(d) = m + 1 /\ \A k \in 1..m + 1 : d[k] = IF k <= m THEN s[k] ELSE row
    <2>1. d \in Seq(R) /\ Len(d) = Len(a) + Len(b)
          /\ \A k \in 1..Len(a) + Len(b) : d[k] = IF k <= Len(a) THEN a[k] ELSE b[k - Len(a)]
      BY <1>3, <1>4, ConcatProperties
    <2> HIDE DEF d
    <2>2. ASSUME NEW k \in 1..m + 1 PROVE d[k] = IF k <= m THEN s[k] ELSE row
      <3>1. CASE k <= m
        <4>1. k \in 1..m
          BY <1>1, <3>1
        <4>2. d[k] = a[k]
          BY <1>3, <1>4, <2>1, <3>1
        <4> QED
          BY <1>3, <3>1, <4>1, <4>2
      <3>2. CASE ~(k <= m)
        <4>1. k = m + 1 /\ k - m = 1
          BY <1>1, <3>2
        <4> QED
          BY <1>3, <1>4, <2>1, <3>2, <4>1
      <3> QED
        BY <3>1, <3>2
    <2> QED
      BY <1>3, <1>4, <2>1, <2>2
  <1> HIDE DEF d
  <1>7. e \in Seq(R) /\ Len(e) = L + 1
        /\ \A k \in 1..L + 1 : e[k] = IF k <= m THEN s[k] ELSE IF k = m + 1 THEN row ELSE s[k - 1]
    <2>1. e \in Seq(R) /\ Len(e) = Len(d) + Len(c)
          /\ \A k \in 1..Len(d) + Len(c) : e[k] = IF k <= Len(d) THEN d[k] ELSE c[k - Len(d)]
      BY <1>5, <1>6, ConcatProperties
    <2> HIDE DEF e
    <2>2. Len(d) + Len(c) = L + 1
      BY <1>1, <1>5, <1>6
    <2>3. ASSUME NEW k \in 1..L + 1 PROVE e[k] = IF k <= m THEN s[k] ELSE IF k = m + 1 THEN row ELSE s[k - 1]
      <3>1. CASE k <= m + 1
        <4>1. k \in 1..m + 1
          BY <1>1, <3>1
        <4>2. e[k] = d[k]
          BY <1>6, <2>1, <2>2, <3>1
        <4>3. d[k] = IF k <= m THEN s[k] ELSE row
          BY <1>6, <4>1
        <4> QED
          BY <1>1, <3>1, <4>2, <4>3
      <3>2. CASE ~(k <= m + 1)
        <4>1. k - (m + 1) \in 1..L - m /\ m + (k - (m + 1)) = k - 1
          BY <1>1, <3>2
        <4>2. e[k] = c[k - (m + 1)]
          BY <1>6, <2>1, <2>2, <3>2
        <4>3. c[k - (m + 1)] = s[k - 1]
          BY <1>5, <4>1
        <4> QED
          BY <1>1, <3>2, <4>2, <4>3
      <3> QED
        BY <3>1, <3>2
    <2> QED
      BY <2>1, <2>2, <2>3
  <1>8. Speech!InsertAt(s, m + 1, row) = e
    BY <1>2 DEF e, d
  <1> HIDE DEF e
  <1> QED
    BY <1>7, <1>8 DEF L

\* A row enters a sorted sequence at its place.
LEMMA InsertedParts ==
  ASSUME NEW T, NEW s \in Seq(SpeechRow(T)), Sorted(s), NEW row \in SpeechRow(T)
  PROVE  /\ Speech!Inserted(s, row) \in Seq(SpeechRow(T)) /\ Sorted(Speech!Inserted(s, row))
         /\ Len(Speech!Inserted(s, row)) = Len(s) + 1
         /\ \A x : Has(Speech!Inserted(s, row), x) <=> Has(s, x) \/ x = row
  <1> DEFINE L == Len(s)
             R == SpeechRow(T)
             low == {n \in DOMAIN s : s[n].start <= row.start}
  <1>1. L \in Nat /\ DOMAIN s = 1..L /\ \A n \in 1..L : s[n] \in R
    OBVIOUS
  <1>2. row.start \in Int /\ \A n \in 1..L : s[n].start \in Int
    BY <1>1 DEF SpeechRow
  <1>3. PICK m \in 0..L : low = 1..m
    <2>1. CASE low = {}
      <3>1. low = 1..0
        BY <2>1
      <3> HIDE DEF low
      <3> QED
        BY <1>1, <3>1
    <2>2. CASE low # {}
      <3> DEFINE top == Speech!Max(low)
      <3>1. top \in low /\ \A y \in low : y <= top
        <4>1. low \in SUBSET (1..L)
          BY <1>1
        <4> HIDE DEF low
        <4> QED
          BY <1>1, <2>2, <4>1, Extremes
      <3> HIDE DEF top
      <3>2. top \in 1..L /\ s[top].start <= row.start
        BY <1>1, <3>1
      <3>3. ASSUME NEW n \in 1..top PROVE n \in low
        <4>1. n \in 1..L /\ n <= top
          BY <1>1, <3>2
        <4>2. s[n].start <= s[top].start
          BY <3>2, <4>1 DEF Sorted
        <4> QED
          BY <1>1, <1>2, <3>2, <4>1, <4>2
      <3>4. low \subseteq 1..top
        BY <1>1, <3>1
      <3>5. low = 1..top
        <4> HIDE DEF low
        <4> QED
          BY <3>3, <3>4
      <3> HIDE DEF low
      <3> QED
        BY <1>1, <3>2, <3>5
    <2> QED
      BY <2>1, <2>2
  <1>4. Cardinality(low) = m
    <2>1. Cardinality(1..m) = m
      <3>1. Cardinality(1..m) = IF 1 > m THEN 0 ELSE m - 1 + 1
        BY <1>1, <1>3, FS_Interval
      <3> QED
        BY <1>1, <1>3, <3>1
    <2> HIDE DEF low
    <2> QED
      BY <1>3, <2>1
  <1>5. Speech!Inserted(s, row) = Speech!InsertAt(s, m + 1, row)
    <2>1. Speech!Cardinality(low) = Cardinality(low)
      BY DEF Speech!Cardinality, Cardinality
    <2> QED
      BY <1>4, <2>1, Zenon DEF Speech!Inserted
  <1> DEFINE t == Speech!InsertAt(s, m + 1, row)
  <1>6. /\ t \in Seq(R) /\ Len(t) = L + 1
        /\ \A k \in 1..L + 1 : t[k] = IF k <= m THEN s[k] ELSE IF k = m + 1 THEN row ELSE s[k - 1]
    <2>1. s \in Seq(R) /\ row \in R /\ m \in 0..Len(s)
      BY <1>3
    <2> HIDE DEF R
    <2> QED
      BY <2>1, InsertedAfter
  <1>7. /\ \A n \in 1..L : n <= m => s[n].start <= row.start
        /\ \A n \in 1..L : n > m => row.start <= s[n].start
    <2>1. \A n \in 1..L : n \in low <=> s[n].start <= row.start
      BY <1>1
    <2> HIDE DEF low
    <2> QED
      BY <1>1, <1>2, <1>3, <2>1
  <1>8. \A i, j \in 1..L : i <= j => s[i].start <= s[j].start
    BY DEF Sorted
  <1> HIDE DEF t, L, R, low
  <1> DEFINE Place(k) == IF k <= m THEN k ELSE k - 1
  <1>9. ASSUME NEW k \in 1..L + 1
        PROVE  \/ k = m + 1 /\ t[k] = row
               \/ k # m + 1 /\ Place(k) \in 1..L /\ t[k] = s[Place(k)]
    BY <1>1, <1>3, <1>6
  <1>10. Sorted(t)
    <2> SUFFICES ASSUME NEW i \in 1..L + 1, NEW j \in 1..L + 1, i <= j PROVE t[i].start <= t[j].start
      BY <1>6 DEF Sorted
    <2>1. i \in Int /\ j \in Int /\ m \in Int
      BY <1>1, <1>3
    <2>2. CASE i = m + 1 /\ j = m + 1
      BY <1>2, <1>6, <1>9, <2>2
    <2>3. CASE i = m + 1 /\ j # m + 1
      <3>1. t[i] = row /\ t[j] = s[j - 1] /\ j - 1 \in 1..L /\ j - 1 > m
        BY <1>1, <1>6, <2>1, <2>3
      <3> QED
        BY <1>7, <3>1
    <2>4. CASE i # m + 1 /\ j = m + 1
      <3>1. t[j] = row /\ t[i] = s[i] /\ i \in 1..L /\ i <= m
        BY <1>1, <1>6, <2>1, <2>4
      <3> QED
        BY <1>7, <3>1
    <2>5. CASE i # m + 1 /\ j # m + 1
      <3>1. /\ Place(i) \in 1..L /\ t[i] = s[Place(i)]
            /\ Place(j) \in 1..L /\ t[j] = s[Place(j)]
        BY <1>9, <2>5
      <3>2. Place(i) <= Place(j)
        BY <2>1, <2>5
      <3> HIDE DEF Place
      <3> QED
        BY <1>8, <3>1, <3>2
    <2> QED
      BY <2>2, <2>3, <2>4, <2>5
  <1>11. ASSUME NEW x PROVE Has(t, x) <=> Has(s, x) \/ x = row
    <2>1. ASSUME Has(t, x) PROVE Has(s, x) \/ x = row
      <3>1. PICK k \in 1..L + 1 : t[k] = x
        BY <1>6, <2>1 DEF Has
      <3> HIDE DEF Place
      <3> QED
        BY <1>9, <3>1 DEF Has, L
    <2>2. ASSUME x = row PROVE Has(t, x)
      <3>1. m + 1 \in 1..L + 1 /\ ~(m + 1 <= m)
        BY <1>1, <1>3
      <3> QED
        BY <1>6, <2>2, <3>1 DEF Has
    <2>3. ASSUME Has(s, x) PROVE Has(t, x)
      <3>1. PICK n \in 1..L : s[n] = x
        BY <2>3 DEF Has, L
      <3>2. CASE n <= m
        <4>1. n \in 1..L + 1 /\ t[n] = s[n]
          BY <1>1, <1>6, <3>2
        <4> QED
          BY <1>6, <3>1, <4>1 DEF Has
      <3>3. CASE ~(n <= m)
        <4>1. n + 1 \in 1..L + 1 /\ ~(n + 1 <= m) /\ n + 1 # m + 1 /\ (n + 1) - 1 = n
          BY <1>1, <1>3, <3>3
        <4>2. t[n + 1] = s[n]
          BY <1>6, <4>1
        <4> QED
          BY <1>6, <3>1, <4>1, <4>2 DEF Has
      <3> QED
        BY <3>2, <3>3
    <2> QED
      BY <2>1, <2>2, <2>3
  <1> QED
    BY <1>5, <1>6, <1>10, <1>11 DEF t, R, L

\* The rows of a set, in order.
Sequences(U) == {s \in Seq(U) : Sorted(s)}

\* The stable sort keeps every row, and its rows are in order.
LEMMA InOrderParts ==
  ASSUME NEW T, NEW U \in SUBSET SpeechRow(T), NEW rows \in Seq(U)
  PROVE  /\ Speech!InOrder(rows) \in Sequences(U) /\ Len(Speech!InOrder(rows)) = Len(rows)
         /\ \A x : Has(rows, x) => Has(Speech!InOrder(rows), x)
  <1> DEFINE N == Len(rows)
             X == Sequences(U)
             Step(n, s) == Speech!Inserted(s, rows[n])
             step == [n \in 1..N |-> [s \in X |-> Step(n, s)]]
             after == CHOOSE f : f = [n \in 0..N |-> IF n = 0 THEN <<>> ELSE Speech!Inserted(f[n - 1], rows[n])]
  <1>1. N \in Nat /\ \A n \in 1..N : rows[n] \in U
    OBVIOUS
  <1>2. <<>> \in X
    BY DEF Sequences, Sorted
  <1>3. ASSUME NEW s \in X, NEW row \in U
        PROVE  /\ Speech!Inserted(s, row) \in X /\ Len(Speech!Inserted(s, row)) = Len(s) + 1
               /\ \A x : Has(Speech!Inserted(s, row), x) <=> Has(s, x) \/ x = row
    <2> DEFINE t == Speech!Inserted(s, row)
    <2>1. s \in Seq(SpeechRow(T)) /\ Sorted(s) /\ row \in SpeechRow(T) /\ s \in Seq(U)
      BY SeqMonotonic DEF Sequences
    <2>2. t \in Seq(SpeechRow(T)) /\ Sorted(t) /\ Len(t) = Len(s) + 1 /\ \A x : Has(t, x) <=> Has(s, x) \/ x = row
      BY <2>1, InsertedParts
    <2> HIDE DEF t
    <2>3. t \in Seq(U)
      <3>1. ASSUME NEW k \in 1..Len(t) PROVE t[k] \in U
        <4>1. Has(t, t[k])
          BY DEF Has
        <4>2. Has(s, t[k]) \/ t[k] = row
          BY <2>2, <4>1
        <4> QED
          BY <2>1, <4>2 DEF Has
      <3>2. t \in [1..Len(t) -> U] /\ Len(t) \in Nat
        BY <2>2, <3>1
      <3> QED
        BY <3>2, ASequence
    <2>4. t \in X
      BY <2>2, <2>3 DEF Sequences
    <2> QED
      BY <2>2, <2>3, <2>4 DEF t
  <1>4. step \in [1..N -> [X -> X]]
    <2>1. \A n \in 1..N, s \in X : Step(n, s) \in X
      <3> HIDE DEF X, N
      <3> QED
        BY <1>1, <1>3
    <2> HIDE DEF Step, X, N
    <2> QED
      BY <2>1
  <1>5. PICK g \in [0..N -> X] : Recurs(g, N, <<>>, step)
    <2> HIDE DEF step, X, N
    <2> QED
      BY <1>1, <1>2, <1>4, Recursion
  <1>6. g = [n \in 0..N |-> IF n = 0 THEN <<>> ELSE Step(n, g[n - 1])]
    <2>1. ASSUME NEW n \in 0..N, n # 0 PROVE step[n][g[n - 1]] = Step(n, g[n - 1])
      <3>1. n - 1 \in 0..N /\ n \in 1..N
        BY <2>1
      <3>2. g[n - 1] \in X
        BY <3>1
      <3> HIDE DEF Step, X
      <3> QED
        BY <3>1, <3>2
    <2> HIDE DEF step
    <2> QED
      BY <1>5, <2>1 DEF Recurs
  <1>7. after = [n \in 0..N |-> IF n = 0 THEN <<>> ELSE Speech!Inserted(after[n - 1], rows[n])]
    <2> HIDE DEF N
    <2> QED
      BY <1>6, Zenon DEF Step
  <1>8. Speech!InOrder(rows) = after[N]
    BY Zenon DEF Speech!InOrder, Speech!Sorting
  <1> HIDE DEF after, X, N
  <1> DEFINE Placed1(n) == /\ after[n] \in X /\ Len(after[n]) = n
                           /\ \A i \in 1..n : Has(after[n], rows[i])
             S == {n \in Nat : n <= N => Placed1(n)}
  <1>9. 0 \in S
    <2>1. after[0] = <<>>
      BY <1>1, <1>7
    <2> QED
      BY <1>2, <2>1
  <1>10. ASSUME NEW n \in 1..N, n - 1 \in S PROVE n \in S
    <2>1. n \in 0..N /\ n # 0 /\ n - 1 \in Nat /\ n - 1 <= N /\ n \in Nat /\ n - 1 + 1 = n
      BY <1>1
    <2>2. Placed1(n - 1)
      BY <1>10, <2>1
    <2>3. after[n] = Speech!Inserted(after[n - 1], rows[n])
      BY <1>7, <2>1, Zenon
    <2> DEFINE s == after[n - 1]
               t == after[n]
    <2>4. s \in X /\ Len(s) = n - 1 /\ \A i \in 1..n - 1 : Has(s, rows[i])
      BY <2>2
    <2> HIDE DEF s, t
    <2>5. t \in X /\ Len(t) = Len(s) + 1 /\ \A x : Has(t, x) <=> Has(s, x) \/ x = rows[n]
      <3> DEFINE row == rows[n]
      <3>1. row \in U /\ t = Speech!Inserted(s, row)
        BY <1>1, <2>3 DEF s, t
      <3> HIDE DEF row
      <3>2. t \in X /\ Len(t) = Len(s) + 1 /\ \A x : Has(t, x) <=> Has(s, x) \/ x = row
        BY <1>3, <2>4, <3>1, Zenon
      <3> QED
        BY <3>2 DEF row
    <2>6. ASSUME NEW i \in 1..n PROVE Has(t, rows[i])
      <3>1. i = n \/ i \in 1..n - 1
        BY <2>1
      <3> QED
        BY <2>4, <2>5, <3>1
    <2>7. Len(t) = n
      BY <2>1, <2>4, <2>5
    <2> QED
      BY <2>1, <2>5, <2>6, <2>7 DEF t
  <1>11. \A n \in 0..N : n \in S
    <2> HIDE DEF S
    <2> QED
      BY <1>1, <1>9, <1>10, EachStep
  <1>12. Placed1(N)
    <2>1. N \in S
      <3> HIDE DEF S
      <3> QED
        BY <1>1, <1>11
    <2> HIDE DEF Placed1
    <2> QED
      BY <1>1, <2>1
  <1>13. ASSUME NEW x, Has(rows, x) PROVE Has(after[N], x)
    <2>1. PICK i \in 1..N : rows[i] = x
      BY <1>13 DEF Has, N
    <2> QED
      BY <1>12, <2>1
  <1> QED
    BY <1>8, <1>12, <1>13 DEF X, N

\* Some row of a sequence is one of C.
HasSome(s, C) == \E i \in 1..Len(s) : s[i] \in C

\* Of two rows that are doubles, both are in C or none.
ClosedUnderDoubles(C, U) == \A x, y \in U : Speech!Doubled(x, y) => (x \in C <=> y \in C)

\* All rows begin by a time.
BeginBy(s, time) == \A i \in 1..Len(s) : s[i].start <= time

\* A row that is not before the others is added to them, or takes the place of
\* its double, or gives way to it.
LEMMA AddedParts ==
  ASSUME NEW T, NEW U \in SUBSET SpeechRow(T), NEW kept \in Sequences(U), NEW row \in U,
         BeginBy(kept, row.start), NEW C, ClosedUnderDoubles(C, U)
  PROVE  /\ Speech!AddUnlessDoubled(kept, row) \in Sequences(U)
         /\ BeginBy(Speech!AddUnlessDoubled(kept, row), row.start)
         /\ HasSome(kept, C) \/ row \in C => HasSome(Speech!AddUnlessDoubled(kept, row), C)
  <1> DEFINE t == Speech!AddUnlessDoubled(kept, row)
             L == Len(kept)
  <1>1. kept \in Seq(U) /\ Sorted(kept) /\ L \in Nat /\ \A i \in 1..L : kept[i] \in U
    BY DEF Sequences
  <1>2. \A x \in U : x.start \in Int
    BY DEF SpeechRow
  <1>3. CASE kept # <<>> /\ Speech!Doubled(row, Speech!Last(kept))
    <2>1. Speech!Last(kept) = kept[L] /\ L \in 1..L
      BY <1>1, <1>3 DEF Speech!Last
    <2>2. kept[L] \in C <=> row \in C
      <3>1. kept[L] \in U /\ Speech!Doubled(row, kept[L])
        BY <1>1, <1>3, <2>1
      <3> HIDE DEF L
      <3> QED
        BY <3>1 DEF ClosedUnderDoubles
    <2>3. CASE row.confidence > Speech!Last(kept).confidence
      <3>1. t = [kept EXCEPT ![L] = row]
        BY <1>3, <2>3, Zenon DEF Speech!AddUnlessDoubled
      <3>2. t \in Seq(U) /\ Len(t) = L /\ \A i \in 1..L : t[i] = IF i = L THEN row ELSE kept[i]
        BY <1>1, <2>1, <3>1
      <3> HIDE DEF t
      <3>3. BeginBy(t, row.start)
        BY <1>1, <1>2, <3>2 DEF BeginBy
      <3>4. Sorted(t)
        <4> SUFFICES ASSUME NEW i \in 1..L, NEW j \in 1..L, i <= j PROVE t[i].start <= t[j].start
          BY <3>2 DEF Sorted
        <4>1. CASE j = L
          BY <3>2, <3>3, <4>1 DEF BeginBy
        <4>2. CASE j # L
          <5>1. i # L
            BY <1>1, <4>2
          <5>2. t[i] = kept[i] /\ t[j] = kept[j]
            BY <3>2, <4>2, <5>1
          <5> QED
            BY <1>1, <5>2 DEF Sorted
        <4> QED
          BY <4>1, <4>2
      <3>5. ASSUME HasSome(kept, C) \/ row \in C PROVE HasSome(t, C)
        <4>1. CASE row \in C
          BY <2>1, <3>2, <4>1 DEF HasSome
        <4>2. CASE row \notin C
          <5>1. PICK i \in 1..L : kept[i] \in C
            BY <3>5, <4>2 DEF HasSome
          <5>2. i # L
            BY <2>2, <4>2, <5>1
          <5> QED
            BY <3>2, <5>1, <5>2 DEF HasSome
        <4> QED
          BY <4>1, <4>2
      <3> QED
        BY <3>2, <3>3, <3>4, <3>5 DEF Sequences, t
    <2>4. CASE ~(row.confidence > Speech!Last(kept).confidence)
      <3>1. t = kept
        BY <1>3, <2>4, Zenon DEF Speech!AddUnlessDoubled
      <3>2. HasSome(kept, C) \/ row \in C => HasSome(kept, C)
        BY <2>1, <2>2 DEF HasSome
      <3> HIDE DEF t
      <3> QED
        BY <3>1, <3>2 DEF t
    <2> QED
      BY <2>3, <2>4
  <1>4. CASE ~(kept # <<>> /\ Speech!Doubled(row, Speech!Last(kept)))
    <2>1. t = Append(kept, row)
      BY <1>4, Zenon DEF Speech!AddUnlessDoubled
    <2> HIDE DEF t
    <2>2. t \in Seq(U) /\ Len(t) = L + 1 /\ t[L + 1] = row /\ \A i \in 1..L : t[i] = kept[i]
      BY <1>1, <2>1, AppendProperties
    <2>3. ASSUME NEW i \in 1..L + 1 PROVE i \in 1..L \/ i = L + 1
      BY <1>1
    <2>4. BeginBy(t, row.start)
      BY <1>1, <1>2, <2>2, <2>3 DEF BeginBy
    <2>5. Sorted(t)
      <3> SUFFICES ASSUME NEW i \in 1..L + 1, NEW j \in 1..L + 1, i <= j PROVE t[i].start <= t[j].start
        BY <2>2 DEF Sorted
      <3>1. CASE j = L + 1
        BY <2>2, <2>4, <3>1 DEF BeginBy
      <3>2. CASE j # L + 1
        <4>1. i \in 1..L /\ j \in 1..L
          BY <1>1, <3>2
        <4> QED
          BY <1>1, <2>2, <4>1 DEF Sorted
      <3> QED
        BY <3>1, <3>2
    <2>6. ASSUME HasSome(kept, C) \/ row \in C PROVE HasSome(t, C)
      <3>1. L + 1 \in 1..L + 1 /\ \A i \in 1..L : i \in 1..L + 1
        BY <1>1
      <3>2. CASE row \in C
        BY <2>2, <3>1, <3>2 DEF HasSome
      <3>3. CASE HasSome(kept, C)
        BY <2>2, <3>1, <3>3 DEF HasSome
      <3> QED
        BY <2>6, <3>2, <3>3
    <2> QED
      BY <2>2, <2>4, <2>5, <2>6 DEF Sequences, t
  <1> QED
    BY <1>3, <1>4

\* Dropping the doubles keeps the rows in order, and some row of every set that
\* its doubles are in.
LEMMA DeduplicatingKeeps ==
  ASSUME NEW T, NEW U \in SUBSET SpeechRow(T), NEW rows \in Sequences(U), NEW C, ClosedUnderDoubles(C, U)
  PROVE  /\ Speech!Deduplicating(rows)[Len(rows)] \in Sequences(U)
         /\ HasSome(rows, C) => HasSome(Speech!Deduplicating(rows)[Len(rows)], C)
  <1> DEFINE N == Len(rows)
             X == Seq(U)
             Step(n, s) == Speech!AddUnlessDoubled(s, rows[n])
             step == [n \in 1..N |-> [s \in X |-> Step(n, s)]]
             after == CHOOSE f : f = [n \in 0..N |-> IF n = 0 THEN <<>> ELSE Speech!AddUnlessDoubled(f[n - 1], rows[n])]
  <1>1. N \in Nat /\ rows \in Seq(U) /\ Sorted(rows) /\ \A n \in 1..N : rows[n] \in U
    BY DEF Sequences
  <1>2. <<>> \in X
    OBVIOUS
  <1>3. ASSUME NEW s \in X, NEW row \in U PROVE Speech!AddUnlessDoubled(s, row) \in X
    <2>1. Append(s, row) \in Seq(U) /\ s \in Seq(U)
      OBVIOUS
    <2>2. s # <<>> => [s EXCEPT ![Len(s)] = row] \in Seq(U)
      OBVIOUS
    <2> QED
      BY <2>1, <2>2 DEF Speech!AddUnlessDoubled
  <1>4. step \in [1..N -> [X -> X]]
    <2>1. \A n \in 1..N, s \in X : Step(n, s) \in X
      <3> HIDE DEF X, N
      <3> QED
        BY <1>1, <1>3
    <2> HIDE DEF Step, X, N
    <2> QED
      BY <2>1
  <1>5. PICK g \in [0..N -> X] : Recurs(g, N, <<>>, step)
    <2> HIDE DEF step, X, N
    <2> QED
      BY <1>1, <1>2, <1>4, Recursion
  <1>6. g = [n \in 0..N |-> IF n = 0 THEN <<>> ELSE Step(n, g[n - 1])]
    <2>1. ASSUME NEW n \in 0..N, n # 0 PROVE step[n][g[n - 1]] = Step(n, g[n - 1])
      <3>1. n - 1 \in 0..N /\ n \in 1..N
        BY <2>1
      <3>2. g[n - 1] \in X
        BY <3>1
      <3> HIDE DEF Step, X
      <3> QED
        BY <3>1, <3>2
    <2> HIDE DEF step
    <2> QED
      BY <1>5, <2>1 DEF Recurs
  <1>7. after = [n \in 0..N |-> IF n = 0 THEN <<>> ELSE Speech!AddUnlessDoubled(after[n - 1], rows[n])]
    <2> HIDE DEF N
    <2> QED
      BY <1>6, Zenon DEF Step
  <1>8. Speech!Deduplicating(rows) = after
    BY Zenon DEF Speech!Deduplicating
  <1> HIDE DEF after, X, N
  <1> DEFINE Kept1(n) == /\ after[n] \in Sequences(U)
                         /\ \A i \in n + 1..N : BeginBy(after[n], rows[i].start)
                         /\ \A i \in 1..n : rows[i] \in C => HasSome(after[n], C)
             S == {n \in Nat : n <= N => Kept1(n)}
  <1>9. 0 \in S
    <2>1. after[0] = <<>>
      BY <1>1, <1>7
    <2>2. <<>> \in Sequences(U) /\ \A x : BeginBy(<<>>, x)
      BY DEF Sequences, Sorted, BeginBy
    <2> QED
      BY <2>1, <2>2
  <1>10. ASSUME NEW n \in 1..N, n - 1 \in S PROVE n \in S
    <2>1. n \in 0..N /\ n # 0 /\ n - 1 \in Nat /\ n - 1 <= N /\ n \in Nat /\ n - 1 + 1 = n /\ n \in n..N
      BY <1>1
    <2>2. Kept1(n - 1)
      BY <1>10, <2>1
    <2> DEFINE s == after[n - 1]
               t == after[n]
               row == rows[n]
    <2>3. t = Speech!AddUnlessDoubled(s, row) /\ row \in U
      BY <1>1, <1>7, <2>1, Zenon
    <2>4. s \in Sequences(U) /\ BeginBy(s, row.start) /\ \A i \in 1..n - 1 : rows[i] \in C => HasSome(s, C)
      BY <2>1, <2>2
    <2>5. row.start \in Int /\ \A i \in n + 1..N : rows[i].start \in Int /\ row.start <= rows[i].start
      <3>1. \A i \in n + 1..N : i \in 1..N /\ n <= i
        BY <1>1
      <3>2. \A i \in 1..N : rows[i].start \in Int
        BY <1>1 DEF SpeechRow
      <3> QED
        BY <1>1, <3>1, <3>2 DEF Sorted, N
    <2> HIDE DEF s, t, row
    <2>6. /\ t \in Sequences(U) /\ BeginBy(t, row.start)
          /\ HasSome(s, C) \/ row \in C => HasSome(t, C)
      BY <2>3, <2>4, AddedParts
    <2>7. ASSUME NEW i \in n + 1..N PROVE BeginBy(t, rows[i].start)
      <3>1. t \in Seq(U) /\ \A k \in 1..Len(t) : t[k].start \in Int
        BY <2>6 DEF Sequences, SpeechRow
      <3>2. rows[i].start \in Int /\ row.start <= rows[i].start
        BY <2>5
      <3> QED
        BY <2>5, <2>6, <3>1, <3>2 DEF BeginBy
    <2>8. ASSUME NEW i \in 1..n, rows[i] \in C PROVE HasSome(t, C)
      <3>1. i = n \/ i \in 1..n - 1
        BY <2>1
      <3> QED
        BY <2>4, <2>6, <2>8, <3>1 DEF row
    <2> QED
      BY <2>1, <2>6, <2>7, <2>8 DEF t
  <1>11. \A n \in 0..N : n \in S
    <2> HIDE DEF S
    <2> QED
      BY <1>1, <1>9, <1>10, EachStep
  <1>12. Kept1(N)
    <2>1. N \in S
      <3> HIDE DEF S
      <3> QED
        BY <1>1, <1>11
    <2> HIDE DEF Kept1
    <2> QED
      BY <1>1, <2>1
  <1> QED
    BY <1>8, <1>12 DEF HasSome, N

\* The rows that are kept are in order.
KeptInOrder(rows, duration) ==
  \A i, j \in 1..Len(rows) :
    i <= j /\ Speech!Keeps(rows[i], duration) /\ Speech!Keeps(rows[j], duration) => rows[i].start <= rows[j].start

\* A row that is cut to the recording.
LEMMA CutParts ==
  ASSUME NEW T, NEW row \in SpeechRow(T), NEW duration \in Nat
  PROVE  /\ Speech!Cut(row, duration) \in SpeechRow(T)
         /\ Speech!Cut(row, duration).start = IF 0 <= row.start THEN row.start ELSE 0
         /\ Speech!Cut(row, duration).end = IF duration <= row.end THEN duration ELSE row.end
         /\ Speech!Cut(row, duration).words = row.words
  <1>1. row.start \in Int /\ row.end \in Int /\ duration \in Int
    BY DEF SpeechRow
  <1>2. Speech!Max({0, row.start}) = IF 0 <= row.start THEN row.start ELSE 0
    BY <1>1, GreaterOf
  <1>3. Speech!Min({duration, row.end}) = IF duration <= row.end THEN duration ELSE row.end
    BY <1>1, LesserOf
  <1> DEFINE low == Speech!Max({0, row.start})
             high == Speech!Min({duration, row.end})
  <1>4. low \in Int /\ high \in Int
    BY <1>1, <1>2, <1>3
  <1>5. Speech!Cut(row, duration) = [row EXCEPT !.start = low, !.end = high]
    BY DEF Speech!Cut
  <1> HIDE DEF low, high
  <1>6. /\ Speech!Cut(row, duration) \in SpeechRow(T)
        /\ Speech!Cut(row, duration).start = low /\ Speech!Cut(row, duration).end = high
        /\ Speech!Cut(row, duration).words = row.words
    BY <1>4, <1>5 DEF SpeechRow
  <1> QED
    BY <1>2, <1>3, <1>6 DEF low, high

\* Rows between 0 and a time.
Within(s, duration) == \A i \in 1..Len(s) : 0 <= s[i].start /\ s[i].end <= duration

\* The rows that are left when all are cut to the recording: in it, in order, and
\* each that is to be kept is there.
LEMMA BoundedParts ==
  ASSUME NEW T, NEW rows \in Seq(SpeechRow(T)), NEW duration \in Nat, KeptInOrder(rows, duration)
  PROVE  /\ Speech!Bounded(rows, duration) \in Seq(SpeechRow(T))
         /\ Within(Speech!Bounded(rows, duration), duration) /\ Sorted(Speech!Bounded(rows, duration))
         /\ \A i \in 1..Len(rows) :
              Speech!Keeps(rows[i], duration) => Has(Speech!Bounded(rows, duration), Speech!Cut(rows[i], duration))
  <1> DEFINE N == Len(rows)
             R == SpeechRow(T)
             X == Seq(R)
             Keep(n) == Speech!Keeps(rows[n], duration)
             Piece(n) == Speech!Cut(rows[n], duration)
             Step(n, s) == IF Keep(n) THEN Append(s, Piece(n)) ELSE s
             step == [n \in 1..N |-> [s \in X |-> Step(n, s)]]
             after == CHOOSE f : f = [n \in 0..N |->
               IF n = 0 THEN <<>>
               ELSE IF Speech!Keeps(rows[n], duration) THEN Append(f[n - 1], Speech!Cut(rows[n], duration)) ELSE f[n - 1]]
  <1>1. N \in Nat /\ \A n \in 1..N : rows[n] \in R /\ Piece(n) \in R
    <2>1. N \in Nat /\ \A n \in 1..N : rows[n] \in R
      OBVIOUS
    <2>2. \A row \in R : Speech!Cut(row, duration) \in R
      BY CutParts
    <2> HIDE DEF R
    <2> QED
      BY <2>1, <2>2
  <1>2. <<>> \in X
    OBVIOUS
  <1>3. step \in [1..N -> [X -> X]]
    <2>1. \A n \in 1..N, s \in X : Step(n, s) \in X
      <3> HIDE DEF R, N, Keep, Piece
      <3> QED
        BY <1>1
    <2> HIDE DEF Step, X, N
    <2> QED
      BY <2>1
  <1>4. PICK g \in [0..N -> X] : Recurs(g, N, <<>>, step)
    <2> HIDE DEF step, X, N
    <2> QED
      BY <1>1, <1>2, <1>3, Recursion
  <1>5. g = [n \in 0..N |-> IF n = 0 THEN <<>> ELSE Step(n, g[n - 1])]
    <2>1. ASSUME NEW n \in 0..N, n # 0 PROVE step[n][g[n - 1]] = Step(n, g[n - 1])
      <3>1. n - 1 \in 0..N /\ n \in 1..N
        BY <2>1
      <3>2. g[n - 1] \in X
        BY <3>1
      <3> HIDE DEF Step, X
      <3> QED
        BY <3>1, <3>2
    <2> HIDE DEF step, Step
    <2> QED
      BY <1>4, <2>1 DEF Recurs
  <1>6. after = [n \in 0..N |->
               IF n = 0 THEN <<>>
               ELSE IF Speech!Keeps(rows[n], duration) THEN Append(after[n - 1], Speech!Cut(rows[n], duration)) ELSE after[n - 1]]
    <2> HIDE DEF N
    <2> QED
      BY <1>5, Zenon DEF Step, Keep, Piece
  <1>7. Speech!Bounded(rows, duration) = after[N]
    BY Zenon DEF Speech!Bounded, Speech!Bounding
  <1>8. ASSUME NEW n \in 1..N
        PROVE  after[n] = IF Keep(n) THEN Append(after[n - 1], Piece(n)) ELSE after[n - 1]
    <2>1. n \in 0..N /\ n # 0
      BY <1>1
    <2> HIDE DEF after, N
    <2> QED
      BY <1>6, <2>1, Zenon
  <1>9. after[0] = <<>>
    <2>1. 0 \in 0..N
      BY <1>1
    <2> HIDE DEF after, N
    <2> QED
      BY <1>6, <2>1, Zenon
  <1>10. /\ \A n \in 1..N : 0 <= Piece(n).start /\ Piece(n).end <= duration /\ Piece(n).start \in Int
         /\ \A i, j \in 1..N : i <= j /\ Keep(i) /\ Keep(j) => Piece(i).start <= Piece(j).start
    <2>1. ASSUME NEW n \in 1..N
          PROVE  /\ rows[n].start \in Int /\ rows[n].end \in Int
                 /\ Piece(n).start = IF 0 <= rows[n].start THEN rows[n].start ELSE 0
                 /\ Piece(n).end = IF duration <= rows[n].end THEN duration ELSE rows[n].end
      <3>1. rows[n] \in SpeechRow(T)
        BY <1>1
      <3>2. rows[n].start \in Int /\ rows[n].end \in Int
        BY <3>1 DEF SpeechRow
      <3> QED
        BY <3>1, <3>2, CutParts
    <2>2. \A i, j \in 1..N : i <= j /\ Keep(i) /\ Keep(j) => rows[i].start <= rows[j].start
      BY DEF KeptInOrder
    <2> HIDE DEF Keep, Piece, N
    <2> QED
      BY <2>1, <2>2
  <1> HIDE DEF after, N, R, Keep, Piece
  <1> DEFINE Bounded1(n) ==
               /\ after[n] \in Seq(R)
               /\ \A k \in 1..Len(after[n]) : \E i \in 1..n : Keep(i) /\ after[n][k] = Piece(i)
               /\ Sorted(after[n])
               /\ \A i \in 1..n : Keep(i) => Has(after[n], Piece(i))
             S == {n \in Nat : n <= N => Bounded1(n)}
  <1>11. 0 \in S
    <2>1. after[0] \in Seq(R) /\ Len(after[0]) = 0
      BY <1>9
    <2> QED
      BY <2>1 DEF Sorted
  <1>12. ASSUME NEW n \in 1..N, n - 1 \in S PROVE n \in S
    <2>1. /\ n \in Nat /\ n - 1 \in Nat /\ n - 1 <= N /\ n \in 1..n
          /\ \A i \in 1..n : i = n \/ i \in 1..n - 1
          /\ \A i \in 1..n - 1 : i \in 1..n /\ i \in 1..N /\ i <= n
      BY <1>1
    <2>2. Bounded1(n - 1)
      BY <1>12, <2>1
    <2> DEFINE s == after[n - 1]
               t == after[n]
    <2>3. /\ s \in Seq(R) /\ Sorted(s)
          /\ \A k \in 1..Len(s) : \E i \in 1..n - 1 : Keep(i) /\ s[k] = Piece(i)
          /\ \A i \in 1..n - 1 : Keep(i) => Has(s, Piece(i))
      BY <2>2
    <2>4. t = IF Keep(n) THEN Append(s, Piece(n)) ELSE s
      BY <1>8
    <2> HIDE DEF s, t
    <2>5. CASE ~Keep(n)
      <3>1. t = s
        BY <2>4, <2>5
      <3>2. /\ \A k \in 1..Len(t) : \E i \in 1..n : Keep(i) /\ t[k] = Piece(i)
            /\ \A i \in 1..n : Keep(i) => Has(t, Piece(i))
        BY <2>1, <2>3, <2>5, <3>1
      <3> QED
        BY <2>1, <2>3, <3>1, <3>2 DEF t
    <2>6. CASE Keep(n)
      <3> DEFINE L == Len(s)
                 c == Piece(n)
      <3>1. c \in R /\ s \in Seq(R) /\ L \in Nat
        BY <1>1, <2>3
      <3> HIDE DEF L, c
      <3>2. t \in Seq(R) /\ Len(t) = L + 1 /\ t[L + 1] = c /\ \A i \in 1..L : t[i] = s[i]
        BY <2>4, <2>6, <3>1, AppendProperties DEF c, L
      <3>3. /\ L + 1 \in 1..L + 1 /\ \A i \in 1..L : i \in 1..L + 1
            /\ \A i \in 1..L + 1 : i \in 1..L \/ i = L + 1
        BY <3>1
      <3>4. ASSUME NEW k \in 1..L PROVE \E i \in 1..n - 1 : Keep(i) /\ s[k] = Piece(i)
        BY <2>3 DEF L
      <3>5. ASSUME NEW k \in 1..L + 1 PROVE \E i \in 1..n : Keep(i) /\ t[k] = Piece(i)
        <4>1. CASE k \in 1..L
          BY <2>1, <3>2, <3>4, <4>1
        <4>2. CASE k = L + 1
          BY <2>1, <2>6, <3>2, <4>2 DEF c
        <4> QED
          BY <3>3, <4>1, <4>2
      <3>6. Sorted(t)
        <4> SUFFICES ASSUME NEW i \in 1..L + 1, NEW j \in 1..L + 1, i <= j PROVE t[i].start <= t[j].start
          BY <3>2 DEF Sorted
        <4>1. CASE j = L + 1
          <5>1. PICK k \in 1..n : Keep(k) /\ t[i] = Piece(k)
            BY <3>5
          <5>2. k \in 1..N /\ k <= n
            BY <2>1
          <5> QED
            BY <1>10, <2>6, <3>2, <4>1, <5>1, <5>2 DEF c
        <4>2. CASE j # L + 1
          <5>1. i \in 1..L /\ j \in 1..L
            BY <3>1, <4>2
          <5>2. s[i].start <= s[j].start
            BY <2>3, <5>1 DEF Sorted, L
          <5> QED
            BY <3>2, <5>1, <5>2
        <4> QED
          BY <4>1, <4>2
      <3>7. ASSUME NEW i \in 1..n, Keep(i) PROVE Has(t, Piece(i))
        <4>1. CASE i = n
          BY <3>2, <3>3, <4>1 DEF Has, c
        <4>2. CASE i # n
          <5>1. PICK k \in 1..L : s[k] = Piece(i)
            BY <2>1, <2>3, <3>7, <4>2 DEF Has, L
          <5> QED
            BY <3>2, <3>3, <5>1 DEF Has
        <4> QED
          BY <4>1, <4>2
      <3> QED
        BY <2>1, <3>2, <3>5, <3>6, <3>7 DEF t
    <2> QED
      BY <2>5, <2>6
  <1>13. \A n \in 0..N : n \in S
    <2> HIDE DEF S
    <2> QED
      BY <1>1, <1>11, <1>12, EachStep
  <1>14. Bounded1(N)
    <2>1. N \in S
      <3> HIDE DEF S
      <3> QED
        BY <1>1, <1>13
    <2> HIDE DEF Bounded1
    <2> QED
      BY <1>1, <2>1
  <1>15. Within(after[N], duration)
    BY <1>10, <1>14 DEF Within
  <1> QED
    BY <1>7, <1>14, <1>15 DEF R, Keep, Piece, N

\* The text of a word that says nothing.
Blank == ""

\* A text that is not blank is in some words exactly when it is in them without
\* the blanks around.
LEMMA StrippedHas ==
  ASSUME NEW T, NEW words \in Seq(T), NEW x, x # Blank
  PROVE  /\ Speech!Stripped(words) \in Seq(T)
         /\ Has(words, x) <=> Has(Speech!Stripped(words), x)
  <1> DEFINE L == Len(words)
             said == {n \in DOMAIN words : words[n] # Blank}
             t == Speech!Stripped(words)
             a == Speech!Min(said)
             b == Speech!Max(said)
  <1>1. L \in Nat /\ DOMAIN words = 1..L /\ \A n \in 1..L : words[n] \in T
    OBVIOUS
  <1>2. \A n \in 1..L : words[n] # Blank <=> n \in said
    BY <1>1
  <1>3. said \in SUBSET (1..L)
    BY <1>1
  <1>4. t = IF said = {} THEN <<>> ELSE SubSeq(words, a, b)
    BY Zenon DEF Speech!Stripped, Blank
  <1> HIDE DEF said, t
  <1>5. CASE said = {}
    <2>1. t = <<>>
      BY <1>4, <1>5
    <2>2. t \in Seq(T) /\ ~Has(t, x)
      BY <2>1 DEF Has
    <2>3. ~Has(words, x)
      BY <1>2, <1>5 DEF Has
    <2> QED
      BY <2>2, <2>3 DEF t
  <1>6. CASE said # {}
    <2>1. a \in said /\ b \in said /\ \A n \in said : a <= n /\ n <= b
      BY <1>1, <1>3, <1>6, Extremes
    <2> HIDE DEF a, b
    <2>2. a \in 1..L /\ b \in 1..L /\ a <= b
      BY <1>3, <2>1
    <2>3. t \in Seq(T) /\ Len(t) = b - a + 1 /\ \A n \in 1..b - a + 1 : t[n] = words[a + n - 1]
      <3>1. a \in Int /\ b \in Int /\ \A n \in a..b : words[n] \in T
        BY <1>1, <2>2
      <3>2. t = SubSeq(words, a, b)
        BY <1>4, <1>6
      <3>3. /\ SubSeq(words, a, b) \in Seq(T)
            /\ Len(SubSeq(words, a, b)) = (IF a <= b THEN b - a + 1 ELSE 0)
            /\ \A n \in 1..b - a + 1 : SubSeq(words, a, b)[n] = words[a + n - 1]
        BY <3>1, SubSeqProperties
      <3> QED
        BY <2>2, <3>2, <3>3
    <2>4. ASSUME Has(words, x) PROVE Has(t, x)
      <3>1. PICK n \in 1..L : words[n] = x
        BY <2>4 DEF Has
      <3>2. n \in said
        BY <1>2, <3>1
      <3>3. n - a + 1 \in 1..b - a + 1 /\ a + (n - a + 1) - 1 = n
        BY <2>1, <2>2, <3>2
      <3>4. t[n - a + 1] = words[n]
        BY <2>3, <3>3
      <3> QED
        BY <2>3, <3>1, <3>3, <3>4 DEF Has
    <2>5. ASSUME Has(t, x) PROVE Has(words, x)
      <3>1. PICK n \in 1..b - a + 1 : t[n] = x
        BY <2>3, <2>5 DEF Has
      <3>2. a + n - 1 \in 1..L
        BY <1>1, <2>2
      <3> QED
        BY <2>3, <3>1, <3>2 DEF Has
    <2> QED
      BY <2>3, <2>4, <2>5 DEF t
  <1> QED
    BY <1>5, <1>6

\* The rows of some words: each says words that follow each other, or a noise.
RowsOf(T, speech) ==
  {row \in SpeechRow(T) : \/ \E i, j \in 1..Len(speech) : RowIs(row, speech, i, j)
                          \/ row.words = <<"noise">>}

\* The rows that say the k-th word.
Saying(T, speech, k) ==
  {row \in SpeechRow(T) : \E i, j \in 1..Len(speech) : i <= k /\ k <= j /\ RowIs(row, speech, i, j)}

\* The words that are not blank are different, and none is a noise.
Different(speech) ==
  \A i \in 1..Len(speech) : speech[i].text # Blank =>
    /\ speech[i].text # "noise"
    /\ \A j \in 1..Len(speech) : speech[i].text = speech[j].text => i = j

\* A row of the speech says a word exactly when it has the text of it.
LEMMA RowSays ==
  ASSUME NEW T, NEW speech \in Seq(Word(T)), Different(speech), NEW k \in 1..Len(speech), speech[k].text # Blank,
         NEW row \in RowsOf(T, speech)
  PROVE  row \in Saying(T, speech, k) <=> Has(row.words, speech[k].text)
  <1> DEFINE x == speech[k].text
             N == Len(speech)
  <1>1. N \in Nat /\ k \in 1..N /\ row \in SpeechRow(T)
    BY DEF RowsOf
  <1>2. ASSUME row \in Saying(T, speech, k) PROVE Has(row.words, x)
    <2>1. PICK i \in 1..N, j \in 1..N : i <= k /\ k <= j /\ RowIs(row, speech, i, j)
      BY <1>2 DEF Saying
    <2>2. k - i + 1 \in 1..j - i + 1 /\ i + (k - i + 1) - 1 = k
      BY <1>1, <2>1
    <2>3. row.words[k - i + 1] = speech[i + (k - i + 1) - 1].text
      BY <2>1, <2>2 DEF RowIs
    <2>4. Len(row.words) = j - i + 1
      BY <2>1 DEF RowIs
    <2> QED
      BY <2>2, <2>3, <2>4 DEF Has
  <1>3. ASSUME Has(row.words, x) PROVE row \in Saying(T, speech, k)
    <2>1. CASE row.words = <<"noise">>
      <3>1. x = "noise"
        BY <1>3, <2>1 DEF Has
      <3> QED
        BY <1>1, <3>1 DEF Different
    <2>2. CASE row.words # <<"noise">>
      <3>1. PICK i \in 1..N, j \in 1..N : RowIs(row, speech, i, j)
        BY <2>2 DEF RowsOf
      <3>2. Len(row.words) = j - i + 1 /\ \A n \in 1..j - i + 1 : row.words[n] = speech[i + n - 1].text
        BY <3>1 DEF RowIs
      <3>3. PICK n \in 1..j - i + 1 : row.words[n] = x
        BY <1>3, <3>2 DEF Has
      <3>4. i + n - 1 \in 1..N /\ i <= i + n - 1 /\ i + n - 1 <= j
        BY <1>1, <3>1
      <3>5. speech[i + n - 1].text = x
        BY <3>2, <3>3
      <3>6. i + n - 1 = k
        <4> DEFINE m == i + n - 1
        <4>1. m \in 1..N /\ speech[m].text = x
          BY <3>4, <3>5
        <4> HIDE DEF m
        <4>2. m = k
          BY <1>1, <4>1 DEF Different
        <4> QED
          BY <4>2 DEF m
      <3>7. i <= k /\ k <= j
        BY <3>4, <3>6
      <3> QED
        BY <1>1, <3>1, <3>7 DEF Saying
    <2> QED
      BY <2>1, <2>2
  <1> QED
    BY <1>2, <1>3

\* Of two rows that are doubles, both say a word or none.
LEMMA DoublesSayTheSame ==
  ASSUME NEW T, NEW speech \in Seq(Word(T)), Different(speech), NEW k \in 1..Len(speech), speech[k].text # Blank
  PROVE  ClosedUnderDoubles(Saying(T, speech, k), RowsOf(T, speech))
  <1> SUFFICES ASSUME NEW row \in RowsOf(T, speech), NEW kept \in RowsOf(T, speech), Speech!Doubled(row, kept)
               PROVE  row \in Saying(T, speech, k) <=> kept \in Saying(T, speech, k)
    BY DEF ClosedUnderDoubles
  <1>1. row.words \in Seq(T) /\ kept.words \in Seq(T)
    BY DEF RowsOf, SpeechRow
  <1>2. Speech!Stripped(row.words) = Speech!Stripped(kept.words)
    BY DEF Speech!Doubled
  <1>3. Has(row.words, speech[k].text) <=> Has(Speech!Stripped(row.words), speech[k].text)
    BY <1>1, StrippedHas
  <1>4. Has(kept.words, speech[k].text) <=> Has(Speech!Stripped(kept.words), speech[k].text)
    BY <1>1, StrippedHas
  <1>5. row \in Saying(T, speech, k) <=> Has(row.words, speech[k].text)
    BY RowSays
  <1>6. kept \in Saying(T, speech, k) <=> Has(kept.words, speech[k].text)
    BY RowSays
  <1> QED
    BY <1>2, <1>3, <1>4, <1>5, <1>6

\* What is in one of some sequences is in all of them, one after the other.
LEMMA FlattenHas ==
  ASSUME NEW E, NEW ss \in Seq(Seq(E))
  PROVE  /\ Speech!FlattenSeq(ss) \in Seq(E)
         /\ \A n \in 1..Len(ss) : \A x : Has(ss[n], x) => Has(Speech!FlattenSeq(ss), x)
  <1> DEFINE N == Len(ss)
  <1>1. N \in Nat /\ \A n \in 1..N : ss[n] \in Seq(E)
    OBVIOUS
  <1>2. PICK f \in [0..N -> Seq(E)] : FlatteningIs(ss, f) /\ Speech!FlattenSeq(ss) = f[N]
    BY FlattenDef
  <1>3. \A n \in 1..N : f[n] = f[n - 1] \o ss[n]
    BY <1>2 DEF FlatteningIs
  <1> HIDE DEF N
  <1> DEFINE All(n) == \A i \in 1..n : \A x : Has(ss[i], x) => Has(f[n], x)
             S == {n \in Nat : n <= N => All(n)}
  <1>4. 0 \in S
    BY <1>1
  <1>5. ASSUME NEW n \in 1..N, n - 1 \in S PROVE n \in S
    <2>1. n \in Nat /\ n - 1 \in 0..N /\ n \in 0..N /\ n - 1 <= N /\ \A i \in 1..n : i = n \/ i \in 1..n - 1
      BY <1>1
    <2>2. All(n - 1)
      BY <1>5, <2>1
    <2> DEFINE a == f[n - 1]
               b == ss[n]
               c == f[n]
    <2>3. a \in Seq(E) /\ b \in Seq(E) /\ c = a \o b
      BY <1>1, <1>3, <2>1
    <2> HIDE DEF a, b, c
    <2>4. /\ Len(c) = Len(a) + Len(b) /\ Len(a) \in Nat /\ Len(b) \in Nat
          /\ \A k \in 1..Len(a) + Len(b) : c[k] = IF k <= Len(a) THEN a[k] ELSE b[k - Len(a)]
      BY <2>3, ConcatProperties
    <2>5. ASSUME NEW x, Has(a, x) PROVE Has(c, x)
      <3>1. PICK k \in 1..Len(a) : a[k] = x
        BY <2>5 DEF Has
      <3>2. k \in 1..Len(a) + Len(b) /\ k <= Len(a)
        BY <2>4
      <3> QED
        BY <2>4, <3>1, <3>2 DEF Has
    <2>6. ASSUME NEW x, Has(b, x) PROVE Has(c, x)
      <3>1. PICK k \in 1..Len(b) : b[k] = x
        BY <2>6 DEF Has
      <3>2. k + Len(a) \in 1..Len(a) + Len(b) /\ ~(k + Len(a) <= Len(a)) /\ (k + Len(a)) - Len(a) = k
        BY <2>4
      <3>3. c[k + Len(a)] = x
        BY <2>4, <3>1, <3>2
      <3> QED
        BY <2>4, <3>2, <3>3 DEF Has
    <2>7. All(n)
      <3> SUFFICES ASSUME NEW i \in 1..n, NEW x, Has(ss[i], x) PROVE Has(f[n], x)
        OBVIOUS
      <3>1. CASE i = n
        BY <2>6, <3>1 DEF b, c
      <3>2. CASE i # n
        <4>1. Has(a, x)
          BY <2>1, <2>2, <3>2 DEF a
        <4> QED
          BY <2>5, <4>1 DEF c
      <3> QED
        BY <3>1, <3>2
    <2> HIDE DEF All
    <2> QED
      BY <2>1, <2>7
  <1>6. \A n \in 0..N : n \in S
    <2> HIDE DEF S
    <2> QED
      BY <1>1, <1>4, <1>5, EachStep
  <1>7. All(N) /\ N \in 0..N
    <2>1. N \in S
      <3> HIDE DEF S
      <3> QED
        BY <1>1, <1>6
    <2> HIDE DEF All
    <2> QED
      BY <1>1, <2>1
  <1> QED
    BY <1>2, <1>7 DEF N

\* Two sequences.
LEMMA FlattenTwo ==
  ASSUME NEW E, NEW s \in Seq(E), NEW u \in Seq(E)
  PROVE  Speech!FlattenSeq(<<s, u>>) = s \o u
  <1> DEFINE ss == <<s, u>>
  <1>1. ss \in Seq(Seq(E)) /\ Len(ss) = 2 /\ ss[1] = s /\ ss[2] = u
    OBVIOUS
  <1> HIDE DEF ss
  <1>2. PICK f \in [0..2 -> Seq(E)] : FlatteningIs(ss, f) /\ Speech!FlattenSeq(ss) = f[2]
    BY <1>1, FlattenDef
  <1>3. f[0] = <<>> /\ f[1] = f[1 - 1] \o s /\ f[2] = f[2 - 1] \o u
    BY <1>1, <1>2 DEF FlatteningIs
  <1>4. <<>> \o s = s /\ 1 - 1 = 0 /\ 2 - 1 = 1
    BY ConcatEmptySeq
  <1> QED
    BY <1>2, <1>3, <1>4 DEF ss

\* Rows that do not overlap are in order.
LEMMA RowsAreSorted ==
  ASSUME NEW T, NEW rows \in Seq(SpeechRow(T)), \A r \in 1..Len(rows) : rows[r].start < rows[r].end,
         \A r \in 1..Len(rows) : r > 1 => rows[r - 1].end <= rows[r].start
  PROVE  Sorted(rows)
  <1> DEFINE L == Len(rows)
             A == {0}
             Place(r) == [start |-> rows[r].start, end |-> rows[r].end, text |-> 0, stop |-> FALSE]
             words == [r \in 1..L |-> Place(r)]
  <1>1. L \in Nat /\ \A r \in 1..L : rows[r].start \in Int /\ rows[r].end \in Int
    <2>1. L \in Nat /\ \A r \in 1..L : rows[r] \in SpeechRow(T)
      OBVIOUS
    <2> QED
      BY <2>1 DEF SpeechRow
  <1>2. \A r \in 1..L : Place(r) \in Word(A)
    BY <1>1 DEF Word
  <1>3. \A r \in 1..L : Place(r).start = rows[r].start /\ Place(r).end = rows[r].end
    OBVIOUS
  <1> HIDE DEF A, Place
  <1>4. words \in [1..L -> Word(A)] /\ \A r \in 1..L : words[r] = Place(r)
    BY <1>2
  <1> HIDE DEF words
  <1>5. words \in Seq(Word(A)) /\ Len(words) = L
    BY <1>1, <1>4, ASequence
  <1>6. \A r \in 1..L : words[r].start = rows[r].start /\ words[r].end = rows[r].end
    BY <1>3, <1>4
  <1>7. /\ \A n \in 1..Len(words) : words[n].start < words[n].end
        /\ \A n \in 1..Len(words) - 1 : words[n].end <= words[n + 1].start
    <2>1. ASSUME NEW n \in 1..L - 1 PROVE words[n].end <= words[n + 1].start
      <3>1. n \in 1..L /\ n + 1 \in 1..L /\ n + 1 > 1 /\ (n + 1) - 1 = n
        BY <1>1
      <3>2. rows[n].end <= rows[n + 1].start
        BY <3>1
      <3> QED
        BY <1>6, <3>1, <3>2
    <2> QED
      BY <1>5, <1>6, <2>1
  <1>8. InTurn(words)
    BY <1>5, <1>7, Successive
  <1>9. ASSUME NEW i \in 1..L, NEW j \in 1..L, i <= j PROVE rows[i].start <= rows[j].start
    <2>1. CASE i = j
      BY <1>1, <2>1
    <2>2. CASE i # j
      <3>1. i < j
        BY <1>1, <1>9, <2>2
      <3>2. words[i].start < words[i].end /\ words[i].end <= words[j].start
        BY <1>5, <1>8, <3>1 DEF InTurn
      <3> QED
        BY <1>1, <1>6, <3>2
    <2> QED
      BY <2>1, <2>2
  <1> QED
    BY <1>9 DEF Sorted

\* A segment that begins with its first word and ends with its last one.
ToTheWord(segment) ==
  /\ Len(segment.words) # 0
  /\ segment.start = segment.words[1].start /\ segment.end = segment.words[Len(segment.words)].end

\* The row of a segment that is not split.
LEMMA WholeParts ==
  ASSUME NEW T, NEW segment \in Segment(T)
  PROVE  /\ Speech!Whole(segment) \in SpeechRow(T)
         /\ ToTheWord(segment) => RowIs(Speech!Whole(segment), segment.words, 1, Len(segment.words))
  <1> DEFINE words == segment.words
             N == Len(words)
             texts == [n \in DOMAIN words |-> words[n].text]
             row == Speech!Whole(segment)
  <1>1. words \in Seq(Word(T)) /\ segment.start \in Int /\ segment.end \in Int /\ segment.confidence \in Int
    BY DEF Segment
  <1>2. row = [start |-> segment.start, end |-> segment.end, confidence |-> segment.confidence, words |-> texts]
    BY DEF Speech!Whole
  <1> HIDE DEF words
  <1>3. N \in Nat /\ DOMAIN words = 1..N /\ \A n \in 1..N : words[n] \in Word(T)
    BY <1>1
  <1>4. texts \in [1..N -> T] /\ \A n \in 1..N : texts[n] = words[n].text
    BY <1>3 DEF Word
  <1> HIDE DEF texts, N
  <1>5. texts \in Seq(T) /\ Len(texts) = N
    BY <1>3, <1>4, ASequence
  <1>6. row \in SpeechRow(T)
    BY <1>1, <1>2, <1>5 DEF SpeechRow
  <1>7. row.start = segment.start /\ row.end = segment.end /\ row.words = texts
    BY <1>2
  <1> HIDE DEF row
  <1>8. ASSUME ToTheWord(segment) PROVE RowIs(row, words, 1, N)
    <2>1. N # 0 /\ segment.start = words[1].start /\ segment.end = words[N].end
      BY <1>8 DEF ToTheWord, words, N
    <2>2. 1 \in 1..N /\ N \in 1..N /\ N - 1 + 1 = N /\ \A k \in 1..N : 1 + k - 1 = k
      BY <1>3, <2>1
    <2> QED
      BY <1>4, <1>5, <1>7, <2>1, <2>2 DEF RowIs, N
  <1> QED
    BY <1>6, <1>8 DEF row, words, N

\* The split of a segment as the recogniser hears it.
LEMMA SplitOfHeard ==
  ASSUME NEW T, NEW segment \in Segment(T), NEW limit \in Nat, ToTheWord(segment), InTurn(segment.words)
  PROVE  /\ Speech!Split(segment, limit) \in Seq(SpeechRow(T)) /\ Sorted(Speech!Split(segment, limit))
         /\ \A r \in 1..Len(Speech!Split(segment, limit)) : \E i, j \in 1..Len(segment.words) :
              RowIs(Speech!Split(segment, limit)[r], segment.words, i, j)
         /\ \A k \in 1..Len(segment.words) : \E r \in 1..Len(Speech!Split(segment, limit)) :
              \E i, j \in 1..Len(segment.words) :
                i <= k /\ k <= j /\ RowIs(Speech!Split(segment, limit)[r], segment.words, i, j)
  <1> DEFINE rows == Speech!Split(segment, limit)
             words == segment.words
             N == Len(words)
             whole == Speech!Whole(segment)
  <1>1. words \in Seq(Word(T)) /\ N \in Nat /\ N # 0
    BY DEF Segment, ToTheWord
  <1>2. CASE rows = <<whole>>
    <2>1. whole \in SpeechRow(T) /\ RowIs(whole, words, 1, N)
      BY WholeParts
    <2>2. 1 \in 1..N /\ N \in 1..N /\ \A k \in 1..N : 1 <= k /\ k <= N
      BY <1>1
    <2> HIDE DEF rows, words, N, whole
    <2>3. rows \in Seq(SpeechRow(T)) /\ Len(rows) = 1 /\ rows[1] = whole
      BY <1>2, <2>1
    <2>4. Sorted(rows)
      <3>1. whole.start <= whole.start
        BY <2>1 DEF SpeechRow
      <3>2. \A r \in 1..1 : r = 1
        OBVIOUS
      <3> QED
        BY <2>3, <3>1, <3>2 DEF Sorted
    <2>5. \A r \in 1..Len(rows) : RowIs(rows[r], words, 1, N)
      <3>1. \A r \in 1..1 : r = 1
        OBVIOUS
      <3> QED
        BY <2>1, <2>3, <3>1
    <2>6. 1 \in 1..Len(rows)
      BY <2>3
    <2>7. \A k \in 1..N : \E r \in 1..Len(rows) : \E i, j \in 1..N : i <= k /\ k <= j /\ RowIs(rows[r], words, i, j)
      BY <2>2, <2>5, <2>6
    <2>8. \A r \in 1..Len(rows) : \E i, j \in 1..N : RowIs(rows[r], words, i, j)
      BY <2>2, <2>5
    <2> QED
      BY <2>3, <2>4, <2>7, <2>8 DEF rows, words, N
  <1>3. CASE rows # <<whole>>
    <2>1. rows \in Seq(SpeechRow(T)) /\ CutUpTo(words, limit, rows, N)
      BY <1>3, SplitParts
    <2>0. InTurn(words)
      OBVIOUS
    <2> HIDE DEF rows, words, N, whole
    <2>2. ASSUME NEW r \in 1..Len(rows)
          PROVE  /\ \E i, j \in 1..N : RowIs(rows[r], words, i, j)
                 /\ r > 1 => rows[r - 1].end <= rows[r].start
      BY <1>1, <2>0, <2>1, RowsInTurn DEF N
    <2>3. ASSUME NEW k \in 1..N
          PROVE  \E r \in 1..Len(rows) : \E i, j \in 1..N : i <= k /\ k <= j /\ RowIs(rows[r], words, i, j)
      BY <1>1, <2>1, WordsInRows DEF N
    <2>4. ASSUME NEW r \in 1..Len(rows) PROVE rows[r].start < rows[r].end
      <3>1. PICK i \in 1..N, j \in 1..N : RowIs(rows[r], words, i, j)
        BY <2>2
      <3>2. j \in i..N /\ rows[r].start = words[i].start /\ rows[r].end = words[j].end
        BY <3>1 DEF RowIs, N
      <3>3. words[i].start < words[i].end /\ words[j].start < words[j].end
            /\ (i < j => words[i].end <= words[j].start)
        BY <2>0 DEF InTurn, N
      <3>4. words[i] \in Word(T) /\ words[j] \in Word(T)
        BY <1>1 DEF N
      <3>5. words[i].start \in Int /\ words[i].end \in Int /\ words[j].start \in Int /\ words[j].end \in Int
        BY <3>4 DEF Word
      <3>6. i = j \/ i < j
        BY <1>1, <3>2
      <3> QED
        BY <3>2, <3>3, <3>5, <3>6
    <2>5. Sorted(rows)
      BY <2>1, <2>2, <2>4, RowsAreSorted
    <2> QED
      BY <2>1, <2>2, <2>3, <2>5 DEF rows, words, N
  <1> QED
    BY <1>2, <1>3

\* A row at a later time.
Moved(row, offset) == [row EXCEPT !.start = row.start + offset, !.end = row.end + offset]

\* Words a to b of the speech, in the time of a piece that begins at offset.
PartOf(words, speech, a, b, offset) ==
  /\ Len(words) = b - a + 1
  /\ \A n \in 1..b - a + 1 :
       /\ words[n].start = speech[a + n - 1].start - offset /\ words[n].end = speech[a + n - 1].end - offset
       /\ words[n].text = speech[a + n - 1].text

\* A row of the words of a piece is one of the words of the speech, at a later time.
LEMMA MovedRow ==
  ASSUME NEW T, NEW speech \in Seq(Word(T)), NEW a \in 1..Len(speech), NEW b \in a..Len(speech), NEW offset \in Int,
         NEW words \in Seq(Word(T)), PartOf(words, speech, a, b, offset),
         NEW row \in SpeechRow(T), NEW i \in 1..Len(words), NEW j \in 1..Len(words), RowIs(row, words, i, j)
  PROVE  /\ Moved(row, offset) \in SpeechRow(T)
         /\ i + a - 1 \in 1..Len(speech) /\ j + a - 1 \in 1..Len(speech)
         /\ RowIs(Moved(row, offset), speech, i + a - 1, j + a - 1)
  <1> DEFINE N == Len(speech)
             L == b - a + 1
             p == i + a - 1
             q == j + a - 1
             m == Moved(row, offset)
  <1>1. N \in Nat /\ a \in 1..N /\ b \in 1..N /\ a <= b /\ L \in Nat /\ \A n \in 1..N : speech[n] \in Word(T)
    BY Z3
  <1>2. \A n \in 1..N : speech[n].start \in Int /\ speech[n].end \in Int
    BY <1>1 DEF Word
  <1>3. /\ Len(words) = L
        /\ \A n \in 1..L :
             /\ words[n].start = speech[a + n - 1].start - offset /\ words[n].end = speech[a + n - 1].end - offset
             /\ words[n].text = speech[a + n - 1].text
    BY DEF PartOf
  <1>4. /\ i \in 1..L /\ j \in i..L /\ row.start = words[i].start /\ row.end = words[j].end
        /\ Len(row.words) = j - i + 1
        /\ \A k \in 1..j - i + 1 : row.words[k] = words[i + k - 1].text
    BY <1>3 DEF RowIs
  <1> HIDE DEF N
  <1>5. p \in 1..N /\ q \in p..N /\ a + i - 1 = p /\ a + j - 1 = q /\ q - p + 1 = j - i + 1
    BY <1>1, <1>4
  <1>6. row.start \in Int /\ row.end \in Int
    BY DEF SpeechRow
  <1>7. m \in SpeechRow(T) /\ m.start = row.start + offset /\ m.end = row.end + offset /\ m.words = row.words
    <2> DEFINE x == row.start + offset
               y == row.end + offset
    <2>1. x \in Int /\ y \in Int
      BY <1>6
    <2>2. m = [row EXCEPT !.start = x, !.end = y]
      BY DEF Moved
    <2> HIDE DEF x, y, m
    <2>3. m \in SpeechRow(T) /\ m.start = x /\ m.end = y /\ m.words = row.words
      BY <2>1, <2>2 DEF SpeechRow
    <2> QED
      BY <2>3 DEF x, y
  <1> HIDE DEF m, L
  <1>8. m.start = speech[p].start
    <2>1. words[i].start = speech[p].start - offset
      <3>1. words[i].start = speech[a + i - 1].start - offset
        BY <1>3, <1>4
      <3> QED
        BY <1>5, <3>1
    <2>2. speech[p].start \in Int
      BY <1>2, <1>5
    <2> HIDE DEF p
    <2> QED
      BY <1>4, <1>7, <2>1, <2>2
  <1>9. m.end = speech[q].end
    <2>1. words[j].end = speech[q].end - offset
      <3>1. j \in 1..L
        BY <1>4
      <3>2. words[j].end = speech[a + j - 1].end - offset
        BY <1>3, <3>1
      <3> QED
        BY <1>5, <3>2
    <2>2. q \in 1..N
      BY <1>5
    <2>3. speech[q].end \in Int
      BY <1>2, <2>2
    <2> HIDE DEF q
    <2> QED
      BY <1>4, <1>7, <2>1, <2>3
  <1>10. ASSUME NEW k \in 1..q - p + 1 PROVE m.words[k] = speech[p + k - 1].text
    <2>1. k \in 1..j - i + 1 /\ i + k - 1 \in 1..L /\ a + (i + k - 1) - 1 = p + k - 1
      BY <1>1, <1>4, <1>5
    <2>2. row.words[k] = words[i + k - 1].text
      BY <1>4, <2>1
    <2>3. words[i + k - 1].text = speech[a + (i + k - 1) - 1].text
      BY <1>3, <2>1
    <2> QED
      BY <1>7, <2>1, <2>2, <2>3
  <1>11. Len(m.words) = q - p + 1
    BY <1>4, <1>5, <1>7
  <1> HIDE DEF p, q
  <1>12. q \in 1..N
    BY <1>1, <1>5
  <1>13. RowIs(m, speech, p, q)
    BY <1>5, <1>8, <1>9, <1>10, <1>11 DEF RowIs, N
  <1> QED
    BY <1>5, <1>7, <1>12, <1>13 DEF m, p, q, N

\* The words that are whole in a piece.
InPiece(speech, c) == {n \in DOMAIN speech : c.start <= speech[n].start /\ speech[n].end <= c.end}

\* The sound at the end of a piece.
SoundIs(c, confidence) ==
  [start |-> c.end - c.start - Speech!Sliver + 1, end |-> c.end - c.start + Speech!SameRow,
   words |-> <<[start |-> 0, end |-> 0, text |-> "noise", stop |-> FALSE]>>, confidence |-> confidence]

\* What is said of the words a to b.
SaidIn(segment, T, speech, a, b, offset) ==
  /\ segment \in Segment(T) /\ ToTheWord(segment) /\ InTurn(segment.words)
  /\ PartOf(segment.words, speech, a, b, offset)

\* What is heard of a piece: its words, if it has some, and its sound.
LEMMA HeardParts ==
  ASSUME NEW T, NEW speech \in Seq(Word(T)), InTurn(speech), NEW c \in [start : Int, end : Int], NEW confidence \in Int
  PROVE  \/ /\ InPiece(speech, c) = {}
            /\ Speech!Heard(speech, c, confidence) = <<SoundIs(c, confidence)>>
         \/ \E a \in 1..Len(speech) : \E b \in a..Len(speech) : \E segment :
              /\ SaidIn(segment, T, speech, a, b, c.start)
              /\ \A n \in InPiece(speech, c) : a <= n /\ n <= b
              /\ Speech!Heard(speech, c, confidence) = <<segment, SoundIs(c, confidence)>>
  <1> DEFINE whole == {n \in DOMAIN speech : c.start <= speech[n].start /\ speech[n].end <= c.end}
             N == Len(speech)
             a == Speech!Min(whole)
             b == Speech!Max(whole)
             Own(w) == [w EXCEPT !.start = w.start - c.start, !.end = w.end - c.start]
             mine == [n \in 1..b - a + 1 |-> Own(speech[a + n - 1])]
             noise == SoundIs(c, confidence)
             segment == [start |-> mine[1].start, end |-> Speech!Last(mine).end, words |-> mine, confidence |-> confidence]
  <1>1. N \in Nat /\ DOMAIN speech = 1..N /\ c.start \in Int /\ c.end \in Int /\ \A n \in 1..N : speech[n] \in Word(T)
    OBVIOUS
  <1>2. Speech!Heard(speech, c, confidence) = IF whole = {} THEN <<noise>> ELSE <<segment, noise>>
    BY Zenon DEF Speech!Heard, SoundIs
  <1>3. whole \in SUBSET (1..N) /\ InPiece(speech, c) = whole
    BY <1>1 DEF InPiece
  <1> HIDE DEF whole, noise, N
  <1>4. CASE whole = {}
    <2> HIDE DEF segment
    <2> QED
      BY <1>2, <1>3, <1>4 DEF noise
  <1>5. CASE whole # {}
    <2>1. a \in whole /\ b \in whole /\ \A n \in whole : a <= n /\ n <= b
      BY <1>1, <1>3, <1>5, Extremes
    <2> HIDE DEF a, b
    <2>2. a \in 1..N /\ b \in a..N
      BY <1>1, <1>3, <2>1
    <2> DEFINE L == b - a + 1
    <2>3. L \in Nat /\ L >= 1 /\ \A n \in 1..L : a + n - 1 \in 1..N
      BY <1>1, <2>2
    <2>4. ASSUME NEW n \in 1..N
          PROVE  /\ Own(speech[n]) \in Word(T)
                 /\ Own(speech[n]).start = speech[n].start - c.start /\ Own(speech[n]).end = speech[n].end - c.start
                 /\ Own(speech[n]).text = speech[n].text
                 /\ speech[n].start \in Int /\ speech[n].end \in Int
      <3> DEFINE w == speech[n]
      <3>1. w \in Word(T)
        BY <1>1
      <3> HIDE DEF w
      <3>2. w.start \in Int /\ w.end \in Int
        BY <3>1 DEF Word
      <3>3. /\ Own(w) \in Word(T) /\ Own(w).start = w.start - c.start /\ Own(w).end = w.end - c.start
            /\ Own(w).text = w.text
        <4> DEFINE x == w.start - c.start
                   y == w.end - c.start
        <4>1. x \in Int /\ y \in Int
          BY <1>1, <3>2
        <4>2. Own(w) = [w EXCEPT !.start = x, !.end = y]
          OBVIOUS
        <4> HIDE DEF x, y, Own
        <4>3. Own(w) \in Word(T) /\ Own(w).start = x /\ Own(w).end = y /\ Own(w).text = w.text
          BY <3>1, <4>1, <4>2 DEF Word
        <4> QED
          BY <4>3 DEF x, y
      <3> HIDE DEF Own
      <3> QED
        BY <3>2, <3>3 DEF w
    <2> HIDE DEF Own, L
    <2>5. mine \in [1..L -> Word(T)] /\ \A n \in 1..L : mine[n] = Own(speech[a + n - 1])
      BY <2>3, <2>4 DEF L
    <2> HIDE DEF mine
    <2>6. mine \in Seq(Word(T)) /\ Len(mine) = L
      BY <2>3, <2>5, ASequence
    <2>7. ASSUME NEW n \in 1..L
          PROVE  /\ mine[n].start = speech[a + n - 1].start - c.start /\ mine[n].end = speech[a + n - 1].end - c.start
                 /\ mine[n].text = speech[a + n - 1].text
                 /\ speech[a + n - 1].start \in Int /\ speech[a + n - 1].end \in Int
      <3> DEFINE m == a + n - 1
      <3>1. m \in 1..N /\ mine[n] = Own(speech[m])
        BY <2>3, <2>5
      <3> HIDE DEF m
      <3>2. /\ mine[n].start = speech[m].start - c.start /\ mine[n].end = speech[m].end - c.start
            /\ mine[n].text = speech[m].text /\ speech[m].start \in Int /\ speech[m].end \in Int
        BY <2>4, <3>1
      <3> QED
        BY <3>2 DEF m
    <2>8. PartOf(mine, speech, a, b, c.start)
      BY <2>6, <2>7 DEF PartOf, L
    <2>9. InTurn(mine)
      <3>1. ASSUME NEW i \in 1..L PROVE mine[i].start < mine[i].end
        <4>1. speech[a + i - 1].start < speech[a + i - 1].end
          <5> DEFINE m == a + i - 1
          <5>1. m \in 1..N
            BY <2>3
          <5> HIDE DEF m
          <5>2. speech[m].start < speech[m].end
            BY <5>1 DEF InTurn, N
          <5> QED
            BY <5>2 DEF m
        <4> QED
          BY <1>1, <2>7, <4>1
      <3>2. ASSUME NEW i \in 1..L, NEW j \in 1..L, i < j PROVE mine[i].end <= mine[j].start
        <4>1. speech[a + i - 1].end <= speech[a + j - 1].start
          <5> DEFINE m == a + i - 1
                     n == a + j - 1
          <5>1. m \in 1..N /\ n \in 1..N /\ m < n
            <6>1. m \in 1..N /\ n \in 1..N
              BY <2>3
            <6>2. i \in Int /\ j \in Int /\ a \in Int
              BY <1>1, <2>2, <2>3
            <6>3. m < n
              BY <3>2, <6>2
            <6> QED
              BY <6>1, <6>3
          <5> HIDE DEF m, n
          <5>2. speech[m].end <= speech[n].start
            BY <5>1 DEF InTurn, N
          <5> QED
            BY <5>2 DEF m, n
        <4>2. mine[i].end = speech[a + i - 1].end - c.start /\ speech[a + i - 1].end \in Int
          BY <2>7
        <4>3. mine[j].start = speech[a + j - 1].start - c.start /\ speech[a + j - 1].start \in Int
          BY <2>7
        <4> QED
          BY <1>1, <4>1, <4>2, <4>3
      <3> QED
        BY <2>6, <3>1, <3>2 DEF InTurn
    <2>10. Speech!Last(mine) = mine[L]
      BY <2>6 DEF Speech!Last
    <2>11. mine[1].start \in Int /\ mine[L].end \in Int
      <3>1. 1 \in 1..L /\ L \in 1..L
        BY <2>3
      <3>2. mine[1] \in Word(T) /\ mine[L] \in Word(T)
        BY <2>5, <3>1
      <3> QED
        BY <3>2 DEF Word
    <2>12. /\ segment \in Segment(T) /\ segment.words = mine
           /\ segment.start = mine[1].start /\ segment.end = mine[L].end
      BY <2>6, <2>10, <2>11 DEF Segment
    <2> HIDE DEF segment
    <2>13. ToTheWord(segment)
      BY <2>3, <2>6, <2>12 DEF ToTheWord
    <2>14. SaidIn(segment, T, speech, a, b, c.start)
      BY <2>8, <2>9, <2>12, <2>13 DEF SaidIn
    <2>15. Speech!Heard(speech, c, confidence) = <<segment, noise>>
      BY <1>2, <1>5
    <2> QED
      BY <1>3, <2>1, <2>2, <2>14, <2>15 DEF N, noise
  <1> QED
    BY <1>4, <1>5

\* The row of the sound at the end of a piece.
SoundRow(c, confidence) ==
  [start |-> c.end - c.start - Speech!Sliver + 1, end |-> c.end - c.start + Speech!SameRow,
   words |-> <<"noise">>, confidence |-> confidence]

\* A sound is not split: its word has no time.
LEMMA SplitOfSound ==
  ASSUME NEW T, "noise" \in T, NEW c \in [start : Int, end : Int], NEW confidence \in Int, NEW limit \in Nat
  PROVE  /\ Speech!Split(SoundIs(c, confidence), limit) = <<SoundRow(c, confidence)>>
         /\ SoundRow(c, confidence) \in SpeechRow(T)
  <1> DEFINE word == [start |-> 0, end |-> 0, text |-> "noise", stop |-> FALSE]
             words == <<word>>
             sound == SoundIs(c, confidence)
             x == c.end - c.start - Speech!Sliver + 1
             y == c.end - c.start + Speech!SameRow
             row == [start |-> x, end |-> y, words |-> <<"noise">>, confidence |-> confidence]
  <1>1. word \in Word(T)
    BY DEF Word
  <1>2. word.start = 0 /\ word.end = 0 /\ word.text = "noise"
    OBVIOUS
  <1>3. x \in Int /\ y \in Int
    BY DEF Speech!Sliver, Speech!SameRow
  <1>4. sound = [start |-> x, end |-> y, words |-> words, confidence |-> confidence]
    BY DEF SoundIs
  <1>5. SoundRow(c, confidence) = row
    BY DEF SoundRow
  <1> HIDE DEF word, x, y, sound
  <1>6. words \in Seq(Word(T)) /\ Len(words) = 1 /\ words[1] = word /\ DOMAIN words = {1}
    BY <1>1
  <1> HIDE DEF words
  <1>7. /\ sound \in Segment(T) /\ sound.start = x /\ sound.end = y /\ sound.words = words
        /\ sound.confidence = confidence
    BY <1>3, <1>4, <1>6 DEF Segment
  <1>8. ~Speech!Usable(sound)
    <2> SUFFICES ASSUME Speech!Usable(sound) PROVE FALSE
      OBVIOUS
    <2>1. InTurn(words)
      BY <1>7, UsableParts
    <2>2. words[1].start < words[1].end
      BY <1>6, <2>1 DEF InTurn
    <2> QED
      BY <1>2, <1>6, <2>2
  <1>9. Speech!Split(sound, limit) = <<Speech!Whole(sound)>>
    BY <1>7, <1>8, SplitParts
  <1>10. Speech!Whole(sound) = row
    <2>1. [n \in DOMAIN words |-> words[n].text] = <<"noise">>
      BY <1>2, <1>6
    <2> QED
      BY <1>7, <2>1 DEF Speech!Whole
  <1>11. row \in SpeechRow(T)
    <2>1. <<"noise">> \in Seq(T)
      OBVIOUS
    <2> QED
      BY <1>3, <2>1 DEF SpeechRow
  <1> HIDE DEF row
  <1> QED
    BY <1>5, <1>9, <1>10, <1>11 DEF sound

\* The rows of what is heard of a piece, in its own time.
RowsHeard(speech, c, confidence, limit) ==
  LET heard == Speech!Heard(speech, c, confidence)
  IN Speech!FlattenSeq([k \in DOMAIN heard |-> Speech!Split(heard[k], limit)])

\* The rows that say the words of a piece.
SayThePiece(T, speech, c, s) ==
  /\ s \in Seq(SpeechRow(T)) /\ Sorted(s)
  /\ \A i \in 1..Len(s) : Moved(s[i], c.start) \in RowsOf(T, speech)
  /\ \A k \in InPiece(speech, c) : \E i \in 1..Len(s) : Moved(s[i], c.start) \in Saying(T, speech, k)

\* The rows of what is heard say every word that is whole in the piece.
LEMMA SplitSaysThePiece ==
  ASSUME NEW T, NEW speech \in Seq(Word(T)), NEW c \in [start : Int, end : Int], NEW limit \in Nat,
         NEW a \in 1..Len(speech), NEW b \in a..Len(speech), NEW segment, SaidIn(segment, T, speech, a, b, c.start),
         \A n \in InPiece(speech, c) : a <= n /\ n <= b
  PROVE  SayThePiece(T, speech, c, Speech!Split(segment, limit))
  <1> DEFINE s == Speech!Split(segment, limit)
             words == segment.words
             offset == c.start
             N == Len(speech)
             L == Len(words)
  <1>1. /\ segment \in Segment(T) /\ ToTheWord(segment) /\ InTurn(words) /\ PartOf(words, speech, a, b, offset)
        /\ offset \in Int
    BY DEF SaidIn
  <1>2. /\ s \in Seq(SpeechRow(T)) /\ Sorted(s)
        /\ \A r \in 1..Len(s) : \E i, j \in 1..L : RowIs(s[r], words, i, j)
        /\ \A k \in 1..L : \E r \in 1..Len(s) : \E i, j \in 1..L : i <= k /\ k <= j /\ RowIs(s[r], words, i, j)
    BY <1>1, SplitOfHeard
  <1>3. words \in Seq(Word(T))
    BY <1>1 DEF Segment
  <1>4. N \in Nat /\ a \in 1..N /\ b \in 1..N /\ a <= b /\ L = b - a + 1
    BY <1>1, Z3 DEF PartOf
  <1> HIDE DEF s, words, offset, L
  <1>5. ASSUME NEW r \in 1..Len(s), NEW i \in 1..L, NEW j \in 1..L, RowIs(s[r], words, i, j)
        PROVE  /\ Moved(s[r], offset) \in SpeechRow(T)
               /\ i + a - 1 \in 1..N /\ j + a - 1 \in 1..N
               /\ RowIs(Moved(s[r], offset), speech, i + a - 1, j + a - 1)
    <2> DEFINE row == s[r]
    <2>1. row \in SpeechRow(T) /\ RowIs(row, words, i, j)
      <3> DEFINE R == SpeechRow(T)
      <3>1. s \in Seq(R)
        BY <1>2
      <3> HIDE DEF R
      <3>2. row \in R
        BY <3>1
      <3> QED
        BY <1>5, <3>2 DEF R
    <2> HIDE DEF row
    <2>2. /\ Moved(row, offset) \in SpeechRow(T)
          /\ i + a - 1 \in 1..N /\ j + a - 1 \in 1..N
          /\ RowIs(Moved(row, offset), speech, i + a - 1, j + a - 1)
      BY <1>1, <1>3, <2>1, MovedRow DEF L
    <2> QED
      BY <2>2 DEF row
  <1> HIDE DEF N
  <1>6. ASSUME NEW r \in 1..Len(s) PROVE Moved(s[r], offset) \in RowsOf(T, speech)
    <2>1. PICK i \in 1..L, j \in 1..L : RowIs(s[r], words, i, j)
      BY <1>2
    <2> DEFINE p == i + a - 1
               q == j + a - 1
               m == Moved(s[r], offset)
    <2>2. m \in SpeechRow(T) /\ p \in 1..N /\ q \in 1..N /\ RowIs(m, speech, p, q)
      BY <1>5, <2>1
    <2> HIDE DEF m, p, q
    <2>3. m \in RowsOf(T, speech)
      BY <2>2 DEF RowsOf, N
    <2> QED
      BY <2>3 DEF m
  <1>7. ASSUME NEW k \in InPiece(speech, c) PROVE \E r \in 1..Len(s) : Moved(s[r], offset) \in Saying(T, speech, k)
    <2>1. k \in 1..N /\ a <= k /\ k <= b
      BY DEF InPiece, N
    <2> DEFINE n == k - a + 1
    <2>2. n \in 1..L
      BY <1>4, <2>1
    <2> HIDE DEF n
    <2>3. PICK r \in 1..Len(s) : \E i, j \in 1..L : i <= n /\ n <= j /\ RowIs(s[r], words, i, j)
      BY <1>2, <2>2
    <2>4. PICK i \in 1..L, j \in 1..L : i <= n /\ n <= j /\ RowIs(s[r], words, i, j)
      BY <2>3
    <2> DEFINE p == i + a - 1
               q == j + a - 1
               m == Moved(s[r], offset)
    <2>5. m \in SpeechRow(T) /\ p \in 1..N /\ q \in 1..N /\ RowIs(m, speech, p, q)
      BY <1>5, <2>4
    <2>6. p <= k /\ k <= q
      BY <1>4, <2>1, <2>2, <2>4 DEF n
    <2> HIDE DEF m, p, q
    <2>7. m \in Saying(T, speech, k)
      BY <2>5, <2>6 DEF Saying, N
    <2> QED
      BY <2>7 DEF m
  <1> QED
    BY <1>2, <1>6, <1>7 DEF SayThePiece, s, offset

\* What a piece says, when its words and then its sound are heard.
EndsWithSound(T, speech, c, confidence, limit) ==
  \E s : /\ SayThePiece(T, speech, c, s)
         /\ RowsHeard(speech, c, confidence, limit) = s \o <<SoundRow(c, confidence)>>

\* A piece is said by its rows, and ends with its sound.
LEMMA RowsHeardParts ==
  ASSUME NEW T, "noise" \in T, NEW speech \in Seq(Word(T)), InTurn(speech), NEW c \in [start : Int, end : Int],
         NEW confidence \in Int, NEW limit \in Nat
  PROVE  EndsWithSound(T, speech, c, confidence, limit)
  <1> DEFINE heard == Speech!Heard(speech, c, confidence)
             R == SpeechRow(T)
             row == SoundRow(c, confidence)
             sound == SoundIs(c, confidence)
             last == <<row>>
             ss == [k \in DOMAIN heard |-> Speech!Split(heard[k], limit)]
  <1>1. Speech!Split(sound, limit) = last /\ row \in R
    BY SplitOfSound
  <1>2. RowsHeard(speech, c, confidence, limit) = Speech!FlattenSeq(ss)
    BY DEF RowsHeard
  <1>3. \/ InPiece(speech, c) = {} /\ heard = <<sound>>
        \/ \E a \in 1..Len(speech) : \E b \in a..Len(speech) : \E segment :
              /\ SaidIn(segment, T, speech, a, b, c.start)
              /\ \A n \in InPiece(speech, c) : a <= n /\ n <= b
              /\ heard = <<segment, sound>>
    BY HeardParts
  <1> HIDE DEF heard, row, sound, R
  <1>4. last \in Seq(R)
    BY <1>1
  <1>5. CASE InPiece(speech, c) = {} /\ heard = <<sound>>
    <2>1. ss = <<last>>
      BY <1>1, <1>5
    <2> HIDE DEF ss, last
    <2>2. Speech!FlattenSeq(ss) = last
      BY <1>4, <2>1, FlattenOne
    <2>3. <<>> \o last = last
      BY <1>4, ConcatEmptySeq
    <2>4. SayThePiece(T, speech, c, <<>>)
      BY <1>5 DEF SayThePiece, Sorted
    <2> QED
      BY <1>2, <2>2, <2>3, <2>4 DEF last, row, EndsWithSound
  <1>6. ASSUME NEW a \in 1..Len(speech), NEW b \in a..Len(speech), NEW segment,
               SaidIn(segment, T, speech, a, b, c.start),
               \A n \in InPiece(speech, c) : a <= n /\ n <= b,
               heard = <<segment, sound>>
        PROVE  \E s : SayThePiece(T, speech, c, s) /\ Speech!FlattenSeq(ss) = s \o last
    <2> DEFINE s == Speech!Split(segment, limit)
    <2>1. ss = <<s, last>>
      BY <1>1, <1>6
    <2>2. SayThePiece(T, speech, c, s)
      BY <1>6, SplitSaysThePiece
    <2> HIDE DEF ss, last, s
    <2>3. s \in Seq(R)
      BY <2>2 DEF SayThePiece, R
    <2>4. Speech!FlattenSeq(ss) = s \o last
      BY <1>4, <2>1, <2>3, FlattenTwo
    <2> QED
      BY <2>2, <2>4
  <1> HIDE DEF ss, last
  <1>7. CASE ~(InPiece(speech, c) = {} /\ heard = <<sound>>)
    <2>1. \E s : SayThePiece(T, speech, c, s) /\ Speech!FlattenSeq(ss) = s \o last
      BY <1>3, <1>6, <1>7
    <2> QED
      BY <1>2, <2>1 DEF last, row, EndsWithSound
  <1> QED
    BY <1>5, <1>7

\* The rows of a piece, in the time of the recording.
LEMMA ShiftedParts ==
  ASSUME NEW T, "noise" \in T, NEW speech \in Seq(Word(T)), InTurn(speech), NEW c \in [start : Int, end : Int],
         NEW confidence \in Int, NEW limit \in Nat
  PROVE  /\ Speech!Shifted(RowsHeard(speech, c, confidence, limit), c.start) \in Seq(RowsOf(T, speech))
         /\ \A k \in InPiece(speech, c) :
              HasSome(Speech!Shifted(RowsHeard(speech, c, confidence, limit), c.start), Saying(T, speech, k))
  <1> DEFINE rows == RowsHeard(speech, c, confidence, limit)
             row == SoundRow(c, confidence)
             R == SpeechRow(T)
             U == RowsOf(T, speech)
             offset == c.start
             moved == Speech!Shifted(rows, offset)
  <1>1. row \in R /\ row.words = <<"noise">> /\ offset \in Int
    <2>1. row \in R
      BY SplitOfSound
    <2> QED
      BY <2>1 DEF SoundRow
  <1>2. PICK s : SayThePiece(T, speech, c, s) /\ rows = s \o <<row>>
    <2>1. EndsWithSound(T, speech, c, confidence, limit)
      BY RowsHeardParts
    <2> QED
      BY <2>1 DEF EndsWithSound
  <1>3. /\ s \in Seq(R)
        /\ \A i \in 1..Len(s) : Moved(s[i], offset) \in U
        /\ \A k \in InPiece(speech, c) : \E i \in 1..Len(s) : Moved(s[i], offset) \in Saying(T, speech, k)
    BY <1>2 DEF SayThePiece
  <1> HIDE DEF row, R, offset
  <1>4. Moved(row, offset) \in U
    <2> DEFINE x == row.start + offset
               y == row.end + offset
               m == Moved(row, offset)
    <2>1. row.start \in Int /\ row.end \in Int
      BY <1>1 DEF R, SpeechRow
    <2>2. x \in Int /\ y \in Int
      BY <1>1, <2>1
    <2>3. m = [row EXCEPT !.start = x, !.end = y]
      BY DEF Moved
    <2> HIDE DEF x, y, m
    <2>4. m \in SpeechRow(T) /\ m.words = <<"noise">>
      BY <1>1, <2>2, <2>3 DEF R, SpeechRow
    <2>5. m \in RowsOf(T, speech)
      BY <2>4 DEF RowsOf
    <2> QED
      BY <2>5 DEF m
  <1> DEFINE L == Len(s)
  <1>5. moved = [n \in DOMAIN rows |-> Moved(rows[n], offset)]
    BY DEF Speech!Shifted, Moved
  <1>6. L \in Nat /\ DOMAIN rows = 1..L + 1 /\ rows[L + 1] = row /\ \A n \in 1..L : rows[n] = s[n]
    <2> HIDE DEF rows
    <2> QED
      BY <1>1, <1>2, <1>3, ConcatProperties
  <1> HIDE DEF rows, moved, L, U
  <1>7. moved \in [1..L + 1 -> U]
    <2>1. ASSUME NEW n \in 1..L + 1 PROVE Moved(rows[n], offset) \in U
      <3>1. n \in 1..L \/ n = L + 1
        BY <1>6
      <3> QED
        BY <1>3, <1>4, <1>6, <3>1 DEF L
    <2> QED
      BY <1>5, <1>6, <2>1
  <1>8. moved \in Seq(U) /\ Len(moved) = L + 1
    BY <1>6, <1>7, ASequence
  <1>9. ASSUME NEW k \in InPiece(speech, c) PROVE HasSome(moved, Saying(T, speech, k))
    <2>1. PICK i \in 1..L : Moved(s[i], offset) \in Saying(T, speech, k)
      BY <1>3 DEF L
    <2>2. i \in 1..L + 1
      BY <1>6
    <2>3. moved[i] = Moved(s[i], offset)
      BY <1>5, <1>6, <2>1, <2>2
    <2> QED
      BY <1>8, <2>1, <2>2, <2>3 DEF HasSome
  <1> QED
    BY <1>8, <1>9 DEF moved, rows, offset, U

\* A piece that is the whole recording.
IsAll(c, duration) == c.start = 0 /\ c.end = duration

\* The rows of the only piece of a recording.
LEMMA OnePiece ==
  ASSUME NEW T, "noise" \in T, NEW speech \in Seq(Word(T)), InTurn(speech), NEW duration \in Nat,
         NEW confidence \in Int, NEW limit \in Nat, NEW c \in [start : Int, end : Int], IsAll(c, duration)
  PROVE  /\ RowsHeard(speech, c, confidence, limit) \in Seq(SpeechRow(T))
         /\ KeptInOrder(RowsHeard(speech, c, confidence, limit), duration)
         /\ \A k \in InPiece(speech, c) : HasSome(RowsHeard(speech, c, confidence, limit), Saying(T, speech, k))
  <1> DEFINE rows == RowsHeard(speech, c, confidence, limit)
             row == SoundRow(c, confidence)
             R == SpeechRow(T)
  <1>1. c.start = 0 /\ c.end = duration
    BY DEF IsAll
  <1>2. row \in R
    BY SplitOfSound
  <1>3. PICK s : SayThePiece(T, speech, c, s) /\ rows = s \o <<row>>
    <2>1. EndsWithSound(T, speech, c, confidence, limit)
      BY RowsHeardParts
    <2> QED
      BY <2>1 DEF EndsWithSound
  <1>4. ~Speech!Keeps(row, duration)
    <2>1. row.start = duration - 5 + 1 /\ row.end = duration + 50
      BY <1>1 DEF SoundRow, Speech!Sliver, Speech!SameRow
    <2> DEFINE cut == Speech!Cut(row, duration)
    <2>2. /\ cut.start = IF 0 <= row.start THEN row.start ELSE 0
          /\ cut.end = IF duration <= row.end THEN duration ELSE row.end
      BY <1>2, CutParts
    <2> HIDE DEF cut, row
    <2>3. row.end > duration /\ cut.end - cut.start < 5
      BY <2>1, <2>2
    <2> QED
      BY <2>3 DEF Speech!Keeps, Speech!Sliver, cut
  <1> HIDE DEF row, rows
  <1>5. /\ s \in Seq(R) /\ Sorted(s)
        /\ \A k \in InPiece(speech, c) : \E i \in 1..Len(s) : Moved(s[i], 0) \in Saying(T, speech, k)
    BY <1>1, <1>3 DEF SayThePiece
  <1>6. \A i \in 1..Len(s) : s[i] \in R /\ Moved(s[i], 0) = s[i]
    <2>1. ASSUME NEW x \in R PROVE Moved(x, 0) = x
      <3>1. x.start + 0 = x.start /\ x.end + 0 = x.end
        BY DEF SpeechRow
      <3> DEFINE p == x.start + 0
                 q == x.end + 0
      <3>2. Moved(x, 0) = [x EXCEPT !.start = p, !.end = q]
        BY DEF Moved
      <3>3. p = x.start /\ q = x.end
        BY <3>1
      <3> HIDE DEF p, q
      <3> QED
        BY <3>2, <3>3 DEF SpeechRow
    <2>2. \A i \in 1..Len(s) : s[i] \in R
      <3> HIDE DEF R
      <3> QED
        BY <1>5
    <2> HIDE DEF R
    <2> QED
      BY <2>1, <2>2
  <1> HIDE DEF R
  <1> DEFINE L == Len(s)
  <1>7. /\ L \in Nat /\ rows \in Seq(R) /\ Len(rows) = L + 1 /\ rows[L + 1] = row
        /\ \A n \in 1..L : rows[n] = s[n]
    <2>1. <<row>> \in Seq(R) /\ Len(<<row>>) = 1 /\ <<row>>[1] = row
      BY <1>2
    <2> DEFINE last == <<row>>
    <2>2. last \in Seq(R) /\ Len(last) = 1 /\ last[1] = row /\ rows = s \o last
      BY <1>3, <2>1
    <2> HIDE DEF last
    <2>3. /\ rows \in Seq(R) /\ Len(rows) = Len(s) + Len(last)
          /\ \A k \in 1..Len(s) + Len(last) : rows[k] = IF k <= Len(s) THEN s[k] ELSE last[k - Len(s)]
      BY <1>5, <2>2, ConcatProperties
    <2>4. L \in Nat
      BY <1>5
    <2>5. /\ L + 1 \in 1..L + 1 /\ ~(L + 1 <= L) /\ (L + 1) - L = 1
          /\ \A n \in 1..L : n \in 1..L + 1 /\ n <= L
      BY <2>4
    <2> QED
      BY <2>2, <2>3, <2>4, <2>5
  <1> HIDE DEF L
  <1>8. KeptInOrder(rows, duration)
    <2> SUFFICES ASSUME NEW i \in 1..L + 1, NEW j \in 1..L + 1, i <= j,
                        Speech!Keeps(rows[i], duration), Speech!Keeps(rows[j], duration)
                 PROVE  rows[i].start <= rows[j].start
      BY <1>7 DEF KeptInOrder
    <2>1. i # L + 1 /\ j # L + 1
      BY <1>4, <1>7
    <2>2. i \in 1..L /\ j \in 1..L
      BY <1>7, <2>1
    <2> QED
      BY <1>5, <1>7, <2>2 DEF Sorted, L
  <1>9. ASSUME NEW k \in InPiece(speech, c) PROVE HasSome(rows, Saying(T, speech, k))
    <2>1. PICK i \in 1..L : Moved(s[i], 0) \in Saying(T, speech, k)
      BY <1>5 DEF L
    <2>2. i \in 1..L + 1 /\ rows[i] \in Saying(T, speech, k)
      BY <1>6, <1>7, <2>1 DEF L
    <2> QED
      BY <1>7, <2>2 DEF HasSome
  <1> QED
    BY <1>7, <1>8, <1>9 DEF rows, R

\* The pieces of a recording that is longer than a chunk.
LEMMA ChunksParts ==
  ASSUME NEW duration \in Nat, NEW chunk \in Nat, NEW overlap \in Nat, overlap < chunk, chunk < duration
  PROVE  /\ Speech!Chunks(duration, chunk, overlap) \in Seq([start : Int, end : Int])
         /\ \A s \in 0..duration - 1 : \A e \in s + 1..s + overlap : e <= duration =>
              \E n \in 1..Len(Speech!Chunks(duration, chunk, overlap)) :
                /\ Speech!Chunks(duration, chunk, overlap)[n].start <= s
                /\ e <= Speech!Chunks(duration, chunk, overlap)[n].end
  <1> DEFINE chunks == Speech!Chunks(duration, chunk, overlap)
             step == chunk - overlap
             ratio == (duration - 1) \div step
             count == ratio + 1
             First(n) == (n - 1) * (chunk - overlap)
             Place(n) == [start |-> First(n), end |-> First(n) + Speech!Min({chunk, duration - First(n)})]
  <1>1. step \in Nat \ {0} /\ duration - 1 \in Nat
    OBVIOUS
  <1>2. count \in Nat
    <2>1. ratio \in Int /\ ratio >= 0
      <3> HIDE DEF step
      <3> QED
        BY <1>1, Quotient
    <2> HIDE DEF ratio
    <2> QED
      BY <2>1
  <1>3. chunks = [n \in 1..count |-> Place(n)]
    BY Zenon DEF Speech!Chunks
  <1>4. ASSUME NEW n \in 1..count PROVE Place(n) \in [start : Int, end : Int]
    <2>1. First(n) \in Int
      <3>1. n \in Int
        OBVIOUS
      <3> HIDE DEF count
      <3> QED
        BY <3>1
    <2> HIDE DEF First
    <2>2. duration - First(n) \in Int
      BY <2>1
    <2> DEFINE left == duration - First(n)
               least == Speech!Min({chunk, left})
    <2>3. least \in Int
      <3>1. left \in Int
        BY <2>2
      <3> HIDE DEF left
      <3>2. least = IF chunk <= left THEN chunk ELSE left
        BY <3>1, LesserOf
      <3> HIDE DEF least
      <3> QED
        BY <3>1, <3>2
    <2>4. Place(n) = [start |-> First(n), end |-> First(n) + least]
      OBVIOUS
    <2> HIDE DEF least, Place
    <2> QED
      BY <2>1, <2>3, <2>4
  <1> HIDE DEF chunks, count, Place
  <1>5. chunks \in [1..count -> [start : Int, end : Int]]
    BY <1>3, <1>4
  <1>6. chunks \in Seq([start : Int, end : Int])
    BY <1>2, <1>5, ASequence
  <1>7. Speech!ChunksCover(duration, chunk, overlap)
    BY AnyRecordingIsCovered
  <1>8. \A s \in 0..duration - 1 : \A e \in {s + 1, Speech!Min({s + overlap, duration})} :
          \E n \in DOMAIN chunks : chunks[n].start <= s /\ e <= chunks[n].end
    BY <1>7, Zenon DEF Speech!ChunksCover, chunks
  <1>9. ASSUME NEW s \in 0..duration - 1, NEW e \in s + 1..s + overlap, e <= duration
        PROVE  \E n \in 1..Len(chunks) : chunks[n].start <= s /\ e <= chunks[n].end
    <2> DEFINE x == Speech!Min({s + overlap, duration})
    <2>1. x = IF s + overlap <= duration THEN s + overlap ELSE duration
      BY s + overlap \in Int, LesserOf
    <2>2. PICK n \in DOMAIN chunks : chunks[n].start <= s /\ x <= chunks[n].end
      BY <1>8
    <2> HIDE DEF x
    <2>3. x \in Int /\ e \in Int /\ e <= x
      BY <1>9, <2>1
    <2>4. n \in 1..Len(chunks) /\ chunks[n].end \in Int
      <3> DEFINE C == [start : Int, end : Int]
      <3>1. chunks \in Seq(C) /\ \A y \in C : y.end \in Int
        BY <1>6
      <3> HIDE DEF C
      <3>2. n \in 1..Len(chunks) /\ chunks[n] \in C
        BY <2>2, <3>1
      <3> QED
        BY <3>1, <3>2
    <2> QED
      BY <2>2, <2>3, <2>4
  <1> QED
    BY <1>6, <1>9 DEF chunks

\* A row that says a word is kept as it is when the rows are cut to the
\* recording, and is there at the time of the word.
LEMMA SayingIsKept ==
  ASSUME NEW T, NEW speech \in Seq(Word(T)), InTurn(speech), NEW duration \in Nat,
         \A i \in 1..Len(speech) : 0 <= speech[i].start /\ speech[i].end <= duration,
         NEW k \in 1..Len(speech), NEW row \in Saying(T, speech, k)
  PROVE  /\ Speech!Keeps(row, duration) /\ Speech!Cut(row, duration).words = row.words
         /\ Speech!Cut(row, duration).start <= speech[k].start /\ speech[k].end <= Speech!Cut(row, duration).end
         /\ Has(row.words, speech[k].text)
  <1> DEFINE N == Len(speech)
             cut == Speech!Cut(row, duration)
  <1>1. N \in Nat /\ k \in 1..N /\ row \in SpeechRow(T)
    BY DEF Saying
  <1>2. \A i \in 1..N : speech[i].start \in Int /\ speech[i].end \in Int
    <2>1. \A i \in 1..N : speech[i] \in Word(T)
      OBVIOUS
    <2> QED
      BY <2>1 DEF Word
  <1>3. PICK i \in 1..N, j \in 1..N : i <= k /\ k <= j /\ RowIs(row, speech, i, j)
    BY DEF Saying
  <1>4. row.start = speech[i].start /\ row.end = speech[j].end
    BY <1>3 DEF RowIs
  <1>5. speech[i].start <= speech[k].start
    <2>1. i = k \/ i < k
      BY <1>3
    <2> QED
      BY <1>1, <1>2, <2>1 DEF InTurn
  <1>6. speech[k].end <= speech[j].end
    <2>1. j = k \/ k < j
      BY <1>3
    <2> QED
      BY <1>1, <1>2, <2>1 DEF InTurn
  <1>7. speech[k].start < speech[k].end /\ 0 <= speech[i].start /\ speech[j].end <= duration
    BY <1>1 DEF InTurn
  <1>8. /\ cut.start = IF 0 <= row.start THEN row.start ELSE 0
        /\ cut.end = IF duration <= row.end THEN duration ELSE row.end
        /\ cut.words = row.words
    <2>1. row \in SpeechRow(T)
      BY <1>1
    <2>2. duration \in Nat
      OBVIOUS
    <2>3. /\ Speech!Cut(row, duration) \in SpeechRow(T)
          /\ Speech!Cut(row, duration).start = IF 0 <= row.start THEN row.start ELSE 0
          /\ Speech!Cut(row, duration).end = IF duration <= row.end THEN duration ELSE row.end
          /\ Speech!Cut(row, duration).words = row.words
      BY <2>1, <2>2, CutParts, Zenon
    <2> QED
      BY <2>3
  <1> HIDE DEF cut, N
  <1>9. cut.start = speech[i].start /\ cut.end = speech[j].end
    BY <1>2, <1>4, <1>7, <1>8
  <1>10. cut.start < cut.end /\ ~(row.end > duration)
    BY <1>1, <1>2, <1>4, <1>5, <1>6, <1>7, <1>9
  <1>11. Speech!Keeps(row, duration)
    BY <1>10 DEF Speech!Keeps, cut
  <1>12. Has(row.words, speech[k].text)
    <2>1. Len(row.words) = j - i + 1 /\ \A n \in 1..j - i + 1 : row.words[n] = speech[i + n - 1].text
      BY <1>3 DEF RowIs
    <2> DEFINE n == k - i + 1
    <2>2. n \in 1..j - i + 1 /\ i + n - 1 = k
      BY <1>1, <1>3
    <2>3. row.words[n] = speech[i + n - 1].text
      BY <2>1, <2>2
    <2>4. row.words[n] = speech[k].text
      BY <2>2, <2>3
    <2> HIDE DEF n
    <2> QED
      BY <2>1, <2>2, <2>4 DEF Has
  <1> QED
    BY <1>5, <1>6, <1>8, <1>9, <1>11, <1>12 DEF cut

\* Rows that are in the recording, in order, and say each word at its time.
SayTheSpeech(rows, speech, duration) ==
  /\ Within(rows, duration) /\ Sorted(rows)
  /\ \A k \in 1..Len(speech) : speech[k].text # Blank => \E n \in 1..Len(rows) :
       /\ rows[n].start <= speech[k].start /\ speech[k].end <= rows[n].end
       /\ Has(rows[n].words, speech[k].text)

\* The rows that say the words still do when they are cut to the recording.
LEMMA BoundedSays ==
  ASSUME NEW T, NEW speech \in Seq(Word(T)), InTurn(speech), NEW duration \in Nat,
         \A i \in 1..Len(speech) : 0 <= speech[i].start /\ speech[i].end <= duration,
         NEW rows \in Seq(SpeechRow(T)), KeptInOrder(rows, duration),
         \A k \in 1..Len(speech) : speech[k].text # Blank => HasSome(rows, Saying(T, speech, k))
  PROVE  /\ Speech!Bounded(rows, duration) \in Seq(SpeechRow(T))
         /\ SayTheSpeech(Speech!Bounded(rows, duration), speech, duration)
  <1> DEFINE b == Speech!Bounded(rows, duration)
  <1>1. /\ b \in Seq(SpeechRow(T)) /\ Within(b, duration) /\ Sorted(b)
        /\ \A i \in 1..Len(rows) : Speech!Keeps(rows[i], duration) => Has(b, Speech!Cut(rows[i], duration))
    BY BoundedParts
  <1> HIDE DEF b
  <1>2. ASSUME NEW k \in 1..Len(speech), speech[k].text # Blank
        PROVE  \E n \in 1..Len(b) : /\ b[n].start <= speech[k].start /\ speech[k].end <= b[n].end
                                    /\ Has(b[n].words, speech[k].text)
    <2>1. PICK i \in 1..Len(rows) : rows[i] \in Saying(T, speech, k)
      BY <1>2 DEF HasSome
    <2> DEFINE row == rows[i]
               cut == Speech!Cut(row, duration)
    <2>2. row \in Saying(T, speech, k)
      BY <2>1
    <2> HIDE DEF row
    <2>3. /\ Speech!Keeps(row, duration) /\ cut.words = row.words
          /\ cut.start <= speech[k].start /\ speech[k].end <= cut.end
          /\ Has(row.words, speech[k].text)
      BY <2>2, SayingIsKept
    <2>4. Has(b, cut)
      BY <1>1, <2>1, <2>3 DEF row
    <2> HIDE DEF cut
    <2>5. PICK n \in 1..Len(b) : b[n] = cut
      BY <2>4 DEF Has
    <2> QED
      BY <2>3, <2>5
  <1> QED
    BY <1>1, <1>2 DEF SayTheSpeech, b

\* Words that the recogniser can say and a piece can hold.
Recordable(speech, T, duration, overlap) ==
  /\ "noise" \in T /\ speech \in Seq(Word(T)) /\ InTurn(speech) /\ Different(speech)
  /\ \A i \in 1..Len(speech) : /\ 0 <= speech[i].start /\ speech[i].end <= duration
                               /\ speech[i].end - speech[i].start <= overlap

\* The rows of all pieces, in the time of the recording.
RowsOfAll(speech, pieces, trust, limit) ==
  Speech!FlattenSeq([n \in DOMAIN pieces |->
    Speech!Shifted(RowsHeard(speech, pieces[n], trust[n], limit), pieces[n].start)])

\* When the doubles are dropped from them, each word is still said.
LEMMA PiecesSayAll ==
  ASSUME NEW T, NEW duration \in Nat, NEW chunk \in Nat, NEW overlap \in Nat, overlap < chunk, chunk < duration,
         NEW speech, Recordable(speech, T, duration, overlap), NEW limit \in Nat,
         NEW pieces, pieces = Speech!Chunks(duration, chunk, overlap),
         NEW trust \in [1..Len(pieces) -> Int]
  PROVE  /\ Speech!Deduplicated(RowsOfAll(speech, pieces, trust, limit)) \in Sequences(RowsOf(T, speech))
         /\ \A k \in 1..Len(speech) : speech[k].text # Blank =>
              HasSome(Speech!Deduplicated(RowsOfAll(speech, pieces, trust, limit)), Saying(T, speech, k))
  <1> DEFINE C == [start : Int, end : Int]
             U == RowsOf(T, speech)
             N == Len(pieces)
             all == RowsOfAll(speech, pieces, trust, limit)
             Part(n) == Speech!Shifted(RowsHeard(speech, pieces[n], trust[n], limit), pieces[n].start)
             ss == [n \in DOMAIN pieces |-> Part(n)]
  <1>1. "noise" \in T /\ speech \in Seq(Word(T)) /\ InTurn(speech) /\ Different(speech)
    BY DEF Recordable
  <1>2. /\ pieces \in Seq(C)
        /\ \A s \in 0..duration - 1 : \A e \in s + 1..s + overlap : e <= duration =>
             \E n \in 1..N : pieces[n].start <= s /\ e <= pieces[n].end
    BY ChunksParts
  <1> HIDE DEF C, U
  <1>3. N \in Nat /\ DOMAIN pieces = 1..N /\ \A n \in 1..N : pieces[n] \in C
    BY <1>2
  <1>4. ASSUME NEW n \in 1..N
        PROVE  Part(n) \in Seq(U) /\ \A k \in InPiece(speech, pieces[n]) : HasSome(Part(n), Saying(T, speech, k))
    <2> DEFINE c == pieces[n]
               confidence == trust[n]
    <2>1. c \in [start : Int, end : Int] /\ confidence \in Int
      BY <1>3 DEF C
    <2> HIDE DEF c, confidence
    <2>2. /\ Speech!Shifted(RowsHeard(speech, c, confidence, limit), c.start) \in Seq(RowsOf(T, speech))
          /\ \A k \in InPiece(speech, c) :
               HasSome(Speech!Shifted(RowsHeard(speech, c, confidence, limit), c.start), Saying(T, speech, k))
      BY <1>1, <2>1, ShiftedParts
    <2> QED
      BY <2>2 DEF c, confidence, U
  <1> HIDE DEF Part
  <1>5. ss \in [1..N -> Seq(U)] /\ \A n \in 1..N : ss[n] = Part(n)
    BY <1>3, <1>4
  <1>6. all = Speech!FlattenSeq(ss)
    BY Zenon DEF Part, RowsOfAll
  <1> HIDE DEF ss, all
  <1>7. ss \in Seq(Seq(U)) /\ Len(ss) = N
    <2> DEFINE V == Seq(U)
    <2>1. ss \in [1..N -> V]
      BY <1>5
    <2> HIDE DEF V, N
    <2>2. ss \in Seq(V) /\ Len(ss) = N
      BY <1>3, <2>1, ASequence
    <2> QED
      BY <2>2 DEF V
  <1>8. all \in Seq(U) /\ \A n \in 1..N : \A x : Has(ss[n], x) => Has(all, x)
    <2>1. /\ Speech!FlattenSeq(ss) \in Seq(U)
          /\ \A n \in 1..Len(ss) : \A x : Has(ss[n], x) => Has(Speech!FlattenSeq(ss), x)
      BY <1>7, FlattenHas
    <2> QED
      BY <1>6, <1>7, <2>1
  <1> HIDE DEF N
  <1>9. ASSUME NEW k \in 1..Len(speech) PROVE HasSome(all, Saying(T, speech, k))
    <2> DEFINE s == speech[k].start
               e == speech[k].end
    <2>1. s \in Int /\ e \in Int /\ s < e /\ 0 <= s /\ e <= duration /\ e - s <= overlap
      <3>1. speech[k] \in Word(T)
        BY <1>1
      <3>2. s \in Int /\ e \in Int
        BY <3>1 DEF Word
      <3>3. s < e
        BY <1>1 DEF InTurn
      <3>4. 0 <= s /\ e <= duration /\ e - s <= overlap
        BY DEF Recordable
      <3> QED
        BY <3>2, <3>3, <3>4
    <2>2. k \in DOMAIN speech
      BY <1>1
    <2> HIDE DEF s, e
    <2>3. s \in 0..duration - 1 /\ e \in s + 1..s + overlap
      BY <2>1
    <2>4. PICK n \in 1..N : pieces[n].start <= s /\ e <= pieces[n].end
      BY <1>2, <2>1, <2>3
    <2>5. k \in InPiece(speech, pieces[n])
      BY <2>2, <2>4 DEF InPiece, s, e
    <2>6. HasSome(ss[n], Saying(T, speech, k))
      BY <1>4, <1>5, <2>5
    <2>7. PICK i \in 1..Len(ss[n]) : ss[n][i] \in Saying(T, speech, k)
      BY <2>6 DEF HasSome
    <2>8. Has(all, ss[n][i])
      <3>1. Has(ss[n], ss[n][i])
        BY DEF Has
      <3> QED
        BY <1>8, <3>1
    <2>9. PICK m \in 1..Len(all) : all[m] = ss[n][i]
      BY <2>8 DEF Has
    <2> QED
      BY <2>7, <2>9 DEF HasSome
  <1> DEFINE ordered == Speech!InOrder(all)
             d == Speech!Deduplicating(ordered)[Len(ordered)]
  <1>10. U \in SUBSET SpeechRow(T)
    BY DEF U, RowsOf
  <1>11. ordered \in Sequences(U) /\ Len(ordered) = Len(all) /\ \A x : Has(all, x) => Has(ordered, x)
    BY <1>8, <1>10, InOrderParts
  <1>12. Speech!Deduplicated(all) = d
    <2>1. Speech!Deduplicated(all) = Speech!Deduplicating(ordered)[Len(all)]
      BY Zenon DEF Speech!Deduplicated
    <2> HIDE DEF ordered
    <2> QED
      BY <1>11, <2>1
  <1> HIDE DEF ordered
  <1>13. d \in Sequences(U)
    <2>1. ClosedUnderDoubles({}, U)
      BY DEF ClosedUnderDoubles
    <2> QED
      BY <1>10, <1>11, <2>1, DeduplicatingKeeps
  <1>14. ASSUME NEW k \in 1..Len(speech), speech[k].text # Blank PROVE HasSome(d, Saying(T, speech, k))
    <2> DEFINE S == Saying(T, speech, k)
    <2>1. ClosedUnderDoubles(S, U)
      BY <1>1, <1>14, DoublesSayTheSame DEF U
    <2>2. HasSome(all, S)
      BY <1>9
    <2> HIDE DEF S, d
    <2>3. PICK i \in 1..Len(all) : all[i] \in S
      BY <2>2 DEF HasSome
    <2>4. Has(all, all[i])
      BY DEF Has
    <2>5. Has(ordered, all[i])
      BY <1>11, <2>4
    <2>6. PICK j \in 1..Len(ordered) : ordered[j] = all[i]
      BY <2>5 DEF Has
    <2>7. HasSome(ordered, S)
      BY <2>3, <2>6 DEF HasSome
    <2>8. HasSome(d, S)
      BY <1>10, <1>11, <2>1, <2>7, DeduplicatingKeeps DEF d
    <2> QED
      BY <2>8 DEF S
  <1> QED
    BY <1>12, <1>13, <1>14 DEF U, all

\* What the recogniser returns is a segment.
LEMMA HeardSegments ==
  ASSUME NEW T, "noise" \in T, NEW speech \in Seq(Word(T)), InTurn(speech), NEW c \in [start : Int, end : Int],
         NEW confidence \in Int, NEW n \in DOMAIN Speech!Heard(speech, c, confidence)
  PROVE  Speech!Heard(speech, c, confidence)[n] \in Segment(T)
  <1> DEFINE heard == Speech!Heard(speech, c, confidence)
             sound == SoundIs(c, confidence)
  <1>1. sound \in Segment(T)
    <2> DEFINE x == c.end - c.start - Speech!Sliver + 1
               y == c.end - c.start + Speech!SameRow
               word == [start |-> 0, end |-> 0, text |-> "noise", stop |-> FALSE]
               words == <<word>>
    <2>1. x \in Int /\ y \in Int
      BY DEF Speech!Sliver, Speech!SameRow
    <2>2. word \in Word(T)
      BY DEF Word
    <2> HIDE DEF word
    <2>3. words \in Seq(Word(T))
      BY <2>2
    <2>4. sound = [start |-> x, end |-> y, words |-> words, confidence |-> confidence]
      BY DEF SoundIs, word
    <2> HIDE DEF x, y, words, sound
    <2> QED
      BY <2>1, <2>3, <2>4 DEF Segment
  <1>2. \/ heard = <<sound>>
        \/ \E segment : segment \in Segment(T) /\ heard = <<segment, sound>>
    <2>1. \/ heard = <<sound>>
          \/ \E a \in 1..Len(speech) : \E b \in a..Len(speech) : \E segment :
               SaidIn(segment, T, speech, a, b, c.start) /\ heard = <<segment, sound>>
      BY HeardParts
    <2> HIDE DEF heard, sound
    <2> QED
      BY <2>1 DEF SaidIn
  <1>3. n \in DOMAIN heard
    OBVIOUS
  <1> HIDE DEF heard, sound
  <1>4. heard[n] \in Segment(T)
    <2>1. CASE heard = <<sound>>
      BY <1>1, <1>3, <2>1
    <2>2. CASE heard # <<sound>>
      <3>1. PICK segment : segment \in Segment(T) /\ heard = <<segment, sound>>
        BY <1>2, <2>2
      <3> QED
        BY <1>1, <1>3, <3>1
    <2> QED
      BY <2>1, <2>2
  <1> QED
    BY <1>4 DEF heard

\* The rows of a recording before they are cut to its length.
Gathered(speech, pieces, trust, duration, chunk, limit) ==
  IF duration > chunk
  THEN Speech!Deduplicated(RowsOfAll(speech, pieces, trust, limit))
  ELSE RowsHeard(speech, pieces[1], trust[1], limit)

\* What run_transcription_task puts together, with the rows of each piece named.
LEMMA TranscribedIs ==
  ASSUME NEW C, NEW pieces \in Seq(C), Len(pieces) # 0, NEW speech, NEW trust,
         NEW duration, NEW chunk, NEW limit
  PROVE  Speech!Transcribed(pieces, [p \in DOMAIN pieces |-> Speech!Heard(speech, pieces[p], trust[p])],
                            duration, chunk, limit)
         = Speech!Bounded(Gathered(speech, pieces, trust, duration, chunk, limit), duration)
  <1> DEFINE heard == [p \in DOMAIN pieces |-> Speech!Heard(speech, pieces[p], trust[p])]
             Rows(n) == Speech!FlattenSeq([k \in DOMAIN heard[n] |-> Speech!Split(heard[n][k], limit)])
             Part(n) == Speech!Shifted(Rows(n), pieces[n].start)
             Also(n) == Speech!Shifted(RowsHeard(speech, pieces[n], trust[n], limit), pieces[n].start)
             ss == [n \in DOMAIN pieces |-> Part(n)]
             tt == [n \in DOMAIN pieces |-> Also(n)]
             one == RowsHeard(speech, pieces[1], trust[1], limit)
  <1>1. ASSUME NEW n \in DOMAIN pieces PROVE Rows(n) = RowsHeard(speech, pieces[n], trust[n], limit)
    <2>1. heard[n] = Speech!Heard(speech, pieces[n], trust[n])
      OBVIOUS
    <2> DEFINE h == heard[n]
    <2>2. Rows(n) = Speech!FlattenSeq([k \in DOMAIN h |-> Speech!Split(h[k], limit)])
      OBVIOUS
    <2>3. h = Speech!Heard(speech, pieces[n], trust[n])
      BY <2>1
    <2> HIDE DEF h, Rows
    <2> QED
      BY <2>2, <2>3, Zenon DEF RowsHeard
  <1>2. Speech!Transcribed(pieces, heard, duration, chunk, limit)
        = Speech!Bounded(IF duration > chunk THEN Speech!Deduplicated(Speech!FlattenSeq(ss)) ELSE Rows(1), duration)
    BY Zenon DEF Speech!Transcribed
  <1> HIDE DEF heard, Rows
  <1>3. ss = tt
    <2>1. \A n \in DOMAIN pieces : Part(n) = Also(n)
      BY <1>1
    <2> HIDE DEF Part, Also
    <2> QED
      BY <2>1
  <1>4. Rows(1) = one
    <2>1. 1 \in DOMAIN pieces
      OBVIOUS
    <2> QED
      BY <1>1, <2>1
  <1>5. Gathered(speech, pieces, trust, duration, chunk, limit)
        = IF duration > chunk THEN Speech!Deduplicated(Speech!FlattenSeq(tt)) ELSE one
    BY Zenon DEF Gathered, RowsOfAll
  <1> HIDE DEF ss, tt, one
  <1> QED
    BY <1>2, <1>3, <1>4, <1>5 DEF heard

\* The rows of a recording in one piece or in many.
LEMMA GatheredParts ==
  ASSUME NEW T, NEW duration \in Nat, NEW chunk \in Nat, NEW overlap \in Nat, overlap < chunk,
         NEW speech, Recordable(speech, T, duration, overlap), NEW limit \in Nat,
         NEW pieces, pieces = Speech!Pieces(duration, chunk, overlap),
         NEW trust \in [1..Len(pieces) -> Int]
  PROVE  /\ Gathered(speech, pieces, trust, duration, chunk, limit) \in Seq(SpeechRow(T))
         /\ KeptInOrder(Gathered(speech, pieces, trust, duration, chunk, limit), duration)
         /\ \A k \in 1..Len(speech) : speech[k].text # Blank =>
              HasSome(Gathered(speech, pieces, trust, duration, chunk, limit), Saying(T, speech, k))
  <1> DEFINE rows == Gathered(speech, pieces, trust, duration, chunk, limit)
             R == SpeechRow(T)
  <1>1. "noise" \in T /\ speech \in Seq(Word(T)) /\ InTurn(speech)
    BY DEF Recordable
  <1>2. CASE duration > chunk
    <2>1. pieces = Speech!Chunks(duration, chunk, overlap)
      BY <1>2 DEF Speech!Pieces
    <2> DEFINE all == RowsOfAll(speech, pieces, trust, limit)
               d == Speech!Deduplicated(all)
               U == RowsOf(T, speech)
    <2>2. rows = d
      BY <1>2, Zenon DEF Gathered
    <2>3. chunk < duration
      BY <1>2
    <2>4. /\ d \in Sequences(U)
          /\ \A k \in 1..Len(speech) : speech[k].text # Blank => HasSome(d, Saying(T, speech, k))
      BY <2>1, <2>3, PiecesSayAll
    <2> HIDE DEF d, rows
    <2>5. d \in Seq(R) /\ Sorted(d)
      <3>1. d \in Seq(U) /\ Sorted(d)
        BY <2>4 DEF Sequences
      <3>2. U \subseteq R
        BY DEF RowsOf
      <3> HIDE DEF U, R
      <3> QED
        BY <3>1, <3>2, SeqMonotonic
    <2>6. KeptInOrder(d, duration)
      BY <2>5 DEF KeptInOrder, Sorted
    <2> QED
      BY <2>2, <2>4, <2>5, <2>6 DEF rows
  <1>3. CASE ~(duration > chunk)
    <2> DEFINE c == [start |-> 0, end |-> duration]
               confidence == trust[1]
    <2>1. pieces = <<c>>
      BY <1>3 DEF Speech!Pieces
    <2>2. c \in [start : Int, end : Int] /\ IsAll(c, duration)
      BY DEF IsAll
    <2> HIDE DEF c
    <2>3. Len(pieces) = 1 /\ pieces[1] = c
      BY <2>1
    <2>4. confidence \in Int
      BY <2>3
    <2>5. rows = RowsHeard(speech, c, confidence, limit)
      <3>1. rows = RowsHeard(speech, pieces[1], trust[1], limit)
        BY <1>3, Zenon DEF Gathered
      <3> QED
        BY <2>3, <3>1
    <2> HIDE DEF confidence, rows
    <2>6. /\ rows \in Seq(SpeechRow(T)) /\ KeptInOrder(rows, duration)
          /\ \A k \in InPiece(speech, c) : HasSome(rows, Saying(T, speech, k))
      BY <1>1, <2>2, <2>4, <2>5, OnePiece
    <2>7. \A k \in 1..Len(speech) : k \in InPiece(speech, c)
      <3>1. c.start = 0 /\ c.end = duration /\ DOMAIN speech = 1..Len(speech)
        BY <1>1, <2>2 DEF IsAll
      <3>2. \A k \in 1..Len(speech) : 0 <= speech[k].start /\ speech[k].end <= duration
        BY DEF Recordable
      <3> QED
        BY <3>1, <3>2 DEF InPiece
    <2> QED
      BY <2>6, <2>7 DEF rows
  <1> QED
    BY <1>2, <1>3

\* A recording has a piece.
LEMMA PiecesParts ==
  ASSUME NEW duration \in Nat, NEW chunk \in Nat, NEW overlap \in Nat, overlap < chunk
  PROVE  /\ Speech!Pieces(duration, chunk, overlap) \in Seq([start : Int, end : Int])
         /\ Len(Speech!Pieces(duration, chunk, overlap)) # 0
  <1> DEFINE pieces == Speech!Pieces(duration, chunk, overlap)
             C == [start : Int, end : Int]
             c == [start |-> 0, end |-> duration]
  <1>1. CASE duration > chunk
    <2>1. pieces = Speech!Chunks(duration, chunk, overlap)
      BY <1>1 DEF Speech!Pieces
    <2>2. /\ pieces \in Seq(C)
          /\ \A s \in 0..duration - 1 : \A e \in s + 1..s + overlap : e <= duration =>
               \E n \in 1..Len(pieces) : pieces[n].start <= s /\ e <= pieces[n].end
      BY <1>1, <2>1, ChunksParts
    <2>3. Len(pieces) # 0
      <3> DEFINE count == ((duration - 1) \div (chunk - overlap)) + 1
                 step == chunk - overlap
                 ratio == (duration - 1) \div step
      <3>1. DOMAIN pieces = 1..count
        BY <2>1, Zenon DEF Speech!Chunks
      <3>2. step \in Nat \ {0} /\ duration - 1 \in Nat
        BY <1>1
      <3>3. ratio \in Int /\ ratio >= 0
        <4> HIDE DEF step
        <4> QED
          BY <3>2, Quotient
      <3>4. count = ratio + 1
        OBVIOUS
      <3> HIDE DEF count, ratio, pieces
      <3>5. 1 \in DOMAIN pieces
        BY <3>1, <3>3, <3>4
      <3> QED
        BY <2>2, <3>5
    <2> QED
      BY <2>2, <2>3
  <1>2. CASE ~(duration > chunk)
    <2>1. pieces = <<c>> /\ c \in C
      BY <1>2 DEF Speech!Pieces
    <2> HIDE DEF pieces, c, C
    <2>2. pieces \in Seq(C) /\ Len(pieces) = 1
      BY <2>1
    <2> QED
      BY <2>2 DEF pieces, C
  <1> QED
    BY <1>1, <1>2

HeardAlike(heard, speech, pieces, steady) ==
  heard = [p \in DOMAIN pieces |-> Speech!Heard(speech, pieces[p], IF steady THEN 0 ELSE pieces[p].start)]
TranscriptIs(rows, heard, T, speech, duration, limit) ==
  /\ rows \in Seq(SpeechRow(T)) /\ SayTheSpeech(rows, speech, duration)
  /\ \A p \in DOMAIN heard : \A n \in DOMAIN heard[p] : Speech!SplitKeepsWords(heard[p][n], limit)

\* The transcription of a recording whose pieces are trusted alike or not.
LEMMA TranscriptionKeepsWords ==
  ASSUME NEW T, NEW duration \in Nat, NEW chunk \in Nat, NEW overlap \in Nat, overlap < chunk,
         NEW speech, Recordable(speech, T, duration, overlap), NEW limit \in Nat, NEW steady \in BOOLEAN,
         NEW pieces, pieces = Speech!Pieces(duration, chunk, overlap),
         NEW heard, HeardAlike(heard, speech, pieces, steady)
  PROVE  TranscriptIs(Speech!Transcribed(pieces, heard, duration, chunk, limit), heard, T, speech, duration, limit)
  <1> DEFINE C == [start : Int, end : Int]
             N == Len(pieces)
             trust == [p \in 1..N |-> IF steady THEN 0 ELSE pieces[p].start]
             gathered == Gathered(speech, pieces, trust, duration, chunk, limit)
             rows == Speech!Transcribed(pieces, heard, duration, chunk, limit)
  <1>1. /\ "noise" \in T /\ speech \in Seq(Word(T)) /\ InTurn(speech)
        /\ \A i \in 1..Len(speech) : 0 <= speech[i].start /\ speech[i].end <= duration
    BY DEF Recordable
  <1>2. pieces \in Seq(C) /\ N # 0
    BY PiecesParts
  <1>3. N \in Nat /\ DOMAIN pieces = 1..N /\ \A p \in 1..N : pieces[p] \in C
    <2> HIDE DEF C
    <2> QED
      BY <1>2
  <1>4. \A p \in 1..N : pieces[p].start \in Int
    BY <1>3
  <1>5. trust \in [1..N -> Int] /\ \A p \in 1..N : trust[p] = IF steady THEN 0 ELSE pieces[p].start
    BY <1>4
  <1> HIDE DEF trust, N, C
  <1>6. heard = [p \in DOMAIN pieces |-> Speech!Heard(speech, pieces[p], trust[p])]
    BY <1>3, <1>5 DEF HeardAlike
  <1>7. rows = Speech!Bounded(gathered, duration)
    <2>1. Speech!Transcribed(pieces, [p \in DOMAIN pieces |-> Speech!Heard(speech, pieces[p], trust[p])],
                             duration, chunk, limit) = Speech!Bounded(gathered, duration)
      BY <1>2, TranscribedIs DEF N
    <2> HIDE DEF gathered
    <2> QED
      BY <1>6, <2>1
  <1>8. /\ gathered \in Seq(SpeechRow(T)) /\ KeptInOrder(gathered, duration)
        /\ \A k \in 1..Len(speech) : speech[k].text # Blank => HasSome(gathered, Saying(T, speech, k))
    BY <1>5, GatheredParts DEF N
  <1> HIDE DEF gathered, rows
  <1>9. rows \in Seq(SpeechRow(T)) /\ SayTheSpeech(rows, speech, duration)
    BY <1>1, <1>7, <1>8, BoundedSays
  <1>10. ASSUME NEW p \in DOMAIN heard, NEW n \in DOMAIN heard[p]
         PROVE  Speech!SplitKeepsWords(heard[p][n], limit)
    <2> DEFINE c == pieces[p]
               confidence == trust[p]
    <2>1. p \in 1..N
      BY <1>3, <1>6
    <2>2. c \in [start : Int, end : Int] /\ confidence \in Int
      BY <1>3, <1>5, <2>1 DEF C
    <2>3. heard[p] = Speech!Heard(speech, c, confidence)
      BY <1>3, <1>6, <2>1
    <2> HIDE DEF c, confidence
    <2>4. n \in DOMAIN Speech!Heard(speech, c, confidence)
      BY <2>3
    <2> DEFINE segment == Speech!Heard(speech, c, confidence)[n]
    <2>5. segment \in Segment(T)
      BY <1>1, <2>2, <2>4, HeardSegments
    <2> HIDE DEF segment
    <2>6. Speech!SplitKeepsWords(segment, limit)
      BY <2>5, AnySplitKeepsWords
    <2> QED
      BY <2>3, <2>6 DEF segment
  <1>11. TranscriptIs(rows, heard, T, speech, duration, limit)
    BY <1>9, <1>10, Zenon DEF TranscriptIs
  <1> QED
    BY <1>11 DEF rows

\* Any speech of different words, each in the recording and no longer than the
\* overlap of its pieces, is in the saved transcription, word by word and each at
\* its time, at any length, chunk, overlap and limit of the segments: none is
\* lost where two chunks meet, where a segment is split or where one of two
\* doubled rows is dropped (chunking_service.py, asr_segments.py, transcribe.py).
THEOREM AnySpeechIsKept ==
  ASSUME NEW T, NEW duration \in Nat, NEW chunk \in Nat, NEW overlap \in Nat, overlap < chunk,
         NEW limit \in Nat, NEW speech, Recordable(speech, T, duration, overlap)
  PROVE  Speech!WordsAreKept(speech, duration, chunk, overlap, limit)
  <1> DEFINE pieces == Speech!Pieces(duration, chunk, overlap)
             heard(steady) == [p \in DOMAIN pieces |->
                                 Speech!Heard(speech, pieces[p], IF steady THEN 0 ELSE pieces[p].start)]
             rows(steady) == Speech!Transcribed(pieces, heard(steady), duration, chunk, limit)
  <1>1. Speech!ChunksCover(duration, chunk, overlap)
    BY AnyRecordingIsCovered
  <1>2. speech \in Seq(Word(T))
    BY DEF Recordable
  <1> SUFFICES ASSUME NEW steady \in BOOLEAN
               PROVE  /\ \A n \in DOMAIN rows(steady) :
                           /\ 0 <= rows(steady)[n].start /\ rows(steady)[n].end <= duration
                           /\ n > 1 => rows(steady)[n - 1].start <= rows(steady)[n].start
                      /\ \A k \in DOMAIN speech : speech[k].text # Blank => \E n \in DOMAIN rows(steady) :
                           /\ rows(steady)[n].start <= speech[k].start /\ speech[k].end <= rows(steady)[n].end
                           /\ \E m \in DOMAIN rows(steady)[n].words : rows(steady)[n].words[m] = speech[k].text
                      /\ \A p \in DOMAIN heard(steady) : \A n \in DOMAIN heard(steady)[p] :
                           Speech!SplitKeepsWords(heard(steady)[p][n], limit)
    BY <1>1, Zenon DEF Speech!WordsAreKept, Blank
  <1> DEFINE h == heard(steady)
             r == rows(steady)
  <1>3. /\ r \in Seq(SpeechRow(T)) /\ SayTheSpeech(r, speech, duration)
        /\ \A p \in DOMAIN h : \A n \in DOMAIN h[p] : Speech!SplitKeepsWords(h[p][n], limit)
    <2>1. HeardAlike(h, speech, pieces, steady)
      BY DEF HeardAlike
    <2>2. r = Speech!Transcribed(pieces, h, duration, chunk, limit)
      OBVIOUS
    <2>3. pieces = Speech!Pieces(duration, chunk, overlap)
      OBVIOUS
    <2> HIDE DEF h, r, pieces
    <2>4. TranscriptIs(r, h, T, speech, duration, limit)
      BY <2>1, <2>2, <2>3, TranscriptionKeepsWords
    <2> QED
      BY <2>4 DEF TranscriptIs
  <1> HIDE DEF h, r
  <1>4. Within(r, duration) /\ Sorted(r)
    BY <1>3 DEF SayTheSpeech
  <1>5. DOMAIN r = 1..Len(r) /\ Len(r) \in Nat /\ DOMAIN speech = 1..Len(speech)
    BY <1>2, <1>3
  <1>6. ASSUME NEW n \in 1..Len(r)
        PROVE  /\ 0 <= r[n].start /\ r[n].end <= duration
               /\ n > 1 => r[n - 1].start <= r[n].start
    <2>1. n > 1 => n - 1 \in 1..Len(r) /\ n - 1 <= n
      BY <1>5
    <2> QED
      BY <1>4, <2>1 DEF Within, Sorted
  <1>7. ASSUME NEW k \in 1..Len(speech), speech[k].text # Blank
        PROVE  \E n \in 1..Len(r) : /\ r[n].start <= speech[k].start /\ speech[k].end <= r[n].end
                                    /\ \E m \in DOMAIN r[n].words : r[n].words[m] = speech[k].text
    <2>1. PICK n \in 1..Len(r) : /\ r[n].start <= speech[k].start /\ speech[k].end <= r[n].end
                                 /\ Has(r[n].words, speech[k].text)
      BY <1>3, <1>7 DEF SayTheSpeech
    <2>2. r[n].words \in Seq(T)
      <3> DEFINE R == SpeechRow(T)
      <3>1. r \in Seq(R) /\ \A x \in R : x.words \in Seq(T)
        BY <1>3 DEF SpeechRow
      <3> HIDE DEF R
      <3> QED
        BY <3>1
    <2>3. \E m \in DOMAIN r[n].words : r[n].words[m] = speech[k].text
      <3> DEFINE ws == r[n].words
      <3>1. PICK m \in 1..Len(ws) : ws[m] = speech[k].text
        BY <2>1 DEF Has
      <3>2. ws \in Seq(T)
        BY <2>2
      <3> HIDE DEF ws
      <3>3. m \in DOMAIN ws
        BY <3>1, <3>2
      <3> QED
        BY <3>1, <3>3 DEF ws
    <2> QED
      BY <2>1, <2>3
  <1> QED
    BY <1>3, <1>5, <1>6, <1>7 DEF h, r

\* The texts of the words that are put in.
Spelling == {Blank, "noise"} \cup {Vocabulary[n] : n \in 1..4}

\* A vocabulary of different words.
LEMMA VocabularyParts ==
  /\ Len(Vocabulary) = 4
  /\ \A n \in 1..4 : Vocabulary[n] # "noise"
  /\ \A m, n \in 1..4 : Vocabulary[m] = Vocabulary[n] => m = n
  <1>1. /\ Len(Vocabulary) = 4 /\ Vocabulary[1] = "one" /\ Vocabulary[2] = "two"
        /\ Vocabulary[3] = "three" /\ Vocabulary[4] = "four"
    BY DEF Vocabulary
  <1>2. \A n \in 1..4 : n = 1 \/ n = 2 \/ n = 3 \/ n = 4
    OBVIOUS
  <1> QED
    BY <1>1, <1>2

\* The words that have been put in: the n-th is blank or the n-th of the
\* vocabulary.
IsSpeech ==
  of = "speech" =>
    /\ input \in Seq(Word(Spelling)) /\ Len(input) <= MaxWords
    /\ \A n \in 1..Len(input) : /\ 0 <= input[n].start /\ input[n].end <= 310
                                /\ input[n].start < input[n].end /\ input[n].end - input[n].start <= 60
                                /\ input[n].text \in {Blank, Vocabulary[n]}
    /\ \A i, j \in 1..Len(input) : i < j => input[i].end <= input[j].start

\* A word is put in after the others.
LEMMA NextWord ==
  ASSUME IsSpeech, AddWord PROVE IsSpeech'
  <1>1. of = "speech" /\ of' = of /\ Len(input) < MaxWords
    BY Zenon DEF AddWord, Extend
  <1>2. PICK start \in {0, 60, 90, 150, 250}, length \in {20, 60},
             text \in {Blank, Vocabulary[Len(input) + 1]}, stop \in BOOLEAN :
          /\ \A n \in DOMAIN input : input[n].end <= start
          /\ start + length <= 310 /\ (text = Blank => ~stop)
          /\ Extend([start |-> start, end |-> start + length, text |-> text, stop |-> stop])
    BY Zenon DEF AddWord, Blank
  <1> DEFINE L == Len(input)
             w == [start |-> start, end |-> start + length, text |-> text, stop |-> stop]
  <1>3. /\ input \in Seq(Word(Spelling)) /\ L \in Nat /\ DOMAIN input = 1..L
        /\ \A n \in 1..L : input[n] \in Word(Spelling)
    BY <1>1 DEF IsSpeech
  <1>4. MaxWords \in 0..4
    BY WordsAssumption, VocabularyParts
  <1>5. L + 1 \in 1..4 /\ L + 1 <= MaxWords
    BY <1>1, <1>3, <1>4
  <1>6. text \in Spelling
    BY <1>5 DEF Spelling
  <1>7. start \in 0..250 /\ length \in 1..60
    OBVIOUS
  <1>8. /\ w \in Word(Spelling) /\ w.start = start /\ w.end = start + length /\ w.text = text
    BY <1>6, <1>7 DEF Word
  <1>9. input' = Append(input, w)
    BY <1>2 DEF Extend
  <1> HIDE DEF L, w
  <1>10. /\ input' \in Seq(Word(Spelling)) /\ Len(input') = L + 1 /\ input'[L + 1] = w
         /\ \A n \in 1..L : input'[n] = input[n]
    BY <1>3, <1>8, <1>9, AppendProperties DEF L
  <1>11. \A n \in 1..L + 1 : n = L + 1 \/ n \in 1..L
    BY <1>3
  <1>12. ASSUME NEW n \in 1..L + 1
         PROVE  /\ 0 <= input'[n].start /\ input'[n].end <= 310
                /\ input'[n].start < input'[n].end /\ input'[n].end - input'[n].start <= 60
                /\ input'[n].text \in {Blank, Vocabulary[n]}
    <2>1. CASE n = L + 1
      <3>1. input'[n] = w
        BY <1>10, <2>1
      <3>2. /\ 0 <= w.start /\ w.end <= 310 /\ w.start < w.end /\ w.end - w.start <= 60
        BY <1>2, <1>7, <1>8
      <3>3. w.text \in {Blank, Vocabulary[n]}
        BY <1>8, <2>1 DEF L
      <3> QED
        BY <3>1, <3>2, <3>3
    <2>2. CASE n \in 1..L
      <3>1. input'[n] = input[n]
        BY <1>10, <2>2
      <3> QED
        BY <1>1, <2>2, <3>1 DEF IsSpeech, L
    <2> QED
      BY <1>11, <2>1, <2>2
  <1>13. ASSUME NEW i \in 1..L + 1, NEW j \in 1..L + 1, i < j PROVE input'[i].end <= input'[j].start
    <2>1. i \in 1..L
      BY <1>3, <1>13
    <2>2. input'[i] = input[i]
      BY <1>10, <2>1
    <2>3. CASE j = L + 1
      <3>1. input[i].end <= start
        BY <1>2, <1>3, <2>1
      <3> QED
        BY <1>8, <1>10, <2>2, <2>3, <3>1
    <2>4. CASE j \in 1..L
      <3>1. input'[j] = input[j]
        BY <1>10, <2>4
      <3>2. input[i].end <= input[j].start
        BY <1>1, <1>13, <2>1, <2>4 DEF IsSpeech, L
      <3> QED
        BY <2>2, <3>1, <3>2
    <2> QED
      BY <1>11, <2>3, <2>4
  <1> QED
    BY <1>5, <1>10, <1>12, <1>13 DEF IsSpeech

\* The inputs of the run are speech of different words.
LEMMA InputsAreSpeech == Inputs => []IsSpeech
  <1>1. FirstInput => IsSpeech
    <2> SUFFICES ASSUME FirstInput PROVE IsSpeech
      OBVIOUS
    <2>1. input = <<>>
      BY DEF FirstInput
    <2>2. input \in Seq(Word(Spelling)) /\ Len(input) = 0
      BY <2>1
    <2>3. MaxWords \in 0..4
      BY WordsAssumption, VocabularyParts
    <2> QED
      BY <2>2, <2>3 DEF IsSpeech
  <1>2. IsSpeech /\ [NextInput]_<<of, input>> => IsSpeech'
    <2> SUFFICES ASSUME IsSpeech, [NextInput]_<<of, input>> PROVE IsSpeech'
      OBVIOUS
    <2>1. CASE AddWord
      BY <2>1, NextWord
    <2>2. CASE AddSubtitle
      <3>1. of = "repair" /\ of' = of
        BY <2>2, Zenon DEF AddSubtitle, Extend
      <3> QED
        BY <3>1 DEF IsSpeech
    <2>3. CASE AddEntry
      <3>1. of = "settings" /\ of' = of
        BY <2>3, Zenon DEF AddEntry, Extend
      <3> QED
        BY <3>1 DEF IsSpeech
    <2>4. CASE AddLine
      <3>1. of = "script" /\ of' = of
        BY <2>4, Zenon DEF AddLine, Extend
      <3> QED
        BY <3>1 DEF IsSpeech
    <2>5. CASE AddEncoder
      <3>1. of = "video" /\ of' = of
        BY <2>5 DEF AddEncoder, Extend
      <3> QED
        BY <3>1 DEF IsSpeech
    <2>6. CASE UNCHANGED <<of, input>>
      BY <2>6 DEF IsSpeech
    <2> QED
      BY <2>1, <2>2, <2>3, <2>4, <2>5, <2>6 DEF NextInput
  <1> QED
    BY <1>1, <1>2, PTL DEF Inputs

\* What the run about the algorithms checks for some words, at any number of
\* words that differ: no word of a recording is lost where its chunks overlap,
\* where a segment is split or where doubled rows are dropped
\* (chunking_service.py, asr_segments.py, transcribe.py).
THEOREM SpeechIsKeptHolds == Inputs => []SpeechIsKept
  <1>1. IsSpeech => SpeechIsKept
    <2> SUFFICES ASSUME IsSpeech, of = "speech",
                        NEW duration \in {310}, NEW chunk \in {120, 400}, NEW overlap \in {60}, NEW limit \in {30, 100}
                 PROVE  Speech!WordsAreKept(input, duration, chunk, overlap, limit)
      BY DEF SpeechIsKept
    <2>1. /\ input \in Seq(Word(Spelling)) /\ Len(input) <= MaxWords
          /\ \A n \in 1..Len(input) : /\ 0 <= input[n].start /\ input[n].end <= 310
                                      /\ input[n].start < input[n].end /\ input[n].end - input[n].start <= 60
                                      /\ input[n].text \in {Blank, Vocabulary[n]}
          /\ \A i, j \in 1..Len(input) : i < j => input[i].end <= input[j].start
      BY DEF IsSpeech
    <2>2. MaxWords \in 0..4
      BY WordsAssumption, VocabularyParts
    <2>3. \A n \in 1..Len(input) : n \in 1..4
      BY <2>1, <2>2
    <2>4. InTurn(input)
      BY <2>1 DEF InTurn
    <2>5. Different(input)
      <3> SUFFICES ASSUME NEW i \in 1..Len(input), input[i].text # Blank
                   PROVE  /\ input[i].text # "noise"
                          /\ \A j \in 1..Len(input) : input[i].text = input[j].text => i = j
        BY DEF Different
      <3>1. input[i].text = Vocabulary[i] /\ i \in 1..4
        BY <2>1, <2>3
      <3>2. input[i].text # "noise"
        BY <3>1, VocabularyParts
      <3>3. ASSUME NEW j \in 1..Len(input), input[i].text = input[j].text PROVE i = j
        <4>1. input[j].text = Vocabulary[j] /\ j \in 1..4
          BY <2>1, <2>3, <3>3
        <4>2. Vocabulary[i] = Vocabulary[j]
          BY <3>1, <3>3, <4>1
        <4>3. \A m, n \in 1..4 : Vocabulary[m] = Vocabulary[n] => m = n
          BY VocabularyParts
        <4> QED
          BY <3>1, <4>1, <4>2, <4>3
      <3> QED
        BY <3>2, <3>3
    <2>6. "noise" \in Spelling
      BY DEF Spelling
    <2>7. Recordable(input, Spelling, duration, overlap)
      BY <2>1, <2>4, <2>5, <2>6 DEF Recordable
    <2>8. duration \in Nat /\ chunk \in Nat /\ overlap \in Nat /\ overlap < chunk /\ limit \in Nat
      OBVIOUS
    <2> QED
      BY <2>7, <2>8, AnySpeechIsKept
  <1> QED
    BY <1>1, InputsAreSpeech, PTL

-----------------------------------------------------------------------------
(* The rendering of a video (services/video_output.py, video_burn_service.py). *)

\* A picture of a source: no side is more than 960 times the other.
Picture(size) ==
  \E W, H \in Nat : size = <<W, H>> /\ 2 <= W /\ 2 <= H /\ W <= 960 * H /\ H <= 960 * W

\* Even numbers near a number.
LEMMA EvenParts ==
  ASSUME NEW n \in Nat, 2 <= n
  PROVE  Video!Even(n) \in Nat /\ Video!Even(n) <= n /\ n < Video!Even(n) + 2 /\ 2 <= Video!Even(n)
  <1> DEFINE m == (n \div 2) * 2
  <1>1. m \in Nat /\ m <= n /\ n < m + 2 /\ 2 <= m
    OBVIOUS
  <1> HIDE DEF m
  <1>2. Video!Max({2, m}) = m
    BY <1>1 DEF Video!Max
  <1>3. Video!Even(n) = m
    BY <1>2 DEF Video!Even, m
  <1> QED
    BY <1>1, <1>3

\* One of three quotients is least.
LEMMA QuotientsCompare ==
  ASSUME NEW a \in Nat, NEW b \in Nat \ {0}, NEW c \in Nat, NEW d \in Nat \ {0}, NEW e \in Nat, NEW f \in Nat \ {0},
         a * d <= c * b, c * f <= e * d
  PROVE  a * f <= e * b
  <1>1. (a * d) * f <= (c * b) * f
    <2> DEFINE x == a * d y == c * b
    <2>1. x \in Nat /\ y \in Nat /\ x <= y
      BY Product
    <2> HIDE DEF x, y
    <2>2. x * f <= y * f
      BY <2>1, ProductGrows
    <2> QED
      BY <2>2 DEF x, y
  <1>2. (c * f) * b <= (e * d) * b
    <2> DEFINE x == c * f y == e * d
    <2>1. x \in Nat /\ y \in Nat /\ x <= y
      BY Product
    <2> HIDE DEF x, y
    <2>2. x * b <= y * b
      BY <2>1, ProductGrows
    <2> QED
      BY <2>2 DEF x, y
  <1>3. (a * d) * f = (a * f) * d /\ (c * b) * f = (c * f) * b /\ (e * d) * b = (e * b) * d
    BY ProductSwaps
  <1>4. (a * f) * d <= (e * b) * d
    <2> DEFINE x == (a * f) * d y == (c * f) * b z == (e * b) * d
    <2>1. x \in Nat /\ y \in Nat /\ z \in Nat
      BY Product
    <2>2. x <= y /\ y <= z
      BY <1>1, <1>2, <1>3
    <2> HIDE DEF x, y, z
    <2>3. x <= z
      BY <2>1, <2>2
    <2> QED
      BY <2>3 DEF x, z
  <1> DEFINE u == a * f v == e * b
  <1>5. u \in Nat /\ v \in Nat
    BY Product
  <1>6. u * d <= v * d
    BY <1>4
  <1> HIDE DEF u, v
  <1>7. u <= v
    BY <1>5, <1>6, ProductCancels
  <1> QED
    BY <1>7 DEF u, v

NotMore(s, other) == s[1] * other[2] <= other[1] * s[2]

LEMMA ScaleExists ==
  ASSUME NEW b \in Nat \ {0}, NEW c \in Nat, NEW d \in Nat \ {0}, NEW e \in Nat
  PROVE  \E s \in {<<1, 1>>, <<c, b>>, <<e, d>>} : \A other \in {<<1, 1>>, <<c, b>>, <<e, d>>} : NotMore(s, other)
  <1> DEFINE A == <<1, 1>> B == <<c, b>> C == <<e, d>>
  <1>1. \A x, y \in {A, B, C} : NotMore(x, y) \/ NotMore(y, x)
    <2> SUFFICES ASSUME NEW x \in {A, B, C}, NEW y \in {A, B, C} PROVE NotMore(x, y) \/ NotMore(y, x)
      OBVIOUS
    <2>1. x[1] \in Nat /\ x[2] \in Nat /\ y[1] \in Nat /\ y[2] \in Nat
      OBVIOUS
    <2>2. x[1] * y[2] \in Nat /\ y[1] * x[2] \in Nat
      BY <2>1, Product
    <2> DEFINE m == x[1] * y[2] n == y[1] * x[2]
    <2>3. m \in Nat /\ n \in Nat
      BY <2>2
    <2> HIDE DEF m, n
    <2>4. m <= n \/ n <= m
      BY <2>3
    <2> QED
      BY <2>4 DEF NotMore, m, n
  <1>2. \A x, y, z \in {A, B, C} : NotMore(x, y) /\ NotMore(y, z) => NotMore(x, z)
    <2> SUFFICES ASSUME NEW x \in {A, B, C}, NEW y \in {A, B, C}, NEW z \in {A, B, C}, NotMore(x, y), NotMore(y, z)
                 PROVE  NotMore(x, z)
      OBVIOUS
    <2>1. /\ x[1] \in Nat /\ x[2] \in Nat \ {0} /\ y[1] \in Nat /\ y[2] \in Nat \ {0}
          /\ z[1] \in Nat /\ z[2] \in Nat \ {0}
      OBVIOUS
    <2> DEFINE p == x[1] q == x[2] r == y[1] u == y[2] v == z[1] w == z[2]
    <2>2. p * u <= r * q /\ r * w <= v * u
      BY DEF NotMore
    <2> HIDE DEF p, q, r, u, v, w
    <2>3. /\ p \in Nat /\ q \in Nat \ {0} /\ r \in Nat /\ u \in Nat \ {0} /\ v \in Nat /\ w \in Nat \ {0}
      BY <2>1 DEF p, q, r, u, v, w
    <2>4. p * w <= v * q
      BY <2>2, <2>3, QuotientsCompare
    <2> QED
      BY <2>4 DEF NotMore, p, q, v, w
  <1>3. \A x \in {A, B, C} : NotMore(x, x)
    BY <1>1
  <1> HIDE DEF A, B, C
  <1>4. \E s \in {A, B, C} : \A other \in {A, B, C} : NotMore(s, other)
    BY <1>1, <1>2, <1>3
  <1> QED
    BY <1>4 DEF A, B, C

\* A scale s is of a picture W wide and H high.
ScaleIs(s, W, H) ==
  /\ s[1] \in Nat \ {0} /\ s[2] \in Nat \ {0} /\ s[1] <= s[2]
  /\ 2 * s[2] <= W * s[1] /\ 2 * s[2] <= H * s[1]

LEMMA ScaleParts ==
  ASSUME NEW W \in Nat, NEW H \in Nat, 2 <= W, 2 <= H, W <= 960 * H, H <= 960 * W,
         NEW resolution \in {"r1440", "r1080"}
  PROVE  ScaleIs(Video!Scale(<<W, H>>, resolution), W, H)
  <1> DEFINE short == Video!Resolutions[resolution]
             long == (short * 16 + 4) \div 9
             low == Video!Min({<<W, H>>[1], <<W, H>>[2]})
             high == Video!Max({<<W, H>>[1], <<W, H>>[2]})
             scales == {<<1, 1>>, <<short, low>>, <<long, high>>}
             Least(s) == \A other \in scales : s[1] * other[2] <= other[1] * s[2]
             s == Video!Scale(<<W, H>>, resolution)
  <1>1. short \in {1440, 1080} /\ long \in {2560, 1920}
    <2>1. CASE resolution = "r1440"
      <3>1. short = 1440
        BY <2>1 DEF Video!Resolutions
      <3> QED
        BY <3>1
    <2>2. CASE resolution = "r1080"
      <3>1. short = 1080
        BY <2>2 DEF Video!Resolutions
      <3> QED
        BY <3>1
    <2> QED
      BY <2>1, <2>2
  <1>2. low \in {W, H} /\ low <= W /\ low <= H
    <2>1. \E x \in {W, H} : \A y \in {W, H} : x <= y
      OBVIOUS
    <2> QED
      BY <2>1 DEF Video!Min
  <1>3. high \in {W, H} /\ W <= high /\ H <= high
    <2>1. \E x \in {W, H} : \A y \in {W, H} : x >= y
      OBVIOUS
    <2>2. high \in {W, H} /\ \A y \in {W, H} : high >= y
      BY <2>1 DEF Video!Max
    <2> QED
      BY <2>2
  <1> HIDE DEF short, low, high, long
  <1>4. short \in Nat /\ long \in Nat /\ low \in Nat \ {0} /\ high \in Nat \ {0}
    BY <1>1, <1>2, <1>3
  <1>5. \E t \in scales : Least(t)
    BY <1>4, ScaleExists DEF NotMore
  <1>6. s = CHOOSE t \in scales : Least(t)
    BY Zenon DEF Video!Scale, short, long, low, high
  <1> HIDE DEF s
  <1>7. s \in scales /\ Least(s)
    <2> HIDE DEF Least, scales
    <2> QED
      BY <1>5, <1>6, Zenon
  <1>8. s[1] * 1 <= 1 * s[2]
    <2>1. <<1, 1>> \in scales /\ <<1, 1>>[1] = 1 /\ <<1, 1>>[2] = 1
      OBVIOUS
    <2> HIDE DEF scales
    <2> QED
      BY <1>7, <2>1
  <1> HIDE DEF Least
  <1>9. ASSUME s = <<1, 1>> PROVE ScaleIs(s, W, H)
    <2>1. s[1] = 1 /\ s[2] = 1
      BY <1>9
    <2>2. 2 * 1 <= W * 1 /\ 2 * 1 <= H * 1
      OBVIOUS
    <2> QED
      BY <2>1, <2>2 DEF ScaleIs
  <1>10. ASSUME s = <<short, low>> PROVE ScaleIs(s, W, H)
    <2>1. s[1] = short /\ s[2] = low
      BY <1>10
    <2>2. 2 * low <= W * short /\ 2 * low <= H * short
      BY <1>1, <1>2, <1>4
    <2> QED
      BY <1>4, <1>8, <1>1, <2>1, <2>2 DEF ScaleIs
  <1>11. ASSUME s = <<long, high>> PROVE ScaleIs(s, W, H)
    <2>1. s[1] = long /\ s[2] = high
      BY <1>11
    <2>2. high <= 960 * W /\ high <= 960 * H
      BY <1>3
    <2>3. 2 * high <= W * long /\ 2 * high <= H * long
      BY <1>1, <1>4, <2>2
    <2> QED
      BY <1>4, <1>8, <1>1, <2>1, <2>3 DEF ScaleIs
  <1>12. ScaleIs(s, W, H)
    BY <1>7, <1>9, <1>10, <1>11
  <1> QED
    BY <1>12 DEF s

\* The side of a smaller picture.
LEMMA ScaledParts ==
  ASSUME NEW side \in Nat, NEW s, s[1] \in Nat \ {0}, s[2] \in Nat \ {0}, s[1] <= s[2], 2 * s[2] <= side * s[1]
  PROVE  /\ Video!Scaled(side, s) \in Nat /\ Video!Scaled(side, s) <= side
         /\ Video!Scaled(side, s) * s[2] <= side * s[1] /\ side * s[1] < (Video!Scaled(side, s) + 2) * s[2]
  <1> DEFINE a == s[1] b == s[2] x == side * a q == x \div b e == Video!Even(q)
  <1>1. a \in Nat \ {0} /\ b \in Nat \ {0} /\ a <= b
    OBVIOUS
  <1> HIDE DEF a, b
  <1>2. x \in Nat /\ x <= side * b
    BY <1>1
  <1>3. 2 * b <= x
    BY DEF a, b
  <1> HIDE DEF x
  <1>4. q \in Nat /\ q * b <= x /\ x < (q + 1) * b
    BY <1>1, <1>2
  <1> HIDE DEF q
  <1>5. 2 <= q
    <2>1. CASE q <= 1
      <3>1. (q + 1) * b <= 2 * b
        BY <1>1, <1>4, <2>1
      <3> QED
        BY <1>1, <1>2, <1>3, <1>4, <3>1
    <2> QED
      BY <1>4, <2>1
  <1>6. e \in Nat /\ e <= q /\ q + 1 <= e + 2
    BY <1>4, <1>5, EvenParts
  <1> HIDE DEF e
  <1>7. e * b <= q * b /\ (q + 1) * b <= (e + 2) * b
    BY <1>1, <1>4, <1>6, ProductGrows
  <1>8. q * b <= side * b
    BY <1>1, <1>2, <1>4
  <1>9. q <= side
    BY <1>1, <1>4, <1>8, ProductCancels
  <1>10. e <= side
    BY <1>4, <1>6, <1>9
  <1>11. e * b <= x /\ x < (e + 2) * b
    BY <1>1, <1>2, <1>4, <1>6, <1>7
  <1>12. Video!Scaled(side, s) = e
    BY Zenon DEF Video!Scaled, e, q, x, a, b
  <1> QED
    BY <1>6, <1>10, <1>11, <1>12 DEF a, b, x

\* What two sides of a smaller picture are to each other, up to the rounding.
LEMMA ShapeIsKept ==
  ASSUME NEW W \in Nat, NEW H \in Nat, NEW w \in Nat, NEW h \in Nat, NEW a \in Nat \ {0}, NEW b \in Nat \ {0},
         w * b <= W * a, H * a < (h + 2) * b
  PROVE  w * H <= (h + 2) * W
  <1> DEFINE k == h + 2
  <1>1. k \in Nat /\ H * a <= k * b
    <2> DEFINE x == H * a y == (h + 2) * b
    <2>1. x \in Nat /\ y \in Nat /\ x < y
      BY Product
    <2> HIDE DEF x, y
    <2>2. x <= y
      BY <2>1
    <2> QED
      BY <2>2 DEF x, y
  <1> HIDE DEF k
  <1>2. (w * b) * H <= (W * a) * H
    <2> DEFINE x == w * b y == W * a
    <2>1. x \in Nat /\ y \in Nat /\ x <= y
      BY Product
    <2> HIDE DEF x, y
    <2>2. x * H <= y * H
      BY <2>1, ProductGrows
    <2> QED
      BY <2>2 DEF x, y
  <1>3. (H * a) * W <= (k * b) * W
    <2> DEFINE x == H * a y == k * b
    <2>1. x \in Nat /\ y \in Nat /\ x <= y
      BY <1>1, Product
    <2> HIDE DEF x, y
    <2>2. x * W <= y * W
      BY <2>1, ProductGrows
    <2> QED
      BY <2>2 DEF x, y
  <1>4. (w * b) * H = (w * H) * b /\ (k * b) * W = (k * W) * b /\ (W * a) * H = (H * a) * W
    <2>1. (W * a) * H = (W * H) * a /\ (H * a) * W = (H * W) * a /\ W * H = H * W
      BY ProductSwaps
    <2> QED
      BY <1>1, <2>1, ProductSwaps
  <1> DEFINE u == w * H v == k * W z == (W * a) * H
  <1>5. u \in Nat /\ v \in Nat /\ z \in Nat
    BY <1>1, Product
  <1>6. u * b <= z /\ z <= v * b
    BY <1>2, <1>3, <1>4
  <1> HIDE DEF u, v, z
  <1>7. u * b <= v * b
    <2> DEFINE x == u * b y == v * b
    <2>1. x \in Nat /\ y \in Nat /\ x <= z /\ z <= y
      BY <1>5, <1>6, Product
    <2> HIDE DEF x, y
    <2>2. x <= y
      BY <1>5, <2>1
    <2> QED
      BY <2>2 DEF x, y
  <1>8. u <= v
    BY <1>5, <1>7, ProductCancels
  <1> QED
    BY <1>8 DEF u, v, k

IsSmaller(size, W, H) ==
  /\ size[1] \in Nat /\ size[2] \in Nat /\ size[1] <= W /\ size[2] <= H
  /\ size[1] * H <= (size[2] + 2) * W /\ size[2] * W <= (size[1] + 2) * H

\* A size that is fitted is not larger, and keeps its shape.
LEMMA FitParts ==
  ASSUME NEW W \in Nat, NEW H \in Nat, 2 <= W, 2 <= H, W <= 960 * H, H <= 960 * W,
         NEW resolution \in {"source", "r1440", "r1080"}
  PROVE  IsSmaller(Video!Fit(<<W, H>>, resolution), W, H)
  <1> DEFINE s == Video!Scale(<<W, H>>, resolution) w == Video!Scaled(W, s) h == Video!Scaled(H, s)
             size == Video!Fit(<<W, H>>, resolution)
  <1>1. size = IF resolution = "source" \/ s[1] = s[2] THEN <<W, H>> ELSE <<w, h>>
    BY DEF Video!Fit
  <1> HIDE DEF size
  <1>2. ASSUME size = <<W, H>> PROVE IsSmaller(size, W, H)
    <2>1. size[1] = W /\ size[2] = H
      BY <1>2
    <2>2. W * H <= (H + 2) * W /\ H * W <= (W + 2) * H
      OBVIOUS
    <2> QED
      BY <2>1, <2>2 DEF IsSmaller
  <1>3. ASSUME resolution # "source", size = <<w, h>> PROVE IsSmaller(size, W, H)
    <2>1. ScaleIs(s, W, H)
      BY <1>3, ScaleParts
    <2> HIDE DEF s
    <2> DEFINE a == s[1] b == s[2]
    <2>2. a \in Nat \ {0} /\ b \in Nat \ {0}
      BY <2>1 DEF ScaleIs
    <2>3. w \in Nat /\ w <= W /\ w * b <= W * a /\ W * a < (w + 2) * b
      BY <2>1, ScaledParts DEF ScaleIs
    <2>4. h \in Nat /\ h <= H /\ h * b <= H * a /\ H * a < (h + 2) * b
      BY <2>1, ScaledParts DEF ScaleIs
    <2>5. size[1] = w /\ size[2] = h
      BY <1>3
    <2> HIDE DEF a, b, w, h
    <2>6. w * H <= (h + 2) * W
      BY <2>2, <2>3, <2>4, ShapeIsKept
    <2>7. h * W <= (w + 2) * H
      BY <2>2, <2>3, <2>4, ShapeIsKept
    <2> QED
      BY <2>3, <2>4, <2>5, <2>6, <2>7 DEF IsSmaller
  <1>4. IsSmaller(size, W, H)
    BY <1>1, <1>2, <1>3
  <1> QED
    BY <1>4 DEF size

LEMMA GreaterRate ==
  ASSUME NEW m \in Nat, NEW n \in Nat
  PROVE  Video!Max({m, n}) \in {m, n} /\ m <= Video!Max({m, n}) /\ n <= Video!Max({m, n})
  <1>1. \E x \in {m, n} : \A y \in {m, n} : x >= y
    OBVIOUS
  <1>2. Video!Max({m, n}) \in {m, n} /\ \A y \in {m, n} : Video!Max({m, n}) >= y
    BY <1>1 DEF Video!Max
  <1> QED
    BY <1>2

LEMMA LesserRate ==
  ASSUME NEW m \in Nat, NEW n \in Nat
  PROVE  Video!Min({m, n}) \in {m, n} /\ Video!Min({m, n}) <= m /\ Video!Min({m, n}) <= n
  <1>1. \E x \in {m, n} : \A y \in {m, n} : x <= y
    OBVIOUS
  <1>2. Video!Min({m, n}) \in {m, n} /\ \A y \in {m, n} : Video!Min({m, n}) <= y
    BY <1>1 DEF Video!Min
  <1> QED
    BY <1>2

\* The rate of a source that has none is one, too.
LEMMA SourceRateIsNumber ==
  ASSUME NEW source, source.rate \in Nat, NEW W \in Nat, NEW H \in Nat, source.size = <<W, H>>
  PROVE  Video!SourceRate(source) \in Nat
  <1> DEFINE x == Video!Pixels(source.size) y == ((x \div 1000) * 210) \div 100 m == Video!Min({40000, y})
  <1>1. x \in Nat
    <2>1. source.size[1] = W /\ source.size[2] = H
      OBVIOUS
    <2> QED
      BY <2>1, Product DEF Video!Pixels
  <1> HIDE DEF x
  <1>2. y \in Nat
    BY <1>1
  <1> HIDE DEF y
  <1>3. m \in Nat
    BY <1>2, LesserRate
  <1> HIDE DEF m
  <1>4. Video!Max({500, m}) \in Nat
    BY <1>3, GreaterRate
  <1>5. Video!SourceRate(source) = IF source.rate > 0 THEN source.rate ELSE Video!Max({500, m})
    BY DEF Video!SourceRate, Video!LeastRate, m, y, x
  <1> QED
    BY <1>4, <1>5

\* A plan has a rate, and a balanced one has no higher rate than the source.
LEMMA RatesParts ==
  ASSUME NEW source, source.rate \in Nat, NEW W \in Nat, NEW H \in Nat, source.size = <<W, H>>,
         NEW options, NEW codec, NEW size, size[1] \in Nat, size[2] \in Nat
  PROVE  /\ Video!Rates(source, options, codec, size) # {}
         /\ options.policy = "balanced" =>
              \A r \in Video!Rates(source, options, codec, size) : r <= Video!Max({Video!LeastRate, Video!SourceRate(source)})
  <1> DEFINE share == Video!Pixels(size) \div (Video!Pixels(source.size) \div 1000 + 1)
             shares == {1000} \cup (IF size = source.size THEN {} ELSE {share})
             tenths == CASE codec = source.codec -> 10 [] codec # source.codec /\ codec = "hevc" -> 12 [] OTHER -> 16
             SR == Video!SourceRate(source)
             Rate(one) == (SR * Video!Capped(options, (one * tenths) \div 10)) \div 1000
             rates == Video!Rates(source, options, codec, size)
  <1>1. rates = IF options.policy = "custom" THEN {options.rate} ELSE {Video!Max({Video!LeastRate, Rate(one)}) : one \in shares}
    BY Zenon DEF Video!Rates
  <1>2. share \in Nat
    <2> DEFINE x == Video!Pixels(size) y == Video!Pixels(source.size)
    <2>1. x \in Nat
      BY Product DEF Video!Pixels
    <2>2. y \in Nat
      <3>1. source.size[1] = W /\ source.size[2] = H
        OBVIOUS
      <3> QED
        BY <3>1, Product DEF Video!Pixels
    <2> HIDE DEF x, y
    <2>3. x \div (y \div 1000 + 1) \in Nat
      <3> DEFINE d == y \div 1000 + 1
      <3>1. d \in Nat \ {0}
        BY <2>2
      <3> HIDE DEF d
      <3>2. x \div d \in Nat
        BY <2>1, <3>1
      <3> QED
        BY <3>2 DEF d
    <2> QED
      BY <2>3 DEF x, y
  <1> HIDE DEF share
  <1>3. 1000 \in shares /\ \A one \in shares : one \in Nat
    BY <1>2
  <1>4. tenths \in {10, 12, 16}
    OBVIOUS
  <1>5. SR \in Nat
    BY SourceRateIsNumber
  <1> HIDE DEF shares, tenths, SR, rates
  <1>6. rates # {}
    <2> HIDE DEF Rate
    <2>1. CASE options.policy = "custom"
      BY <1>1, <2>1
    <2>2. CASE options.policy # "custom"
      <3>1. rates = {Video!Max({Video!LeastRate, Rate(one)}) : one \in shares}
        BY <1>1, <2>2
      <3>2. 1000 \in shares
        BY <1>3
      <3> DEFINE Budget(one) == Video!Max({Video!LeastRate, Rate(one)})
      <3>3. rates = {Budget(one) : one \in shares}
        BY <3>1
      <3> HIDE DEF Budget
      <3>4. Budget(1000) \in rates
        BY <3>2, <3>3
      <3> QED
        BY <3>4
    <2> QED
      BY <2>1, <2>2
  <1>7. ASSUME options.policy = "balanced", NEW r \in rates PROVE r <= Video!Max({Video!LeastRate, SR})
    <2>1. PICK one \in shares : r = Video!Max({Video!LeastRate, Rate(one)})
      <3> HIDE DEF Rate
      <3> QED
        BY <1>1, <1>7
    <2> DEFINE x == (one * tenths) \div 10 f == Video!Capped(options, x) q == Rate(one)
    <2>2. x \in Nat
      BY <1>3, <1>4
    <2> HIDE DEF x
    <2>3. f \in Nat /\ f <= 1000
      <3>1. f = Video!Min({1000, x})
        BY <1>7 DEF Video!Capped
      <3> QED
        BY <2>2, <3>1, LesserRate
    <2>4. q = (SR * f) \div 1000
      BY DEF x
    <2> HIDE DEF f, q
    <2>5. q \in Nat /\ q <= SR
      <3> DEFINE y == SR * f z == 1000 * SR
      <3>1. y \in Nat /\ y <= z
        BY <1>5, <2>3
      <3> HIDE DEF y
      <3>2. y \div 1000 \in Nat /\ y \div 1000 <= SR
        BY <1>5, <3>1
      <3> QED
        BY <2>4, <3>2 DEF y
    <2>6. r = Video!Max({500, q})
      BY <2>1 DEF q, Video!LeastRate
    <2> HIDE DEF Rate
    <2>7. r \in {500, q}
      BY <2>5, <2>6, GreaterRate
    <2>8. /\ 500 <= Video!Max({500, SR}) /\ SR <= Video!Max({500, SR}) /\ Video!Max({500, SR}) \in Nat
      BY <1>5, GreaterRate
    <2>9. r <= Video!Max({500, SR})
      BY <1>5, <2>5, <2>7, <2>8
    <2> QED
      BY <2>9 DEF Video!LeastRate
  <1> QED
    BY <1>6, <1>7 DEF rates, SR

\* The least of some numbers.
LEMMA FirstNumber ==
  ASSUME NEW some, some \subseteq Nat, some # {}
  PROVE  Video!Min(some) \in some
  <1> DEFINE S == {n \in Nat : (\E j \in some : j <= n) => \E i \in some : \A j \in some : i <= j}
  <1>1. 0 \in S
    BY DEF S
  <1>2. ASSUME NEW n \in Nat, n \in S PROVE n + 1 \in S
    <2>1. CASE \E j \in some : j <= n
      BY <1>2, <2>1
    <2>2. CASE ~\E j \in some : j <= n
      <3>1. \A j \in some : n + 1 <= j
        BY <2>2
      <3>2. ASSUME NEW j \in some, j <= n + 1 PROVE j = n + 1
        BY <3>1, <3>2
      <3> QED
        BY <3>1, <3>2
    <2> QED
      BY <2>1, <2>2
  <1> HIDE DEF S
  <1>3. Nat \subseteq S
    BY <1>1, <1>2, EveryNumber
  <1>4. PICK j \in some : TRUE
    OBVIOUS
  <1>5. j \in Nat /\ j \in S /\ j <= j
    BY <1>3
  <1>6. \E i \in some : \A k \in some : i <= k
    BY <1>5 DEF S
  <1> QED
    BY <1>6 DEF Video!Min

\* The encoders of a codec are in an order.
LEMMA EncodersParts ==
  /\ \A c \in DOMAIN Video!Encoders : DOMAIN Video!Encoders[c] \subseteq Nat
  /\ {"av1", "hevc", "h264"} \subseteq DOMAIN Video!Encoders
  <1>1. DOMAIN Video!Encoders = {"av1", "hevc", "h264", "vp9", "mpeg4"}
    BY DEF Video!Encoders
  <1>2. /\ DOMAIN Video!Encoders["av1"] = 1..5 /\ DOMAIN Video!Encoders["hevc"] = 1..4
        /\ DOMAIN Video!Encoders["h264"] = 1..4 /\ DOMAIN Video!Encoders["vp9"] = 1..2
        /\ DOMAIN Video!Encoders["mpeg4"] = 1..1
    BY DEF Video!Encoders
  <1> QED
    BY <1>1, <1>2

Made(p, machine, codec, width, kind, excluded) ==
  /\ p.codec = codec /\ codec \in DOMAIN Video!Encoders /\ p.encoder \in Video!Range(Video!Encoders[codec])
  /\ Video!Fits(machine, p.encoder, width, kind, excluded)

\* The encoder that is selected fits.
LEMMA FittingParts ==
  ASSUME NEW machine, NEW codec, NEW width, NEW kind, NEW excluded,
         Video!Fitting(machine, codec, width, kind, excluded) # {},
         NEW p, p.codec = codec,
         p.encoder = Video!Preferred(codec, Video!Fitting(machine, codec, width, kind, excluded))
  PROVE  Made(p, machine, codec, width, kind, excluded)
  <1> DEFINE fitting == Video!Fitting(machine, codec, width, kind, excluded)
             n == Video!Min(fitting)
  <1>1. codec \in DOMAIN Video!Encoders /\ fitting \subseteq DOMAIN Video!Encoders[codec]
    BY DEF Video!Fitting
  <1>2. fitting \subseteq Nat
    BY <1>1, EncodersParts
  <1>3. n \in fitting
    BY <1>2, FirstNumber
  <1>4. p.encoder = Video!Encoders[codec][n]
    BY DEF Video!Preferred
  <1>5. n \in DOMAIN Video!Encoders[codec] /\ Video!Fits(machine, Video!Encoders[codec][n], width, kind, excluded)
    BY <1>1, <1>3 DEF Video!Fitting
  <1> HIDE DEF n, fitting
  <1>6. p.encoder \in Video!Range(Video!Encoders[codec])
    BY <1>4, <1>5 DEF Video!Range
  <1> QED
    BY <1>1, <1>4, <1>5, <1>6 DEF Made

\* Software takes every width.
LEMMA SoftwareFits ==
  ASSUME NEW machine, NEW codec \in DOMAIN Video!Encoders, NEW width, NEW other, NEW kind, kind # "hardware",
         NEW excluded, NEW name \in Video!Software, name \notin excluded,
         name \in Video!Range(Video!Encoders[codec]), Video!Usable(machine, name, other)
  PROVE  Video!Fitting(machine, codec, width, kind, excluded) # {}
  <1>1. Video!Usable(machine, name, width)
    BY DEF Video!Usable
  <1>2. Video!Fits(machine, name, width, kind, excluded)
    BY <1>1 DEF Video!Fits
  <1>3. PICK n \in DOMAIN Video!Encoders[codec] : Video!Encoders[codec][n] = name
    BY DEF Video!Range
  <1>4. n \in Video!Fitting(machine, codec, width, kind, excluded)
    BY <1>2, <1>3 DEF Video!Fitting
  <1> QED
    BY <1>4

\* A source that was probed, and what may be asked for.
Film(source) == source.probed => source.rate \in Nat /\ Picture(source.size)

Resolution == {"source", "r1440", "r1080"}
Asked(options) ==
  \/ options = Video!NoOptions
  \/ /\ options.policy \in {"balanced", "resolution", "codec", "custom"}
     /\ options.policy = "custom" => options.resolution \in Resolution

\* What is tried is admitted, and software is tried for what it may replace.
TryIsAdmitted(t, source, options) ==
  /\ t.codec \in Video!Admitted(source, options) /\ t.resolution \in Resolution
  /\ t.kind \in {"hardware", "any"}
  /\ t.kind = "any" => t.codec \in Video!FallbackCodecs(source, options)
  /\ options.policy \in {"codec", "resolution"} => t.resolution = "source"

TriesAre(tries, source, options) ==
  /\ DOMAIN tries \subseteq Nat
  /\ \A n \in DOMAIN tries : TryIsAdmitted(tries[n], source, options)
  /\ \A c \in Video!FallbackCodecs(source, options) : \E n \in DOMAIN tries : tries[n].codec = c /\ tries[n].kind = "any"

LEMMA TryParts ==
  ASSUME NEW codec, NEW resolution, NEW kind
  PROVE  /\ Video!Try(codec, resolution, kind).codec = codec
         /\ Video!Try(codec, resolution, kind).resolution = resolution
         /\ Video!Try(codec, resolution, kind).kind = kind
  BY DEF Video!Try

LEMMA OneTry ==
  ASSUME NEW source, NEW options, NEW codec, NEW resolution \in Resolution,
         codec \in Video!Admitted(source, options), Video!FallbackCodecs(source, options) = {codec},
         options.policy \in {"codec", "resolution"} => resolution = "source"
  PROVE  TriesAre(<<Video!Try(codec, resolution, "any")>>, source, options)
  <1> DEFINE t == Video!Try(codec, resolution, "any") tries == <<t>>
  <1>1. t.codec = codec /\ t.resolution = resolution /\ t.kind = "any"
    BY TryParts
  <1>2. TryIsAdmitted(t, source, options)
    BY <1>1 DEF TryIsAdmitted
  <1> HIDE DEF t
  <1>3. DOMAIN tries = {1} /\ tries[1] = t
    OBVIOUS
  <1> HIDE DEF tries
  <1>4. TriesAre(tries, source, options)
    BY <1>1, <1>2, <1>3 DEF TriesAre
  <1> QED
    BY <1>4 DEF tries, t

LEMMA TriesParts ==
  ASSUME NEW source, NEW options, options.policy \in {"balanced", "resolution", "codec", "custom"},
         options.policy = "custom" => options.resolution \in Resolution
  PROVE  TriesAre(Video!Tries(source, options), source, options)
  <1> DEFINE tries == Video!Tries(source, options)
  <1>1. CASE options.policy = "custom"
    <2>1. tries = <<Video!Try(options.codec, options.resolution, "any")>>
      BY <1>1 DEF Video!Tries
    <2>2. Video!Admitted(source, options) = {options.codec} /\ Video!FallbackCodecs(source, options) = {options.codec}
      BY <1>1 DEF Video!Admitted, Video!FallbackCodecs
    <2> QED
      BY <1>1, <2>1, <2>2, OneTry
  <1>2. CASE options.policy # "custom" /\ (source.codec # "av1" \/ options.policy = "codec")
    <2>1. tries = <<Video!Try(source.codec, "source", "any")>>
      BY <1>2 DEF Video!Tries
    <2>2. Video!Admitted(source, options) = {source.codec}
      BY <1>2 DEF Video!Admitted
    <2>3. Video!FallbackCodecs(source, options) = {source.codec}
      BY <1>2, <2>2 DEF Video!FallbackCodecs
    <2> QED
      BY <1>2, <2>1, <2>2, <2>3, OneTry DEF Resolution
  <1>3. CASE options.policy = "balanced" /\ source.codec = "av1"
    <2> DEFINE a == Video!Try("av1", "source", "hardware") b == Video!Try("hevc", "r1440", "hardware")
               c == Video!Try("h264", "r1440", "hardware") d == Video!Try("h264", "r1440", "any")
    <2>1. Video!Admitted(source, options) = {"av1", "hevc", "h264"} /\ Video!FallbackCodecs(source, options) = {"h264"}
      BY <1>3 DEF Video!Admitted, Video!FallbackCodecs
    <2>2. tries = <<a, b, c, d>>
      BY <1>3 DEF Video!Tries
    <2>3. TryIsAdmitted(a, source, options) /\ TryIsAdmitted(b, source, options)
      BY <1>3, <2>1, TryParts DEF TryIsAdmitted, Resolution
    <2>4. TryIsAdmitted(c, source, options) /\ TryIsAdmitted(d, source, options) /\ d.codec = "h264" /\ d.kind = "any"
      BY <1>3, <2>1, TryParts DEF TryIsAdmitted, Resolution
    <2> HIDE DEF a, b, c, d, tries
    <2>5. DOMAIN tries = 1..4 /\ tries[1] = a /\ tries[2] = b /\ tries[3] = c /\ tries[4] = d
      BY <2>2
    <2>6. TriesAre(tries, source, options)
      BY <2>1, <2>3, <2>4, <2>5 DEF TriesAre
    <2> QED
      BY <2>6 DEF tries
  <1>4. CASE options.policy = "resolution" /\ source.codec = "av1"
    <2> DEFINE a == Video!Try("av1", "source", "hardware") b == Video!Try("hevc", "source", "hardware")
               c == Video!Try("h264", "source", "hardware") d == Video!Try("hevc", "source", "any")
               e == Video!Try("h264", "source", "any")
    <2>1. /\ Video!Admitted(source, options) = {"av1", "hevc", "h264"}
          /\ Video!FallbackCodecs(source, options) = {"hevc", "h264"}
      BY <1>4 DEF Video!Admitted, Video!FallbackCodecs
    <2>2. tries = <<a, b, c, d, e>>
      BY <1>4 DEF Video!Tries
    <2>3. TryIsAdmitted(a, source, options) /\ TryIsAdmitted(b, source, options) /\ TryIsAdmitted(c, source, options)
      BY <1>4, <2>1, TryParts DEF TryIsAdmitted, Resolution
    <2>4. /\ TryIsAdmitted(d, source, options) /\ TryIsAdmitted(e, source, options)
          /\ d.codec = "hevc" /\ d.kind = "any" /\ e.codec = "h264" /\ e.kind = "any"
      BY <1>4, <2>1, TryParts DEF TryIsAdmitted, Resolution
    <2> HIDE DEF a, b, c, d, e, tries
    <2>5. DOMAIN tries = 1..5 /\ tries[1] = a /\ tries[2] = b /\ tries[3] = c /\ tries[4] = d /\ tries[5] = e
      BY <2>2
    <2>6. TriesAre(tries, source, options)
      BY <2>1, <2>3, <2>4, <2>5 DEF TriesAre
    <2> QED
      BY <2>6 DEF tries
  <1> QED
    BY <1>1, <1>2, <1>3, <1>4

\* A plan of an attempt.
AttemptIs(p, machine, source, options, attempt, excluded) ==
  /\ Made(p, machine, attempt.codec, p.size[1], attempt.kind, excluded)
  /\ p.size = Video!Fit(source.size, attempt.resolution)
  /\ p.rate \in Video!Rates(source, options, attempt.codec, p.size)

LEMMA AttemptParts ==
  ASSUME NEW machine, NEW source, NEW options, NEW attempt, NEW excluded,
         NEW p \in Video!Attempt(machine, source, options, attempt, excluded)
  PROVE  AttemptIs(p, machine, source, options, attempt, excluded)
  <1> DEFINE size == Video!Fit(source.size, attempt.resolution)
             fitting == Video!Fitting(machine, attempt.codec, size[1], attempt.kind, excluded)
             rates == Video!Rates(source, options, attempt.codec, size)
             encoder == Video!Preferred(attempt.codec, fitting)
  <1>1. fitting # {} /\ \E rate \in rates : p = [codec |-> attempt.codec, encoder |-> encoder, size |-> size, rate |-> rate]
    BY DEF Video!Attempt
  <1> HIDE DEF rates, encoder
  <1>2. p.codec = attempt.codec /\ p.encoder = encoder /\ p.size = size /\ p.rate \in rates
    <2> HIDE DEF fitting, size
    <2> QED
      BY <1>1
  <1>3. Made(p, machine, attempt.codec, size[1], attempt.kind, excluded)
    BY <1>1, <1>2, FittingParts DEF encoder
  <1> HIDE DEF size
  <1> QED
    BY <1>2, <1>3 DEF AttemptIs, rates, size

LEMMA AttemptExists ==
  ASSUME NEW machine, NEW source, source.rate \in Nat, Picture(source.size), NEW options,
         NEW attempt, attempt.codec \in DOMAIN Video!Encoders, attempt.kind = "any", attempt.resolution \in Resolution,
         NEW excluded, NEW name \in Video!Software, name \notin excluded, NEW width,
         name \in Video!Range(Video!Encoders[attempt.codec]), Video!Usable(machine, name, width)
  PROVE  Video!Attempt(machine, source, options, attempt, excluded) # {}
  <1> DEFINE size == Video!Fit(source.size, attempt.resolution)
             fitting == Video!Fitting(machine, attempt.codec, size[1], attempt.kind, excluded)
             rates == Video!Rates(source, options, attempt.codec, size)
             encoder == Video!Preferred(attempt.codec, fitting)
             made == Video!Attempt(machine, source, options, attempt, excluded)
  <1>1. made = IF fitting = {} THEN {}
               ELSE {[codec |-> attempt.codec, encoder |-> encoder, size |-> size, rate |-> rate] : rate \in rates}
    BY Zenon DEF Video!Attempt
  <1>2. fitting # {}
    BY SoftwareFits
  <1>3. rates # {}
    <2>1. PICK W, H \in Nat : source.size = <<W, H>> /\ 2 <= W /\ 2 <= H /\ W <= 960 * H /\ H <= 960 * W
      BY DEF Picture
    <2>2. IsSmaller(size, W, H)
      BY <2>1, FitParts DEF Resolution
    <2>3. size[1] \in Nat /\ size[2] \in Nat
      BY <2>2 DEF IsSmaller
    <2> HIDE DEF size
    <2> QED
      BY <2>1, <2>3, RatesParts
  <1> HIDE DEF fitting, rates, encoder, size, made
  <1>4. PICK rate \in rates : TRUE
    BY <1>3
  <1>5. [codec |-> attempt.codec, encoder |-> encoder, size |-> size, rate |-> rate] \in made
    BY <1>1, <1>2
  <1> QED
    BY <1>5 DEF made

\* What a rendering with options may do is one of its attempts.
LEMMA PlansParts ==
  ASSUME NEW machine, NEW source, NEW options, NEW excluded,
         TriesAre(Video!Tries(source, options), source, options)
  PROVE  /\ \A p \in Video!Plans(machine, source, options, excluded) :
              source.probed /\ \E n \in DOMAIN Video!Tries(source, options) :
                AttemptIs(p, machine, source, options, Video!Tries(source, options)[n], excluded)
         /\ source.probed /\ (\E n \in DOMAIN Video!Tries(source, options) :
              Video!Attempt(machine, source, options, Video!Tries(source, options)[n], excluded) # {})
            => Video!Plans(machine, source, options, excluded) # {}
  <1> DEFINE tries == Video!Tries(source, options)
             Of(n) == Video!Attempt(machine, source, options, tries[n], excluded)
             possible == {n \in DOMAIN tries : Of(n) # {}}
             plans == Video!Plans(machine, source, options, excluded)
  <1>1. plans = IF ~source.probed \/ possible = {} THEN {} ELSE Of(Video!Min(possible))
    BY Zenon DEF Video!Plans
  <1>2. possible # {} => Video!Min(possible) \in possible
    <2>1. possible \subseteq Nat
      BY DEF TriesAre
    <2> HIDE DEF possible
    <2> QED
      BY <2>1, FirstNumber
  <1> HIDE DEF tries
  <1>3. ASSUME NEW p \in plans PROVE source.probed /\ \E n \in DOMAIN tries : AttemptIs(p, machine, source, options, tries[n], excluded)
    <2>1. source.probed /\ possible # {} /\ p \in Of(Video!Min(possible))
      <3> HIDE DEF plans, possible, Of
      <3> QED
        BY <1>1, <1>3
    <2>2. Video!Min(possible) \in DOMAIN tries
      BY <1>2, <2>1
    <2>3. AttemptIs(p, machine, source, options, tries[Video!Min(possible)], excluded)
      BY <2>1, AttemptParts
    <2> HIDE DEF possible
    <2> QED
      BY <2>1, <2>2, <2>3
  <1>4. ASSUME source.probed, NEW n \in DOMAIN tries, Of(n) # {} PROVE plans # {}
    <2>1. n \in possible
      BY <1>4
    <2>2. Of(Video!Min(possible)) # {}
      BY <1>2, <2>1
    <2> HIDE DEF possible, Of, plans
    <2> QED
      BY <1>1, <1>4, <2>1, <2>2
  <1> QED
    BY <1>3, <1>4 DEF tries, plans

\* What is chosen for options.
LEMMA AttemptIsChosen ==
  ASSUME NEW machine, NEW source, source.rate \in Nat, Picture(source.size),
         NEW options, options.policy \in {"balanced", "resolution", "codec", "custom"},
         NEW t, TryIsAdmitted(t, source, options), NEW excluded, NEW p,
         AttemptIs(p, machine, source, options, t, excluded)
  PROVE  Video!PlanIsChosen(p, machine, source, options)
  <1>1. PICK W, H \in Nat : source.size = <<W, H>> /\ 2 <= W /\ 2 <= H /\ W <= 960 * H /\ H <= 960 * W
    BY DEF Picture
  <1>2. /\ t.codec \in Video!Admitted(source, options) /\ t.resolution \in {"source", "r1440", "r1080"}
        /\ t.kind \in {"hardware", "any"}
        /\ t.kind = "any" => t.codec \in Video!FallbackCodecs(source, options)
        /\ options.policy \in {"codec", "resolution"} => t.resolution = "source"
    BY DEF TryIsAdmitted, Resolution
  <1>3. /\ p.codec = t.codec /\ t.codec \in DOMAIN Video!Encoders /\ p.encoder \in Video!Range(Video!Encoders[t.codec])
        /\ Video!Usable(machine, p.encoder, p.size[1]) /\ p.encoder \notin excluded
        /\ t.kind = "hardware" => p.encoder \notin Video!Software
    BY DEF AttemptIs, Made, Video!Fits
  <1>4. p.size = Video!Fit(<<W, H>>, t.resolution) /\ p.rate \in Video!Rates(source, options, t.codec, p.size)
    BY <1>1 DEF AttemptIs
  <1>5. IsSmaller(p.size, W, H)
    BY <1>1, <1>2, <1>4, FitParts
  <1>6. source.size[1] = W /\ source.size[2] = H
    BY <1>1
  <1>7. p.encoder \in Video!Software => p.encoder \in Video!Substitutes(machine, source, options)
    <2> SUFFICES ASSUME p.encoder \in Video!Software PROVE p.encoder \in Video!Substitutes(machine, source, options)
      OBVIOUS
    <2>1. t.codec \in Video!FallbackCodecs(source, options) \cap DOMAIN Video!Encoders
      BY <1>2, <1>3
    <2>2. Video!Usable(machine, p.encoder, source.size[1])
      BY <1>3 DEF Video!Usable
    <2> QED
      BY <1>3, <2>1, <2>2 DEF Video!Substitutes
  <1>8. options.policy \in {"none", "codec", "resolution"} => p.size = source.size
    <2> SUFFICES ASSUME options.policy \in {"none", "codec", "resolution"} PROVE p.size = source.size
      OBVIOUS
    <2>1. t.resolution = "source"
      BY <1>2
    <2> QED
      BY <1>1, <1>4, <2>1 DEF Video!Fit
  <1>9. options.policy = "balanced" => p.rate <= Video!Max({Video!LeastRate, Video!SourceRate(source)})
    <2>1. p.size[1] \in Nat /\ p.size[2] \in Nat
      BY <1>5 DEF IsSmaller
    <2> QED
      BY <1>1, <1>4, <2>1, RatesParts
  <1>10. /\ p.size[1] <= W /\ p.size[2] <= H
         /\ p.size[1] * H <= (p.size[2] + 2) * W /\ p.size[2] * W <= (p.size[1] + 2) * H
    BY <1>5 DEF IsSmaller
  <1> QED
    BY <1>2, <1>3, <1>6, <1>7, <1>8, <1>9, <1>10, Zenon DEF Video!PlanIsChosen

\* What is chosen without options is the source's.
LEMMA KeepingParts ==
  ASSUME NEW machine, NEW source, Film(source), NEW kind,
         NEW p \in Video!Keeping(machine, source, kind)
  PROVE  /\ Video!PlanIsChosen(p, machine, source, Video!NoOptions)
         /\ kind = "software" => p.encoder \in Video!Software
  <1> DEFINE fitting == Video!Fitting(machine, source.codec, source.size[1], kind, {})
             encoder == Video!Preferred(source.codec, fitting)
             options == Video!NoOptions
  <1>1. /\ source.probed /\ fitting # {}
        /\ p = [codec |-> source.codec, encoder |-> encoder, size |-> source.size, rate |-> source.rate]
    <2> HIDE DEF fitting, encoder
    <2> QED
      BY Zenon DEF Video!Keeping, fitting, encoder
  <1> HIDE DEF encoder
  <1>2. p.codec = source.codec /\ p.encoder = encoder /\ p.size = source.size
    <2> HIDE DEF fitting
    <2> QED
      BY <1>1
  <1>3. Made(p, machine, source.codec, source.size[1], kind, {})
    BY <1>1, <1>2, FittingParts DEF encoder
  <1>4. /\ source.codec \in DOMAIN Video!Encoders /\ p.encoder \in Video!Range(Video!Encoders[source.codec])
        /\ Video!Usable(machine, p.encoder, source.size[1])
        /\ kind = "software" => p.encoder \in Video!Software
    BY <1>3 DEF Made, Video!Fits
  <1>5. PICK W, H \in Nat : source.size = <<W, H>> /\ 2 <= W /\ 2 <= H /\ W <= 960 * H /\ H <= 960 * W
    BY <1>1 DEF Film, Picture
  <1>6. options.policy = "none"
    BY DEF Video!NoOptions
  <1> HIDE DEF options
  <1>7. Video!Admitted(source, options) = {source.codec} /\ Video!FallbackCodecs(source, options) = {source.codec}
    <2>1. Video!Admitted(source, options) = {source.codec}
      BY <1>6 DEF Video!Admitted
    <2> QED
      BY <1>6, <2>1 DEF Video!FallbackCodecs
  <1>8. p.encoder \in Video!Software => p.encoder \in Video!Substitutes(machine, source, options)
    BY <1>4, <1>7 DEF Video!Substitutes
  <1>9. source.size[1] = W /\ source.size[2] = H /\ p.size[1] = W /\ p.size[2] = H
    BY <1>2, <1>5
  <1>10. W <= W /\ H <= H /\ W * H <= (H + 2) * W /\ H * W <= (W + 2) * H
    OBVIOUS
  <1>11. options.policy # "balanced"
    BY <1>6
  <1>12. Video!PlanIsChosen(p, machine, source, options)
    BY <1>2, <1>4, <1>7, <1>8, <1>9, <1>10, <1>11, Zenon DEF Video!PlanIsChosen
  <1> QED
    BY <1>4, <1>12 DEF options

\* Software that may replace what failed gives a plan.
LEMMA SubstitutesPlan ==
  ASSUME NEW machine, NEW source, source.probed, Film(source),
         NEW options, options.policy \in {"balanced", "resolution", "codec", "custom"},
         TriesAre(Video!Tries(source, options), source, options),
         NEW name \in Video!Substitutes(machine, source, options), NEW excluded, name \notin excluded
  PROVE  Video!Plans(machine, source, options, excluded) # {}
  <1> DEFINE tries == Video!Tries(source, options)
  <1>1. PICK c \in Video!FallbackCodecs(source, options) \cap DOMAIN Video!Encoders :
          name \in Video!Range(Video!Encoders[c]) /\ Video!Usable(machine, name, source.size[1])
    BY DEF Video!Substitutes
  <1>2. name \in Video!Software
    BY DEF Video!Substitutes
  <1> HIDE DEF tries
  <1>3. PICK n \in DOMAIN tries : tries[n].codec = c /\ tries[n].kind = "any"
    BY <1>1 DEF TriesAre, tries
  <1>4. tries[n].resolution \in Resolution
    BY DEF TriesAre, TryIsAdmitted, tries
  <1> DEFINE t == tries[n]
  <1>5. t.codec \in DOMAIN Video!Encoders /\ t.kind = "any" /\ t.resolution \in Resolution
        /\ name \in Video!Range(Video!Encoders[t.codec])
    BY <1>1, <1>3, <1>4
  <1>6. source.rate \in Nat /\ Picture(source.size)
    BY DEF Film
  <1> HIDE DEF t
  <1>7. Video!Attempt(machine, source, options, t, excluded) # {}
    BY <1>1, <1>2, <1>5, <1>6, AttemptExists
  <1> QED
    BY <1>7, PlansParts DEF t, tries

LEMMA SubstitutesKeep ==
  ASSUME NEW machine, NEW source, source.probed, NEW kind, kind # "hardware",
         NEW name \in Video!Substitutes(machine, source, Video!NoOptions)
  PROVE  Video!Keeping(machine, source, kind) # {}
  <1> DEFINE options == Video!NoOptions
             fitting == Video!Fitting(machine, source.codec, source.size[1], kind, {})
  <1>1. options.policy = "none"
    BY DEF Video!NoOptions
  <1> HIDE DEF options
  <1>2. Video!Admitted(source, options) = {source.codec}
    BY <1>1 DEF Video!Admitted
  <1>3. Video!FallbackCodecs(source, options) = {source.codec}
    BY <1>1, <1>2 DEF Video!FallbackCodecs
  <1>4. /\ name \in Video!Software /\ source.codec \in DOMAIN Video!Encoders
        /\ name \in Video!Range(Video!Encoders[source.codec]) /\ Video!Usable(machine, name, source.size[1])
    BY <1>3 DEF Video!Substitutes, options
  <1>5. fitting # {}
    BY <1>4, SoftwareFits
  <1> HIDE DEF fitting
  <1> QED
    BY <1>5 DEF Video!Keeping, fitting

LEMMA AtMostOne ==
  ASSUME NEW S, IsFiniteSet(S), Cardinality(S) <= 1, NEW x \in S, NEW y \in S
  PROVE  x = y
  <1>1. IsFiniteSet({x}) /\ Cardinality({x}) = 1
    BY FS_Singleton
  <1>2. Cardinality({x}) <= Cardinality(S) /\ (Cardinality(S) = Cardinality({x}) => S = {x})
    BY FS_Subset
  <1>3. Cardinality(S) \in Nat
    BY FS_CardinalityType
  <1>4. S = {x}
    BY <1>1, <1>2, <1>3
  <1> QED
    BY <1>4

\* A rendering of any source on any machine, with any options, is what the user
\* chose and the machine can do, and survives hardware that fails at work
\* (make_output_plan, fit_dimensions, select_encoder and burn).
THEOREM AnyRenderingKeepsStrategy ==
  ASSUME NEW machine, NEW source, Film(source), NEW options, Asked(options), NEW broken, IsFiniteSet(broken)
  PROVE  Video!StrategyIsKept(machine, source, options, broken)
  <1> DEFINE first == Video!FirstPlans(machine, source, options)
             Other(p) == Video!NextPlans(machine, source, options, p)
             again == {Other(p) : p \in {q \in first : q.encoder \in broken}}
             result == Video!Rendered(machine, source, options, broken)
             Chosen(p) == Video!PlanIsChosen(p, machine, source, options)
             Safe == /\ source.probed /\ Video!Substitutes(machine, source, options) # {}
                     /\ broken \cap Video!Software = {} /\ (options = Video!NoOptions \/ Cardinality(broken) <= 1)
  <1>1. options # Video!NoOptions => /\ options.policy \in {"balanced", "resolution", "codec", "custom"}
                                     /\ TriesAre(Video!Tries(source, options), source, options)
    BY TriesParts DEF Asked
  <1>2. ASSUME options # Video!NoOptions, NEW excluded, NEW p \in Video!Plans(machine, source, options, excluded)
        PROVE  Chosen(p) /\ p.encoder \notin excluded
    <2>1. source.probed
      BY <1>1, <1>2, PlansParts
    <2>2. PICK n \in DOMAIN Video!Tries(source, options) :
            AttemptIs(p, machine, source, options, Video!Tries(source, options)[n], excluded)
      BY <1>1, <1>2, PlansParts
    <2> DEFINE t == Video!Tries(source, options)[n]
    <2>3. TryIsAdmitted(t, source, options)
      BY <1>1, <1>2 DEF TriesAre
    <2>4. AttemptIs(p, machine, source, options, t, excluded)
      BY <2>2
    <2> HIDE DEF t
    <2>5. p.encoder \notin excluded
      BY <2>4 DEF AttemptIs, Made, Video!Fits
    <2>6. source.rate \in Nat /\ Picture(source.size)
      BY <2>1 DEF Film
    <2> QED
      BY <1>1, <1>2, <2>3, <2>4, <2>5, <2>6, AttemptIsChosen
  <1>3. \A p \in first : Chosen(p)
    <2>1. CASE options = Video!NoOptions
      <3>1. first = Video!Keeping(machine, source, "any")
        BY <2>1 DEF Video!FirstPlans
      <3> QED
        BY <2>1, <3>1, KeepingParts
    <2>2. CASE options # Video!NoOptions
      <3>1. first = Video!Plans(machine, source, options, {})
        BY <2>2 DEF Video!FirstPlans
      <3> QED
        BY <1>2, <2>2, <3>1
    <2> QED
      BY <2>1, <2>2
  <1>4. \A p \in first : \A q \in Other(p) : Chosen(q)
    <2> SUFFICES ASSUME NEW p \in first, NEW q \in Other(p) PROVE Chosen(q)
      OBVIOUS
    <2>1. CASE p.encoder \in Video!Software
      BY <2>1 DEF Video!NextPlans
    <2>2. CASE p.encoder \notin Video!Software /\ options = Video!NoOptions
      <3>1. Other(p) = Video!Keeping(machine, source, "software")
        BY <2>2 DEF Video!NextPlans
      <3> QED
        BY <2>2, <3>1, KeepingParts
    <2>3. CASE p.encoder \notin Video!Software /\ options # Video!NoOptions
      <3>1. Other(p) = Video!Plans(machine, source, options, {p.encoder})
        BY <2>3 DEF Video!NextPlans
      <3> QED
        BY <1>2, <2>3, <3>1
    <2> QED
      BY <2>1, <2>2, <2>3
  <1>5. ASSUME Safe PROVE first # {}
    <2>1. PICK name \in Video!Substitutes(machine, source, options) : TRUE
      BY <1>5
    <2>2. CASE options = Video!NoOptions
      <3>1. first = Video!Keeping(machine, source, "any")
        BY <2>2 DEF Video!FirstPlans
      <3> QED
        BY <1>5, <2>1, <2>2, <3>1, SubstitutesKeep
    <2>3. CASE options # Video!NoOptions
      <3>1. first = Video!Plans(machine, source, options, {})
        BY <2>3 DEF Video!FirstPlans
      <3> QED
        BY <1>1, <1>5, <2>1, <2>3, <3>1, SubstitutesPlan
    <2> QED
      BY <2>2, <2>3
  <1>6. ASSUME Safe, NEW p \in first, p.encoder \in broken PROVE Other(p) # {} /\ \A q \in Other(p) : q.encoder \notin broken
    <2>1. PICK name \in Video!Substitutes(machine, source, options) : TRUE
      BY <1>6
    <2>2. p.encoder \notin Video!Software /\ name \in Video!Software
      BY <1>6 DEF Video!Substitutes
    <2>3. CASE options = Video!NoOptions
      <3>1. Other(p) = Video!Keeping(machine, source, "software")
        BY <2>2, <2>3 DEF Video!NextPlans
      <3>2. Other(p) # {}
        BY <1>6, <2>1, <2>3, <3>1, SubstitutesKeep
      <3>3. \A q \in Other(p) : q.encoder \in Video!Software
        BY <2>3, <3>1, KeepingParts
      <3> QED
        BY <1>6, <3>2, <3>3
    <2>4. CASE options # Video!NoOptions
      <3>1. Other(p) = Video!Plans(machine, source, options, {p.encoder})
        BY <2>2, <2>4 DEF Video!NextPlans
      <3>2. Other(p) # {}
        BY <1>1, <1>6, <2>1, <2>2, <2>4, <3>1, SubstitutesPlan
      <3>3. \A q \in Other(p) : q.encoder # p.encoder
        BY <1>2, <2>4, <3>1
      <3>4. broken \subseteq {p.encoder}
        <4> SUFFICES ASSUME NEW e \in broken, e # p.encoder PROVE FALSE
          OBVIOUS
        <4>1. Cardinality(broken) <= 1
          BY <1>6, <2>4
        <4> QED
          BY <1>6, <4>1, AtMostOne
      <3> QED
        BY <3>2, <3>3, <3>4
    <2> QED
      BY <2>3, <2>4
  <1> HIDE DEF Chosen, Other, first
  <1>7. /\ result.done = {p \in first \cup UNION again : p.encoder \notin broken}
        /\ result.failed = (first = {} \/ \E plans \in again : plans = {} \/ \E p \in plans : p.encoder \in broken)
    BY DEF Video!Rendered, first, Other
  <1> HIDE DEF result
  <1>8. \A p \in result.done : Chosen(p)
    BY <1>3, <1>4, <1>7
  <1>9. Safe => ~result.failed
    BY <1>5, <1>6, <1>7
  <1>10. Video!Cardinality(broken) = Cardinality(broken)
    BY Zenon DEF Video!Cardinality, Cardinality
  <1> QED
    BY <1>8, <1>9, <1>10, Zenon DEF Video!StrategyIsKept, Chosen, result

Machine == [name : {Encoders[n] : n \in DOMAIN Encoders}, limit : {2560, 4096}]
IsMachine == of = "video" => input \in Seq(Machine)

\* The inputs that the run makes are machines.
LEMMA InputsAreMachines == Inputs => []IsMachine
  <1>1. FirstInput => IsMachine
    BY DEF FirstInput, IsMachine
  <1>2. IsMachine /\ [NextInput]_<<of, input>> => IsMachine'
    <2> SUFFICES ASSUME IsMachine, [NextInput]_<<of, input>> PROVE IsMachine'
      OBVIOUS
    <2>1. CASE AddEncoder
      <3>1. of = "video" /\ of' = of
        BY <2>1 DEF AddEncoder, Extend
      <3>2. PICK n \in DOMAIN Encoders, limit \in {2560, 4096} : Extend([name |-> Encoders[n], limit |-> limit])
        BY <2>1, SMT DEF AddEncoder
      <3>3. [name |-> Encoders[n], limit |-> limit] \in Machine
        <4> DEFINE name == Encoders[n] names == {Encoders[k] : k \in DOMAIN Encoders}
        <4>1. name \in names
          OBVIOUS
        <4> HIDE DEF name, names
        <4>2. [name |-> name, limit |-> limit] \in [name : names, limit : {2560, 4096}]
          BY <4>1
        <4> QED
          BY <4>2 DEF Machine, name, names
      <3> QED
        BY <3>1, <3>2, <3>3, AppendProperties DEF IsMachine, Extend
    <2>2. CASE AddSubtitle
      <3>1. of = "repair" /\ of' = of
        BY <2>2, Zenon DEF AddSubtitle, Extend
      <3> QED
        BY <3>1 DEF IsMachine
    <2>3. CASE AddWord
      <3>1. of = "speech" /\ of' = of
        BY <2>3, Zenon DEF AddWord, Extend
      <3> QED
        BY <3>1 DEF IsMachine
    <2>4. CASE AddLine
      <3>1. of = "script" /\ of' = of
        BY <2>4, Zenon DEF AddLine, Extend
      <3> QED
        BY <3>1 DEF IsMachine
    <2>5. CASE AddEntry
      <3>1. of = "settings" /\ of' = of
        BY <2>5, Zenon DEF AddEntry, Extend
      <3> QED
        BY <3>1 DEF IsMachine
    <2>6. CASE UNCHANGED <<of, input>>
      BY <2>6 DEF IsMachine
    <2> QED
      BY <2>1, <2>2, <2>3, <2>4, <2>5, <2>6 DEF NextInput
  <1> QED
    BY <1>1, <1>2, PTL DEF Inputs

\* What the run about the algorithms checks for the machines of a few encoders,
\* at any number of them: a rendering (video_output.py, video_encoding.py,
\* video_burn_service.py) is what the user chose and its machine can do.
THEOREM RenderingsKeepStrategyHolds == Inputs => []RenderingsKeepStrategy
  <1>1. IsMachine => RenderingsKeepStrategy
    <2> SUFFICES ASSUME IsMachine, of = "video", NEW source \in Sources, NEW options \in Options,
                        NEW broken \in SUBSET {input[n].name : n \in DOMAIN input}
                 PROVE  Video!StrategyIsKept(ToSet(input), source, options, broken)
      BY Zenon DEF RenderingsKeepStrategy
    <2>1. IsFiniteSet(broken)
      <3> DEFINE S == 1..Len(input) T == {input[n].name : n \in DOMAIN input} f == [n \in S |-> input[n].name]
      <3>1. Len(input) \in Nat /\ DOMAIN input = S
        BY DEF IsMachine
      <3>2. IsFiniteSet(S)
        BY <3>1, FS_Interval
      <3>3. f \in Surjection(S, T)
        BY <3>1 DEF Surjection
      <3>4. IsFiniteSet(T)
        BY <3>2, <3>3, FS_Surjection
      <3> QED
        BY <3>4, FS_Subset
    <2>2. Film(source)
      <3>1. CASE source \in Probed
        <4>1. source.size \in {<<3840, 2160>>, <<1081, 2401>>, <<640, 360>>} /\ source.rate \in Nat
          BY <3>1 DEF Probed
        <4>2. Picture(<<3840, 2160>>) /\ Picture(<<1081, 2401>>) /\ Picture(<<640, 360>>)
          BY DEF Picture
        <4> QED
          BY <4>1, <4>2 DEF Film
      <3>2. CASE source = NotProbed
        <4>1. ~source.probed
          BY <3>2 DEF NotProbed
        <4> QED
          BY <4>1 DEF Film
      <3> QED
        BY <3>1, <3>2 DEF Sources
    <2>3. Asked(options)
      <3>1. CASE options = Video!NoOptions
        BY <3>1 DEF Asked
      <3>2. CASE options \in [policy : {"balanced", "resolution", "codec"}]
        BY <3>2 DEF Asked
      <3>3. CASE options \in [policy : {"custom"}, codec : {"h264", "av1"}, resolution : {"source", "r1080"}, rate : {100}]
        BY <3>3 DEF Asked, Resolution
      <3> QED
        BY <3>1, <3>2, <3>3 DEF Options
    <2> QED
      BY <2>1, <2>2, <2>3, AnyRenderingKeepsStrategy
  <1> QED
    BY <1>1, InputsAreMachines, PTL

=============================================================================
