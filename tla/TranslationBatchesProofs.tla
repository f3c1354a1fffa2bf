----------------------- MODULE TranslationBatchesProofs -----------------------
(***************************************************************************)
(* Proofs about TranslationBatches: a saved translation has a text for     *)
(* every row that has one, and each row with another row's meaning is      *)
(* among those to review, for any number of rows, any size of the batches  *)
(* and any retry limit.                                                    *)
(***************************************************************************)
EXTENDS TranslationBatches, FiniteSetTheorems, SequenceTheorems, TLAPS

-----------------------------------------------------------------------------
(* The numbers of a set in order.                                          *)

\* The smaller numbers of a set.
Below(set, x) == {y \in set : y < x}

\* Among the numbers of a finite set, one has any given number of smaller ones.
LEMMA RankExists ==
  ASSUME NEW set \in SUBSET Int, IsFiniteSet(set), NEW k \in 1..Cardinality(set)
  PROVE  \E x \in set : Cardinality(Below(set, x)) = k - 1
  <1> DEFINE n == Cardinality(set)
             rank == [x \in set |-> Cardinality(Below(set, x)) + 1]
  <1>1. n \in Nat
    BY FS_CardinalityType
  <1>2. ASSUME NEW x \in set
        PROVE  /\ IsFiniteSet(Below(set, x)) /\ Cardinality(Below(set, x)) \in Nat
               /\ Cardinality(Below(set, x)) < n
    <2>1. Below(set, x) \in SUBSET set /\ x \notin Below(set, x)
      BY DEF Below
    <2>2. IsFiniteSet(Below(set, x)) /\ Cardinality(Below(set, x)) <= n /\ Cardinality(Below(set, x)) # n
      BY <2>1, FS_Subset
    <2>3. QED
      BY <1>1, <2>2, FS_CardinalityType
  <1>3. ASSUME NEW x \in set, NEW y \in set, x < y
        PROVE  Cardinality(Below(set, x)) < Cardinality(Below(set, y))
    <2>1. ASSUME NEW z \in Below(set, x) PROVE z \in Below(set, y)
      <3>1. z \in set /\ z < x /\ z \in Int /\ x \in Int /\ y \in Int
        BY DEF Below
      <3>2. QED
        BY <1>3, <3>1 DEF Below
    <2>2. x \in Below(set, y) /\ x \notin Below(set, x)
      <3>1. x \in Int
        OBVIOUS
      <3>2. QED
        BY <1>3, <3>1 DEF Below
    <2>3. Below(set, x) \in SUBSET Below(set, y) /\ Below(set, x) # Below(set, y)
      BY <2>1, <2>2
    <2>4. Cardinality(Below(set, x)) <= Cardinality(Below(set, y)) /\ Cardinality(Below(set, x)) # Cardinality(Below(set, y))
      BY <1>2, <2>3, FS_Subset
    <2>5. QED
      BY <1>2, <2>4
  <1>4. rank \in Injection(set, 1..n)
    <2>1. rank \in [set -> 1..n]
      BY <1>1, <1>2
    <2>2. ASSUME NEW x \in set, NEW y \in set, rank[x] = rank[y] PROVE x = y
      <3>1. x \in Int /\ y \in Int
        OBVIOUS
      <3>2. Cardinality(Below(set, x)) = Cardinality(Below(set, y))
        BY <1>2, <2>2
      <3>3. QED
        BY <1>2, <1>3, <3>1, <3>2
    <2>3. QED
      BY <2>1, <2>2 DEF Injection, IsInjective
  <1>5. IsFiniteSet(1..n) /\ Cardinality(1..n) = n
    BY <1>1, FS_Interval
  <1>6. rank \in Surjection(set, 1..n)
    BY <1>4, <1>5, FS_Injection
  <1>7. PICK x \in set : rank[x] = k
    BY <1>6 DEF Surjection
  <1>8. QED
    BY <1>2, <1>7

\* Ascending lists every number of a finite set once, in order.
LEMMA AscendingProperties ==
  ASSUME NEW set \in SUBSET Int, IsFiniteSet(set)
  PROVE  /\ Ascending(set) \in [1..Cardinality(set) -> set]
         /\ Cardinality(set) \in Nat
         /\ \A i, j \in 1..Cardinality(set) : i < j => Ascending(set)[i] < Ascending(set)[j]
         /\ \A x \in set : \E i \in 1..Cardinality(set) : Ascending(set)[i] = x
  <1> DEFINE n == Cardinality(set)
             Ordered(s) == \A i, j \in DOMAIN s : i < j => s[i] < s[j]
             byRank == [k \in 1..n |-> CHOOSE x \in set : Cardinality(Below(set, x)) = k - 1]
  <1>1. n \in Nat
    BY FS_CardinalityType
  <1>2. ASSUME NEW k \in 1..n
        PROVE  byRank[k] \in set /\ Cardinality(Below(set, byRank[k])) = k - 1
    BY RankExists
  <1>3. ASSUME NEW i \in 1..n, NEW j \in 1..n, i < j
        PROVE  byRank[i] < byRank[j]
    <2> DEFINE x == byRank[i]
               y == byRank[j]
    <2>1. x \in set /\ y \in set /\ Cardinality(Below(set, x)) = i - 1 /\ Cardinality(Below(set, y)) = j - 1
      BY <1>2
    <2>2. CASE y <= x
      <3>1. ASSUME NEW z \in Below(set, y) PROVE z \in Below(set, x)
        <4>1. z \in set /\ z < y /\ z \in Int /\ x \in Int /\ y \in Int
          BY <2>1 DEF Below
        <4>2. QED
          BY <2>2, <4>1 DEF Below
      <3>2. IsFiniteSet(Below(set, x))
        BY FS_Subset DEF Below
      <3>3. j - 1 <= i - 1
        BY <2>1, <3>1, <3>2, FS_Subset
      <3>4. QED
        BY <1>3, <3>3
    <2>3. x \in Int /\ y \in Int
      BY <2>1
    <2>4. QED
      BY <2>2, <2>3
  <1>4. byRank \in [1..n -> set] /\ Ordered(byRank)
    BY <1>2, <1>3
  <1>5. Ascending(set) \in [1..n -> set] /\ Ordered(Ascending(set))
    BY <1>4 DEF Ascending
  <1>6. Ascending(set) \in Injection(1..n, set)
    <2>1. ASSUME NEW i \in 1..n, NEW j \in 1..n, Ascending(set)[i] = Ascending(set)[j] PROVE i = j
      <3>1. i \in Int /\ j \in Int /\ Ascending(set)[i] \in set
        BY <1>5
      <3>2. Ascending(set)[i] \in Int
        BY <3>1
      <3>3. QED
        BY <1>5, <2>1, <3>1, <3>2
    <2>2. QED
      BY <1>5, <2>1 DEF Injection, IsInjective
  <1>7. Ascending(set) \in Surjection(1..n, set)
    BY <1>1, <1>6, FS_Injection, FS_Interval
  <1>8. QED
    BY <1>1, <1>5, <1>7 DEF Surjection

\* Ascending is a sequence as long as its set, empty only for the empty set.
LEMMA AscendingSeq ==
  ASSUME NEW set \in SUBSET Int, IsFiniteSet(set)
  PROVE  /\ Ascending(set) \in Seq(set) /\ Len(Ascending(set)) = Cardinality(set)
         /\ Ascending(set) = <<>> <=> set = {}
  <1>1. Ascending(set) \in [1..Cardinality(set) -> set] /\ Cardinality(set) \in Nat
    BY AscendingProperties
  <1>2. Ascending(set) \in Seq(set) /\ Len(Ascending(set)) = Cardinality(set)
    BY <1>1
  <1>3. Cardinality(set) = 0 <=> set = {}
    BY FS_EmptySet
  <1>4. QED
    BY <1>2, <1>3, EmptySeq

-----------------------------------------------------------------------------
(* The rows with text.                                                     *)

\* The rows with text are rows, listed in order.
LEMMA ActiveRows ==
  ASSUME TypeOK
  PROVE  /\ spoken \subseteq 1..Rows /\ IsFiniteSet(spoken) /\ Cardinality(spoken) \in Nat
         /\ Cardinality(spoken) <= Rows
         /\ Active \in Seq(spoken) /\ Len(Active) = Cardinality(spoken)
         /\ \A i, j \in 1..Len(Active) : i < j => Active[i] < Active[j]
  <1>1. spoken \subseteq 1..Rows /\ Rows \in Nat
    BY BatchAssumption DEF TypeOK
  <1>2. IsFiniteSet(spoken) /\ Cardinality(spoken) <= Rows
    <2>1. IsFiniteSet(1..Rows) /\ Cardinality(1..Rows) = Rows
      BY BatchAssumption, FS_Interval
    <2>2. QED
      BY <1>1, <2>1, FS_Subset
  <1>3. spoken \in SUBSET Int
    BY <1>1
  <1>4. QED
    BY <1>1, <1>2, <1>3, AscendingProperties, AscendingSeq DEF Active

\* The place of a row with text is the number of such rows up to it.
LEMMA PlaceOfRow ==
  ASSUME TypeOK, NEW r \in spoken
  PROVE  /\ Cardinality(spoken \cap 1..r) \in 1..Len(Active)
         /\ Active[Cardinality(spoken \cap 1..r)] = r
  <1> DEFINE n == Len(Active)
  <1>1. /\ n \in Nat /\ n = Cardinality(spoken) /\ r \in Int
        /\ Active \in [1..n -> spoken] /\ \A x \in spoken : x \in Int /\ 1 <= x
    BY ActiveRows, LenProperties
  <1>2. PICK k \in 1..n : Active[k] = r
    <2>1. spoken \in SUBSET Int
      BY <1>1
    <2>2. QED
      BY <1>1, <2>1, ActiveRows, AscendingProperties DEF Active
  <1> DEFINE upTo == [i \in 1..k |-> Active[i]]
  <1>3. ASSUME NEW i \in 1..k PROVE upTo[i] \in spoken \cap 1..r
    <2>1. i \in 1..n /\ Active[i] \in spoken /\ (i = k \/ i < k)
      BY <1>1
    <2>2. Active[i] \in Int /\ 1 <= Active[i]
      BY <1>1, <2>1
    <2>3. Active[i] <= r
      <3>1. i < k => Active[i] < Active[k]
        BY <2>1, ActiveRows
      <3>2. QED
        BY <1>1, <1>2, <2>1, <2>2, <3>1
    <2>4. QED
      BY <1>1, <2>1, <2>2, <2>3
  <1>4. ASSUME NEW i \in 1..k, NEW j \in 1..k, upTo[i] = upTo[j] PROVE i = j
    <2>1. /\ i \in 1..n /\ j \in 1..n /\ upTo[i] = Active[i] /\ upTo[j] = Active[j]
      BY <1>1
    <2>2. Active[i] \in Int /\ Active[j] \in Int /\ Active[i] = Active[j]
      BY <1>1, <1>4, <2>1
    <2>3. ~(i < j) /\ ~(j < i)
      BY <2>1, <2>2, ActiveRows
    <2>4. QED
      BY <2>1, <2>3
  <1>5. ASSUME NEW x \in spoken \cap 1..r PROVE \E i \in 1..k : upTo[i] = x
    <2>1. spoken \in SUBSET Int
      BY <1>1
    <2>2. PICK i \in 1..n : Active[i] = x
      BY <1>1, <2>1, ActiveRows, AscendingProperties DEF Active
    <2>3. ~(k < i)
      BY <1>1, <1>2, <2>2, ActiveRows
    <2>4. i \in 1..k
      BY <1>1, <2>3
    <2>5. QED
      BY <2>2, <2>4
  <1>6. upTo \in Bijection(1..k, spoken \cap 1..r)
    BY <1>3, <1>4, <1>5 DEF Bijection, Injection, Surjection, IsInjective
  <1>7. Cardinality(spoken \cap 1..r) = k
    BY <1>1, <1>6, FS_CountingElements DEF ExistsBijection
  <1>8. QED
    BY <1>2, <1>7

-----------------------------------------------------------------------------
(* The invariant, of a job j that may be the present one or the next.      *)

Texts == {Failed} \cup spoken

Typed(j) ==
  j \in [phase : {"idle", "waiting", "finishing"} \cup Calling \cup Auditing \cup Ends,
         first : 1..Rows + 1, answers : Seq(Texts), todo : Seq(1..BatchSize), attempt : 0..MaxRetries,
         recovery : 0..MaxRecoveries - 1, suspects : SUBSET (1..BatchSize), done : Seq(Texts),
         review : SUBSET (1..Rows), incomplete : BOOLEAN]

\* The length of the batch that begins at a place.
BatchLen(first) == LET left == Len(Active) - first + 1 IN IF left < BatchSize THEN left ELSE BatchSize

\* The places in the batch with another row's meaning, or none.
Wrong(j) == {k \in DOMAIN j.answers : j.answers[k] # Active[j.first + k - 1]}

\* The batches are done one after the other, up to the last row.
InOrder(j) ==
  /\ j.first = Len(j.done) + 1 /\ j.first <= Len(Active) + 1
  /\ j.phase \in {"waiting"} \cup Calling \cup Auditing => j.first <= Len(Active)
  /\ j.phase = "finishing" => j.first = Len(Active) + 1
  /\ j.phase = "idle" => j.first = 1

\* A batch has its length as soon as its rows are looked at one by one.
BatchIsFull(j) ==
  /\ Len(j.answers) <= BatchSize
  /\ j.phase \in {"idle", "waiting", "batch"} => j.answers = <<>>
  /\ j.phase = "single" => j.todo # <<>> /\ Len(j.answers) + Len(j.todo) = BatchLen(j.first)
  /\ j.phase \in {"recover", "fix"} =>
       j.todo # <<>> /\ \A i \in DOMAIN j.todo : j.todo[i] \in 1..BatchLen(j.first)
  /\ j.phase \in {"recover", "fix"} \cup Auditing => Len(j.answers) = BatchLen(j.first)

\* What is audited has no failed row, and what the second audit leaves alone
\* was right before.
SuspectsAreAll(j) ==
  /\ j.phase \in {"fix"} \cup Auditing => \A k \in DOMAIN j.answers : j.answers[k] # Failed
  /\ j.phase \in {"fix", "recheck"} => Wrong(j) \subseteq j.suspects /\ j.suspects \subseteq 1..BatchLen(j.first)
  /\ j.phase = "fix" => \A i \in DOMAIN j.todo : j.todo[i] \in j.suspects

\* Without a failed row, each row done is right or will be reviewed.
RightOrReviewed(rows, offset, j) ==
  \/ \E k \in DOMAIN rows : rows[k] = Failed
  \/ j.incomplete
  \/ \A k \in DOMAIN rows : rows[k] = Active[offset + k] \/ offset + k \in j.review

DoneIsRight(j) == j.review \subseteq 1..Len(j.done) /\ RightOrReviewed(j.done, 0, j)

JobOK(j) == Typed(j) /\ InOrder(j) /\ BatchIsFull(j) /\ SuspectsAreAll(j) /\ DoneIsRight(j)

IInv == TypeOK /\ JobOK(job) /\ RowsKeepTheirPlace

\* A translation that has not begun satisfies the invariant.
LEMMA InitIInv == Init => IInv
  <1> SUFFICES ASSUME Init PROVE IInv
    OBVIOUS
  <1>1. /\ Rows \in Nat \ {0} /\ BatchSize \in Nat \ {0} /\ MaxRetries \in Nat
        /\ spoken \in Speech /\ spoken \subseteq 1..Rows
    BY BatchAssumption DEF Init
  <1>2. /\ <<>> \in Seq(Texts) /\ <<>> \in Seq(1..BatchSize) /\ <<>> \in Seq({Blank} \cup 0..Rows) /\ <<>> \in Seq(0..Rows)
        /\ Len(<<>>) = 0 /\ DOMAIN <<>> = {}
    BY EmptySeq
  <1>3. TypeOK
    BY <1>1, <1>2 DEF Init, TypeOK, NewJob, NoResult, MaxRecoveries
  <1>4. Typed(job)
    BY <1>1, <1>2 DEF Init, Typed, NewJob, MaxRecoveries
  <1>5. Len(Active) \in Nat
    BY <1>3, ActiveRows
  <1>6. InOrder(job) /\ BatchIsFull(job) /\ SuspectsAreAll(job) /\ DoneIsRight(job)
    BY <1>1, <1>2, <1>5
       DEF Init, NewJob, InOrder, BatchIsFull, SuspectsAreAll, DoneIsRight, RightOrReviewed, Calling, Auditing
  <1>7. RowsKeepTheirPlace
    BY DEF Init, RowsKeepTheirPlace
  <1>8. QED
    BY <1>3, <1>4, <1>6, <1>7 DEF IInv, JobOK

\* A batch that begins at a row is not empty and ends with the last row at most.
LEMMA BatchLength ==
  ASSUME TypeOK, NEW first \in 1..Len(Active)
  PROVE  BatchLen(first) \in 1..BatchSize /\ first + BatchLen(first) - 1 <= Len(Active)
  BY ActiveRows, BatchAssumption DEF BatchLen

\* A batch that is full, and right where it is not failed or reviewed.
Closable(j) ==
  /\ Typed(j) /\ InOrder(j) /\ j.first <= Len(Active) /\ Len(j.answers) = BatchLen(j.first)
  /\ j.review \subseteq 1..Len(j.done) + Len(j.answers)
  /\ RightOrReviewed(j.done, 0, j) /\ RightOrReviewed(j.answers, j.first - 1, j)

\* Closing a batch adds its rows to those done and begins the next batch, or
\* ends the work: the invariant holds of the next job.
LEMMA ClosedOK ==
  ASSUME TypeOK, NEW j, Closable(j)
  PROVE  JobOK(Closed(j))
  <1> DEFINE rows == j.done \o j.answers
             n == Len(j.done)
             m == Len(j.answers)
             c == Closed(j)
  <1>1. /\ j.done \in Seq(Texts) /\ j.answers \in Seq(Texts) /\ n \in Nat /\ m \in Nat
        /\ j.first = n + 1 /\ j.first \in 1..Len(Active) /\ Len(Active) \in Nat /\ Len(Active) <= Rows
        /\ m = BatchLen(j.first) /\ j.incomplete \in BOOLEAN /\ j.review \in SUBSET (1..Rows)
        /\ Rows \in Nat /\ j.review \subseteq 1..n + m
        /\ DOMAIN j.done = 1..n /\ DOMAIN j.answers = 1..m
    BY ActiveRows, BatchAssumption, LenProperties DEF Closable, Typed, InOrder
  <1>2. m \in 1..BatchSize /\ n + m <= Len(Active)
    BY <1>1, BatchLength
  <1>3. /\ rows \in Seq(Texts) /\ Len(rows) = n + m
        /\ \A i \in 1..n + m : rows[i] = IF i <= n THEN j.done[i] ELSE j.answers[i - n]
    BY <1>1, ConcatProperties
  <1>4. DOMAIN rows = 1..n + m
    BY <1>3, LenProperties
  <1>5. /\ <<>> \in Seq(Texts) /\ <<>> \in Seq(1..BatchSize) /\ Len(<<>>) = 0 /\ DOMAIN <<>> = {}
    BY EmptySeq
  <1> DEFINE next == [NewJob EXCEPT !.first = j.first + m, !.done = rows, !.review = j.review,
                                    !.incomplete = j.incomplete]
  <1>6. c = [next EXCEPT !.phase = IF next.first > Len(Active) THEN "finishing" ELSE "batch"]
    BY DEF Closed
  <1> HIDE DEF rows, n, m, c
  <1>7. /\ next.first = n + 1 + m /\ next.answers = <<>> /\ next.done = rows
        /\ next.review = j.review /\ next.incomplete = j.incomplete
    BY <1>1 DEF NewJob
  <1>8. Typed(next)
    <2>1. Typed(NewJob)
      BY <1>5, BatchAssumption DEF Typed, NewJob, MaxRecoveries
    <2>2. j.first + m \in 1..Rows + 1
      BY <1>1, <1>2
    <2>3. QED
      BY <1>1, <1>3, <2>1, <2>2 DEF Typed
  <1> HIDE DEF next
  <1>9. /\ c.phase = (IF n + 1 + m > Len(Active) THEN "finishing" ELSE "batch") /\ c.first = n + 1 + m
        /\ c.answers = <<>> /\ c.done = rows /\ c.review = j.review /\ c.incomplete = j.incomplete
    BY <1>6, <1>7, <1>8 DEF Typed
  <1>10. Typed(c)
    BY <1>6, <1>8 DEF Typed, Calling
  <1>11. InOrder(c)
    <2>1. c.first = Len(c.done) + 1 /\ c.first <= Len(Active) + 1
      <3>1. n \in Nat /\ m \in Nat /\ Len(c.done) = n + m /\ c.first = n + 1 + m /\ Len(Active) \in Nat
        BY <1>1, <1>3, <1>9
      <3>2. QED
        BY <1>2, <3>1
    <2>2. c.phase = (IF n + 1 + m > Len(Active) THEN "finishing" ELSE "batch") /\ c.first = n + 1 + m
      BY <1>9
    <2>3. CASE n + 1 + m > Len(Active)
      BY <1>1, <2>1, <2>2, <2>3 DEF InOrder, Calling, Auditing
    <2>4. CASE ~(n + 1 + m > Len(Active))
      BY <1>1, <2>1, <2>2, <2>4 DEF InOrder, Calling, Auditing
    <2>5. QED
      BY <2>3, <2>4
  <1>12. BatchIsFull(c) /\ SuspectsAreAll(c)
    BY <1>5, <1>9, BatchAssumption DEF BatchIsFull, SuspectsAreAll, Auditing
  <1>13. DoneIsRight(c)
    <2>1. c.review \subseteq 1..Len(c.done)
      BY <1>1, <1>3, <1>9
    <2>2. /\ DOMAIN j.done = 1..n /\ DOMAIN j.answers = 1..m
      BY <1>1
    <2>3. CASE \E k \in DOMAIN j.done : j.done[k] = Failed
      <3>1. PICK k \in 1..n : j.done[k] = Failed
        BY <2>2, <2>3
      <3>2. k \in 1..n + m /\ rows[k] = Failed
        BY <1>1, <1>3, <3>1
      <3>3. QED
        BY <1>9, <1>4, <2>1, <3>2 DEF DoneIsRight, RightOrReviewed
    <2>4. CASE \E k \in DOMAIN j.answers : j.answers[k] = Failed
      <3>1. PICK k \in 1..m : j.answers[k] = Failed
        BY <2>2, <2>4
      <3>2. n + k \in 1..n + m /\ rows[n + k] = Failed
        BY <1>1, <1>3, <3>1
      <3>3. QED
        BY <1>9, <1>4, <2>1, <3>2 DEF DoneIsRight, RightOrReviewed
    <2>5. CASE j.incomplete
      BY <1>9, <2>1, <2>5 DEF DoneIsRight, RightOrReviewed
    <2>6. CASE /\ \A k \in DOMAIN j.done : j.done[k] = Active[0 + k] \/ 0 + k \in j.review
               /\ \A k \in DOMAIN j.answers : j.answers[k] = Active[j.first - 1 + k] \/ j.first - 1 + k \in j.review
      <3>1. ASSUME NEW k \in 1..n + m
            PROVE  rows[k] = Active[0 + k] \/ 0 + k \in j.review
        <4>1. CASE k <= n
          <5>1. k \in 1..n /\ rows[k] = j.done[k]
            BY <1>1, <1>3, <4>1
          <5>2. QED
            BY <2>2, <2>6, <5>1
        <4>2. CASE ~(k <= n)
          <5>1. k - n \in 1..m /\ rows[k] = j.answers[k - n] /\ j.first - 1 + (k - n) = 0 + k
            BY <1>1, <1>3, <4>2
          <5>2. QED
            BY <2>2, <2>6, <5>1
        <4>3. QED
          BY <4>1, <4>2
      <3>2. QED
        BY <1>9, <1>4, <2>1, <3>1 DEF DoneIsRight, RightOrReviewed
    <2>7. QED
      BY <2>3, <2>4, <2>5, <2>6 DEF Closable, RightOrReviewed
  <1>14. QED
    BY <1>10, <1>11, <1>12, <1>13 DEF JobOK, c

\* A batch that has its length, with failed rows or without.
Full(j) ==
  /\ Typed(j) /\ InOrder(j) /\ j.first <= Len(Active) /\ Len(j.answers) = BatchLen(j.first) /\ DoneIsRight(j)

\* The places of a full batch are those of its answers.
LEMMA FullBatch ==
  ASSUME TypeOK, NEW j, Full(j)
  PROVE  /\ j.first \in 1..Len(Active) /\ BatchLen(j.first) \in 1..BatchSize
         /\ DOMAIN j.answers = 1..BatchLen(j.first) /\ Len(j.done) \in Nat /\ Len(Active) \in Nat
         /\ j.first + BatchLen(j.first) - 1 <= Len(Active)
         /\ \A k \in DOMAIN j.answers : j.answers[k] \in Texts
  <1>1. j.answers \in Seq(Texts) /\ j.done \in Seq(Texts) /\ j.first \in 1..Rows + 1 /\ Len(Active) \in Nat
    BY ActiveRows DEF Full, Typed
  <1>2. j.first \in 1..Len(Active)
    BY <1>1, BatchAssumption DEF Full
  <1>3. QED
    BY <1>1, <1>2, BatchLength, LenProperties DEF Full

\* A batch with a failed row is closed as it is, any other is audited.
LEMMA RecoveredOK ==
  ASSUME TypeOK, NEW j, Full(j)
  PROVE  JobOK(Recovered(j))
  <1>1. CASE \E k \in DOMAIN j.answers : j.answers[k] = Failed
    <2>1. j.review \subseteq 1..Len(j.done) + Len(j.answers)
      BY FullBatch DEF Full, DoneIsRight
    <2>2. Closable(j)
      BY <1>1, <2>1 DEF Closable, Full, DoneIsRight, RightOrReviewed
    <2>3. QED
      BY <1>1, <2>2, ClosedOK DEF Recovered
  <1>2. CASE ~\E k \in DOMAIN j.answers : j.answers[k] = Failed
    <2> DEFINE c == [j EXCEPT !.phase = "audit"]
    <2>1. /\ Typed(c) /\ c.phase = "audit" /\ c.first = j.first /\ c.done = j.done /\ c.answers = j.answers
          /\ c.review = j.review /\ c.incomplete = j.incomplete
      BY DEF Full, Typed, Auditing
    <2>2. Recovered(j) = c
      BY <1>2 DEF Recovered
    <2> HIDE DEF c
    <2>3. InOrder(c) /\ SuspectsAreAll(c) /\ DoneIsRight(c)
      BY <1>2, <2>1 DEF Full, InOrder, SuspectsAreAll, DoneIsRight, RightOrReviewed
    <2>4. BatchIsFull(c)
      BY <2>1, FullBatch, BatchAssumption DEF Full, BatchIsFull
    <2>5. QED
      BY <2>1, <2>2, <2>3, <2>4 DEF JobOK
  <1>3. QED
    BY <1>1, <1>2

\* A job that begins to ask for other rows.
AskedFor(j, phase, todo) == [j EXCEPT !.phase = phase, !.todo = todo, !.attempt = 0, !.recovery = 0]

\* Only the rows asked for and the counters of the tries change.
LEMMA AskingForRows ==
  ASSUME NEW j, Typed(j), NEW phase \in Calling, NEW todo \in Seq(1..BatchSize)
  PROVE  LET next == AskedFor(j, phase, todo)
         IN  /\ Typed(next) /\ next.phase = phase /\ next.first = j.first /\ next.done = j.done
             /\ next.answers = j.answers /\ next.todo = todo /\ next.review = j.review
             /\ next.incomplete = j.incomplete /\ next.suspects = j.suspects
  <1> DEFINE asked == [j EXCEPT !.phase = phase]
             queued == [asked EXCEPT !.todo = todo]
             fresh  == [queued EXCEPT !.attempt = 0]
             next   == [fresh EXCEPT !.recovery = 0]
  <1>1. 0 \in 0..MaxRetries /\ 0 \in 0..MaxRecoveries - 1
    BY BatchAssumption DEF MaxRecoveries
  <1>2. next = AskedFor(j, phase, todo)
    BY DEF AskedFor
  <1>3. /\ next.phase = phase /\ next.first = j.first /\ next.done = j.done
        /\ next.answers = j.answers /\ next.todo = todo /\ next.review = j.review
        /\ next.incomplete = j.incomplete /\ next.suspects = j.suspects
    BY DEF Typed
  <1>4. Typed(asked)
    BY DEF Typed
  <1> HIDE DEF asked
  <1>5. Typed(queued)
    BY <1>4 DEF Typed
  <1> HIDE DEF queued
  <1>6. Typed(fresh)
    BY <1>1, <1>5 DEF Typed
  <1> HIDE DEF fresh
  <1>7. Typed(next)
    BY <1>1, <1>6 DEF Typed
  <1>8. QED
    BY <1>2, <1>3, <1>7

\* The failed rows of a full batch are the ones that are tried again.
LEMMA RecoveringOK ==
  ASSUME TypeOK, NEW j, Full(j)
  PROVE  JobOK(Recovering(j))
  <1> DEFINE failed == {k \in DOMAIN j.answers : j.answers[k] = Failed}
             next == [j EXCEPT !.phase = "recover", !.todo = Ascending(failed), !.attempt = 0, !.recovery = 0]
  <1>1. /\ failed \in SUBSET (1..BatchLen(j.first)) /\ failed \in SUBSET (1..BatchSize) /\ failed \in SUBSET Int
        /\ IsFiniteSet(failed)
    <2>1. failed \in SUBSET (1..BatchLen(j.first)) /\ BatchLen(j.first) \in 1..BatchSize
      BY FullBatch
    <2>2. IsFiniteSet(1..BatchLen(j.first))
      BY <2>1, FS_Interval
    <2>3. QED
      BY <2>1, <2>2, FS_Subset, BatchAssumption
  <1>2. /\ Ascending(failed) \in Seq(failed) /\ Ascending(failed) = <<>> <=> failed = {}
        /\ Ascending(failed) \in Seq(1..BatchSize) /\ Ascending(failed) \in Seq(1..BatchLen(j.first))
    BY <1>1, AscendingSeq, SeqMonotonic
  <1> DEFINE todo == Ascending(failed)
  <1>3. Recovering(j) = IF failed = {} THEN Recovered(next) ELSE next
    BY DEF Recovering
  <1>4. /\ todo \in Seq(1..BatchSize) /\ (todo = <<>> <=> failed = {})
        /\ \A i \in DOMAIN todo : todo[i] \in 1..BatchLen(j.first)
    <2>1. todo \in Seq(1..BatchSize)
      BY <1>2
    <2>2. todo = <<>> <=> failed = {}
      BY <1>2
    <2>3. todo \in Seq(1..BatchLen(j.first))
      BY <1>2
    <2> HIDE DEF todo, failed
    <2>4. ASSUME NEW i \in DOMAIN todo PROVE todo[i] \in 1..BatchLen(j.first)
      BY <2>3, ElementOfSeq, LenProperties
    <2>5. QED
      BY <2>1, <2>2, <2>4
  <1>5. /\ Typed(next) /\ next.phase = "recover" /\ next.first = j.first /\ next.done = j.done
        /\ next.answers = j.answers /\ next.todo = todo /\ next.review = j.review /\ next.incomplete = j.incomplete
    <2>1. next = AskedFor(j, "recover", todo)
      BY DEF AskedFor
    <2>2. Typed(j) /\ "recover" \in Calling /\ todo \in Seq(1..BatchSize)
      BY <1>4 DEF Full, Calling
    <2> HIDE DEF next, todo, failed
    <2>3. QED
      BY <2>1, <2>2, AskingForRows
  <1> HIDE DEF next
  <1>6. InOrder(next) /\ DoneIsRight(next)
    BY <1>5 DEF Full, InOrder, DoneIsRight, RightOrReviewed
  <1>7. Full(next)
    BY <1>5, <1>6 DEF Full
  <1>8. CASE failed = {}
    BY <1>3, <1>7, <1>8, RecoveredOK
  <1>9. CASE failed # {}
    <2>1. SuspectsAreAll(next)
      BY <1>5 DEF SuspectsAreAll, Auditing
    <2>2. BatchIsFull(next)
      BY <1>4, <1>5, <1>9, FullBatch, BatchAssumption DEF Full, BatchIsFull
    <2>3. QED
      BY <1>3, <1>5, <1>6, <1>9, <2>1, <2>2 DEF JobOK
  <1>10. QED
    BY <1>8, <1>9

-----------------------------------------------------------------------------
(* What an answer does to a job.                                           *)

\* Going on to the next row takes one row off the list and nothing else.
LEMMA OnwardOK ==
  ASSUME NEW j, Typed(j), j.todo # <<>>
  PROVE  LET next == Onward(j)
         IN  /\ Typed(next) /\ next.phase = j.phase /\ next.first = j.first /\ next.done = j.done
             /\ next.answers = j.answers /\ next.todo = Tail(j.todo) /\ next.review = j.review
             /\ next.incomplete = j.incomplete /\ next.suspects = j.suspects
             /\ Len(next.todo) = Len(j.todo) - 1 /\ Len(j.todo) \in Nat
             /\ \A i \in DOMAIN next.todo : i + 1 \in DOMAIN j.todo /\ next.todo[i] = j.todo[i + 1]
  <1> DEFINE queued == [j EXCEPT !.todo = Tail(j.todo)]
             fresh  == [queued EXCEPT !.attempt = 0]
             next   == [fresh EXCEPT !.recovery = 0]
  <1>1. 0 \in 0..MaxRetries /\ 0 \in 0..MaxRecoveries - 1
    BY BatchAssumption DEF MaxRecoveries
  <1>2. next = Onward(j)
    BY DEF Onward
  <1>3. j.todo \in Seq(1..BatchSize)
    BY DEF Typed
  <1>4. /\ Tail(j.todo) \in Seq(1..BatchSize) /\ Len(Tail(j.todo)) = Len(j.todo) - 1 /\ Len(j.todo) \in Nat
        /\ DOMAIN j.todo = 1..Len(j.todo)
        /\ \A i \in 1..Len(Tail(j.todo)) : Tail(j.todo)[i] = j.todo[i + 1]
    BY <1>3, HeadTailProperties, LenProperties
  <1>5. DOMAIN Tail(j.todo) = 1..Len(j.todo) - 1
    BY <1>4, LenProperties
  <1>6. \A i \in DOMAIN Tail(j.todo) : i + 1 \in DOMAIN j.todo /\ Tail(j.todo)[i] = j.todo[i + 1]
    BY <1>4, <1>5
  <1>7. /\ next.phase = j.phase /\ next.first = j.first /\ next.done = j.done
        /\ next.answers = j.answers /\ next.todo = Tail(j.todo) /\ next.review = j.review
        /\ next.incomplete = j.incomplete /\ next.suspects = j.suspects
    BY DEF Typed
  <1>8. Typed(queued)
    BY <1>4 DEF Typed
  <1> HIDE DEF queued
  <1>9. Typed(fresh)
    BY <1>1, <1>8 DEF Typed
  <1> HIDE DEF fresh
  <1>10. Typed(next)
    BY <1>1, <1>9 DEF Typed
  <1> HIDE DEF next
  <1>11. QED
    BY <1>2, <1>4, <1>6, <1>7, <1>10

\* An answer for one row changes that row only, and never to a failure.
LEMMA ReplacedOK ==
  ASSUME NEW j, Typed(j), NEW list \in Seq(Texts), NEW k \in DOMAIN j.answers, k = Head(j.todo)
  PROVE  LET next == Replaced(j, list)
         IN  /\ Typed(next) /\ next.phase = j.phase /\ next.first = j.first /\ next.done = j.done
             /\ next.todo = j.todo /\ next.review = j.review
             /\ next.incomplete = j.incomplete /\ next.suspects = j.suspects
             /\ Len(next.answers) = Len(j.answers) /\ DOMAIN next.answers = DOMAIN j.answers
             /\ \A i \in DOMAIN j.answers : i # k => next.answers[i] = j.answers[i]
             /\ j.answers[k] # Failed => next.answers[k] # Failed
  <1> DEFINE text == IF Good(list) THEN list[1] ELSE j.answers[k]
             answers == [j.answers EXCEPT ![k] = text]
             next == [j EXCEPT !.answers = answers]
  <1>1. j.answers \in Seq(Texts)
    BY DEF Typed
  <1>2. text \in Texts /\ (j.answers[k] # Failed => text # Failed)
    <2>1. CASE Good(list)
      <3>1. Len(list) = 1 /\ list[1] # Failed
        BY <2>1 DEF Good
      <3>2. list[1] \in Texts
        BY <3>1, ElementOfSeq
      <3>3. QED
        BY <2>1, <3>1, <3>2
    <2>2. CASE ~Good(list)
      BY <1>1, <2>2, ElementOfSeq, LenProperties
    <2>3. QED
      BY <2>1, <2>2
  <1>3. next = Replaced(j, list)
    BY DEF Replaced, Typed
  <1> HIDE DEF text
  <1>4. answers \in Seq(Texts) /\ Len(answers) = Len(j.answers) /\ DOMAIN answers = DOMAIN j.answers
    <2>1. DOMAIN j.answers = 1..Len(j.answers) /\ Len(j.answers) \in Nat /\ j.answers \in [1..Len(j.answers) -> Texts]
      BY <1>1, LenProperties
    <2>2. answers \in [1..Len(j.answers) -> Texts]
      BY <1>2, <2>1
    <2>3. QED
      BY <2>1, <2>2
  <1>5. /\ \A i \in DOMAIN j.answers : i # k => answers[i] = j.answers[i]
        /\ j.answers[k] # Failed => answers[k] # Failed
    BY <1>1, <1>2
  <1> HIDE DEF answers
  <1>6. /\ Typed(next) /\ next.phase = j.phase /\ next.first = j.first /\ next.done = j.done
        /\ next.todo = j.todo /\ next.review = j.review /\ next.answers = answers
        /\ next.incomplete = j.incomplete /\ next.suspects = j.suspects
    BY <1>4 DEF Typed
  <1> HIDE DEF next
  <1>7. QED
    BY <1>3, <1>4, <1>5, <1>6

\* A batch whose rows are looked at one by one has its length.
LEMMA LookedAtIsFull ==
  ASSUME TypeOK, NEW j, JobOK(j), j.phase \in {"recover", "fix"} \cup Auditing
  PROVE  Full(j)
  BY DEF JobOK, Full, InOrder, BatchIsFull, Calling

\* The row a recovery or a correction is about is one of the batch.
LEMMA HeadIsInBatch ==
  ASSUME TypeOK, NEW j, JobOK(j), j.phase \in {"recover", "fix"}
  PROVE  /\ j.todo # <<>> /\ Head(j.todo) \in DOMAIN j.answers
         /\ j.phase = "fix" => Head(j.todo) \in j.suspects
  <1>1. Full(j)
    BY LookedAtIsFull
  <1>2. j.todo \in Seq(1..BatchSize) /\ j.todo # <<>>
    BY DEF JobOK, Typed, BatchIsFull
  <1>3. 1 \in DOMAIN j.todo /\ Head(j.todo) = j.todo[1]
    <2>1. DOMAIN j.todo = 1..Len(j.todo) /\ Len(j.todo) \in Nat
      BY <1>2, LenProperties
    <2>2. Len(j.todo) # 0
      BY <1>2, EmptySeq
    <2>3. QED
      BY <1>2, <2>1, <2>2
  <1>4. j.todo[1] \in 1..BatchLen(j.first) /\ (j.phase = "fix" => j.todo[1] \in j.suspects)
    BY <1>3 DEF JobOK, BatchIsFull, SuspectsAreAll
  <1>5. QED
    BY <1>1, <1>2, <1>3, <1>4, FullBatch

\* A whole list fills the batch, any other one is dropped.
LEMMA BatchAnsweredOK ==
  ASSUME TypeOK, JobOK(job), job.phase = "batch", NEW list \in Seq(Texts)
  PROVE  JobOK(BatchAnswered(job, list))
  <1>1. /\ Size = BatchLen(job.first) /\ job.first \in 1..Len(Active) /\ Size \in 1..BatchSize /\ Size \in Nat
        /\ BatchSize \in Nat
    <2>1. job.first <= Len(Active) /\ job.first \in 1..Rows + 1 /\ Len(Active) \in Nat
      BY ActiveRows DEF JobOK, InOrder, Calling, Typed
    <2>2. job.first \in 1..Len(Active)
      BY <2>1, BatchAssumption
    <2>3. Size = BatchLen(job.first)
      BY DEF Size, BatchLen
    <2>4. QED
      BY <2>2, <2>3, BatchLength, BatchAssumption
  <1>2. CASE Len(list) = Size
    <2> DEFINE next == [job EXCEPT !.answers = list]
    <2>1. /\ Typed(next) /\ next.phase = job.phase /\ next.first = job.first /\ next.done = job.done
          /\ next.answers = list /\ next.review = job.review /\ next.incomplete = job.incomplete
      BY DEF JobOK, Typed
    <2>2. BatchAnswered(job, list) = Recovering(next)
      BY <1>2 DEF BatchAnswered
    <2> HIDE DEF next
    <2>3. InOrder(next) /\ DoneIsRight(next)
      BY <2>1 DEF JobOK, InOrder, DoneIsRight, RightOrReviewed
    <2>4. Full(next)
      BY <1>1, <1>2, <2>1, <2>3 DEF Full
    <2>5. QED
      BY <2>2, <2>4, RecoveringOK
  <1>3. CASE Len(list) # Size
    <2> DEFINE todo == Ascending(Places)
               queued == [job EXCEPT !.phase = "single"]
               asked == [queued EXCEPT !.todo = todo]
               next == [asked EXCEPT !.attempt = 0]
    <2>1. Places \in SUBSET Int /\ IsFiniteSet(Places) /\ Cardinality(Places) = Size /\ Places \subseteq 1..BatchSize
      <3>1. IsFiniteSet(Places) /\ Cardinality(Places) = Size
        BY <1>1, FS_Interval DEF Places
      <3>2. Places \in SUBSET Int /\ Places \subseteq 1..BatchSize
        BY <1>1 DEF Places
      <3>3. QED
        BY <3>1, <3>2
    <2>2. todo \in Seq(Places) /\ Len(todo) = Size
      BY <2>1, AscendingSeq
    <2>3. todo \in Seq(1..BatchSize) /\ todo # <<>>
      <3>1. todo # <<>>
        BY <1>1, <2>2, EmptySeq
      <3>2. QED
        BY <2>1, <2>2, <3>1, SeqMonotonic
    <2> HIDE DEF todo
    <2>4. BatchAnswered(job, list) = next
      BY <1>3 DEF BatchAnswered, todo
    <2>5. 0 \in 0..MaxRetries
      BY BatchAssumption
    <2>6. Typed(job) /\ job.answers = <<>>
      BY DEF JobOK, BatchIsFull
    <2>7. /\ next.phase = "single" /\ next.first = job.first /\ next.done = job.done
          /\ next.answers = job.answers /\ next.todo = todo /\ next.review = job.review
          /\ next.incomplete = job.incomplete
      BY <2>6 DEF Typed
    <2>8. Typed(queued)
      BY <2>6 DEF Typed, Calling
    <2> HIDE DEF queued
    <2>9. Typed(asked)
      BY <2>3, <2>8 DEF Typed
    <2> HIDE DEF asked
    <2>10. Typed(next)
      BY <2>5, <2>9 DEF Typed
    <2> HIDE DEF next
    <2>11. InOrder(next) /\ DoneIsRight(next)
      BY <1>1, <2>7 DEF JobOK, InOrder, DoneIsRight, RightOrReviewed, Calling
    <2>12. BatchIsFull(next)
      <3>1. Len(next.answers) = 0
        BY <2>6, <2>7, EmptySeq
      <3>2. Len(next.answers) + Len(next.todo) = BatchLen(next.first)
        BY <1>1, <2>2, <2>7, <3>1
      <3>3. QED
        BY <1>1, <2>3, <2>7, <3>1, <3>2 DEF BatchIsFull, Auditing
    <2>13. SuspectsAreAll(next)
      BY <2>7 DEF SuspectsAreAll, Auditing
    <2>14. QED
      BY <2>4, <2>10, <2>11, <2>12, <2>13 DEF JobOK
  <1>4. QED
    BY <1>2, <1>3

\* A row that is asked for alone adds one answer, a failure at worst.
LEMMA SingleAnsweredOK ==
  ASSUME TypeOK, JobOK(job), job.phase = "single", NEW list \in Seq(Texts)
  PROVE  JobOK(SingleAnswered(job, list))
  <1> DEFINE text == IF Len(list) = 1 THEN list[1] ELSE Failed
             answers == Append(job.answers, text)
             added == [job EXCEPT !.answers = answers]
             next == Onward(added)
  <1>1. /\ Typed(job) /\ job.answers \in Seq(Texts) /\ job.todo \in Seq(1..BatchSize) /\ job.todo # <<>>
        /\ Len(job.answers) + Len(job.todo) = BatchLen(job.first) /\ job.first \in 1..Len(Active)
    <2>1. job.first <= Len(Active) /\ job.first \in 1..Rows + 1 /\ Len(Active) \in Nat
      BY ActiveRows DEF JobOK, InOrder, Calling, Typed
    <2>2. job.first \in 1..Len(Active)
      BY <2>1, BatchAssumption
    <2>3. QED
      BY <2>2 DEF JobOK, BatchIsFull, Typed
  <1>2. text \in Texts
    BY ElementOfSeq DEF Texts
  <1>3. SingleAnswered(job, list) = IF next.todo = <<>> THEN Recovering(next) ELSE next
    BY DEF SingleAnswered
  <1> HIDE DEF text
  <1>4. answers \in Seq(Texts) /\ Len(answers) = Len(job.answers) + 1 /\ Len(job.answers) \in Nat
    BY <1>1, <1>2, AppendProperties, LenProperties
  <1> HIDE DEF answers
  <1>5. /\ Typed(added) /\ added.phase = "single" /\ added.first = job.first /\ added.done = job.done
        /\ added.answers = answers /\ added.todo = job.todo /\ added.review = job.review
        /\ added.incomplete = job.incomplete /\ added.suspects = job.suspects
    BY <1>1, <1>4 DEF Typed
  <1> HIDE DEF added
  <1>6. /\ Typed(next) /\ next.phase = "single" /\ next.first = job.first /\ next.done = job.done
        /\ next.answers = answers /\ next.review = job.review /\ next.incomplete = job.incomplete
        /\ Len(next.todo) = Len(job.todo) - 1 /\ Len(job.todo) \in Nat
    BY <1>1, <1>5, OnwardOK
  <1> DEFINE had == Len(job.answers)
             left == Len(job.todo)
             rest == Len(next.todo)
             full == BatchLen(job.first)
  <1>7. /\ had \in Nat /\ left \in Nat /\ rest \in Nat /\ full \in 1..BatchSize /\ BatchSize \in Nat
        /\ had + left = full /\ rest = left - 1 /\ Len(next.answers) = had + 1 /\ BatchLen(next.first) = full
    <2>1. rest \in Nat
      BY <1>6, LenProperties DEF Typed
    <2>2. full \in 1..BatchSize
      BY <1>1, BatchLength
    <2>3. QED
      BY <1>1, <1>4, <1>6, <2>1, <2>2, BatchAssumption
  <1>8. InOrder(next) /\ DoneIsRight(next)
    BY <1>6 DEF JobOK, InOrder, DoneIsRight, RightOrReviewed
  <1>9. next.todo = <<>> => rest = 0
    BY EmptySeq
  <1> HIDE DEF next, had, left, rest, full
  <1>10. /\ Len(next.answers) + rest = BatchLen(next.first) /\ Len(next.answers) <= BatchSize
         /\ rest = 0 => Len(next.answers) = BatchLen(next.first)
    BY <1>7
  <1>11. CASE next.todo = <<>>
    <2>1. Full(next)
      BY <1>1, <1>6, <1>8, <1>9, <1>10, <1>11 DEF Full
    <2>2. QED
      BY <1>3, <1>11, <2>1, RecoveringOK
  <1>12. CASE next.todo # <<>>
    <2>1. BatchIsFull(next) /\ SuspectsAreAll(next)
      BY <1>6, <1>10, <1>12 DEF BatchIsFull, SuspectsAreAll, Auditing, rest
    <2>2. QED
      BY <1>3, <1>6, <1>8, <1>12, <2>1 DEF JobOK
  <1>13. QED
    BY <1>11, <1>12

\* What is left to recover or to correct after one row: rows of the batch.
LEMMA OneRowDone ==
  ASSUME TypeOK, NEW j, JobOK(j), j.phase \in {"recover", "fix"}, NEW list \in Seq(Texts)
  PROVE  LET next == Onward(Replaced(j, list))
         IN  /\ Full(next) /\ next.phase = j.phase /\ next.first = j.first /\ next.suspects = j.suspects
             /\ DOMAIN next.answers = DOMAIN j.answers
             /\ \A i \in DOMAIN j.answers : i # Head(j.todo) => next.answers[i] = j.answers[i]
             /\ j.answers[Head(j.todo)] # Failed => next.answers[Head(j.todo)] # Failed
             /\ \A i \in DOMAIN next.todo : next.todo[i] \in 1..BatchLen(j.first)
             /\ j.phase = "fix" => \A i \in DOMAIN next.todo : next.todo[i] \in j.suspects
  <1> DEFINE new == Replaced(j, list)
             next == Onward(new)
  <1>1. Full(j)
    BY LookedAtIsFull
  <1>2. Typed(j) /\ j.todo # <<>> /\ Head(j.todo) \in DOMAIN j.answers
    BY HeadIsInBatch DEF JobOK
  <1>3. /\ Typed(new) /\ new.phase = j.phase /\ new.first = j.first /\ new.done = j.done
        /\ new.todo = j.todo /\ new.review = j.review
        /\ new.incomplete = j.incomplete /\ new.suspects = j.suspects
        /\ Len(new.answers) = Len(j.answers) /\ DOMAIN new.answers = DOMAIN j.answers
        /\ \A i \in DOMAIN j.answers : i # Head(j.todo) => new.answers[i] = j.answers[i]
        /\ j.answers[Head(j.todo)] # Failed => new.answers[Head(j.todo)] # Failed
    BY <1>2, ReplacedOK
  <1> HIDE DEF new
  <1>4. /\ Typed(next) /\ next.phase = j.phase /\ next.first = j.first /\ next.done = j.done
        /\ next.answers = new.answers /\ next.review = j.review
        /\ next.incomplete = j.incomplete /\ next.suspects = j.suspects
        /\ \A i \in DOMAIN next.todo : i + 1 \in DOMAIN j.todo /\ next.todo[i] = j.todo[i + 1]
    BY <1>2, <1>3, OnwardOK
  <1> HIDE DEF next
  <1>5. InOrder(next) /\ DoneIsRight(next)
    BY <1>1, <1>4 DEF Full, InOrder, DoneIsRight, RightOrReviewed
  <1>6. Full(next)
    BY <1>1, <1>3, <1>4, <1>5 DEF Full
  <1>7. /\ \A i \in DOMAIN j.todo : j.todo[i] \in 1..BatchLen(j.first)
        /\ j.phase = "fix" => \A i \in DOMAIN j.todo : j.todo[i] \in j.suspects
    BY DEF JobOK, BatchIsFull, SuspectsAreAll
  <1>8. /\ \A i \in DOMAIN next.todo : next.todo[i] \in 1..BatchLen(j.first)
        /\ j.phase = "fix" => \A i \in DOMAIN next.todo : next.todo[i] \in j.suspects
    BY <1>4, <1>7
  <1>9. QED
    BY <1>3, <1>4, <1>6, <1>8 DEF next, new

\* A failed row is tried again, or keeps its failure when its tries are used up.
LEMMA RecoverAnsweredOK ==
  ASSUME TypeOK, NEW j, JobOK(j), j.phase = "recover", NEW list \in Seq(Texts)
  PROVE  JobOK(RecoverAnswered(j, list))
  <1> DEFINE next == Onward(Replaced(j, list))
  <1>1. /\ Full(next) /\ next.phase = "recover" /\ next.first = j.first
        /\ \A i \in DOMAIN next.todo : next.todo[i] \in 1..BatchLen(j.first)
    BY OneRowDone
  <1>2. CASE ~Good(list) /\ j.recovery < MaxRecoveries - 1
    <2> DEFINE again == [j EXCEPT !.recovery = @ + 1]
               fresh == [again EXCEPT !.attempt = 0]
    <2>1. RecoverAnswered(j, list) = fresh
      BY <1>2 DEF RecoverAnswered
    <2>2. j.recovery + 1 \in 0..MaxRecoveries - 1 /\ 0 \in 0..MaxRetries /\ Typed(j)
      BY <1>2, BatchAssumption DEF MaxRecoveries, JobOK, Typed
    <2>3. /\ fresh.phase = j.phase /\ fresh.first = j.first /\ fresh.done = j.done
          /\ fresh.answers = j.answers /\ fresh.todo = j.todo /\ fresh.review = j.review
          /\ fresh.incomplete = j.incomplete /\ fresh.suspects = j.suspects
      BY <2>2 DEF Typed
    <2>4. Typed(again)
      BY <2>2 DEF Typed
    <2> HIDE DEF again
    <2>5. Typed(fresh)
      BY <2>2, <2>4 DEF Typed
    <2> HIDE DEF fresh
    <2>6. InOrder(fresh) /\ DoneIsRight(fresh)
      BY <2>3 DEF JobOK, InOrder, DoneIsRight, RightOrReviewed
    <2>7. BatchIsFull(fresh) /\ SuspectsAreAll(fresh)
      BY <2>3 DEF JobOK, BatchIsFull, SuspectsAreAll, Wrong
    <2>8. QED
      BY <2>1, <2>5, <2>6, <2>7 DEF JobOK
  <1>3. CASE ~(~Good(list) /\ j.recovery < MaxRecoveries - 1) /\ next.todo = <<>>
    <2>1. RecoverAnswered(j, list) = Recovered(next)
      BY <1>3 DEF RecoverAnswered
    <2>2. QED
      BY <1>1, <2>1, RecoveredOK
  <1>4. CASE ~(~Good(list) /\ j.recovery < MaxRecoveries - 1) /\ next.todo # <<>>
    <2>1. RecoverAnswered(j, list) = next
      BY <1>4 DEF RecoverAnswered
    <2> HIDE DEF next
    <2>2. BatchIsFull(next) /\ SuspectsAreAll(next)
      BY <1>1, <1>4, FullBatch, BatchAssumption DEF Full, BatchIsFull, SuspectsAreAll, Auditing
    <2>3. QED
      BY <1>1, <2>1, <2>2 DEF JobOK, Full
  <1>5. QED
    BY <1>2, <1>3, <1>4

\* A correction changes a suspect only.
LEMMA FixAnsweredOK ==
  ASSUME TypeOK, NEW j, JobOK(j), j.phase = "fix", NEW list \in Seq(Texts)
  PROVE  JobOK(FixAnswered(j, list))
  <1> DEFINE next == Onward(Replaced(j, list))
  <1>1. /\ Full(next) /\ next.phase = "fix" /\ next.first = j.first /\ next.suspects = j.suspects
        /\ DOMAIN next.answers = DOMAIN j.answers
        /\ \A i \in DOMAIN j.answers : i # Head(j.todo) => next.answers[i] = j.answers[i]
        /\ j.answers[Head(j.todo)] # Failed => next.answers[Head(j.todo)] # Failed
        /\ \A i \in DOMAIN next.todo : next.todo[i] \in 1..BatchLen(j.first)
        /\ \A i \in DOMAIN next.todo : next.todo[i] \in j.suspects
    BY OneRowDone
  <1>2. FixAnswered(j, list) = IF next.todo = <<>> THEN [next EXCEPT !.phase = "recheck"] ELSE next
    BY DEF FixAnswered
  <1> HIDE DEF next
  <1>3. Head(j.todo) \in DOMAIN j.answers /\ Head(j.todo) \in j.suspects
    BY HeadIsInBatch
  <1>4. \A k \in DOMAIN next.answers : next.answers[k] # Failed
    BY <1>1, <1>3 DEF JobOK, SuspectsAreAll
  <1>5. Wrong(next) \subseteq next.suspects /\ next.suspects \subseteq 1..BatchLen(next.first)
    BY <1>1, <1>3 DEF JobOK, SuspectsAreAll, Wrong
  <1>6. CASE next.todo # <<>>
    <2>1. BatchIsFull(next)
      BY <1>1, <1>6, FullBatch, BatchAssumption DEF Full, BatchIsFull, Auditing
    <2>2. SuspectsAreAll(next)
      BY <1>1, <1>4, <1>5 DEF SuspectsAreAll
    <2>3. QED
      BY <1>1, <1>2, <1>6, <2>1, <2>2 DEF JobOK, Full
  <1>7. CASE next.todo = <<>>
    <2> DEFINE c == [next EXCEPT !.phase = "recheck"]
    <2>1. /\ Typed(c) /\ c.phase = "recheck" /\ c.first = next.first /\ c.done = next.done
          /\ c.answers = next.answers /\ c.review = next.review /\ c.incomplete = next.incomplete
          /\ c.suspects = next.suspects
      BY <1>1 DEF Full, Typed, Auditing
    <2>2. FixAnswered(j, list) = c
      BY <1>2, <1>7
    <2> HIDE DEF c
    <2>3. InOrder(c) /\ DoneIsRight(c)
      BY <1>1, <2>1 DEF Full, InOrder, DoneIsRight, RightOrReviewed
    <2>4. SuspectsAreAll(c)
      BY <1>4, <1>5, <2>1 DEF SuspectsAreAll, Wrong
    <2>5. BatchIsFull(c)
      BY <1>1, <2>1, FullBatch, BatchAssumption DEF Full, BatchIsFull
    <2>6. QED
      BY <2>1, <2>2, <2>3, <2>4, <2>5 DEF JobOK
  <1>8. QED
    BY <1>6, <1>7

\* What a request brings, and a list of failure markers, are lists of texts.
LEMMA AnswersAreTexts ==
  ASSUME TypeOK, JobOK(job), job.phase \in Calling, NEW list \in Answers(job)
  PROVE  list \in Seq(Texts)
  <1>1. CASE list = <<>>
    BY <1>1, EmptySeq
  <1>2. CASE list \in [DOMAIN Asked(job) -> Texts]
    <2>1. \E n \in Nat : DOMAIN Asked(job) = 1..n
      <3>1. CASE job.phase = "batch"
        <4>1. job.first <= Len(Active) /\ job.first \in 1..Rows + 1 /\ Len(Active) \in Nat
          BY ActiveRows DEF JobOK, InOrder, Typed
        <4>2. job.first \in 1..Len(Active) /\ Size = BatchLen(job.first)
          BY <4>1, BatchAssumption DEF Size, BatchLen
        <4>3. Size \in 1..BatchSize
          BY <4>2, BatchLength
        <4>4. Places \in SUBSET Int
          BY <4>3 DEF Places
        <4>5. IsFiniteSet(Places)
          BY <4>3, FS_Interval DEF Places
        <4>6. Asked(job) \in Seq(Places)
          BY <3>1, <4>4, <4>5, AscendingSeq DEF Asked
        <4>7. QED
          BY <4>6, LenProperties
      <3>2. CASE job.phase # "batch"
        <4>1. Asked(job) = <<Head(job.todo)>>
          BY <3>2 DEF Asked
        <4>2. DOMAIN Asked(job) = 1..1
          BY <4>1
        <4>3. QED
          BY <4>2
      <3>3. QED
        BY <3>1, <3>2
    <2>2. QED
      BY <1>2, <2>1
  <1>3. list = <<>> \/ list \in [DOMAIN Asked(job) -> Texts]
    BY DEF Answers, Texts
  <1>4. QED
    BY <1>1, <1>2, <1>3

\* Whatever a request brings, the job it leaves satisfies the invariant.
LEMMA AnsweredOK ==
  ASSUME TypeOK, JobOK(job), job.phase \in Calling, NEW list \in Answers(job)
  PROVE  JobOK(Answered(job, list))
  <1>1. list \in Seq(Texts)
    BY AnswersAreTexts
  <1>2. CASE job.phase = "batch"
    <2>1. Answered(job, list) = BatchAnswered(job, list)
      BY <1>2 DEF Answered
    <2>2. QED
      BY <1>1, <1>2, <2>1, BatchAnsweredOK
  <1>3. CASE job.phase = "single"
    <2>1. Answered(job, list) = SingleAnswered(job, list)
      BY <1>3 DEF Answered
    <2>2. QED
      BY <1>1, <1>3, <2>1, SingleAnsweredOK
  <1>4. CASE job.phase = "recover"
    <2>1. Answered(job, list) = RecoverAnswered(job, list)
      BY <1>4 DEF Answered
    <2>2. QED
      BY <1>1, <1>4, <2>1, RecoverAnsweredOK
  <1>5. CASE job.phase = "fix"
    <2>1. Answered(job, list) = FixAnswered(job, list)
      BY <1>5 DEF Answered
    <2>2. QED
      BY <1>1, <1>5, <2>1, FixAnsweredOK
  <1>6. QED
    BY <1>2, <1>3, <1>4, <1>5 DEF Calling

\* Another phase, or another attempt, of a job that goes on as it was.
LEMMA NextPhaseOK ==
  ASSUME TypeOK, JobOK(job), NEW phase,
         \/ phase = "waiting" /\ job.phase = "idle" /\ spoken # {}
         \/ phase = "batch" /\ job.phase = "waiting"
         \/ phase \in Ends
  PROVE  JobOK([job EXCEPT !.phase = phase])
  <1> DEFINE next == [job EXCEPT !.phase = phase]
  <1>1. Typed(job) /\ phase \in {"idle", "waiting", "finishing"} \cup Calling \cup Auditing \cup Ends
    BY DEF JobOK, Calling
  <1>2. /\ Typed(next) /\ next.phase = phase /\ next.first = job.first /\ next.done = job.done
        /\ next.answers = job.answers /\ next.todo = job.todo /\ next.review = job.review
        /\ next.incomplete = job.incomplete /\ next.suspects = job.suspects
    BY <1>1 DEF Typed
  <1> HIDE DEF next
  <1>3. spoken # {} => 1 <= Len(Active)
    BY ActiveRows, FS_EmptySet
  <1>4. InOrder(next) /\ DoneIsRight(next)
    BY <1>2, <1>3 DEF JobOK, InOrder, DoneIsRight, RightOrReviewed, Calling, Auditing, Ends
  <1>5. BatchIsFull(next) /\ SuspectsAreAll(next)
    BY <1>2 DEF JobOK, BatchIsFull, SuspectsAreAll, Calling, Auditing, Ends
  <1>6. QED
    BY <1>2, <1>4, <1>5 DEF JobOK, next

\* A request that is sent again leaves the job as it was.
LEMMA NextAttemptOK ==
  ASSUME TypeOK, JobOK(job), job.attempt < MaxRetries
  PROVE  JobOK([job EXCEPT !.attempt = @ + 1])
  <1> DEFINE next == [job EXCEPT !.attempt = @ + 1]
  <1>1. Typed(job) /\ job.attempt + 1 \in 0..MaxRetries
    BY BatchAssumption DEF JobOK, Typed
  <1>2. /\ Typed(next) /\ next.phase = job.phase /\ next.first = job.first /\ next.done = job.done
        /\ next.answers = job.answers /\ next.todo = job.todo /\ next.review = job.review
        /\ next.incomplete = job.incomplete /\ next.suspects = job.suspects
    BY <1>1 DEF Typed
  <1> HIDE DEF next
  <1>3. InOrder(next) /\ DoneIsRight(next)
    BY <1>2 DEF JobOK, InOrder, DoneIsRight, RightOrReviewed
  <1>4. BatchIsFull(next) /\ SuspectsAreAll(next)
    BY <1>2 DEF JobOK, BatchIsFull, SuspectsAreAll, Wrong
  <1>5. QED
    BY <1>2, <1>3, <1>4 DEF JobOK, next

-----------------------------------------------------------------------------
(* What an audit does to a job.                                            *)

\* A batch is closed when its wrong rows are marked for a review.
LEMMA ReviewedOK ==
  ASSUME TypeOK, Full(job), NEW places \in SUBSET (1..BatchLen(job.first))
  PROVE  LET next == Reviewed(job, places)
         IN  /\ Typed(next) /\ InOrder(next) /\ next.first = job.first /\ next.answers = job.answers
             /\ next.done = job.done /\ next.phase = job.phase
             /\ next.review \subseteq 1..Len(job.done) + Len(job.answers)
             /\ Wrong(job) \subseteq places => Closable(next)
  <1> DEFINE marked == {PlaceOf(k) : k \in places}
             review == job.review \cup marked
             next == [job EXCEPT !.review = review]
             n == Len(job.done)
             m == Len(job.answers)
  <1>1. /\ Typed(job) /\ n \in Nat /\ m = BatchLen(job.first) /\ m \in 1..BatchSize /\ job.first = n + 1
        /\ n + m <= Len(Active) /\ Len(Active) <= Rows /\ Len(Active) \in Nat /\ Rows \in Nat
        /\ job.review \subseteq 1..n /\ DOMAIN job.answers = 1..m /\ BatchSize \in Nat
    <2>1. /\ Typed(job) /\ m = BatchLen(job.first) /\ job.first = n + 1 /\ job.review \subseteq 1..n
      BY DEF Full, InOrder, DoneIsRight
    <2>2. /\ n \in Nat /\ m \in 1..BatchSize /\ job.first + m - 1 <= Len(Active) /\ DOMAIN job.answers = 1..m
      BY <2>1, FullBatch
    <2>3. Len(Active) <= Rows /\ Len(Active) \in Nat /\ Rows \in Nat /\ BatchSize \in Nat
      BY ActiveRows, BatchAssumption
    <2> HIDE DEF n, m
    <2>4. n + m <= Len(Active)
      BY <2>1, <2>2, <2>3
    <2>5. QED
      BY <2>1, <2>2, <2>3, <2>4
  <1>2. next = Reviewed(job, places)
    BY DEF Reviewed
  <1>3. \A k \in places : k \in 1..m /\ PlaceOf(k) = job.first - 1 + k
    BY <1>1 DEF PlaceOf
  <1> HIDE DEF n, m
  <1>4. \A k \in places : PlaceOf(k) \in 1..n + m
    BY <1>1, <1>3
  <1>5. review \subseteq 1..n + m /\ review \in SUBSET (1..Rows)
    <2>1. marked \subseteq 1..n + m
      BY <1>4
    <2>2. 1..n \subseteq 1..n + m /\ 1..n + m \subseteq 1..Rows
      BY <1>1
    <2>3. QED
      BY <1>1, <2>1, <2>2
  <1>6. job.review \subseteq review /\ \A k \in places : job.first - 1 + k \in review
    BY <1>3
  <1> HIDE DEF review
  <1>7. /\ Typed(next) /\ next.phase = job.phase /\ next.first = job.first /\ next.done = job.done
        /\ next.answers = job.answers /\ next.review = review /\ next.incomplete = job.incomplete
    BY <1>1, <1>5 DEF Typed
  <1> HIDE DEF next
  <1>8. InOrder(next)
    BY <1>7 DEF Full, InOrder
  <1>9. RightOrReviewed(next.done, 0, next)
    BY <1>6, <1>7 DEF Full, DoneIsRight, RightOrReviewed
  <1>10. Len(next.done) = n /\ Len(next.answers) = m
    BY <1>7 DEF n, m
  <1>11. ASSUME Wrong(job) \subseteq places
         PROVE  Closable(next)
    <2>1. ASSUME NEW k \in DOMAIN job.answers
          PROVE  job.answers[k] = Active[job.first - 1 + k] \/ job.first - 1 + k \in review
      <3>1. k \in 1..m /\ job.first + k - 1 = job.first - 1 + k
        BY <1>1
      <3>2. job.answers[k] # Active[job.first + k - 1] => k \in places
        BY <1>11 DEF Wrong
      <3>3. QED
        BY <1>6, <3>1, <3>2
    <2>2. RightOrReviewed(next.answers, next.first - 1, next)
      BY <1>7, <2>1 DEF RightOrReviewed
    <2>3. next.first <= Len(Active) /\ Len(next.answers) = BatchLen(next.first)
      BY <1>7 DEF Full
    <2>4. QED
      BY <1>5, <1>7, <1>8, <1>9, <1>10, <2>2, <2>3 DEF Closable
  <1>12. QED
    BY <1>2, <1>5, <1>7, <1>8, <1>11 DEF n, m

\* Without an audit nothing is known of a batch, and it is said to be so.
LEMMA IncompleteOK ==
  ASSUME TypeOK, NEW j, Typed(j), InOrder(j), j.first <= Len(Active), Len(j.answers) = BatchLen(j.first),
         j.review \subseteq 1..Len(j.done) + Len(j.answers), j.phase \in Auditing
  PROVE  Closable([j EXCEPT !.incomplete = TRUE])
  <1> DEFINE next == [j EXCEPT !.incomplete = TRUE]
  <1>1. /\ Typed(next) /\ next.phase = j.phase /\ next.first = j.first /\ next.done = j.done
        /\ next.answers = j.answers /\ next.review = j.review /\ next.incomplete
    BY DEF Typed
  <1> HIDE DEF next
  <1>2. InOrder(next) /\ RightOrReviewed(next.done, 0, next) /\ RightOrReviewed(next.answers, next.first - 1, next)
    BY <1>1 DEF InOrder, RightOrReviewed
  <1>3. Closable(next)
    BY <1>1, <1>2 DEF Closable
  <1>4. QED
    BY <1>3 DEF next

\* A failed audit closes the batch and says that the audit is incomplete.
LEMMA AuditFailsOK ==
  ASSUME TypeOK, JobOK(job), job.phase \in Auditing
  PROVE  JobOK(IF job.phase = "recheck" THEN RecheckFailed(job) ELSE Closed([job EXCEPT !.incomplete = TRUE]))
  <1>1. Full(job)
    BY LookedAtIsFull
  <1>2. CASE job.phase = "recheck"
    <2> DEFINE next == Reviewed(job, job.suspects)
    <2>1. job.suspects \in SUBSET (1..BatchLen(job.first))
      BY <1>2 DEF JobOK, SuspectsAreAll
    <2>2. /\ Typed(next) /\ InOrder(next) /\ next.first = job.first /\ next.answers = job.answers
          /\ next.done = job.done /\ next.phase = job.phase
          /\ next.review \subseteq 1..Len(job.done) + Len(job.answers)
      BY <1>1, <2>1, ReviewedOK
    <2>3. RecheckFailed(job) = Closed([next EXCEPT !.incomplete = TRUE])
      BY DEF RecheckFailed
    <2> HIDE DEF next
    <2>4. Closable([next EXCEPT !.incomplete = TRUE])
      BY <1>1, <2>2, IncompleteOK DEF Full
    <2>5. QED
      BY <1>2, <2>3, <2>4, ClosedOK
  <1>3. CASE job.phase # "recheck"
    <2>1. job.review \subseteq 1..Len(job.done) + Len(job.answers)
      BY <1>1, FullBatch DEF Full, DoneIsRight
    <2>2. Closable([job EXCEPT !.incomplete = TRUE])
      BY <1>1, <2>1, IncompleteOK DEF Full
    <2>3. QED
      BY <1>3, <2>2, ClosedOK
  <1>4. QED
    BY <1>2, <1>3

\* An audit that names all misplaced rows closes the batch, or has the rows it
\* names translated once more.
LEMMA AuditAnswersOK ==
  ASSUME TypeOK, JobOK(job), job.phase \in Auditing, NEW places \in SUBSET Places,
         Misplaced(job.answers) \subseteq places
  PROVE  JobOK(Audited(job, places))
  <1>1. Full(job)
    BY LookedAtIsFull
  <1>2. places \in SUBSET (1..BatchLen(job.first)) /\ Wrong(job) \subseteq places
    BY DEF Places, Size, BatchLen, Misplaced, PlaceOf, Wrong
  <1>3. CASE job.phase = "recheck"
    <2>1. Closable(Reviewed(job, places))
      BY <1>1, <1>2, ReviewedOK
    <2>2. QED
      BY <1>3, <2>1, ClosedOK DEF Audited
  <1>4. CASE job.phase # "recheck" /\ places = {}
    <2>1. job.review \subseteq 1..Len(job.done) + Len(job.answers)
      BY <1>1, FullBatch DEF Full, DoneIsRight
    <2>2. ASSUME NEW k \in DOMAIN job.answers PROVE job.answers[k] = Active[job.first - 1 + k]
      <3>1. job.answers[k] = Active[job.first + k - 1]
        BY <1>2, <1>4 DEF Wrong
      <3>2. k \in Int /\ job.first \in Int
        BY <1>1, FullBatch
      <3>3. job.first + k - 1 = job.first - 1 + k
        BY <3>2
      <3>4. QED
        BY <3>1, <3>3
    <2>3. RightOrReviewed(job.answers, job.first - 1, job)
      BY <2>2 DEF RightOrReviewed
    <2>4. Closable(job)
      BY <1>1, <2>1, <2>3 DEF Full, DoneIsRight, Closable
    <2>5. QED
      BY <1>4, <2>4, ClosedOK DEF Audited
  <1>5. CASE job.phase # "recheck" /\ places # {}
    <2> DEFINE todo == Ascending(places)
               asked == [job EXCEPT !.phase = "fix"]
               named == [asked EXCEPT !.suspects = places]
               next == [named EXCEPT !.todo = todo]
    <2>1. BatchLen(job.first) \in 1..BatchSize /\ DOMAIN job.answers = 1..BatchLen(job.first) /\ BatchSize \in Nat
      BY <1>1, FullBatch, BatchAssumption
    <2>2. places \in SUBSET (1..BatchSize) /\ places \in SUBSET Int
      BY <1>2, <2>1
    <2>3. IsFiniteSet(places)
      <3>1. IsFiniteSet(1..BatchLen(job.first))
        BY <2>1, FS_Interval
      <3>2. QED
        BY <1>2, <3>1, FS_Subset
    <2>4. todo \in Seq(places) /\ todo # <<>>
      BY <1>5, <2>2, <2>3, AscendingSeq
    <2>5. todo \in Seq(1..BatchSize)
      BY <2>2, <2>4, SeqMonotonic
    <2> HIDE DEF todo
    <2>6. \A i \in DOMAIN todo : todo[i] \in places
      BY <2>4, ElementOfSeq, LenProperties
    <2>7. Typed(job)
      BY DEF JobOK
    <2>8. /\ next.phase = "fix" /\ next.first = job.first /\ next.done = job.done
          /\ next.answers = job.answers /\ next.todo = todo /\ next.review = job.review
          /\ next.incomplete = job.incomplete /\ next.suspects = places
      BY <2>7 DEF Typed
    <2>9. next = Audited(job, places)
      BY <1>5 DEF Audited, todo
    <2>10. Typed(asked)
      BY <2>7 DEF Typed, Calling
    <2> HIDE DEF asked
    <2>11. Typed(named)
      BY <2>2, <2>10 DEF Typed
    <2> HIDE DEF named
    <2>12. Typed(next)
      BY <2>5, <2>11 DEF Typed
    <2> HIDE DEF next
    <2>13. InOrder(next) /\ DoneIsRight(next)
      BY <1>1, <2>8 DEF Full, InOrder, DoneIsRight, RightOrReviewed
    <2>14. BatchIsFull(next)
      BY <1>1, <1>2, <2>1, <2>4, <2>6, <2>8 DEF Full, BatchIsFull
    <2>15. SuspectsAreAll(next)
      BY <1>2, <2>6, <2>8 DEF JobOK, SuspectsAreAll, Wrong
    <2>16. QED
      BY <1>5, <2>9, <2>12, <2>13, <2>14, <2>15 DEF JobOK
  <1>6. QED
    BY <1>3, <1>4, <1>5

-----------------------------------------------------------------------------
(* What is saved.                                                          *)

\* The result of a job that has translated every row.
LEMMA ResultIsRight ==
  ASSUME TypeOK, JobOK(job), job.phase = "finishing", \A r \in spoken : Result.texts[r] # Failed
  PROVE  /\ Result.texts \in [1..Rows -> {Blank} \cup Texts] /\ Result.review \subseteq spoken
         /\ \A r \in 1..Rows :
              /\ Result.texts[r] # Failed /\ (Result.texts[r] = Blank <=> r \notin spoken)
              /\ r \in spoken /\ Result.texts[r] # r => r \in Result.review \/ Result.incomplete
  <1> DEFINE n == Len(Active)
             place(r) == Cardinality(spoken \cap 1..r)
  <1>1. /\ n \in Nat /\ spoken \subseteq 1..Rows /\ \A r \in spoken : r \in Int /\ 1 <= r
        /\ Active \in [1..n -> spoken] /\ \A i, k \in 1..n : i < k => Active[i] < Active[k]
    BY ActiveRows, LenProperties
  <1>2. job.done \in [1..n -> Texts] /\ job.review \subseteq 1..n
    <2>1. Len(job.done) = n /\ job.done \in Seq(Texts) /\ job.review \subseteq 1..Len(job.done)
      <3>1. job.first = Len(job.done) + 1 /\ job.first = n + 1 /\ job.done \in Seq(Texts)
        BY DEF JobOK, InOrder, Typed
      <3>2. Len(job.done) \in Nat
        BY <3>1, LenProperties
      <3>3. QED
        BY <1>1, <3>1, <3>2 DEF JobOK, DoneIsRight
    <2>2. QED
      BY <2>1, LenProperties
  <1>3. \A r \in spoken : place(r) \in 1..n /\ Active[place(r)] = r
    BY PlaceOfRow
  <1>4. /\ \A r \in 1..Rows : Result.texts[r] = IF r \in spoken THEN job.done[place(r)] ELSE Blank
        /\ Result.texts = [r \in 1..Rows |-> IF r \in spoken THEN job.done[place(r)] ELSE Blank]
        /\ Result.review = {Active[k] : k \in job.review} /\ Result.incomplete = job.incomplete
    BY DEF Result
  <1>5. \A t \in Texts : t # Blank
    BY <1>1 DEF Texts, Blank, Failed
  <1>6. Result.texts \in [1..Rows -> {Blank} \cup Texts]
    <2>1. \A r \in spoken : job.done[place(r)] \in Texts
      BY <1>2, <1>3
    <2> HIDE DEF place
    <2>2. QED
      BY <1>4, <2>1
  <1>7. Result.review \subseteq spoken
    BY <1>1, <1>2, <1>4
  <1>8. \A k \in 1..n : k = place(Active[k])
    <2>1. SUFFICES ASSUME NEW k \in 1..n PROVE k = place(Active[k])
      OBVIOUS
    <2>2. Active[k] \in spoken
      BY <1>1
    <2>3. place(Active[k]) \in 1..n /\ Active[place(Active[k])] = Active[k]
      BY <1>3, <2>2
    <2>4. Active[k] \in Int
      BY <1>1, <2>2
    <2>5. ~(k < place(Active[k])) /\ ~(place(Active[k]) < k)
      BY <1>1, <2>3, <2>4
    <2>6. QED
      BY <2>3, <2>5
  <1> HIDE DEF place
  <1>9. \A k \in 1..n : job.done[k] # Failed
    <2>1. SUFFICES ASSUME NEW k \in 1..n PROVE job.done[k] # Failed
      OBVIOUS
    <2>2. Active[k] \in spoken /\ Active[k] \in 1..Rows
      BY <1>1
    <2>3. Result.texts[Active[k]] = job.done[k]
      BY <1>4, <1>8, <2>2
    <2>4. QED
      BY <2>2, <2>3
  <1>10. job.incomplete \/ \A k \in 1..n : job.done[k] = Active[k] \/ k \in job.review
    <2>1. DOMAIN job.done = 1..n
      BY <1>2
    <2>2. \A k \in 1..n : 0 + k = k
      BY <1>1
    <2>3. QED
      BY <1>9, <2>1, <2>2 DEF JobOK, DoneIsRight, RightOrReviewed
  <1>11. ASSUME NEW r \in 1..Rows
         PROVE  /\ Result.texts[r] # Failed /\ (Result.texts[r] = Blank <=> r \notin spoken)
                /\ r \in spoken /\ Result.texts[r] # r => r \in Result.review \/ Result.incomplete
    <2>1. CASE r \in spoken
      <3>1. Result.texts[r] = job.done[place(r)] /\ place(r) \in 1..n /\ Active[place(r)] = r
        BY <1>3, <1>4, <2>1
      <3>2. Result.texts[r] \in Texts
        BY <1>2, <3>1
      <3>3. Result.texts[r] # r => place(r) \in job.review \/ job.incomplete
        BY <1>10, <3>1
      <3>4. place(r) \in job.review => r \in Result.review
        BY <1>4, <3>1
      <3>5. QED
        BY <1>4, <1>5, <2>1, <3>2, <3>3, <3>4
    <2>2. CASE r \notin spoken
      BY <1>4, <2>2 DEF Blank, Failed
    <2>3. QED
      BY <2>1, <2>2
  <1>12. QED
    BY <1>6, <1>7, <1>11

-----------------------------------------------------------------------------
(* The steps.                                                              *)

\* The rows with text do not change, so what is proved of the next job holds
\* in the next state.
LEMMA NextJob ==
  ASSUME TypeOK, spoken' = spoken, NEW next, JobOK(next), job' = next
  PROVE  JobOK(job)'
  <1>1. Active' = Active
    BY DEF Active, Ascending
  <1>2. Typed(job)'
    BY DEF JobOK, Typed, Texts, Calling, Auditing, Ends
  <1>3. \A first : BatchLen(first)' = BatchLen(first)
    BY <1>1 DEF BatchLen
  <1>4. InOrder(job)'
    BY <1>1 DEF JobOK, InOrder, Calling, Auditing
  <1>5. BatchIsFull(job)'
    BY <1>1 DEF JobOK, BatchIsFull, BatchLen, Auditing
  <1>6. SuspectsAreAll(job)'
    BY <1>1 DEF JobOK, SuspectsAreAll, BatchLen, Wrong, Auditing
  <1>7. DoneIsRight(job)'
    BY <1>1 DEF JobOK, DoneIsRight, RightOrReviewed
  <1>8. QED
    BY <1>2, <1>4, <1>5, <1>6, <1>7 DEF JobOK

\* The types of the next state follow from its job and what it saves.
LEMMA NextType ==
  ASSUME spoken' \in Speech, JobOK(job)', setting' \in Providers,
         stage' \in Providers \cup {NoProvider}, config' \in Providers \cup {NoProvider},
         saved'.texts \in Seq({Blank} \cup 0..Rows)
  PROVE  TypeOK'
  <1>1. Texts' \subseteq 0..Rows
    BY BatchAssumption DEF Texts, Failed
  <1>2. \A list \in Seq(Texts') : list \in Seq(0..Rows)
    BY <1>1, SeqMonotonic
  <1>3. Typed(job)' /\ Len(job'.answers) <= BatchSize
    BY DEF JobOK, BatchIsFull
  <1>4. QED
    BY <1>2, <1>3 DEF TypeOK, Typed

\* Every step of the translation keeps the invariant.
LEMMA NextIInv == IInv /\ [Next]_vars => IInv'
  <1> SUFFICES ASSUME IInv, [Next]_vars
               PROVE  IInv'
    OBVIOUS
  <1>1. TypeOK /\ JobOK(job) /\ RowsKeepTheirPlace
    BY DEF IInv
  <1>2. /\ spoken \in Speech /\ setting \in Providers /\ stage \in Providers \cup {NoProvider}
        /\ config \in Providers \cup {NoProvider} /\ saved.texts \in Seq({Blank} \cup 0..Rows)
    BY <1>1 DEF TypeOK
  <1>3. ASSUME spoken' = spoken, JobOK(job)', UNCHANGED saved,
               setting' \in Providers, {stage', config'} \subseteq Providers \cup {NoProvider}
        PROVE  IInv'
    <2>1. RowsKeepTheirPlace'
      BY <1>1, <1>3 DEF RowsKeepTheirPlace
    <2>2. TypeOK'
      BY <1>2, <1>3, NextType
    <2>3. QED
      BY <1>3, <2>1, <2>2 DEF IInv
  <1>4. CASE Ask
    <2>1. JobOK([job EXCEPT !.phase = "waiting"])
      BY <1>1, <1>4, NextPhaseOK DEF Ask
    <2>2. JobOK(job)'
      BY <1>1, <1>4, <2>1, NextJob DEF Ask
    <2>3. QED
      BY <1>2, <1>3, <1>4, <2>2 DEF Ask
  <1>5. CASE AskCopy
    <2>1. JobOK([job EXCEPT !.phase = "saved"])
      BY <1>1, NextPhaseOK DEF Ends
    <2>2. JobOK(job)'
      BY <1>1, <1>5, <2>1, NextJob DEF AskCopy
    <2>3. Rows \in Nat /\ spoken \subseteq 1..Rows /\ Copied \in [1..Rows -> {Blank} \cup 0..Rows]
      BY <1>2, BatchAssumption DEF Copied, Blank
    <2>4. saved'.texts = Copied /\ spoken' = spoken
      BY <1>5 DEF AskCopy, NoResult
    <2>5. Copied \in Seq({Blank} \cup 0..Rows) /\ Len(Copied) = Rows
      BY <2>3
    <2>6. RowsKeepTheirPlace'
      <3>1. \A r \in 1..Rows : /\ Copied[r] # Failed /\ (Copied[r] = Blank <=> r \notin spoken)
                               /\ r \in spoken => Copied[r] = r
        BY <2>3 DEF Copied, Blank, Failed
      <3>2. saved'.review = {}
        BY <1>5 DEF AskCopy, NoResult
      <3>3. QED
        BY <2>4, <2>5, <3>1, <3>2 DEF RowsKeepTheirPlace
    <2>7. TypeOK'
      BY <1>2, <1>5, <2>2, <2>4, <2>5, NextType DEF AskCopy
    <2>8. QED
      BY <2>2, <2>6, <2>7 DEF IInv
  <1>6. CASE StageStarts
    <2>1. JobOK([job EXCEPT !.phase = "batch"])
      BY <1>1, <1>6, NextPhaseOK DEF StageStarts
    <2>2. JobOK(job)'
      BY <1>1, <1>6, <2>1, NextJob DEF StageStarts
    <2>3. QED
      BY <1>2, <1>3, <1>6, <2>2 DEF StageStarts
  <1>7. ASSUME NEW phase \in Ends, Stopped(phase)
        PROVE  IInv'
    <2>1. JobOK([job EXCEPT !.phase = phase])
      BY <1>1, NextPhaseOK
    <2>2. JobOK(job)'
      BY <1>1, <1>7, <2>1, NextJob DEF Stopped
    <2>3. QED
      BY <1>2, <1>3, <1>7, <2>2 DEF Stopped
  <1>8. CASE Answer
    <2>1. PICK list \in Answers(job) : job' = Answered(job, list)
      BY <1>8 DEF Answer
    <2>2. JobOK(Answered(job, list))
      BY <1>1, <1>8, AnsweredOK DEF Answer
    <2>3. JobOK(job)'
      BY <1>1, <1>8, <2>1, <2>2, NextJob DEF Answer
    <2>4. QED
      BY <1>2, <1>3, <1>8, <2>3 DEF Answer
  <1>9. CASE CallFails
    <2>1. CASE job.attempt < MaxRetries
      <3>1. JobOK([job EXCEPT !.attempt = @ + 1])
        BY <1>1, <2>1, NextAttemptOK
      <3>2. JobOK(job)'
        BY <1>1, <1>9, <2>1, <3>1, NextJob DEF CallFails
      <3>3. QED
        BY <1>2, <1>3, <1>9, <3>2 DEF CallFails
    <2>2. CASE ~(job.attempt < MaxRetries)
      <3> DEFINE list == [k \in DOMAIN Asked(job) |-> Failed]
      <3>1. list \in Answers(job)
        BY DEF Answers
      <3>2. job' = Answered(job, list) /\ job.phase \in Calling /\ spoken' = spoken
        BY <1>9, <2>2 DEF CallFails
      <3> HIDE DEF list
      <3>3. JobOK(job)'
        BY <1>1, <3>1, <3>2, AnsweredOK, NextJob
      <3>4. QED
        BY <1>2, <1>3, <1>9, <3>3 DEF CallFails
    <2>3. QED
      BY <2>1, <2>2
  <1>10. CASE AuditAnswers
    <2>1. PICK places \in SUBSET Places : Misplaced(job.answers) \subseteq places /\ job' = Audited(job, places)
      BY <1>10 DEF AuditAnswers
    <2>2. JobOK(Audited(job, places))
      BY <1>1, <1>10, <2>1, AuditAnswersOK DEF AuditAnswers
    <2>3. JobOK(job)'
      BY <1>1, <1>10, <2>1, <2>2, NextJob DEF AuditAnswers
    <2>4. QED
      BY <1>2, <1>3, <1>10, <2>3 DEF AuditAnswers
  <1>11. CASE AuditFails
    <2>1. JobOK(IF job.phase = "recheck" THEN RecheckFailed(job) ELSE Closed([job EXCEPT !.incomplete = TRUE]))
      BY <1>1, <1>11, AuditFailsOK DEF AuditFails
    <2>2. JobOK(job)'
      BY <1>1, <1>11, <2>1, NextJob DEF AuditFails
    <2>3. QED
      BY <1>2, <1>3, <1>11, <2>2 DEF AuditFails
  <1>12. CASE Finish
    <2>1. CASE \E r \in spoken : Result.texts[r] = Failed
      <3>1. job' = [job EXCEPT !.phase = "failed"] /\ UNCHANGED saved /\ spoken' = spoken
        BY <1>12, <2>1 DEF Finish
      <3>2. JobOK([job EXCEPT !.phase = "failed"])
        BY <1>1, NextPhaseOK DEF Ends
      <3>3. JobOK(job)'
        BY <1>1, <3>1, <3>2, NextJob
      <3>4. QED
        BY <1>2, <1>3, <1>12, <3>1, <3>3 DEF Finish
    <2>2. CASE ~\E r \in spoken : Result.texts[r] = Failed
      <3>1. job' = [job EXCEPT !.phase = "saved"] /\ saved' = Result /\ spoken' = spoken
        BY <1>12, <2>2 DEF Finish
      <3>2. JobOK([job EXCEPT !.phase = "saved"])
        BY <1>1, NextPhaseOK DEF Ends
      <3>3. JobOK(job)'
        BY <1>1, <3>1, <3>2, NextJob
      <3>4. /\ Result.texts \in [1..Rows -> {Blank} \cup Texts] /\ Result.review \subseteq spoken
            /\ \A r \in 1..Rows :
                 /\ Result.texts[r] # Failed /\ (Result.texts[r] = Blank <=> r \notin spoken)
                 /\ r \in spoken /\ Result.texts[r] # r => r \in Result.review \/ Result.incomplete
        BY <1>1, <1>12, <2>2, ResultIsRight DEF Finish
      <3>5. Rows \in Nat /\ Texts \subseteq 0..Rows
        BY <1>2, BatchAssumption DEF Texts, Failed
      <3>6. Result.texts \in [1..Rows -> {Blank} \cup 0..Rows]
        BY <3>4, <3>5
      <3>7. Result.texts \in Seq({Blank} \cup 0..Rows) /\ Len(Result.texts) = Rows
        BY <3>5, <3>6
      <3>8. RowsKeepTheirPlace'
        BY <3>1, <3>4, <3>7 DEF RowsKeepTheirPlace
      <3>9. TypeOK'
        BY <1>2, <1>12, <3>1, <3>3, <3>7, NextType DEF Finish
      <3>10. QED
        BY <3>3, <3>8, <3>9 DEF IInv
    <2>3. QED
      BY <2>1, <2>2
  <1>13. CASE ChangeSetting
    <2>1. JobOK(job)'
      BY <1>1, <1>13, NextJob DEF ChangeSetting
    <2>2. QED
      BY <1>2, <1>3, <1>13, <2>1 DEF ChangeSetting
  <1>14. CASE UNCHANGED vars
    <2>1. JobOK(job)'
      BY <1>1, <1>14, NextJob DEF vars
    <2>2. QED
      BY <1>2, <1>3, <1>14, <2>1 DEF vars
  <1>15. StageFails \/ Cancel => IInv'
    BY <1>7 DEF StageFails, Cancel, Ends
  <1>16. QED
    BY <1>4, <1>5, <1>6, <1>8, <1>9, <1>10, <1>11, <1>12, <1>13, <1>14, <1>15 DEF Next, Work

\* Every list, counter and row number of a running translation has its type,
\* for any number of rows, any size of the batches and any retry limit.
THEOREM TypeCorrect == Spec => []TypeOK
  <1>1. Spec => []IInv
    BY InitIInv, NextIInv, PTL DEF Spec
  <1>2. IInv => TypeOK
    BY DEF IInv
  <1>3. QED
    BY <1>1, <1>2, PTL

\* The inductive invariant: the batches follow one another without a gap, a
\* batch is whole before it is looked at, the suspects of an audit are all the
\* rows that are wrong, and what is done is right or marked for a review.
THEOREM Invariant == Spec => []IInv
  BY InitIInv, NextIInv, PTL DEF Spec

\* Whatever the model answers and however its audits fail, what is saved has a
\* translation for the rows that have text and for no other, and the rows that
\* have another row's meaning are among those to review.
THEOREM RowsKeepTheirPlaceHolds == Spec => []RowsKeepTheirPlace
  <1>1. IInv => RowsKeepTheirPlace
    BY DEF IInv
  <1>2. QED
    BY <1>1, Invariant, PTL
=============================================================================
