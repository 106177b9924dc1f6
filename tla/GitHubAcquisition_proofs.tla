---------------------- MODULE GitHubAcquisition_proofs ----------------------
(* The budgets and the account of every file hold for every repository, any *)
(* bounds and any selector; so does what a complete coverage means.         *)
EXTENDS GitHubAcquisition, TLAPS, FiniteSetTheorems

\* The elements of a sequence under the operations of the queue.
LEMMA TailElements ==
    ASSUME NEW S, NEW s \in Seq(S), s # <<>>
    PROVE  /\ Head(s) \in S /\ Tail(s) \in Seq(S) /\ Len(Tail(s)) = Len(s) - 1
           /\ Elements(s) \subseteq Elements(Tail(s)) \union {Head(s)}
           /\ Elements(Tail(s)) \subseteq Elements(s) /\ Head(s) \in Elements(s)
<1>1. Tail(s) \in Seq(S) /\ Len(Tail(s)) = Len(s) - 1 /\ Len(s) \in Nat /\ Len(s) > 0
  OBVIOUS
<1>2. Head(s) = s[1] /\ s[1] \in S
  OBVIOUS
<1>3. \A i \in 1 .. Len(s) - 1 : Tail(s)[i] = s[i + 1]
  OBVIOUS
<1>4. ASSUME NEW x \in Elements(s), x # Head(s)
      PROVE  x \in Elements(Tail(s))
  <2>1. PICK i \in 1 .. Len(s) : s[i] = x
    BY DEF Elements
  <2>2. i - 1 \in 1 .. Len(Tail(s)) /\ Tail(s)[i - 1] = x
    BY <1>1, <1>2, <1>3, <1>4, <2>1
  <2> QED
    BY <2>2 DEF Elements
<1>5. ASSUME NEW x \in Elements(Tail(s))
      PROVE  x \in Elements(s)
  <2>1. PICK i \in 1 .. Len(Tail(s)) : Tail(s)[i] = x
    BY DEF Elements
  <2>2. i + 1 \in 1 .. Len(s) /\ s[i + 1] = x
    BY <1>1, <1>3, <2>1
  <2> QED
    BY <2>2 DEF Elements
<1>6. Head(s) \in Elements(s)
  BY <1>1, <1>2 DEF Elements
<1> QED
  BY <1>1, <1>2, <1>4, <1>5, <1>6

LEMMA AppendElements ==
    ASSUME NEW S, NEW s \in Seq(S), NEW x \in S
    PROVE  /\ Append(s, x) \in Seq(S) /\ Len(Append(s, x)) = Len(s) + 1
           /\ Elements(Append(s, x)) = Elements(s) \union {x}
<1>1. Append(s, x) \in Seq(S) /\ Len(Append(s, x)) = Len(s) + 1 /\ Len(s) \in Nat
  OBVIOUS
<1>2. \A i \in 1 .. Len(s) : Append(s, x)[i] = s[i]
  OBVIOUS
<1>3. Append(s, x)[Len(s) + 1] = x
  OBVIOUS
<1> QED
  BY <1>1, <1>2, <1>3 DEF Elements

LEMMA ConcatElements ==
    ASSUME NEW S, NEW s \in Seq(S), NEW t \in Seq(S)
    PROVE  /\ s \o t \in Seq(S) /\ Len(s \o t) = Len(s) + Len(t)
           /\ Elements(s) \union Elements(t) \subseteq Elements(s \o t)
<1>1. s \o t \in Seq(S) /\ Len(s \o t) = Len(s) + Len(t) /\ Len(s) \in Nat /\ Len(t) \in Nat
  OBVIOUS
<1>2. \A i \in 1 .. Len(s) : (s \o t)[i] = s[i] /\ i \in 1 .. Len(s \o t)
  BY <1>1
<1>3. \A i \in 1 .. Len(t) : (s \o t)[Len(s) + i] = t[i] /\ Len(s) + i \in 1 .. Len(s \o t)
  BY <1>1
<1> QED
  BY <1>1, <1>2, <1>3 DEF Elements

LEMMA SubSeqElements ==
    ASSUME NEW S, NEW s \in Seq(S), NEW m \in 1 .. Len(s) + 1, NEW n \in m - 1 .. Len(s)
    PROVE  /\ SubSeq(s, m, n) \in Seq(S) /\ Len(SubSeq(s, m, n)) = n - m + 1
           /\ \A i \in m .. n : s[i] \in Elements(SubSeq(s, m, n))
<1>1. SubSeq(s, m, n) \in Seq(S) /\ Len(SubSeq(s, m, n)) = n - m + 1
  OBVIOUS
<1>2. \A j \in 1 .. n - m + 1 : SubSeq(s, m, n)[j] = s[m + j - 1]
  OBVIOUS
<1>3. ASSUME NEW i \in m .. n PROVE s[i] \in Elements(SubSeq(s, m, n))
  <2>1. i - m + 1 \in 1 .. n - m + 1 /\ SubSeq(s, m, n)[i - m + 1] = s[i]
    BY <1>2
  <2> QED
    BY <1>1, <2>1 DEF Elements
<1> QED
  BY <1>1, <1>3

\* Taking an element out leaves every other one in.
LEMMA WithoutElements ==
    ASSUME NEW S, NEW s \in Seq(S), NEW i \in 1 .. Len(s)
    PROVE  /\ Without(s, i) \in Seq(S) /\ Len(Without(s, i)) = Len(s) - 1
           /\ Elements(s) \subseteq Elements(Without(s, i)) \union {s[i]}
<1> DEFINE left == SubSeq(s, 1, i - 1)
           right == SubSeq(s, i + 1, Len(s))
<1>1. /\ left \in Seq(S) /\ Len(left) = i - 1
      /\ \A j \in 1 .. i - 1 : s[j] \in Elements(left)
  BY SubSeqElements
<1>2. /\ right \in Seq(S) /\ Len(right) = Len(s) - i
      /\ \A j \in i + 1 .. Len(s) : s[j] \in Elements(right)
  BY SubSeqElements
<1>3. /\ left \o right \in Seq(S) /\ Len(left \o right) = Len(left) + Len(right)
      /\ Elements(left) \union Elements(right) \subseteq Elements(left \o right)
  BY <1>1, <1>2, ConcatElements
<1> HIDE DEF left, right
<1>4. ASSUME NEW x \in Elements(s), x # s[i] PROVE x \in Elements(left \o right)
  <2>1. PICK j \in 1 .. Len(s) : s[j] = x
    BY DEF Elements
  <2>2. j \in 1 .. i - 1 \/ j \in i + 1 .. Len(s)
    <3>1. j # i
      BY <1>4, <2>1
    <3> QED
      BY <3>1
  <2>3. s[j] \in Elements(left) \union Elements(right)
    BY <1>1, <1>2, <2>2
  <2> QED
    BY <1>3, <2>1, <2>3
<1>5. Without(s, i) = left \o right
  BY DEF Without, left, right
<1>6. Len(left \o right) = Len(s) - 1
  BY <1>1, <1>2, <1>3
<1> QED
  BY <1>3, <1>4, <1>5, <1>6
\* What the tree of the commit is made of.
LEMMA TreeFacts ==
    ASSUME TypeOK
    PROVE  /\ tree \in Trees
           /\ tree.order \in Seq(Path) /\ Len(tree.order) \in Nat
           /\ tree.sha \in [Path -> Sha] /\ tree.class \in [Path -> Class]
           /\ tree.size \in [Path -> Nat \union {Unknown}]
           /\ Elements(tree.order) = CandidatesOf(tree)
<1>1. tree \in Trees /\ tree \in Tree /\ Elements(tree.order) = CandidatesOf(tree)
  BY TreesAssumption DEF TypeOK
<1> QED
  BY <1>1 DEF Tree

\* A reservation is a number of bytes, and an allowed one fits the budget.
LEMMA Reservations ==
    ASSUME TypeOK, NEW p \in Path
    PROVE  Reservation(p) \in Nat
BY TreeFacts, BoundsAssumption DEF Reservation

LEMMA Sizes ==
    ASSUME TypeOK, NEW p \in Path
    PROVE  /\ tree.sha[p] \in Sha
           /\ Content[tree.sha[p]].size \in Nat
           /\ Outcome(p) = "retained" =>
                 totalBytes + Content[tree.sha[p]].size <= MaxTotalFileBytes
<1>1. tree.sha[p] \in Sha
  BY TreeFacts
<1>2. Content[tree.sha[p]].size \in Nat
  BY <1>1, BlobAssumption
<1>3. Outcome(p) = "retained" => ~(totalBytes + Content[tree.sha[p]].size > MaxTotalFileBytes)
  BY <1>1 DEF Outcome, TypeOK, Verdict, Answer, Failure
<1>4. totalBytes \in Nat /\ MaxTotalFileBytes \in Nat
  BY BoundsAssumption DEF TypeOK
<1> QED
  BY <1>1, <1>2, <1>3, <1>4

\* The initial states satisfy the invariant.
LEMMA InitIInv == Init => IInv
<1> SUFFICES ASSUME Init PROVE IInv
  OBVIOUS
<1>1. /\ tree \in Tree /\ IsFiniteSet(pending) /\ Cardinality(pending) = 0
      /\ Elements(batch) = {}
  BY TreesAssumption, FS_EmptySet DEF Init, Elements
<1>2. TypeOK
  <2>1. tree.class \in [Path -> Class] /\ tree \in Trees
    BY <1>1 DEF Init, Tree
  <2>2. skipped \in [Path -> SUBSET Reason]
    BY DEF Init
  <2>3. /\ answers \in [Sha -> Answer \union {"none", "waiting"}]
        /\ verdicts \in [Sha -> Verdict \union {"none"}]
    BY DEF Init
  <2>4. rest \in Seq(Path) /\ batch \in Seq(Path) /\ additions \in Seq(Path)
    BY DEF Init
  <2>5. phase \in Phase /\ kind \in [Path -> Class]
    BY <2>1 DEF Init, Phase, Headers
  <2> QED
    BY <1>1, <2>1, <2>2, <2>3, <2>4, <2>5 DEF Init, TypeOK
<1>3. WithinBudget /\ Staged /\ BatchBacked
  BY BoundsAssumption DEF Init, WithinBudget, Staged, BatchBacked, Headers
<1>4. QueuedAccounted /\ FirstAccounted /\ CoverageComputed
  BY DEF Init, QueuedAccounted, FirstAccounted, CoverageComputed, Headers
<1> QED
  BY <1>2, <1>3, <1>4 DEF IInv


\* Every step keeps the types.
LEMMA TypeStep ==
    ASSUME TypeOK, [Next]_vars
    PROVE  TypeOK'
<1>1. CASE TreeArrives
  <2>1. Smaller(MaxFiles, Len(tree.order)) \in 0 .. Len(tree.order)
    BY TreeFacts, BoundsAssumption DEF Smaller
  <2>2. rest' \in Seq(Path) /\ queued' \in SUBSET Path
    <3>1. rest' \in Seq(Path)
      BY <1>1, <2>1, TreeFacts, SubSeqElements DEF TreeArrives
    <3>2. queued' = Elements(rest')
      BY <1>1 DEF TreeArrives
    <3> QED
      BY <3>1, <3>2 DEF Elements
  <2> QED
    BY <1>1, <2>2 DEF TypeOK, Phase, Headers, Ended, TreeArrives, vars, queueVars, batchVars, blobVars, selectVars
<1>2. CASE StartBatch
  <2>1. IsFiniteSet(pending')
    BY <1>2, FS_EmptySet DEF StartBatch
  <2> QED
    BY <1>2, <2>1 DEF TypeOK, Phase, Headers, Ended, StartBatch, vars, queueVars, batchVars, blobVars, selectVars
<1>3. CASE LeaveLimited
  <2>1. Head(rest) \in Path /\ Tail(rest) \in Seq(Path)
    BY <1>3, TailElements DEF TypeOK, LeaveLimited, Leave, Filling
  <2>2. skipped' \in [Path -> SUBSET Reason]
    BY <1>3, <2>1 DEF TypeOK, LeaveLimited, Leave, Filling, Reason
  <2> QED
    BY <1>3, <2>1, <2>2 DEF TypeOK, Phase, Headers, Ended, LeaveLimited, Leave, Filling, vars, queueVars, batchVars, blobVars, selectVars
<1>4. CASE LeaveOversized
  <2>1. Head(rest) \in Path /\ Tail(rest) \in Seq(Path)
    BY <1>4, TailElements DEF TypeOK, LeaveOversized, Leave, Filling
  <2>2. skipped' \in [Path -> SUBSET Reason]
    BY <1>4, <2>1 DEF TypeOK, LeaveOversized, Leave, Filling, Reason
  <2> QED
    BY <1>4, <2>1, <2>2 DEF TypeOK, Phase, Headers, Ended, LeaveOversized, Leave, Filling, vars, queueVars, batchVars, blobVars, selectVars
<1>5. CASE Reserve
  <2>1. Head(rest) \in Path /\ Tail(rest) \in Seq(Path)
    BY <1>5, TailElements DEF TypeOK, Reserve, Filling
  <2>2. tree.sha[Head(rest)] \in Sha /\ Reservation(Head(rest)) \in Nat
    BY <2>1, Sizes, Reservations
  <2>3. pending' \in SUBSET Sha /\ IsFiniteSet(pending')
    BY <1>5, <2>2, FS_AddElement DEF TypeOK, Reserve
  <2>4. batch' \in Seq(Path)
    BY <1>5, <2>1 DEF TypeOK, Reserve
  <2> QED
    BY <1>5, <2>1, <2>2, <2>3, <2>4 DEF TypeOK, Phase, Headers, Ended, Reserve, Filling, vars, queueVars, batchVars, blobVars, selectVars
<1>6. CASE Dispatch
  <2>1. Cardinality(pending) \in Nat
    BY FS_CardinalityType DEF TypeOK
  <2> QED
    BY <1>6, <2>1 DEF TypeOK, Phase, Headers, Ended, Dispatch, vars, queueVars, batchVars, blobVars, selectVars
<1>7. CASE RetainFile
  <2>1. Head(batch) \in Path /\ Tail(batch) \in Seq(Path)
    BY <1>7, TailElements DEF TypeOK, RetainFile, Retaining
  <2>2. tree.sha[Head(batch)] \in Sha /\ Content[tree.sha[Head(batch)]].size \in Nat
    BY <2>1, Sizes
  <2>3. totalBytes' \in Nat /\ cached' \in SUBSET Sha /\ files' \in SUBSET Path
    BY <1>7, <2>1, <2>2 DEF TypeOK, RetainFile
  <2> QED
    BY <1>7, <2>1, <2>3 DEF TypeOK, Phase, Headers, Ended, RetainFile, Retaining, vars, queueVars, batchVars, blobVars, selectVars
<1>8. CASE SkipFile
  <2>1. Head(batch) \in Path /\ Tail(batch) \in Seq(Path)
    BY <1>8, TailElements DEF TypeOK, SkipFile, Retaining
  <2>2. tree.sha[Head(batch)] \in Sha /\ Content[tree.sha[Head(batch)]].size \in Nat
    BY <2>1, Sizes
  <2>3. skipped' \in [Path -> SUBSET Reason]
    BY <1>8, <2>1 DEF TypeOK, SkipFile
  <2>4. verdicts' \in [Sha -> Verdict \union {"none"}]
    BY <1>8, <2>2 DEF TypeOK, SkipFile, Verdict, Reason
  <2> QED
    BY <1>8, <2>1, <2>3, <2>4 DEF TypeOK, Phase, Headers, Ended, SkipFile, Retaining, vars, queueVars, batchVars, blobVars, selectVars
<1>9. CASE FailFile
  <2>1. Head(batch) \in Path /\ Tail(batch) \in Seq(Path)
    BY <1>9, TailElements DEF TypeOK, FailFile, Retaining
  <2>2. tree.sha[Head(batch)] \in Sha /\ Content[tree.sha[Head(batch)]].size \in Nat
    BY <2>1, Sizes
  <2>3. skipped' \in [Path -> SUBSET Reason]
    BY <1>9, <2>1 DEF TypeOK, FailFile, Reason
  <2>4. verdicts' \in [Sha -> Verdict \union {"none"}]
    BY <1>9, <2>2 DEF TypeOK, FailFile, Verdict
  <2>5. rateLimited' \in BOOLEAN
    BY <1>9 DEF TypeOK, FailFile
  <2> QED
    BY <1>9, <2>1, <2>3, <2>4, <2>5 DEF TypeOK, Phase, Headers, Ended, FailFile, Retaining, vars, queueVars, batchVars, blobVars, selectVars
<1>10. CASE SpliceAdditions
  <2>1. rest' \in Seq(Path)
    BY <1>10, ConcatElements DEF TypeOK, SpliceAdditions
  <2> QED
    BY <1>10, <2>1 DEF TypeOK, Phase, Headers, Ended, SpliceAdditions, vars, queueVars, batchVars, blobVars, selectVars
<1>11. CASE \E p \in Path : MoveForward(p)
  <2>1. PICK p \in Path : MoveForward(p)
    BY <1>11
  <2>2. rest' \in Seq(Path) /\ additions' \in Seq(Path)
    BY <2>1, WithoutElements DEF TypeOK, MoveForward
  <2> QED
    BY <2>1, <2>2 DEF TypeOK, Phase, Headers, Ended, MoveForward, Asks, vars, queueVars, batchVars, blobVars, selectVars
<1>12. CASE \E p \in Path : Admit(p)
  <2>1. PICK p \in Path : Admit(p)
    BY <1>12
  <2>2. kind' \in [Path -> Class]
    BY <2>1 DEF TypeOK, Admit, Class, Selectable, Candidate
  <2> QED
    BY <2>1, <2>2 DEF TypeOK, Phase, Headers, Ended, Admit, Asks, vars, queueVars, batchVars, blobVars, selectVars
<1>13. CASE \E p \in Path : Displace(p)
  <2>1. PICK p \in Path : Displace(p)
    BY <1>13
  <2>2. kind' \in [Path -> Class]
    BY <2>1 DEF TypeOK, Displace, Class, Selectable, Candidate
  <2>3. PICK i \in 1 .. Len(rest) :
            /\ rest' = Without(rest, i)
            /\ skipped' = [skipped EXCEPT ![rest[i]] = @ \union {"limited"}]
            /\ queued' = (queued \ {rest[i]}) \union {p}
    BY <2>1 DEF Displace
  <2>4. rest[i] \in Path /\ rest' \in Seq(Path)
    BY <2>3, WithoutElements DEF TypeOK
  <2>5. skipped' \in [Path -> SUBSET Reason] /\ queued' \in SUBSET Path
    BY <2>3, <2>4 DEF TypeOK, Reason
  <2>6. additions' \in Seq(Path)
    BY <2>1 DEF TypeOK, Displace
  <2> QED
    BY <2>1, <2>2, <2>4, <2>5, <2>6 DEF TypeOK, Phase, Headers, Ended, Displace, Asks, vars, queueVars, batchVars, blobVars, selectVars
<1>14. CASE \E p \in Path : Refuse(p)
  <2>1. PICK p \in Path : Refuse(p)
    BY <1>14
  <2>2. skipped' \in [Path -> SUBSET Reason]
    BY <2>1 DEF TypeOK, Refuse, Reason
  <2> QED
    BY <2>1, <2>2 DEF TypeOK, Phase, Headers, Ended, Refuse, Asks, vars, queueVars, batchVars, blobVars, selectVars
<1>15. CASE Abort
  BY <1>15 DEF TypeOK, Phase, Headers, Ended, Abort, vars, queueVars, batchVars, blobVars, selectVars
<1>16. CASE Interrupted
  BY <1>16 DEF TypeOK, Phase, Headers, Ended, Interrupted, vars, queueVars, batchVars, blobVars, selectVars
<1>17. CASE HeaderFails
  BY <1>17 DEF TypeOK, Phase, Headers, Ended, HeaderFails, vars, queueVars, batchVars, blobVars, selectVars
<1>18. CASE HeaderDenied
  BY <1>18 DEF TypeOK, Phase, Headers, Ended, HeaderDenied, vars, queueVars, batchVars, blobVars, selectVars
<1>19. CASE HeaderArrives
  BY <1>19 DEF TypeOK, Phase, Headers, Ended, HeaderArrives, vars, queueVars, batchVars, blobVars, selectVars
<1>20. CASE \E s \in Sha, a \in Answer : BlobAnswers(s, a)
  BY <1>20 DEF TypeOK, Phase, Headers, Ended, BlobAnswers, vars, queueVars, batchVars, blobVars, selectVars
<1>21. CASE BatchAnswered
  BY <1>21 DEF TypeOK, Phase, Headers, Ended, BatchAnswered, vars, queueVars, batchVars, blobVars, selectVars
<1>22. CASE FileDenied
  BY <1>22 DEF TypeOK, Phase, Headers, Ended, FileDenied, Retaining, vars, queueVars, batchVars, blobVars, selectVars
<1>23. CASE BatchRetained
  BY <1>23 DEF TypeOK, Phase, Headers, Ended, BatchRetained, vars, queueVars, batchVars, blobVars, selectVars
<1>24. CASE Publish
  BY <1>24 DEF TypeOK, Phase, Headers, Ended, Publish, vars, queueVars, batchVars, blobVars, selectVars
<1>25. CASE UNCHANGED vars
  BY <1>25 DEF TypeOK, Phase, Headers, Ended, vars, queueVars, batchVars, blobVars, selectVars
<1> QED
  BY <1>1, <1>2, <1>3, <1>4, <1>5, <1>6, <1>7, <1>8, <1>9, <1>10, <1>11, <1>12, <1>13, <1>14, <1>15, <1>16, <1>17, <1>18, <1>19, <1>20, <1>21, <1>22, <1>23, <1>24, <1>25 DEF Next, Run, Select

\* Reservations keep the budgets, whatever is answered and selected.
LEMMA BudgetStep ==
    ASSUME TypeOK, WithinBudget, Staged, [Next]_vars
    PROVE  WithinBudget' /\ Staged'
<1>1. CASE HeaderArrives
  BY <1>1, BoundsAssumption DEF TypeOK, WithinBudget, Staged, Headers, HeaderArrives, vars, queueVars, batchVars, blobVars, selectVars
<1>2. CASE TreeArrives
  <2>1. Smaller(MaxFiles, Len(tree.order)) \in 0 .. Len(tree.order)
    BY TreeFacts, BoundsAssumption DEF Smaller
  <2>2. Len(rest') = Smaller(MaxFiles, Len(tree.order))
    BY <1>2, <2>1, TreeFacts, SubSeqElements DEF TreeArrives
  <2>3. Smaller(MaxFiles, Len(tree.order)) <= MaxFiles /\ MaxFiles \in Nat
    BY TreeFacts, BoundsAssumption DEF Smaller
  <2>4. taken = 0 /\ additions = <<>>
    BY <1>2 DEF TreeArrives, WithinBudget, Staged, Headers
  <2>5. taken' = 0 /\ Len(additions') = 0
    BY <1>2, <2>4 DEF TreeArrives, vars, queueVars, batchVars, blobVars, selectVars
  <2>6. taken' + Len(rest') + Len(additions') <= MaxFiles
    BY <2>1, <2>2, <2>3, <2>5, TreeFacts
  <2> QED
    BY <1>2, <2>6 DEF TypeOK, WithinBudget, Staged, Headers, TreeArrives, vars, queueVars, batchVars, blobVars, selectVars
<1>3. CASE StartBatch
  <2>1. Cardinality(pending') = 0
    BY <1>3, FS_EmptySet DEF StartBatch
  <2> QED
    BY <1>3, <2>1, BoundsAssumption DEF TypeOK, WithinBudget, Staged, Headers, StartBatch, vars, queueVars, batchVars, blobVars, selectVars
<1>4. CASE LeaveLimited
  <2>1. Len(Tail(rest)) = Len(rest) - 1 /\ Len(rest) \in Nat
    BY <1>4, TailElements DEF TypeOK, LeaveLimited, Leave, Filling
  <2>2. Len(additions) \in Nat /\ MaxFiles \in Nat /\ taken \in Nat
    BY BoundsAssumption DEF TypeOK
  <2>3. taken' = taken + 1 /\ rest' = Tail(rest) /\ additions' = additions
    BY <1>4 DEF LeaveLimited, Leave, Filling, selectVars
  <2>4. taken + Len(rest) + Len(additions) <= MaxFiles
    BY DEF WithinBudget
  <2>5. Len(rest') = Len(rest) - 1 /\ Len(additions') = Len(additions) /\ taken' = taken + 1
    BY <2>1, <2>3
  <2>6. taken' + Len(rest') + Len(additions') <= MaxFiles
    BY <2>1, <2>2, <2>4, <2>5
  <2> QED
    BY <1>4, <2>6 DEF WithinBudget, Staged, Headers, LeaveLimited, Leave, Filling, vars, queueVars, batchVars, blobVars, selectVars
<1>5. CASE LeaveOversized
  <2>1. Len(Tail(rest)) = Len(rest) - 1 /\ Len(rest) \in Nat
    BY <1>5, TailElements DEF TypeOK, LeaveOversized, Leave, Filling
  <2>2. Len(additions) \in Nat /\ MaxFiles \in Nat /\ taken \in Nat
    BY BoundsAssumption DEF TypeOK
  <2>3. taken' = taken + 1 /\ rest' = Tail(rest) /\ additions' = additions
    BY <1>5 DEF LeaveOversized, Leave, Filling, selectVars
  <2>4. taken + Len(rest) + Len(additions) <= MaxFiles
    BY DEF WithinBudget
  <2>5. Len(rest') = Len(rest) - 1 /\ Len(additions') = Len(additions) /\ taken' = taken + 1
    BY <2>1, <2>3
  <2>6. taken' + Len(rest') + Len(additions') <= MaxFiles
    BY <2>1, <2>2, <2>4, <2>5
  <2> QED
    BY <1>5, <2>6 DEF WithinBudget, Staged, Headers, LeaveOversized, Leave, Filling, vars, queueVars, batchVars, blobVars, selectVars
<1>6. CASE Reserve
  <2>1. Head(rest) \in Path /\ Len(Tail(rest)) = Len(rest) - 1 /\ Len(rest) \in Nat
    BY <1>6, TailElements DEF TypeOK, Reserve, Filling
  <2>2. requests + Cardinality(pending') <= MaxRequests
    <3>1. CASE NeedsFetch(Head(rest))
      <4>1. tree.sha[Head(rest)] \notin pending
        BY <3>1 DEF NeedsFetch
      <4>2. pending' = pending \union {tree.sha[Head(rest)]}
        BY <1>6, <3>1 DEF Reserve
      <4>3. Cardinality(pending') = Cardinality(pending) + 1 /\ Cardinality(pending) \in Nat
        BY <4>1, <4>2, FS_AddElement, FS_CardinalityType DEF TypeOK
      <4>4. ~(requests + Cardinality(pending) >= MaxRequests)
        BY <1>6, <3>1 DEF Reserve, OutOfRequests
      <4> QED
        BY <4>3, <4>4, BoundsAssumption DEF TypeOK
    <3>2. CASE ~NeedsFetch(Head(rest))
      BY <1>6, <3>2 DEF Reserve, Filling, WithinBudget
    <3> QED
      BY <3>1, <3>2
  <2>3. Len(additions) \in Nat /\ MaxFiles \in Nat /\ taken \in Nat
    BY BoundsAssumption DEF TypeOK
  <2>4. taken' = taken + 1 /\ rest' = Tail(rest) /\ additions' = additions
    BY <1>6 DEF Reserve, selectVars
  <2>5. taken + Len(rest) + Len(additions) <= MaxFiles
    BY DEF WithinBudget
  <2>6. Len(rest') = Len(rest) - 1 /\ Len(additions') = Len(additions) /\ taken' = taken + 1
    BY <2>1, <2>4
  <2>7. taken' + Len(rest') + Len(additions') <= MaxFiles
    BY <2>1, <2>3, <2>5, <2>6
  <2> QED
    BY <1>6, <2>2, <2>7 DEF WithinBudget, Staged, Headers, Reserve, Filling, vars, queueVars, batchVars, blobVars, selectVars
<1>7. CASE Dispatch
  <2>1. Cardinality(pending) \in Nat
    BY FS_CardinalityType DEF TypeOK
  <2> QED
    BY <1>7, <2>1 DEF TypeOK, WithinBudget, Staged, Headers, Dispatch, vars, queueVars, batchVars, blobVars, selectVars
<1>8. CASE RetainFile
  <2>1. Head(batch) \in Path
    BY <1>8, TailElements DEF TypeOK, RetainFile, Retaining
  <2>2. totalBytes' <= MaxTotalFileBytes
    BY <1>8, <2>1, Sizes DEF RetainFile
  <2> QED
    BY <1>8, <2>2 DEF TypeOK, WithinBudget, Staged, Headers, RetainFile, Retaining, vars, queueVars, batchVars, blobVars, selectVars
<1>9. CASE SpliceAdditions
  <2>1. Len(rest') = Len(additions) + Len(rest) /\ Len(additions') = 0
    BY <1>9, ConcatElements DEF TypeOK, SpliceAdditions
  <2>2. Len(rest) \in Nat /\ Len(additions) \in Nat
    BY DEF TypeOK
  <2>3. taken' + Len(rest') + Len(additions') <= MaxFiles
    BY <1>9, <2>1, <2>2, BoundsAssumption DEF TypeOK, WithinBudget, SpliceAdditions
  <2> QED
    BY <1>9, <2>3 DEF TypeOK, WithinBudget, Staged, Headers, SpliceAdditions, vars, queueVars, batchVars, blobVars, selectVars
<1>10. CASE \E p \in Path : MoveForward(p)
  <2>1. PICK p \in Path : MoveForward(p)
    BY <1>10
  <2>2. Len(rest') = Len(rest) - 1 /\ Len(additions') = Len(additions) + 1
    BY <2>1, WithoutElements, AppendElements DEF TypeOK, MoveForward
  <2>3. Len(rest) \in Nat /\ Len(additions) \in Nat
    BY DEF TypeOK
  <2>4. taken' + Len(rest') + Len(additions') <= MaxFiles
    BY <2>1, <2>2, <2>3, BoundsAssumption DEF TypeOK, WithinBudget, MoveForward, Asks
  <2> QED
    BY <2>1, <2>4 DEF TypeOK, WithinBudget, Staged, Headers, MoveForward, Asks, vars, queueVars, batchVars, blobVars, selectVars
<1>11. CASE \E p \in Path : Admit(p)
  <2>1. PICK p \in Path : Admit(p)
    BY <1>11
  <2>2. Len(additions') = Len(additions) + 1
    BY <2>1, AppendElements DEF TypeOK, Admit
  <2>3. Len(rest) \in Nat /\ Len(additions) \in Nat
    BY DEF TypeOK
  <2>4. taken' + Len(rest') + Len(additions') <= MaxFiles
    BY <2>1, <2>2, <2>3, BoundsAssumption DEF TypeOK, WithinBudget, Admit, AtLimit, Asks
  <2> QED
    BY <2>1, <2>4 DEF TypeOK, WithinBudget, Staged, Headers, Admit, Asks, vars, queueVars, batchVars, blobVars, selectVars
<1>12. CASE \E p \in Path : Displace(p)
  <2>1. PICK p \in Path : Displace(p)
    BY <1>12
  <2>2. Len(rest') = Len(rest) - 1 /\ Len(additions') = Len(additions) + 1
    BY <2>1, WithoutElements, AppendElements DEF TypeOK, Displace
  <2>3. Len(rest) \in Nat /\ Len(additions) \in Nat
    BY DEF TypeOK
  <2>4. taken' + Len(rest') + Len(additions') <= MaxFiles
    BY <2>1, <2>2, <2>3, BoundsAssumption DEF TypeOK, WithinBudget, Displace, Asks
  <2> QED
    BY <2>1, <2>4 DEF TypeOK, WithinBudget, Staged, Headers, Displace, Asks, vars, queueVars, batchVars, blobVars, selectVars
<1>13. CASE Abort
  BY <1>13 DEF TypeOK, WithinBudget, Staged, Headers, Abort, vars, queueVars, batchVars, blobVars, selectVars
<1>14. CASE Interrupted
  BY <1>14 DEF TypeOK, WithinBudget, Staged, Headers, Interrupted, vars, queueVars, batchVars, blobVars, selectVars
<1>15. CASE HeaderFails
  BY <1>15 DEF TypeOK, WithinBudget, Staged, Headers, HeaderFails, vars, queueVars, batchVars, blobVars, selectVars
<1>16. CASE HeaderDenied
  BY <1>16 DEF TypeOK, WithinBudget, Staged, Headers, HeaderDenied, vars, queueVars, batchVars, blobVars, selectVars
<1>17. CASE \E s \in Sha, a \in Answer : BlobAnswers(s, a)
  BY <1>17 DEF TypeOK, WithinBudget, Staged, Headers, BlobAnswers, vars, queueVars, batchVars, blobVars, selectVars
<1>18. CASE BatchAnswered
  BY <1>18 DEF TypeOK, WithinBudget, Staged, Headers, BatchAnswered, vars, queueVars, batchVars, blobVars, selectVars
<1>19. CASE SkipFile
  BY <1>19 DEF TypeOK, WithinBudget, Staged, Headers, SkipFile, Retaining, vars, queueVars, batchVars, blobVars, selectVars
<1>20. CASE FailFile
  BY <1>20 DEF TypeOK, WithinBudget, Staged, Headers, FailFile, Retaining, vars, queueVars, batchVars, blobVars, selectVars
<1>21. CASE FileDenied
  BY <1>21 DEF TypeOK, WithinBudget, Staged, Headers, FileDenied, Retaining, vars, queueVars, batchVars, blobVars, selectVars
<1>22. CASE BatchRetained
  BY <1>22 DEF TypeOK, WithinBudget, Staged, Headers, BatchRetained, vars, queueVars, batchVars, blobVars, selectVars
<1>23. CASE Publish
  BY <1>23 DEF TypeOK, WithinBudget, Staged, Headers, Publish, vars, queueVars, batchVars, blobVars, selectVars
<1>24. CASE \E p \in Path : Refuse(p)
  BY <1>24 DEF TypeOK, WithinBudget, Staged, Headers, Refuse, Asks, vars, queueVars, batchVars, blobVars, selectVars
<1>25. CASE UNCHANGED vars
  BY <1>25 DEF TypeOK, WithinBudget, Staged, Headers, vars, queueVars, batchVars, blobVars, selectVars
<1> QED
  BY <1>1, <1>2, <1>3, <1>4, <1>5, <1>6, <1>7, <1>8, <1>9, <1>10, <1>11, <1>12, <1>13, <1>14, <1>15, <1>16, <1>17, <1>18, <1>19, <1>20, <1>21, <1>22, <1>23, <1>24, <1>25 DEF Next, Run, Select

\* Every entry of a batch keeps its blob, its verdict or its request.
LEMMA BackedStep ==
    ASSUME TypeOK, TypeOK', Staged, BatchBacked, [Next]_vars
    PROVE  BatchBacked'
<1>1. CASE StartBatch
  <2>1. Elements(batch') = {}
    BY <1>1 DEF StartBatch, Elements
  <2> QED
    BY <1>1, <2>1 DEF BatchBacked, StartBatch
<1>2. CASE Reserve
  <2>1. PICK h \in Path : h = Head(rest)
    BY <1>2, TailElements DEF TypeOK, Reserve, Filling
  <2>2. Elements(batch') = Elements(batch) \union {h}
    BY <1>2, <2>1, AppendElements DEF TypeOK, Reserve
  <2>3. \A p \in Elements(batch) : Backed(p)'
    BY <1>2 DEF BatchBacked, Backed, Reserve, Filling, vars, queueVars, batchVars, blobVars, selectVars
  <2>4. tree.sha[h] \in cached \/ verdicts[tree.sha[h]] # "none" \/ tree.sha[h] \in pending'
    BY <1>2, <2>1 DEF NeedsFetch, Reserve
  <2>5. phase' = "filling" /\ UNCHANGED <<tree, cached, verdicts>>
    BY <1>2 DEF Reserve, Filling, blobVars
  <2>6. Backed(h)'
    BY <2>4, <2>5 DEF Backed
  <2> QED
    BY <2>2, <2>3, <2>5, <2>6 DEF BatchBacked
<1>3. CASE Dispatch
  <2>1. \A p \in Elements(batch) : p \in Path
    BY DEF TypeOK, Elements
  <2>2. \A p \in Elements(batch) : tree.sha[p] \in Sha
    BY <2>1, TreeFacts
  <2>3. \A s \in pending : s \in Sha /\ answers'[s] # "none"
    BY <1>3 DEF Dispatch, TypeOK
  <2>4. \A p \in Elements(batch) : Backed(p)'
    BY <1>3, <2>2, <2>3 DEF BatchBacked, Backed, Dispatch, vars, queueVars, batchVars, blobVars, selectVars
  <2> QED
    BY <1>3, <2>4 DEF BatchBacked, Dispatch, vars, queueVars, batchVars, blobVars, selectVars
<1>4. CASE \E s \in Sha, a \in Answer : BlobAnswers(s, a)
  <2>1. PICK s \in Sha, a \in Answer : BlobAnswers(s, a)
    BY <1>4
  <2>2. a # "none"
    BY DEF Answer, Failure
  <2>3. \A t \in Sha : answers[t] # "none" => answers'[t] # "none"
    BY <2>1, <2>2 DEF BlobAnswers, TypeOK
  <2>4. \A p \in Elements(batch) : p \in Path
    BY DEF TypeOK, Elements
  <2>5. \A p \in Elements(batch) : tree.sha[p] \in Sha
    BY <2>4, TreeFacts
  <2>6. \A p \in Elements(batch) : Backed(p)'
    BY <2>1, <2>3, <2>5 DEF BatchBacked, Backed, BlobAnswers, vars, queueVars, batchVars, blobVars, selectVars
  <2> QED
    BY <2>1, <2>6 DEF BatchBacked, BlobAnswers, vars, queueVars, batchVars, blobVars, selectVars
<1>5. CASE BatchAnswered
  BY <1>5 DEF BatchBacked, Backed, BatchAnswered, vars, queueVars, batchVars, blobVars, selectVars
<1>6. CASE RetainFile
  <2>1. Head(batch) \in Path /\ Elements(batch') \subseteq Elements(batch)
    BY <1>6, TailElements DEF TypeOK, RetainFile, Retaining
  <2>2. \A p \in Elements(batch) : p \in Path
    BY DEF TypeOK, Elements
  <2>3. \A p \in Elements(batch) : tree.sha[p] \in Sha
    BY <2>2, TreeFacts
  <2>4. \A s \in Sha : verdicts[s] # "none" => verdicts'[s] # "none"
    BY <1>6 DEF TypeOK, RetainFile, Retaining, Reason
  <2>5. \A p \in Elements(batch) : Backed(p)'
    BY <1>6, <2>3, <2>4 DEF BatchBacked, Backed, RetainFile, Retaining, vars, queueVars, batchVars, blobVars, selectVars
  <2> QED
    BY <1>6, <2>1, <2>5 DEF BatchBacked, RetainFile, Retaining, vars, queueVars, batchVars, blobVars, selectVars
<1>7. CASE SkipFile
  <2>1. Head(batch) \in Path /\ Elements(batch') \subseteq Elements(batch)
    BY <1>7, TailElements DEF TypeOK, SkipFile, Retaining
  <2>2. \A p \in Elements(batch) : p \in Path
    BY DEF TypeOK, Elements
  <2>3. \A p \in Elements(batch) : tree.sha[p] \in Sha
    BY <2>2, TreeFacts
  <2>4. \A s \in Sha : verdicts[s] # "none" => verdicts'[s] # "none"
    BY <1>7 DEF TypeOK, SkipFile, Retaining, Reason
  <2>5. \A p \in Elements(batch) : Backed(p)'
    BY <1>7, <2>3, <2>4 DEF BatchBacked, Backed, SkipFile, Retaining, vars, queueVars, batchVars, blobVars, selectVars
  <2> QED
    BY <1>7, <2>1, <2>5 DEF BatchBacked, SkipFile, Retaining, vars, queueVars, batchVars, blobVars, selectVars
<1>8. CASE FailFile
  <2>1. Head(batch) \in Path /\ Elements(batch') \subseteq Elements(batch)
    BY <1>8, TailElements DEF TypeOK, FailFile, Retaining
  <2>2. \A p \in Elements(batch) : p \in Path
    BY DEF TypeOK, Elements
  <2>3. \A p \in Elements(batch) : tree.sha[p] \in Sha
    BY <2>2, TreeFacts
  <2>4. \A s \in Sha : verdicts[s] # "none" => verdicts'[s] # "none"
    BY <1>8 DEF TypeOK, FailFile, Retaining, Reason
  <2>5. \A p \in Elements(batch) : Backed(p)'
    BY <1>8, <2>3, <2>4 DEF BatchBacked, Backed, FailFile, Retaining, vars, queueVars, batchVars, blobVars, selectVars
  <2> QED
    BY <1>8, <2>1, <2>5 DEF BatchBacked, FailFile, Retaining, vars, queueVars, batchVars, blobVars, selectVars
<1>9. CASE Abort
  BY <1>9 DEF BatchBacked, Backed, Staged, Headers, Abort, vars, queueVars, batchVars, blobVars, selectVars
<1>10. CASE Interrupted
  BY <1>10 DEF BatchBacked, Backed, Staged, Headers, Interrupted, vars, queueVars, batchVars, blobVars, selectVars
<1>11. CASE HeaderFails
  BY <1>11 DEF BatchBacked, Backed, Staged, Headers, HeaderFails, vars, queueVars, batchVars, blobVars, selectVars
<1>12. CASE HeaderDenied
  BY <1>12 DEF BatchBacked, Backed, Staged, Headers, HeaderDenied, vars, queueVars, batchVars, blobVars, selectVars
<1>13. CASE HeaderArrives
  BY <1>13 DEF BatchBacked, Backed, Staged, Headers, HeaderArrives, vars, queueVars, batchVars, blobVars, selectVars
<1>14. CASE TreeArrives
  BY <1>14 DEF BatchBacked, Backed, Staged, Headers, TreeArrives, vars, queueVars, batchVars, blobVars, selectVars
<1>15. CASE LeaveLimited
  BY <1>15 DEF BatchBacked, Backed, Staged, Headers, LeaveLimited, Leave, Filling, vars, queueVars, batchVars, blobVars, selectVars
<1>16. CASE LeaveOversized
  BY <1>16 DEF BatchBacked, Backed, Staged, Headers, LeaveOversized, Leave, Filling, vars, queueVars, batchVars, blobVars, selectVars
<1>17. CASE FileDenied
  BY <1>17 DEF BatchBacked, Backed, Staged, Headers, FileDenied, Retaining, vars, queueVars, batchVars, blobVars, selectVars
<1>18. CASE BatchRetained
  BY <1>18 DEF BatchBacked, Backed, Staged, Headers, BatchRetained, vars, queueVars, batchVars, blobVars, selectVars
<1>19. CASE SpliceAdditions
  BY <1>19 DEF BatchBacked, Backed, Staged, Headers, SpliceAdditions, vars, queueVars, batchVars, blobVars, selectVars
<1>20. CASE Publish
  BY <1>20 DEF BatchBacked, Backed, Staged, Headers, Publish, vars, queueVars, batchVars, blobVars, selectVars
<1>21. CASE \E p \in Path : MoveForward(p)
  BY <1>21 DEF BatchBacked, Backed, Staged, Headers, MoveForward, Asks, vars, queueVars, batchVars, blobVars, selectVars
<1>22. CASE \E p \in Path : Admit(p)
  BY <1>22 DEF BatchBacked, Backed, Staged, Headers, Admit, Asks, vars, queueVars, batchVars, blobVars, selectVars
<1>23. CASE \E p \in Path : Displace(p)
  BY <1>23 DEF BatchBacked, Backed, Staged, Headers, Displace, Asks, vars, queueVars, batchVars, blobVars, selectVars
<1>24. CASE \E p \in Path : Refuse(p)
  BY <1>24 DEF BatchBacked, Backed, Staged, Headers, Refuse, Asks, vars, queueVars, batchVars, blobVars, selectVars
<1>25. CASE UNCHANGED vars
  BY <1>25 DEF BatchBacked, Backed, Staged, Headers, vars, queueVars, batchVars, blobVars, selectVars
<1> QED
  BY <1>1, <1>2, <1>3, <1>4, <1>5, <1>6, <1>7, <1>8, <1>9, <1>10, <1>11, <1>12, <1>13, <1>14, <1>15, <1>16, <1>17, <1>18, <1>19, <1>20, <1>21, <1>22, <1>23, <1>24, <1>25 DEF Next, Run, Select

\* No step loses a queued path: it stays in hand, is retained, or is named in a list.
LEMMA AccountStep ==
    ASSUME TypeOK, TypeOK', Staged, QueuedAccounted, [Next]_vars
    PROVE  QueuedAccounted'
<1>1. CASE TreeArrives
  BY <1>1 DEF QueuedAccounted, InHand, TreeArrives
<1>2. CASE StartBatch
  <2>1. Elements(batch) = {}
    BY <1>2 DEF StartBatch, Staged, Elements
  <2> QED
    BY <1>2, <2>1 DEF QueuedAccounted, InHand, StartBatch, vars, queueVars, batchVars, blobVars, selectVars
<1>3. CASE LeaveLimited
  <2>1. PICK h \in Path : h = Head(rest)
    BY <1>3, TailElements DEF TypeOK, LeaveLimited, Leave, Filling
  <2>2. Elements(rest) \subseteq Elements(rest') \union {h}
    BY <1>3, <2>1, TailElements DEF TypeOK, LeaveLimited, Leave, Filling
  <2>3. skipped'[h] # {} /\ \A p \in Path : skipped[p] # {} => skipped'[p] # {}
    BY <1>3, <2>1 DEF TypeOK, LeaveLimited, Leave, Filling
  <2>4. queued \subseteq Path
    BY DEF TypeOK
  <2> QED
    BY <1>3, <2>2, <2>3, <2>4 DEF QueuedAccounted, InHand, LeaveLimited, Leave, Filling, vars, queueVars, batchVars, blobVars, selectVars
<1>4. CASE LeaveOversized
  <2>1. PICK h \in Path : h = Head(rest)
    BY <1>4, TailElements DEF TypeOK, LeaveOversized, Leave, Filling
  <2>2. Elements(rest) \subseteq Elements(rest') \union {h}
    BY <1>4, <2>1, TailElements DEF TypeOK, LeaveOversized, Leave, Filling
  <2>3. skipped'[h] # {} /\ \A p \in Path : skipped[p] # {} => skipped'[p] # {}
    BY <1>4, <2>1 DEF TypeOK, LeaveOversized, Leave, Filling
  <2>4. queued \subseteq Path
    BY DEF TypeOK
  <2> QED
    BY <1>4, <2>2, <2>3, <2>4 DEF QueuedAccounted, InHand, LeaveOversized, Leave, Filling, vars, queueVars, batchVars, blobVars, selectVars
<1>5. CASE Reserve
  <2>1. PICK h \in Path : h = Head(rest)
    BY <1>5, TailElements DEF TypeOK, Reserve, Filling
  <2>2. Elements(rest) \subseteq Elements(rest') \union {h}
    BY <1>5, <2>1, TailElements DEF TypeOK, Reserve, Filling
  <2>3. Elements(batch') = Elements(batch) \union {h}
    BY <1>5, <2>1, AppendElements DEF TypeOK, Reserve
  <2> QED
    BY <1>5, <2>2, <2>3 DEF QueuedAccounted, InHand, Reserve, vars, queueVars, batchVars, blobVars, selectVars
<1>6. CASE RetainFile
  <2>1. PICK h \in Path : h = Head(batch)
    BY <1>6, TailElements DEF TypeOK, RetainFile, Retaining
  <2>2. Elements(batch) \subseteq Elements(batch') \union {h}
    BY <1>6, <2>1, TailElements DEF TypeOK, RetainFile, Retaining
  <2>3. h \in files'
    BY <1>6, <2>1 DEF TypeOK, RetainFile, Retaining
  <2>4. \A p \in Path : (p \in files => p \in files') /\ (skipped[p] # {} => skipped'[p] # {})
    BY <1>6 DEF TypeOK, RetainFile, Retaining, vars, queueVars, batchVars, blobVars, selectVars
  <2>5. queued \subseteq Path
    BY DEF TypeOK
  <2> QED
    BY <1>6, <2>2, <2>3, <2>4, <2>5 DEF QueuedAccounted, InHand, RetainFile, Retaining, vars, queueVars, batchVars, blobVars, selectVars
<1>7. CASE SkipFile
  <2>1. PICK h \in Path : h = Head(batch)
    BY <1>7, TailElements DEF TypeOK, SkipFile, Retaining
  <2>2. Elements(batch) \subseteq Elements(batch') \union {h}
    BY <1>7, <2>1, TailElements DEF TypeOK, SkipFile, Retaining
  <2>3. skipped'[h] # {}
    BY <1>7, <2>1 DEF TypeOK, SkipFile, Retaining
  <2>4. \A p \in Path : (p \in files => p \in files') /\ (skipped[p] # {} => skipped'[p] # {})
    BY <1>7 DEF TypeOK, SkipFile, Retaining, vars, queueVars, batchVars, blobVars, selectVars
  <2>5. queued \subseteq Path
    BY DEF TypeOK
  <2> QED
    BY <1>7, <2>2, <2>3, <2>4, <2>5 DEF QueuedAccounted, InHand, SkipFile, Retaining, vars, queueVars, batchVars, blobVars, selectVars
<1>8. CASE FailFile
  <2>1. PICK h \in Path : h = Head(batch)
    BY <1>8, TailElements DEF TypeOK, FailFile, Retaining
  <2>2. Elements(batch) \subseteq Elements(batch') \union {h}
    BY <1>8, <2>1, TailElements DEF TypeOK, FailFile, Retaining
  <2>3. skipped'[h] # {}
    BY <1>8, <2>1 DEF TypeOK, FailFile, Retaining
  <2>4. \A p \in Path : (p \in files => p \in files') /\ (skipped[p] # {} => skipped'[p] # {})
    BY <1>8 DEF TypeOK, FailFile, Retaining, vars, queueVars, batchVars, blobVars, selectVars
  <2>5. queued \subseteq Path
    BY DEF TypeOK
  <2> QED
    BY <1>8, <2>2, <2>3, <2>4, <2>5 DEF QueuedAccounted, InHand, FailFile, Retaining, vars, queueVars, batchVars, blobVars, selectVars
<1>9. CASE SpliceAdditions
  <2>1. Elements(additions) \union Elements(rest) \subseteq Elements(rest')
    BY <1>9, ConcatElements DEF TypeOK, SpliceAdditions
  <2> QED
    BY <1>9, <2>1 DEF QueuedAccounted, InHand, SpliceAdditions, vars, queueVars, batchVars, blobVars, selectVars
<1>10. CASE \E p \in Path : MoveForward(p)
  <2>1. PICK p \in Path : MoveForward(p)
    BY <1>10
  <2>2. Elements(rest) \subseteq Elements(rest') \union {p}
    BY <2>1, WithoutElements DEF TypeOK, MoveForward
  <2>3. Elements(additions') = Elements(additions) \union {p}
    BY <2>1, AppendElements DEF TypeOK, MoveForward
  <2> QED
    BY <2>1, <2>2, <2>3 DEF QueuedAccounted, InHand, MoveForward, Asks, vars, queueVars, batchVars, blobVars, selectVars
<1>11. CASE \E p \in Path : Admit(p)
  <2>1. PICK p \in Path : Admit(p)
    BY <1>11
  <2>2. Elements(additions') = Elements(additions) \union {p}
    BY <2>1, AppendElements DEF TypeOK, Admit
  <2> QED
    BY <2>1, <2>2 DEF QueuedAccounted, InHand, Admit, Asks, vars, queueVars, batchVars, blobVars, selectVars
<1>12. CASE \E p \in Path : Displace(p)
  <2>1. PICK p \in Path : Displace(p)
    BY <1>12
  <2>2. PICK i \in 1 .. Len(rest) :
            /\ rest' = Without(rest, i)
            /\ skipped' = [skipped EXCEPT ![rest[i]] = @ \union {"limited"}]
            /\ queued' = (queued \ {rest[i]}) \union {p}
    BY <2>1 DEF Displace
  <2>3. rest[i] \in Path /\ Elements(rest) \subseteq Elements(rest') \union {rest[i]}
    BY <2>2, WithoutElements DEF TypeOK
  <2>4. Elements(additions') = Elements(additions) \union {p}
    BY <2>1, AppendElements DEF TypeOK, Displace
  <2>5. \A q \in Path : skipped[q] # {} => skipped'[q] # {}
    BY <2>2, <2>3 DEF TypeOK
  <2>6. queued \subseteq Path
    BY DEF TypeOK
  <2> QED
    BY <2>1, <2>2, <2>3, <2>4, <2>5, <2>6 DEF QueuedAccounted, InHand, Displace, Asks, vars, queueVars, batchVars, blobVars, selectVars
<1>13. CASE \E p \in Path : Refuse(p)
  <2>1. PICK p \in Path : Refuse(p)
    BY <1>13
  <2>2. \A q \in Path : skipped[q] # {} => skipped'[q] # {}
    BY <2>1 DEF TypeOK, Refuse
  <2>3. queued \subseteq Path
    BY DEF TypeOK
  <2> QED
    BY <2>1, <2>2, <2>3 DEF QueuedAccounted, InHand, Refuse, Asks, vars, queueVars, batchVars, blobVars, selectVars
<1>14. CASE Abort
  BY <1>14 DEF QueuedAccounted, InHand, Abort, vars, queueVars, batchVars, blobVars, selectVars
<1>15. CASE Interrupted
  BY <1>15 DEF QueuedAccounted, InHand, Interrupted, vars, queueVars, batchVars, blobVars, selectVars
<1>16. CASE HeaderFails
  BY <1>16 DEF QueuedAccounted, InHand, HeaderFails, vars, queueVars, batchVars, blobVars, selectVars
<1>17. CASE HeaderDenied
  BY <1>17 DEF QueuedAccounted, InHand, HeaderDenied, vars, queueVars, batchVars, blobVars, selectVars
<1>18. CASE HeaderArrives
  BY <1>18 DEF QueuedAccounted, InHand, HeaderArrives, vars, queueVars, batchVars, blobVars, selectVars
<1>19. CASE Dispatch
  BY <1>19 DEF QueuedAccounted, InHand, Dispatch, vars, queueVars, batchVars, blobVars, selectVars
<1>20. CASE \E s \in Sha, a \in Answer : BlobAnswers(s, a)
  BY <1>20 DEF QueuedAccounted, InHand, BlobAnswers, vars, queueVars, batchVars, blobVars, selectVars
<1>21. CASE BatchAnswered
  BY <1>21 DEF QueuedAccounted, InHand, BatchAnswered, vars, queueVars, batchVars, blobVars, selectVars
<1>22. CASE FileDenied
  BY <1>22 DEF QueuedAccounted, InHand, FileDenied, Retaining, vars, queueVars, batchVars, blobVars, selectVars
<1>23. CASE BatchRetained
  BY <1>23 DEF QueuedAccounted, InHand, BatchRetained, vars, queueVars, batchVars, blobVars, selectVars
<1>24. CASE Publish
  BY <1>24 DEF QueuedAccounted, InHand, Publish, vars, queueVars, batchVars, blobVars, selectVars
<1>25. CASE UNCHANGED vars
  BY <1>25 DEF QueuedAccounted, InHand, vars, queueVars, batchVars, blobVars, selectVars
<1> QED
  BY <1>1, <1>2, <1>3, <1>4, <1>5, <1>6, <1>7, <1>8, <1>9, <1>10, <1>11, <1>12, <1>13, <1>14, <1>15, <1>16, <1>17, <1>18, <1>19, <1>20, <1>21, <1>22, <1>23, <1>24, <1>25 DEF Next, Run, Select

\* No step loses one of the first MaxFiles candidates.
LEMMA FirstStep ==
    ASSUME TypeOK, FirstAccounted, [Next]_vars
    PROVE  FirstAccounted'
<1>1. CASE TreeArrives
  <2>1. Smaller(MaxFiles, Len(tree.order)) \in 0 .. Len(tree.order)
    BY TreeFacts, BoundsAssumption DEF Smaller
  <2>2. \A i \in 1 .. Smaller(MaxFiles, Len(tree.order)) : tree.order[i] \in queued'
    BY <1>1, <2>1, TreeFacts, SubSeqElements DEF TreeArrives
  <2> QED
    BY <1>1, <2>2 DEF FirstAccounted, TreeArrives
<1>2. CASE LeaveLimited
  <2>1. PICK h \in Path : h = Head(rest)
    BY <1>2, TailElements DEF TypeOK, LeaveLimited, Leave, Filling
  <2>2. \A p \in Path : skipped[p] # {} => skipped'[p] # {}
    BY <1>2, <2>1 DEF TypeOK, LeaveLimited, Leave, Filling
  <2>3. \A i \in 1 .. Smaller(MaxFiles, Len(tree.order)) : tree.order[i] \in Path
    BY TreeFacts, BoundsAssumption DEF Smaller
  <2> QED
    BY <1>2, <2>2, <2>3 DEF FirstAccounted, Headers, LeaveLimited, Leave, Filling, vars, queueVars, batchVars, blobVars, selectVars
<1>3. CASE LeaveOversized
  <2>1. PICK h \in Path : h = Head(rest)
    BY <1>3, TailElements DEF TypeOK, LeaveOversized, Leave, Filling
  <2>2. \A p \in Path : skipped[p] # {} => skipped'[p] # {}
    BY <1>3, <2>1 DEF TypeOK, LeaveOversized, Leave, Filling
  <2>3. \A i \in 1 .. Smaller(MaxFiles, Len(tree.order)) : tree.order[i] \in Path
    BY TreeFacts, BoundsAssumption DEF Smaller
  <2> QED
    BY <1>3, <2>2, <2>3 DEF FirstAccounted, Headers, LeaveOversized, Leave, Filling, vars, queueVars, batchVars, blobVars, selectVars
<1>4. CASE SkipFile
  <2>1. PICK h \in Path : h = Head(batch)
    BY <1>4, TailElements DEF TypeOK, SkipFile, Retaining
  <2>2. \A p \in Path : skipped[p] # {} => skipped'[p] # {}
    BY <1>4, <2>1 DEF TypeOK, SkipFile, Retaining
  <2>3. \A i \in 1 .. Smaller(MaxFiles, Len(tree.order)) : tree.order[i] \in Path
    BY TreeFacts, BoundsAssumption DEF Smaller
  <2> QED
    BY <1>4, <2>2, <2>3 DEF FirstAccounted, Headers, SkipFile, Retaining, vars, queueVars, batchVars, blobVars, selectVars
<1>5. CASE FailFile
  <2>1. PICK h \in Path : h = Head(batch)
    BY <1>5, TailElements DEF TypeOK, FailFile, Retaining
  <2>2. \A p \in Path : skipped[p] # {} => skipped'[p] # {}
    BY <1>5, <2>1 DEF TypeOK, FailFile, Retaining
  <2>3. \A i \in 1 .. Smaller(MaxFiles, Len(tree.order)) : tree.order[i] \in Path
    BY TreeFacts, BoundsAssumption DEF Smaller
  <2> QED
    BY <1>5, <2>2, <2>3 DEF FirstAccounted, Headers, FailFile, Retaining, vars, queueVars, batchVars, blobVars, selectVars
<1>6. CASE \E p \in Path : Displace(p)
  <2>1. PICK p \in Path : Displace(p)
    BY <1>6
  <2>2. PICK i \in 1 .. Len(rest) :
            /\ rest' = Without(rest, i)
            /\ skipped' = [skipped EXCEPT ![rest[i]] = @ \union {"limited"}]
            /\ queued' = (queued \ {rest[i]}) \union {p}
    BY <2>1 DEF Displace
  <2>3. rest[i] \in Path
    BY <2>2 DEF TypeOK
  <2>4. skipped'[rest[i]] # {} /\ \A q \in Path : skipped[q] # {} => skipped'[q] # {}
    BY <2>2, <2>3 DEF TypeOK
  <2>5. \A q \in Path : q \in queued => skipped'[q] # {} \/ q \in queued'
    BY <2>2, <2>4
  <2>6. \A j \in 1 .. Smaller(MaxFiles, Len(tree.order)) : tree.order[j] \in Path
    BY TreeFacts, BoundsAssumption DEF Smaller
  <2> QED
    BY <2>1, <2>4, <2>5, <2>6 DEF FirstAccounted, Headers, Displace, Asks
<1>7. CASE \E p \in Path : Refuse(p)
  <2>1. PICK p \in Path : Refuse(p)
    BY <1>7
  <2>2. queued' = queued /\ \A q \in Path : skipped[q] # {} => skipped'[q] # {}
    BY <2>1 DEF TypeOK, Refuse
  <2>3. \A i \in 1 .. Smaller(MaxFiles, Len(tree.order)) : tree.order[i] \in Path
    BY TreeFacts, BoundsAssumption DEF Smaller
  <2> QED
    BY <2>1, <2>2, <2>3 DEF FirstAccounted, Headers, Refuse, Asks
<1>8. CASE Abort
  BY <1>8 DEF FirstAccounted, Headers, Abort, vars, queueVars, batchVars, blobVars, selectVars
<1>9. CASE Interrupted
  BY <1>9 DEF FirstAccounted, Headers, Interrupted, vars, queueVars, batchVars, blobVars, selectVars
<1>10. CASE HeaderFails
  BY <1>10 DEF FirstAccounted, Headers, HeaderFails, vars, queueVars, batchVars, blobVars, selectVars
<1>11. CASE HeaderDenied
  BY <1>11 DEF FirstAccounted, Headers, HeaderDenied, vars, queueVars, batchVars, blobVars, selectVars
<1>12. CASE HeaderArrives
  BY <1>12 DEF FirstAccounted, Headers, HeaderArrives, vars, queueVars, batchVars, blobVars, selectVars
<1>13. CASE StartBatch
  BY <1>13 DEF FirstAccounted, Headers, StartBatch, vars, queueVars, batchVars, blobVars, selectVars
<1>14. CASE Reserve
  BY <1>14 DEF FirstAccounted, Headers, Reserve, Filling, vars, queueVars, batchVars, blobVars, selectVars
<1>15. CASE Dispatch
  BY <1>15 DEF FirstAccounted, Headers, Dispatch, vars, queueVars, batchVars, blobVars, selectVars
<1>16. CASE \E s \in Sha, a \in Answer : BlobAnswers(s, a)
  BY <1>16 DEF FirstAccounted, Headers, BlobAnswers, vars, queueVars, batchVars, blobVars, selectVars
<1>17. CASE BatchAnswered
  BY <1>17 DEF FirstAccounted, Headers, BatchAnswered, vars, queueVars, batchVars, blobVars, selectVars
<1>18. CASE RetainFile
  BY <1>18 DEF FirstAccounted, Headers, RetainFile, Retaining, vars, queueVars, batchVars, blobVars, selectVars
<1>19. CASE FileDenied
  BY <1>19 DEF FirstAccounted, Headers, FileDenied, Retaining, vars, queueVars, batchVars, blobVars, selectVars
<1>20. CASE BatchRetained
  BY <1>20 DEF FirstAccounted, Headers, BatchRetained, vars, queueVars, batchVars, blobVars, selectVars
<1>21. CASE SpliceAdditions
  BY <1>21 DEF FirstAccounted, Headers, SpliceAdditions, vars, queueVars, batchVars, blobVars, selectVars
<1>22. CASE Publish
  BY <1>22 DEF FirstAccounted, Headers, Publish, vars, queueVars, batchVars, blobVars, selectVars
<1>23. CASE \E p \in Path : MoveForward(p)
  BY <1>23 DEF FirstAccounted, Headers, MoveForward, Asks, vars, queueVars, batchVars, blobVars, selectVars
<1>24. CASE \E p \in Path : Admit(p)
  BY <1>24 DEF FirstAccounted, Headers, Admit, Asks, vars, queueVars, batchVars, blobVars, selectVars
<1>25. CASE UNCHANGED vars
  BY <1>25 DEF FirstAccounted, Headers, vars, queueVars, batchVars, blobVars, selectVars
<1> QED
  BY <1>1, <1>2, <1>3, <1>4, <1>5, <1>6, <1>7, <1>8, <1>9, <1>10, <1>11, <1>12, <1>13, <1>14, <1>15, <1>16, <1>17, <1>18, <1>19, <1>20, <1>21, <1>22, <1>23, <1>24, <1>25 DEF Next, Run, Select

\* The coverage of a snapshot is that of its own state.
LEMMA CoverageStep ==
    ASSUME Staged, CoverageComputed, [Next]_vars
    PROVE  CoverageComputed'
<1>1. CASE Abort
  BY <1>1 DEF CoverageComputed, Partial, Evidence, Staged, Headers, Waiting, Filling, Abort, vars, queueVars, batchVars, blobVars, selectVars
<1>2. CASE Interrupted
  BY <1>2 DEF CoverageComputed, Partial, Evidence, Staged, Headers, Waiting, Filling, Interrupted, vars, queueVars, batchVars, blobVars, selectVars
<1>3. CASE HeaderFails
  BY <1>3 DEF CoverageComputed, Partial, Evidence, Staged, Headers, Waiting, Filling, HeaderFails, vars, queueVars, batchVars, blobVars, selectVars
<1>4. CASE HeaderDenied
  BY <1>4 DEF CoverageComputed, Partial, Evidence, Staged, Headers, Waiting, Filling, HeaderDenied, vars, queueVars, batchVars, blobVars, selectVars
<1>5. CASE HeaderArrives
  BY <1>5 DEF CoverageComputed, Partial, Evidence, Staged, Headers, Waiting, Filling, HeaderArrives, vars, queueVars, batchVars, blobVars, selectVars
<1>6. CASE TreeArrives
  BY <1>6 DEF CoverageComputed, Partial, Evidence, Staged, Headers, Waiting, Filling, TreeArrives, vars, queueVars, batchVars, blobVars, selectVars
<1>7. CASE StartBatch
  BY <1>7 DEF CoverageComputed, Partial, Evidence, Staged, Headers, Waiting, Filling, StartBatch, vars, queueVars, batchVars, blobVars, selectVars
<1>8. CASE LeaveLimited
  BY <1>8 DEF CoverageComputed, Partial, Evidence, Staged, Headers, Waiting, Filling, LeaveLimited, Leave, Filling, vars, queueVars, batchVars, blobVars, selectVars
<1>9. CASE LeaveOversized
  BY <1>9 DEF CoverageComputed, Partial, Evidence, Staged, Headers, Waiting, Filling, LeaveOversized, Leave, Filling, vars, queueVars, batchVars, blobVars, selectVars
<1>10. CASE Reserve
  BY <1>10 DEF CoverageComputed, Partial, Evidence, Staged, Headers, Waiting, Filling, Reserve, Filling, vars, queueVars, batchVars, blobVars, selectVars
<1>11. CASE Dispatch
  BY <1>11 DEF CoverageComputed, Partial, Evidence, Staged, Headers, Waiting, Filling, Dispatch, vars, queueVars, batchVars, blobVars, selectVars
<1>12. CASE \E s \in Sha, a \in Answer : BlobAnswers(s, a)
  BY <1>12 DEF CoverageComputed, Partial, Evidence, Staged, Headers, Waiting, Filling, BlobAnswers, vars, queueVars, batchVars, blobVars, selectVars
<1>13. CASE BatchAnswered
  BY <1>13 DEF CoverageComputed, Partial, Evidence, Staged, Headers, Waiting, Filling, BatchAnswered, vars, queueVars, batchVars, blobVars, selectVars
<1>14. CASE RetainFile
  BY <1>14 DEF CoverageComputed, Partial, Evidence, Staged, Headers, Waiting, Filling, RetainFile, Retaining, vars, queueVars, batchVars, blobVars, selectVars
<1>15. CASE SkipFile
  BY <1>15 DEF CoverageComputed, Partial, Evidence, Staged, Headers, Waiting, Filling, SkipFile, Retaining, vars, queueVars, batchVars, blobVars, selectVars
<1>16. CASE FailFile
  BY <1>16 DEF CoverageComputed, Partial, Evidence, Staged, Headers, Waiting, Filling, FailFile, Retaining, vars, queueVars, batchVars, blobVars, selectVars
<1>17. CASE FileDenied
  BY <1>17 DEF CoverageComputed, Partial, Evidence, Staged, Headers, Waiting, Filling, FileDenied, Retaining, vars, queueVars, batchVars, blobVars, selectVars
<1>18. CASE BatchRetained
  BY <1>18 DEF CoverageComputed, Partial, Evidence, Staged, Headers, Waiting, Filling, BatchRetained, vars, queueVars, batchVars, blobVars, selectVars
<1>19. CASE SpliceAdditions
  BY <1>19 DEF CoverageComputed, Partial, Evidence, Staged, Headers, Waiting, Filling, SpliceAdditions, vars, queueVars, batchVars, blobVars, selectVars
<1>20. CASE Publish
  BY <1>20 DEF CoverageComputed, Partial, Evidence, Staged, Headers, Waiting, Filling, Publish, vars, queueVars, batchVars, blobVars, selectVars
<1>21. CASE \E p \in Path : MoveForward(p)
  BY <1>21 DEF CoverageComputed, Partial, Evidence, Staged, Headers, Waiting, Filling, MoveForward, Asks, vars, queueVars, batchVars, blobVars, selectVars
<1>22. CASE \E p \in Path : Admit(p)
  BY <1>22 DEF CoverageComputed, Partial, Evidence, Staged, Headers, Waiting, Filling, Admit, Asks, vars, queueVars, batchVars, blobVars, selectVars
<1>23. CASE \E p \in Path : Displace(p)
  BY <1>23 DEF CoverageComputed, Partial, Evidence, Staged, Headers, Waiting, Filling, Displace, Asks, vars, queueVars, batchVars, blobVars, selectVars
<1>24. CASE \E p \in Path : Refuse(p)
  BY <1>24 DEF CoverageComputed, Partial, Evidence, Staged, Headers, Waiting, Filling, Refuse, Asks, vars, queueVars, batchVars, blobVars, selectVars
<1>25. CASE UNCHANGED vars
  BY <1>25 DEF CoverageComputed, Partial, Evidence, Staged, Headers, Waiting, Filling, vars, queueVars, batchVars, blobVars, selectVars
<1> QED
  BY <1>1, <1>2, <1>3, <1>4, <1>5, <1>6, <1>7, <1>8, <1>9, <1>10, <1>11, <1>12, <1>13, <1>14, <1>15, <1>16, <1>17, <1>18, <1>19, <1>20, <1>21, <1>22, <1>23, <1>24, <1>25 DEF Next, Run, Select

\* The inductive invariant holds in every reachable state, for every repository,
\* every bound and every selector.
THEOREM Invariant == Spec => []IInv
<1>1. IInv /\ [Next]_vars => IInv'
  <2> SUFFICES ASSUME IInv, [Next]_vars PROVE IInv'
    OBVIOUS
  <2>1. TypeOK'
    BY TypeStep DEF IInv
  <2>2. WithinBudget' /\ Staged'
    BY BudgetStep DEF IInv
  <2>3. BatchBacked'
    BY <2>1, BackedStep DEF IInv
  <2>4. QueuedAccounted'
    BY <2>1, AccountStep DEF IInv
  <2>5. FirstAccounted' /\ CoverageComputed'
    BY FirstStep, CoverageStep DEF IInv
  <2> QED
    BY <2>1, <2>2, <2>3, <2>4, <2>5 DEF IInv
<1> QED
  BY <1>1, InitIInv, PTL DEF Spec

\* A snapshot accounts for every candidate within the file limit and every path the
\* selector was granted.
LEMMA AccountedAtTheEnd == IInv => NothingLostSilently
<1> SUFFICES ASSUME IInv, phase = "snapshot"
             PROVE  /\ \A p \in queued : p \in files \/ skipped[p] # {}
                    /\ \A i \in 1 .. Smaller(MaxFiles, Len(tree.order)) :
                          tree.order[i] \in files \/ skipped[tree.order[i]] # {}
  BY DEF NothingLostSilently
<1>1. InHand = {}
  BY DEF IInv, Staged, InHand, Elements
<1>2. \A p \in queued : p \in files \/ skipped[p] # {}
  BY <1>1 DEF IInv, QueuedAccounted
<1>3. \A i \in 1 .. Smaller(MaxFiles, Len(tree.order)) :
          tree.order[i] \in queued \/ skipped[tree.order[i]] # {}
  BY DEF IInv, FirstAccounted, Headers
<1> QED
  BY <1>2, <1>3

\* In every reachable snapshot nothing was lost silently.
THEOREM NothingIsLost == Spec => []NothingLostSilently
BY AccountedAtTheEnd, Invariant, PTL

\* A coverage reported complete means that every manifest, configuration and source
\* of the tree was retained.
THEOREM CompleteCoverage == Spec => []CompleteMeansAll
<1>1. IInv => CompleteMeansAll
  <2> SUFFICES ASSUME IInv, coverage = "complete"
               PROVE  /\ ~tree.truncated
                      /\ \A p \in Path : tree.class[p] \notin Hidden
                      /\ \A p \in Path : Evidence(p) => p \in files
    BY DEF CompleteMeansAll
  <2>1. phase = "snapshot" /\ ~Partial
    BY DEF IInv, Staged, CoverageComputed
  <2>2. ~tree.truncated /\ \A p \in Path : tree.class[p] \notin Hidden
    BY <2>1 DEF Partial
  <2>3. rest = <<>> /\ additions = <<>>
    BY <2>1 DEF IInv, Staged
  <2>4. ~(taken + Len(rest) < Len(tree.order)) /\ taken + Len(rest) + Len(additions) <= MaxFiles
    BY <2>1 DEF Partial, IInv, WithinBudget
  <2>5. taken \in Nat /\ Len(tree.order) \in Nat /\ MaxFiles \in Nat
    BY TreeFacts, BoundsAssumption DEF IInv, TypeOK
  <2>6. Len(tree.order) <= MaxFiles
    BY <2>3, <2>4, <2>5
  <2>7. Smaller(MaxFiles, Len(tree.order)) = Len(tree.order)
    BY <2>5, <2>6 DEF Smaller
  <2>8. ASSUME NEW p \in Path, Evidence(p)
        PROVE  p \in files
    <3>1. p \in Elements(tree.order)
      BY <2>8, TreeFacts DEF IInv, Evidence, CandidatesOf, Candidate
    <3>2. PICK i \in 1 .. Len(tree.order) : tree.order[i] = p
      BY <3>1 DEF Elements
    <3>3. p \in files \/ skipped[p] # {}
      BY <2>1, <2>7, <3>2, AccountedAtTheEnd DEF NothingLostSilently
    <3>4. skipped[p] = {}
      BY <2>1, <2>8 DEF Partial
    <3> QED
      BY <3>3, <3>4
  <2> QED
    BY <2>2, <2>8
<1> QED
  BY <1>1, Invariant, PTL

(***************************************************************************)
(* Lost access.  A refused blob is still wanted by a file of the batch,    *)
(* and no bound can drop that file first, because the bytes of the whole   *)
(* batch are reserved.  The bytes still reserved from the i-th file on are *)
(* given as a function, so that no sum has to be computed.                 *)
(***************************************************************************)
InFlight == phase \in {"filling", "fetching", "retaining"}

\* ahead[i] is what the files of the batch from the i-th on have reserved.
ReservedBy(ahead) ==
    /\ ahead \in [1 .. Len(batch) + 1 -> Nat] /\ ahead[Len(batch) + 1] = 0
    /\ \A i \in 1 .. Len(batch) : ahead[i] = ahead[i + 1] + Reservation(batch[i])
    /\ totalBytes + ahead[1] <= MaxTotalFileBytes
    /\ phase = "filling" => ahead[1] = reserved

BatchFits ==
    /\ \A s \in cached : Content[s].size <= MaxFileBytes
    /\ InFlight =>
          /\ \A p \in Elements(batch) : Reservation(p) <= MaxFileBytes
          /\ \E ahead : ReservedBy(ahead)

\* A file of the batch needs an answer for blob s.
Wanted(s) ==
    /\ s \notin cached /\ verdicts[s] = "none"
    /\ \E p \in Elements(batch) : tree.sha[p] = s

RequestsWanted ==
    /\ phase \in {"filling", "fetching"} => \A s \in pending : Wanted(s)
    /\ phase = "fetching" => \A s \in Sha : answers[s] # "none" => s \in pending

RefusalSeen ==
    refused => \/ phase \in {"denied", "interrupted", "unavailable"}
               \/ /\ phase \in {"fetching", "retaining"}
                  /\ \E s \in Sha : answers[s] = "denied" /\ Wanted(s)

AccessInv == BatchFits /\ RequestsWanted /\ RefusalSeen

\* The commit fixes the tree, hence its declared sizes.
LEMMA TreeIsFixed == [Next]_vars => tree' = tree
BY DEF Next, Run, Select, Abort, Interrupted, HeaderFails, HeaderDenied, HeaderArrives,
   TreeArrives, StartBatch, LeaveLimited, LeaveOversized, Leave, Reserve, Dispatch, BlobAnswers,
   BatchAnswered, RetainFile, SkipFile, FailFile, FileDenied, BatchRetained, SpliceAdditions,
   Publish, MoveForward, Admit, Displace, Refuse, Asks, vars

\* Every step but five leaves the batch, its bytes and what is known of its blobs alone.
OnTheBatch == StartBatch \/ Reserve \/ RetainFile \/ SkipFile \/ FailFile

LEMMA OtherSteps ==
    ASSUME [Next]_vars, ~OnTheBatch
    PROVE  /\ UNCHANGED <<batch, pending, reserved, cached, verdicts, totalBytes>>
           /\ phase' = "filling" => phase = "filling"
           /\ phase' = "fetching" => phase \in {"filling", "fetching"}
           /\ phase' = "retaining" => phase \in {"fetching", "retaining"}
BY DEF OnTheBatch, Next, Run, Select, Abort, Interrupted, HeaderFails, HeaderDenied, HeaderArrives,
   TreeArrives, LeaveLimited, LeaveOversized, Leave, Filling, Dispatch, BlobAnswers, Waiting,
   BatchAnswered, FileDenied, Retaining, BatchRetained, SpliceAdditions,
   Publish, MoveForward, Admit, Displace, Refuse, Asks, vars, batchVars, blobVars

\* The file at the head of the batch has its whole size reserved.
LEMMA HeadFits ==
    ASSUME TypeOK, HonestSizes, BatchFits, Retaining
    PROVE  LET p == Head(batch)
               size == Content[tree.sha[p]].size IN
           /\ p \in Path /\ p \in Elements(batch)
           /\ Reservation(p) \in Nat /\ Reservation(p) <= MaxFileBytes
           /\ totalBytes + Reservation(p) <= MaxTotalFileBytes
           /\ Outcome(p) = "retained" => size \in Nat /\ size <= Reservation(p)
                                         /\ size <= MaxFileBytes
<1> DEFINE p == Head(batch)
           sha == tree.sha[p]
           size == Content[sha].size
<1>1. p \in Path /\ p \in Elements(batch) /\ Len(batch) \in Nat /\ Len(batch) > 0 /\ p = batch[1]
  BY TailElements DEF TypeOK, Retaining
<1>2. Reservation(p) \in Nat /\ sha \in Sha /\ size \in Nat /\ totalBytes \in Nat
  BY <1>1, Reservations, Sizes DEF TypeOK
<1>3. Reservation(p) <= MaxFileBytes
  BY <1>1 DEF BatchFits, InFlight, Retaining
<1>4. PICK ahead : ReservedBy(ahead)
  BY DEF BatchFits, InFlight, Retaining
<1>5. totalBytes + Reservation(p) <= MaxTotalFileBytes
  <2>1. 1 \in 1 .. Len(batch) /\ 2 \in 1 .. Len(batch) + 1 /\ 1 \in 1 .. Len(batch) + 1
    BY <1>1
  <2>2. ahead[1] = ahead[1 + 1] + Reservation(p) /\ ahead[2] \in Nat /\ ahead[1] \in Nat
    BY <1>1, <1>4, <2>1 DEF ReservedBy
  <2>3. totalBytes + ahead[1] <= MaxTotalFileBytes /\ MaxTotalFileBytes \in Nat
    BY <1>4, BoundsAssumption DEF ReservedBy
  <2> QED BY <1>2, <2>2, <2>3
<1>6. ASSUME Outcome(p) = "retained"
      PROVE  size <= MaxFileBytes
  <2>1. CASE sha \in cached
    BY <2>1 DEF BatchFits
  <2>2. CASE sha \notin cached
    <3>1. ~(size > MaxFileBytes)
      BY <1>1, <1>2, <1>6, <2>2 DEF Outcome, TypeOK, Verdict, Answer, Failure
    <3> QED BY <1>2, <3>1, BoundsAssumption
  <2> QED BY <2>1, <2>2
<1>7. ASSUME Outcome(p) = "retained"
      PROVE  size <= Reservation(p)
  BY <1>1, <1>2, <1>6, <1>7, BoundsAssumption DEF HonestSizes, Reservation
<1> QED BY <1>1, <1>2, <1>3, <1>5, <1>6, <1>7

\* A wanted blob that was refused is recognized: neither bound comes first.
LEMMA RefusedIsDenied ==
    ASSUME TypeOK, HonestSizes, BatchFits, Retaining,
           answers[tree.sha[Head(batch)]] = "denied", Wanted(tree.sha[Head(batch)])
    PROVE  Outcome(Head(batch)) = "denied"
<1> DEFINE p == Head(batch)
<1>1. /\ p \in Path /\ Reservation(p) \in Nat /\ Reservation(p) <= MaxFileBytes
      /\ totalBytes + Reservation(p) <= MaxTotalFileBytes
  BY HeadFits
<1>2. /\ totalBytes \in Nat /\ MaxFileBytes \in Nat /\ MaxTotalFileBytes \in Nat
  BY BoundsAssumption DEF TypeOK
<1>3. tree.size[p] # Unknown => /\ ~(tree.size[p] > MaxFileBytes)
                                /\ ~(totalBytes + tree.size[p] > MaxTotalFileBytes)
  BY <1>1, <1>2 DEF Reservation
<1> QED BY <1>3 DEF Outcome, Wanted

LEMMA InitAccess == Init => AccessInv
BY DEF Init, AccessInv, BatchFits, InFlight, RequestsWanted, RefusalSeen

\* Steps that do not touch the batch.
LEMMA OtherStepsFit ==
    ASSUME BatchFits, [Next]_vars, ~OnTheBatch
    PROVE  BatchFits'
<1>1. /\ UNCHANGED <<batch, reserved, cached, totalBytes, tree>>
      /\ InFlight' => InFlight
      /\ phase' = "filling" => phase = "filling"
  BY OtherSteps, TreeIsFixed DEF InFlight
<1>2. ASSUME NEW ahead, InFlight', ReservedBy(ahead)
      PROVE  ReservedBy(ahead)'
  BY <1>1, <1>2 DEF ReservedBy, Reservation
<1> QED BY <1>1, <1>2 DEF BatchFits, Reservation

LEMMA OtherStepsWant ==
    ASSUME TypeOK, RequestsWanted, [Next]_vars, ~OnTheBatch
    PROVE  /\ RequestsWanted'
           /\ \A s \in Sha : Wanted(s)' <=> Wanted(s)
<1>1. UNCHANGED <<batch, pending, cached, verdicts, tree>>
  BY OtherSteps, TreeIsFixed
<1>2. \A s \in Sha : Wanted(s)' <=> Wanted(s)
  BY <1>1 DEF Wanted
<1>3. phase' \in {"filling", "fetching"} => \A s \in pending' : Wanted(s)'
  BY <1>1, <1>2, OtherSteps DEF RequestsWanted, TypeOK
<1>4. ASSUME phase' = "fetching", NEW s \in Sha, answers'[s] # "none"
      PROVE  s \in pending'
  <2>1. CASE Dispatch
    BY <1>1, <1>4, <2>1 DEF Dispatch
  <2>2. CASE \E r \in Sha, a \in Answer : BlobAnswers(r, a)
    BY <1>1, <1>4, <2>2 DEF BlobAnswers, RequestsWanted, TypeOK
  <2>3. CASE phase = "fetching" /\ answers' = answers
    BY <1>1, <1>4, <2>3 DEF RequestsWanted
  <2>4. Dispatch \/ (\E r \in Sha, a \in Answer : BlobAnswers(r, a))
        \/ (phase = "fetching" /\ answers' = answers)
    BY <1>4 DEF OnTheBatch, Next, Run, Select, Abort, Interrupted, HeaderFails, HeaderDenied,
       HeaderArrives, TreeArrives, LeaveLimited, LeaveOversized, Leave, Filling, BatchAnswered,
       FileDenied, Retaining, BatchRetained, SpliceAdditions, Publish, MoveForward, Admit,
       Displace, Refuse, Asks, vars, Waiting
  <2> QED BY <2>1, <2>2, <2>3, <2>4
<1> QED BY <1>2, <1>3, <1>4 DEF RequestsWanted

LEMMA OtherStepsSee ==
    ASSUME TypeOK, RequestsWanted, RefusalSeen, [Next]_vars, ~OnTheBatch
    PROVE  RefusalSeen'
<1>1. CASE \E r \in Sha, a \in Answer : BlobAnswers(r, a)
  <2>1. PICK r \in Sha, a \in Answer : BlobAnswers(r, a)
    BY <1>1
  <2>2. /\ phase = "fetching" /\ phase' = "fetching" /\ answers[r] = "waiting"
        /\ answers' = [answers EXCEPT ![r] = a] /\ refused' = (refused \/ a = "denied")
        /\ Wanted(r)
    BY <2>1 DEF BlobAnswers, RequestsWanted
  <2>3. ASSUME refused PROVE RefusalSeen'
    <3>1. PICK s \in Sha : answers[s] = "denied" /\ Wanted(s)
      BY <2>2, <2>3 DEF RefusalSeen
    <3>2. answers'[s] = "denied" /\ Wanted(s)'
      BY <2>2, <3>1, OtherStepsWant DEF TypeOK
    <3> QED BY <2>2, <3>2 DEF RefusalSeen
  <2>4. ASSUME a = "denied" PROVE RefusalSeen'
    <3>1. answers'[r] = "denied" /\ Wanted(r)'
      BY <2>2, <2>4, OtherStepsWant DEF TypeOK
    <3> QED BY <2>2, <3>1 DEF RefusalSeen
  <2> QED BY <2>2, <2>3, <2>4 DEF RefusalSeen
<1>2. CASE BatchRetained
  BY <1>2 DEF BatchRetained, RefusalSeen, Wanted, Elements
<1>3. CASE refused' = refused /\ phase' = phase /\ answers' = answers
  BY <1>3, OtherStepsWant DEF RefusalSeen
<1>4. CASE phase' \in {"denied", "interrupted", "unavailable"}
  BY <1>4 DEF RefusalSeen
<1>5. CASE phase = "fetching" /\ phase' = "retaining" /\ refused' = refused /\ answers' = answers
  BY <1>5, OtherStepsWant DEF RefusalSeen
<1>6. CASE refused' = refused /\ phase \in Headers \union {"looping", "filling", "selecting"}
  BY <1>6 DEF RefusalSeen, Headers
<1>7. \/ \E r \in Sha, a \in Answer : BlobAnswers(r, a)
      \/ BatchRetained
      \/ refused' = refused /\ phase' = phase /\ answers' = answers
      \/ phase' \in {"denied", "interrupted", "unavailable"}
      \/ phase = "fetching" /\ phase' = "retaining" /\ refused' = refused /\ answers' = answers
      \/ refused' = refused /\ phase \in Headers \union {"looping", "filling", "selecting"}
  BY DEF OnTheBatch, Next, Run, Select, Abort, Interrupted, HeaderFails, HeaderDenied,
     HeaderArrives, TreeArrives, LeaveLimited, LeaveOversized, Leave, Filling, BatchAnswered,
     Dispatch, FileDenied, Retaining, SpliceAdditions, Publish, MoveForward, Admit,
     Displace, Refuse, Asks, vars, Waiting, Headers
<1> QED BY <1>1, <1>2, <1>3, <1>4, <1>5, <1>6, <1>7

\* A new batch has reserved nothing.
LEMMA StartKeepsAccess ==
    ASSUME TypeOK, WithinBudget, AccessInv, StartBatch
    PROVE  AccessInv'
<1>1. /\ phase = "looping" /\ phase' = "filling" /\ batch' = <<>> /\ pending' = {}
      /\ reserved' = 0 /\ UNCHANGED <<cached, totalBytes, refused>>
  BY DEF StartBatch, blobVars
<1>2. ReservedBy([i \in {1} |-> 0])'
  <2>1. 1 .. 0 + 1 = {1} /\ 1 .. 0 = {}
    OBVIOUS
  <2>2. Len(batch') = 0 /\ totalBytes + 0 <= MaxTotalFileBytes
    BY <1>1, BoundsAssumption DEF WithinBudget, TypeOK
  <2> QED BY <1>1, <2>1, <2>2 DEF ReservedBy
<1>3. BatchFits'
  BY <1>1, <1>2 DEF AccessInv, BatchFits, Elements
<1> QED BY <1>1, <1>3 DEF AccessInv, RequestsWanted, RefusalSeen

\* A file enters the batch with the bytes it may need.
LEMMA ReserveKeepsAccess ==
    ASSUME TypeOK, AccessInv, Reserve
    PROVE  AccessInv'
<1> DEFINE p == Head(rest)
           n == Len(batch)
<1>1. /\ phase = "filling" /\ phase' = "filling" /\ rest # <<>>
      /\ batch' = Append(batch, p) /\ reserved' = reserved + Reservation(p)
      /\ ~TooLarge(p) /\ ~Overflows(p)
      /\ pending' = IF NeedsFetch(p) THEN pending \union {tree.sha[p]} ELSE pending
      /\ UNCHANGED <<tree, cached, verdicts, totalBytes, refused, answers>>
  BY DEF Reserve, Filling, blobVars
<1>2. /\ p \in Path /\ Reservation(p) \in Nat
      /\ Len(batch') = n + 1 /\ Elements(batch') = Elements(batch) \union {p}
      /\ n \in Nat /\ totalBytes \in Nat /\ reserved \in Nat
      /\ MaxFileBytes \in Nat /\ MaxTotalFileBytes \in Nat
  BY <1>1, TailElements, AppendElements, Reservations, BoundsAssumption DEF TypeOK
<1>3. \A q : Reservation(q)' = Reservation(q)
  BY <1>1 DEF Reservation
<1>4. Reservation(p) <= MaxFileBytes
  BY <1>1, <1>2 DEF TooLarge
<1>5. PICK ahead : ReservedBy(ahead)
  BY <1>1 DEF AccessInv, BatchFits, InFlight
<1>6. PICK longer :
          longer = [i \in 1 .. n + 2 |-> IF i = n + 2 THEN 0 ELSE ahead[i] + Reservation(p)]
  OBVIOUS
<1>7. ReservedBy(longer)'
  <2>1. /\ \A i \in 1 .. n + 1 : ahead[i] \in Nat /\ longer[i] = ahead[i] + Reservation(p)
        /\ longer[n + 2] = 0 /\ ahead[n + 1] = 0 /\ ahead[1] = reserved
    BY <1>1, <1>2, <1>5, <1>6 DEF ReservedBy
  <2>2. longer \in [1 .. Len(batch') + 1 -> Nat] /\ longer[Len(batch') + 1] = 0
    <3>1. longer \in [1 .. n + 2 -> Nat]
      <4>1. ASSUME NEW i \in 1 .. n + 2
            PROVE  (IF i = n + 2 THEN 0 ELSE ahead[i] + Reservation(p)) \in Nat
        <5>1. i # n + 2 => i \in 1 .. n + 1
          BY <1>2
        <5> QED BY <1>2, <2>1, <5>1
      <4> QED BY <1>6, <4>1
    <3>2. Len(batch') + 1 = n + 2
      BY <1>2
    <3> QED BY <2>1, <3>1, <3>2
  <2>3. longer[1] = reserved'
    BY <1>1, <1>2, <2>1
  <2>4. totalBytes' + longer[1] <= MaxTotalFileBytes
    BY <1>1, <1>2, <2>3 DEF Overflows
  <2>5. ASSUME NEW i \in 1 .. n + 1
        PROVE  longer[i] = longer[i + 1] + Reservation(batch'[i])
    <3>1. CASE i = n + 1
      <4>1. batch'[i] = p
        BY <1>1, <1>2, <3>1 DEF TypeOK
      <4> QED BY <1>2, <2>1, <3>1, <4>1
    <3>2. CASE i # n + 1
      <4>1. i \in 1 .. n /\ i + 1 \in 1 .. n + 1
        BY <1>2, <3>2
      <4>2. batch'[i] = batch[i] /\ batch[i] \in Path
        BY <1>1, <1>2, <4>1 DEF TypeOK
      <4>3. ahead[i] = ahead[i + 1] + Reservation(batch[i]) /\ Reservation(batch[i]) \in Nat
        BY <1>5, <4>1, <4>2, Reservations DEF ReservedBy
      <4>4. /\ longer[i] = ahead[i] + Reservation(p) /\ longer[i + 1] = ahead[i + 1] + Reservation(p)
            /\ ahead[i] \in Nat /\ ahead[i + 1] \in Nat
        BY <1>2, <2>1, <4>1
      <4>5. longer[i] = longer[i + 1] + Reservation(batch[i])
        BY <1>2, <4>3, <4>4
      <4> QED BY <4>2, <4>5
    <3> QED BY <3>1, <3>2
  <2> QED BY <1>2, <1>3, <2>2, <2>3, <2>4, <2>5 DEF ReservedBy
<1>8. BatchFits'
  BY <1>1, <1>2, <1>3, <1>4, <1>7 DEF AccessInv, BatchFits, InFlight
<1>9. RequestsWanted'
  <2>1. ASSUME NEW s \in pending'
        PROVE  Wanted(s)'
    BY <1>1, <1>2, <2>1 DEF AccessInv, RequestsWanted, Wanted, NeedsFetch
  <2> QED BY <1>1, <2>1 DEF RequestsWanted
<1> QED BY <1>1, <1>8, <1>9 DEF AccessInv, RefusalSeen

\* A file leaves the batch retained or named: its bytes are those it had reserved at most,
\* and what is refused to another file stays wanted.
LEMMA RetainingKeepsAccess ==
    ASSUME TypeOK, HonestSizes, AccessInv, RetainFile \/ SkipFile \/ FailFile
    PROVE  AccessInv'
<1> DEFINE p == Head(batch)
           sha == tree.sha[p]
           n == Len(batch)
<1>1. /\ phase = "retaining" /\ phase' = "retaining" /\ Retaining /\ batch' = Tail(batch)
      /\ UNCHANGED <<tree, refused, answers>>
      /\ Outcome(p) # "denied"
  BY DEF RetainFile, SkipFile, FailFile, Retaining, Reason, Failure
<1>2. /\ p \in Path /\ p \in Elements(batch) /\ Elements(batch') \subseteq Elements(batch)
      /\ Elements(batch) \subseteq Elements(batch') \union {p}
      /\ n \in Nat /\ n > 0 /\ Len(batch') = n - 1 /\ totalBytes \in Nat
      /\ MaxFileBytes \in Nat /\ MaxTotalFileBytes \in Nat /\ sha \in Sha
      /\ p = batch[1] /\ Reservation(p) \in Nat
  BY <1>1, TailElements, TreeFacts, Reservations, BoundsAssumption DEF TypeOK, Retaining
<1>3. \A q : Reservation(q)' = Reservation(q)
  BY <1>1 DEF Reservation
<1>4. /\ totalBytes' \in Nat /\ totalBytes' <= totalBytes + Reservation(p)
      /\ \A s \in cached' : Content[s].size <= MaxFileBytes
  <2>1. CASE RetainFile
    <3>1. /\ Outcome(p) = "retained" /\ totalBytes' = totalBytes + Content[sha].size
          /\ cached' = cached \union {sha}
      BY <2>1 DEF RetainFile
    <3>2. /\ Content[sha].size \in Nat /\ Content[sha].size <= Reservation(p)
          /\ Content[sha].size <= MaxFileBytes
      BY <1>1, <3>1, HeadFits DEF AccessInv
    <3> QED BY <1>2, <3>1, <3>2 DEF AccessInv, BatchFits
  <2>2. CASE SkipFile \/ FailFile
    BY <1>2, <2>2 DEF SkipFile, FailFile, AccessInv, BatchFits
  <2> QED BY <2>1, <2>2
<1>5. PICK ahead : ReservedBy(ahead)
  BY <1>1 DEF AccessInv, BatchFits, InFlight
<1>6. PICK shorter : shorter = [i \in 1 .. n |-> ahead[i + 1]]
  OBVIOUS
<1>7. ReservedBy(shorter)'
  <2>1. \A i \in 1 .. n + 1 : ahead[i] \in Nat
    BY <1>2, <1>5 DEF ReservedBy
  <2>2. shorter \in [1 .. Len(batch') + 1 -> Nat] /\ shorter[Len(batch') + 1] = 0
    BY <1>2, <1>5, <1>6, <2>1 DEF ReservedBy
  <2>3. totalBytes' + shorter[1] <= MaxTotalFileBytes
    <3>1. /\ ahead[1] = ahead[2] + Reservation(p) /\ totalBytes + ahead[1] <= MaxTotalFileBytes
          /\ ahead[1] \in Nat /\ ahead[2] \in Nat /\ shorter[1] = ahead[2]
      BY <1>2, <1>5, <1>6, <2>1 DEF ReservedBy
    <3> QED BY <1>2, <1>4, <3>1
  <2>4. ASSUME NEW i \in 1 .. n - 1
        PROVE  shorter[i] = shorter[i + 1] + Reservation(batch'[i])
    <3>1. i \in 1 .. n /\ i + 1 \in 1 .. n /\ batch'[i] = batch[i + 1]
      BY <1>1, <1>2 DEF TypeOK
    <3>2. ahead[i + 1] = ahead[i + 1 + 1] + Reservation(batch[i + 1])
      BY <1>5, <3>1 DEF ReservedBy
    <3> QED BY <1>6, <3>1, <3>2
  <2> QED BY <1>1, <1>2, <1>3, <2>2, <2>3, <2>4 DEF ReservedBy
<1>8. BatchFits'
  BY <1>1, <1>2, <1>3, <1>4, <1>7 DEF AccessInv, BatchFits, InFlight
<1>9. ASSUME refused
      PROVE  \E s \in Sha : answers[s] = "denied" /\ Wanted(s)'
  <2>1. PICK s \in Sha : answers[s] = "denied" /\ Wanted(s)
    BY <1>1, <1>9 DEF AccessInv, RefusalSeen
  <2>2. s # sha
    BY <1>1, <2>1, RefusedIsDenied DEF AccessInv
  <2>3. s \notin cached' /\ verdicts'[s] = "none"
    BY <1>2, <2>1, <2>2 DEF Wanted, RetainFile, SkipFile, FailFile, TypeOK
  <2>4. \E q \in Elements(batch') : tree'.sha[q] = s
    BY <1>1, <1>2, <2>1, <2>2 DEF Wanted
  <2> QED BY <2>1, <2>3, <2>4 DEF Wanted
<1> QED BY <1>1, <1>8, <1>9 DEF AccessInv, RequestsWanted, RefusalSeen

\* A refused credential is never taken for a missing file: when the sizes the tree declares
\* are those of its blobs, no snapshot follows a refusal, whatever else each batch contains
\* and whichever budget is about to run out.
THEOREM AccessLossEnds == Spec => []LostAccessEnds
<1> DEFINE Honest == HonestSizes => AccessInv
<1>1. Init => Honest
  BY InitAccess
<1>2. ASSUME IInv, Honest, [Next]_vars
      PROVE  Honest'
  <2> SUFFICES ASSUME HonestSizes' PROVE AccessInv'
    OBVIOUS
  <2>1. HonestSizes /\ AccessInv
    BY <1>2, TreeIsFixed DEF HonestSizes
  <2>2. CASE StartBatch
    BY <1>2, <2>1, <2>2, StartKeepsAccess DEF IInv
  <2>3. CASE Reserve
    BY <1>2, <2>1, <2>3, ReserveKeepsAccess DEF IInv
  <2>4. CASE RetainFile \/ SkipFile \/ FailFile
    BY <1>2, <2>1, <2>4, RetainingKeepsAccess DEF IInv
  <2>5. CASE ~OnTheBatch
    BY <1>2, <2>1, <2>5, OtherStepsFit, OtherStepsWant, OtherStepsSee DEF AccessInv, IInv
  <2> QED BY <2>2, <2>3, <2>4, <2>5 DEF OnTheBatch
<1>3. Honest => LostAccessEnds
  BY DEF AccessInv, RefusalSeen, LostAccessEnds
<1> HIDE DEF Honest
<1>4. IInv /\ Honest /\ [Next]_vars => Honest'
  BY <1>2
<1> QED BY <1>1, <1>3, <1>4, Invariant, PTL DEF Spec
=============================================================================
