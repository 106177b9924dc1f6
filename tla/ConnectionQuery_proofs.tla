----------------------- MODULE ConnectionQuery_proofs -----------------------
(* The invariant of ConnectionQuery, for any number of operations and any pool size. *)
EXTENDS ConnectionQuery, TLAPS

\* Nothing is borrowed, lent or settled before the first call.
LEMMA InitIInv == Init => IInv
BY DEF Init, IInv, TypeOK, StepName, Querying, CountedReleases, Custody, AbandonedByAbort,
       CompletedIsCommitted, Gone

\* Every step of an operation, of its caller, of the pool and of the server keeps custody
\* of the pooled client.
LEMMA NextIInv == IInv /\ [Next]_vars => IInv'
<1> USE DEF IInv, TypeOK, StepName, Querying, CountedReleases, Custody, AbandonedByAbort,
            CompletedIsCommitted, Gone
<1> SUFFICES ASSUME IInv, [Next]_vars PROVE IInv'
  OBVIOUS
<1>1. ASSUME NEW o \in Op, Call(o) PROVE IInv'
  <2>1. CASE step' = [step EXCEPT ![o] = "connect"]
    BY <1>1, <2>1 DEF Call
  <2>2. CASE step' = [step EXCEPT ![o] = "rejected"]
    <3>1. /\ step[o] = "idle" /\ o \in Op
          /\ race' = [race EXCEPT ![o] = "failed"]
          /\ aborted' = [aborted EXCEPT ![o] = TRUE]
          /\ done' = [done EXCEPT ![o] = TRUE]
          /\ UNCHANGED <<client, borrowed, completed, tx, releases>>
      BY <1>1, <2>2 DEF Call
    <3>2. TypeOK'
      BY <2>2, <3>1
    <3>3. ASSUME NEW p \in Op
          PROVE  CountedReleases(p)' /\ CompletedIsCommitted(p)'
      BY <2>2, <3>1
    <3>4. ASSUME NEW p \in Op PROVE Custody(p)' /\ AbandonedByAbort(p)'
      <4>1. CASE p = o
        BY <2>2, <3>1, <4>1
      <4>2. CASE p # o
        BY <2>2, <3>1, <4>2
      <4> QED
        BY <4>1, <4>2
    <3> HIDE DEF TypeOK, CountedReleases, CompletedIsCommitted, Custody, AbandonedByAbort
    <3> QED
      BY <3>2, <3>3, <3>4
  <2>3. \/ step' = [step EXCEPT ![o] = "connect"]
        \/ step' = [step EXCEPT ![o] = "rejected"]
    BY <1>1 DEF Call
  <2> HIDE DEF IInv
  <2> QED
    BY <2>1, <2>2, <2>3
<1>2. ASSUME NEW o \in Op, Lend(o) PROVE IInv'
  BY <1>2 DEF Lend
<1>3. ASSUME NEW o \in Op, ConnectFails(o) PROVE IInv'
  BY <1>3 DEF ConnectFails, Rejected, Settle
<1>4. ASSUME NEW o \in Op, Resume(o) PROVE IInv'
  <2>1. CASE aborted[o]
    BY <1>4, <2>1 DEF Resume, Release, Rejected, Settle
  <2>2. CASE ~aborted[o]
    <3>1. /\ step' = [step EXCEPT ![o] = "begin"]
          /\ borrowed' = [borrowed EXCEPT ![o] = TRUE]
          /\ UNCHANGED <<race, client, completed, aborted, done, tx, releases>>
          /\ step[o] = "lent"
      BY <1>4, <2>2 DEF Resume, Borrow
    <3> QED
      BY <2>2, <3>1
  <2> HIDE DEF IInv
  <2> QED
    BY <2>1, <2>2
<1>5. ASSUME NEW o \in Op, ServerBegins(o) PROVE IInv'
  BY <1>5 DEF ServerBegins
<1>6. ASSUME NEW o \in Op, ServerCommits(o) PROVE IInv'
  BY <1>6 DEF ServerCommits
<1>7. ASSUME NEW o \in Op, ServerRollsBack(o) PROVE IInv'
  BY <1>7 DEF ServerRollsBack
<1>8. ASSUME NEW o \in Op, Reply(o) PROVE IInv'
  BY <1>8 DEF Reply
<1>9. ASSUME NEW o \in Op, Complete(o) PROVE IInv'
  BY <1>9 DEF Complete, Settle
<1>10. ASSUME NEW o \in Op, QueryFails(o) PROVE IInv'
  BY <1>10 DEF QueryFails, Rejected, Settle
<1>11. ASSUME NEW o \in Op, Abort(o) PROVE IInv'
  BY <1>11 DEF Abort, Release, Settle
<1>12. ASSUME NEW o \in Op, Finally(o) PROVE IInv'
  BY <1>12 DEF Finally, Release
<1>13. CASE UNCHANGED vars
  BY <1>13 DEF vars
<1> QED
  BY <1>1, <1>2, <1>3, <1>4, <1>5, <1>6, <1>7, <1>8, <1>9, <1>10, <1>11, <1>12, <1>13
     DEF Next

\* Custody holds throughout: the inductive invariant of runConnectionQuery.
THEOREM Invariant == Spec => []IInv
BY InitIInv, NextIInv, PTL DEF Spec

\* No client is released twice, whichever of the abort listener, the finally block and
\* the abandoned operation gets to it first.
THEOREM ReleasesAreSingle == Spec => []ReleasedOnce
<1>1. IInv => ReleasedOnce
  BY DEF IInv, TypeOK, CountedReleases, ReleasedOnce
<1> QED
  BY <1>1, Invariant, PTL

\* Only clients whose transaction committed go back to the pool.
THEOREM ReturnsAreClean == Spec => []ReturnedClean
<1>1. IInv => ReturnedClean
  BY DEF IInv, Custody, CompletedIsCommitted, ReturnedClean
<1> QED
  BY <1>1, Invariant, PTL

\* Success is reported for committed statements only.
THEOREM SuccessIsCommitted == Spec => []OkIsCommitted
<1>1. IInv => OkIsCommitted
  BY DEF IInv, CompletedIsCommitted, OkIsCommitted
<1> QED
  BY <1>1, Invariant, PTL
=============================================================================
