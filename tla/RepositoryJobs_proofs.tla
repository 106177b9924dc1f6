----------------------- MODULE RepositoryJobs_proofs -----------------------
(***************************************************************************)
(* Proofs about RepositoryJobs, for any sets of analyses, workers, queue   *)
(* jobs and delivery runs, any number of attempts, faults and stops, and   *)
(* any queue behaviour the environment allows (competing jobs and lost     *)
(* live locks included).                                                   *)
(***************************************************************************)
EXTENDS RepositoryJobs, TLAPS

(***************************************************************************)
(* What the statements of the store do to a well-formed row, for any sets  *)
(* of queue jobs and lease tokens.                                         *)
(***************************************************************************)
\* A record of the analysis table a client may be shown (RecordConsistent, for one row).
RowConsistent(row) ==
    /\ row.status = "queued" => row.stage = "queued"
    /\ row.status = "running" => row.stage \in {"queued"} \cup WorkStage
    /\ IsTerminal(row) => row.stage = row.status
    /\ row.status = "failed" => row.failure # "none"
    /\ row.status \in {"running"} \cup Succeeded => row.failure = "none"
    /\ row.status = "running" <=> row.activeJob # NoJob

\* Every statement of the repository maps rows to rows.
LEMMA RowTypes ==
    ASSUME NEW row \in Row, NEW job \in Job \cup {NoJob}
    PROVE  /\ ClaimForExecution(row, job) \in Row
           /\ \A stage \in WorkStage : UpdateProgress(row, job, stage) \in Row
           /\ \A failure \in Failure : /\ MarkRetryPending(row, job, failure) \in Row
                                       /\ Fail(row, job, failure) \in Row
           /\ \A outcome \in Succeeded : CompleteRow(row, job, outcome) \in Row
           /\ [row EXCEPT !.expired = TRUE] \in Row
<1> USE DEF Row, Status, Stage, WorkStage, Terminal, Succeeded, Missing, Failure
<1>1. ClaimForExecution(row, job) \in Row
  BY DEF ClaimForExecution
<1>2. \A stage \in WorkStage : UpdateProgress(row, job, stage) \in Row
  BY DEF UpdateProgress
<1>3. \A failure \in Failure : MarkRetryPending(row, job, failure) \in Row
  BY DEF MarkRetryPending
<1>4. \A failure \in Failure : Fail(row, job, failure) \in Row
  BY DEF Fail
<1>5. \A outcome \in Succeeded : CompleteRow(row, job, outcome) \in Row
  BY DEF CompleteRow
<1>6. [row EXCEPT !.expired = TRUE] \in Row
  OBVIOUS
<1> QED BY <1>1, <1>2, <1>3, <1>4, <1>5, <1>6

LEMMA FixedRowTypes == NoRow \in Row /\ QueuedRow \in Row /\ PurgedRow \in Row
  BY DEF Row, NoRow, QueuedRow, PurgedRow, Status, Stage, Missing, Failure

\* Every statement of the outbox maps deliveries to deliveries.
LEMMA DeliveryTypes ==
    ASSUME NEW delivery \in Delivery, NEW lease \in Lease, NEW row
    PROVE  /\ NoDelivery \in Delivery
           /\ PendingDelivery \in Delivery
           /\ Backfilled(row, delivery) \in Delivery
           /\ Leased(Backfilled(row, delivery), lease) \in Delivery
           /\ MarkDelivered(delivery, lease) \in Delivery
           /\ RetryDelivery(delivery, lease) \in Delivery
           /\ [delivery EXCEPT !.lapsed = TRUE] \in Delivery
           /\ [delivery EXCEPT !.due = TRUE] \in Delivery
  BY DEF Delivery, NoDelivery, PendingDelivery, Backfilled, Leased, MarkDelivered, RetryDelivery

\* A statement of a real job keeps a record consistent, whoever owns it by now.
LEMMA RowsStayConsistent ==
    ASSUME NEW row \in Row, RowConsistent(row), NEW job \in Job
    PROVE  /\ RowConsistent(ClaimForExecution(row, job))
           /\ \A stage \in WorkStage : RowConsistent(UpdateProgress(row, job, stage))
           /\ \A failure \in Failure : RowConsistent(MarkRetryPending(row, job, failure))
           /\ \A failure \in Failure \ {"none"} : RowConsistent(Fail(row, job, failure))
           /\ \A outcome \in Succeeded : RowConsistent(CompleteRow(row, job, outcome))
           /\ RowConsistent([row EXCEPT !.expired = TRUE])
  BY JobAssumption DEF Row, RowConsistent, ClaimForExecution, CanClaim, UpdateProgress,
     MarkRetryPending, IsActiveOwner, Fail, CanFail, CompleteRow, IsTerminal, Exists,
     Status, Stage, WorkStage, Terminal, Succeeded, Missing, Failure

LEMMA FixedRowsConsistent ==
    RowConsistent(NoRow) /\ RowConsistent(QueuedRow) /\ RowConsistent(PurgedRow)
  BY DEF RowConsistent, NoRow, QueuedRow, PurgedRow, IsTerminal, Terminal, Succeeded

\* No statement of any job touches a terminal row.
LEMMA TerminalRowsStay ==
    ASSUME NEW row \in Row, IsTerminal(row), NEW job
    PROVE  /\ ClaimForExecution(row, job) = row
           /\ \A stage : UpdateProgress(row, job, stage) = row
           /\ \A failure : MarkRetryPending(row, job, failure) = row
           /\ \A failure : Fail(row, job, failure) = row
           /\ \A outcome : CompleteRow(row, job, outcome) = row
           /\ \A report, outcome : CompleteReport(row, report, job, outcome) = report
  BY DEF Row, ClaimForExecution, CanClaim, UpdateProgress, MarkRetryPending, IsActiveOwner,
         Fail, CanFail, CompleteRow, CompleteReport, IsTerminal, Terminal, Succeeded

\* A statement of a job that is not the owner leaves an owned record alone.
LEMMA OthersLeaveOwnedRows ==
    ASSUME NEW row \in Row, RowConsistent(row), NEW job \in Job,
           row.activeJob # NoJob, row.activeJob # job
    PROVE  /\ ClaimForExecution(row, job) = row
           /\ \A stage : UpdateProgress(row, job, stage) = row
           /\ \A failure : MarkRetryPending(row, job, failure) = row
           /\ \A failure : Fail(row, job, failure) = row
           /\ \A outcome : CompleteRow(row, job, outcome) = row
  BY DEF Row, RowConsistent, ClaimForExecution, CanClaim, UpdateProgress, MarkRetryPending,
         IsActiveOwner, Fail, CanFail, CompleteRow

\* What a statement of a real job may do to the status of a consistent record, and to the
\* report with it.
LEMMA StatusEffects ==
    ASSUME NEW row \in Row, RowConsistent(row), NEW job \in Job
    PROVE  /\ \/ ClaimForExecution(row, job).status = row.status
              \/ /\ row.status = "queued"
                 /\ ClaimForExecution(row, job).status = "running"
           /\ \A stage : UpdateProgress(row, job, stage).status = row.status
           /\ \A failure : LET new == MarkRetryPending(row, job, failure).status
                           IN  \/ new = row.status
                               \/ row.status = "running" /\ new = "queued"
           /\ \A failure : LET new == Fail(row, job, failure).status
                           IN  \/ new = row.status
                               \/ row.status \in {"queued", "running"} /\ new = "failed"
           /\ \A report, outcome :
                 LET new == CompleteRow(row, job, outcome).status
                     kept == CompleteReport(row, report, job, outcome)
                 IN  \/ new = row.status /\ kept = report
                     \/ row.status = "running" /\ new = outcome /\ kept = outcome
<1> USE JobAssumption DEF Row, Status, Terminal, Succeeded, Missing
<1>1. \/ ClaimForExecution(row, job).status = row.status
      \/ row.status = "queued" /\ ClaimForExecution(row, job).status = "running"
  BY DEF ClaimForExecution, CanClaim
<1>2. ASSUME NEW stage
      PROVE  UpdateProgress(row, job, stage).status = row.status
  BY DEF UpdateProgress
<1>3. ASSUME NEW failure
      PROVE  LET new == MarkRetryPending(row, job, failure).status
             IN  new = row.status \/ (row.status = "running" /\ new = "queued")
  BY DEF MarkRetryPending, IsActiveOwner, RowConsistent
<1>4. ASSUME NEW failure
      PROVE  LET new == Fail(row, job, failure).status
             IN  \/ new = row.status
                 \/ row.status \in {"queued", "running"} /\ new = "failed"
  BY DEF Fail, CanFail, Exists, IsTerminal
<1>5. ASSUME NEW report, NEW outcome
      PROVE  LET new == CompleteRow(row, job, outcome).status
                 kept == CompleteReport(row, report, job, outcome)
             IN  \/ new = row.status /\ kept = report
                 \/ row.status = "running" /\ new = outcome /\ kept = outcome
  BY DEF CompleteRow, CompleteReport, IsActiveOwner, RowConsistent
<1> QED BY <1>1, <1>2, <1>3, <1>4, <1>5

(***************************************************************************)
(* Types.                                                                  *)
(***************************************************************************)
\* However a statement ends, the fault counter stays within its bound.
LEMMA ChargeType ==
    ASSUME TypeOK, NEW end \in StatementEnd, Charge(end)
    PROVE  faults' \in 0..MaxFaults
  BY BoundAssumption DEF TypeOK, Charge, StatementEnd

\* Replacing one row, one execution, one delivery by another of its type.
LEMMA SetRowType ==
    ASSUME TypeOK, NEW a, NEW row, a \in Analysis => row \in Row, SetRow(a, row)
    PROVE  rows' \in [Analysis -> Row]
  BY DEF TypeOK, SetRow

LEMMA ContinueType ==
    ASSUME TypeOK, NEW w \in Worker, NEW exec \in Execution, Continue(w, exec)
    PROVE  execs' \in [Worker -> Execution]
  BY DEF TypeOK, Continue

LEMMA GotoType ==
    ASSUME TypeOK, NEW w \in Worker, NEW pc \in Pc
    PROVE  Goto(w, pc) \in Execution
  BY DEF TypeOK, Goto, Execution, Pc

LEMMA IdleType == Idle \in Execution
  BY DEF Idle, Execution, Pc, Failure, Report

LEMMA UnsuccessfulType ==
    ASSUME TypeOK, NEW w \in Worker, NEW failure \in Failure, NEW retry \in BOOLEAN
    PROVE  Unsuccessful(w, failure, retry) \in Execution
  BY DEF TypeOK, Unsuccessful, Execution, Pc

LEMMA StageAfterType == \A stage \in {"queued"} \cup WorkStage : StageAfter(stage) \in WorkStage
  BY DEF StageAfter, WorkStage

\* A statement on the row of the executing job keeps the types of everything but execs
\* and reports.
LEMMA UpdateRowType ==
    ASSUME TypeOK, NEW w \in Worker, NEW end \in StatementEnd, NEW row,
           execs[w].analysis \in Analysis => row \in Row, UpdateRow(w, end, row)
    PROVE  /\ rows' \in [Analysis -> Row]
           /\ deliveries' \in [Analysis -> Delivery]
           /\ jobs' \in [Job -> QueueJob]
           /\ dispatch' \in [Lease -> [Analysis -> DispatchStep]]
           /\ stopping' \subseteq Worker
           /\ faults' \in 0..MaxFaults
           /\ stops' \in 0..MaxStops
<1>1. rows' \in [Analysis -> Row]
  BY SetRowType DEF TypeOK, UpdateRow
<1> QED BY <1>1, ChargeType DEF TypeOK, UpdateRow

LEMMA JobTypes ==
    /\ NoQueueJob \in QueueJob
    /\ \A a \in Analysis, matches, keyed \in BOOLEAN : QueuedJob(a, matches, keyed) \in QueueJob
    /\ \A job \in QueueJob : Unlocked(job) \in QueueJob
<1>1. NoQueueJob \in QueueJob
  BY BoundAssumption DEF NoQueueJob, QueueJob
<1>2. ASSUME NEW a \in Analysis, NEW matches \in BOOLEAN, NEW keyed \in BOOLEAN
      PROVE  QueuedJob(a, matches, keyed) \in QueueJob
  <2>1. 0 \in 0..MaxAttempts
    BY BoundAssumption
  <2> QED BY <2>1 DEF QueueJob, QueuedJob
<1>3. ASSUME NEW job \in QueueJob
      PROVE  Unlocked(job) \in QueueJob
  BY DEF QueueJob, Unlocked
<1> QED BY <1>1, <1>2, <1>3

\* The initial state is typed.
LEMMA InitType == Init => TypeOK
<1> SUFFICES ASSUME Init PROVE TypeOK
  OBVIOUS
<1> QED BY FixedRowTypes, IdleType, JobTypes, BoundAssumption
         DEF Init, TypeOK, Report, NoDelivery, Delivery, DispatchStep

\* Submission, clocks and retention.
LEMMA StoreNextType ==
    ASSUME TypeOK, NEW a \in Analysis, StoreNext(a)
    PROVE  TypeOK'
<1> \A d \in Delivery : /\ [d EXCEPT !.lapsed = TRUE] \in Delivery
                        /\ [d EXCEPT !.due = TRUE] \in Delivery
  BY DEF Delivery
<1>1. CASE Submit(a)
  <2>1. PendingDelivery \in Delivery
    BY DEF PendingDelivery, NoDelivery, Delivery
  <2> QED BY <1>1, <2>1, FixedRowTypes DEF Submit, TypeOK, SetRow
<1>2. CASE SubmitWithoutDelivery(a)
  BY <1>2, FixedRowTypes DEF SubmitWithoutDelivery, TypeOK, SetRow
<1>3. CASE LeaseLapses(a)
  BY <1>3 DEF LeaseLapses, OnlyDelivery, TypeOK
<1>4. CASE BackoffElapses(a)
  BY <1>4 DEF BackoffElapses, OnlyDelivery, TypeOK
<1>5. CASE RetentionExpires(a)
  <2>1. [rows[a] EXCEPT !.expired = TRUE] \in Row
    BY DEF TypeOK, Row
  <2> QED BY <1>5, <2>1, SetRowType DEF RetentionExpires, TypeOK
<1> QED BY <1>1, <1>2, <1>3, <1>4, <1>5 DEF StoreNext

LEMMA PurgeType ==
    ASSUME TypeOK, NEW batch \in SUBSET Analysis, PurgeExpired(batch)
    PROVE  TypeOK'
<1>1. NoDelivery \in Delivery
  BY DEF NoDelivery, Delivery
<1> QED BY <1>1, FixedRowTypes DEF PurgeExpired, TypeOK, Report

\* Delivery runs.
LEMMA DispatchNextType ==
    ASSUME TypeOK, NEW d \in Lease, DispatchNext(d)
    PROVE  TypeOK'
<1>1. ASSUME NEW batch \in SUBSET Analysis, NEW end \in StatementEnd,
             ClaimDeliveries(d, batch, end)
      PROVE  TypeOK'
  <2>1. \A a \in Analysis : /\ BackfilledDelivery(a) \in Delivery
                            /\ Leased(BackfilledDelivery(a), d) \in Delivery
    BY DeliveryTypes DEF TypeOK, BackfilledDelivery
  <2>2. deliveries' \in [Analysis -> Delivery]
    BY <1>1, <2>1 DEF ClaimDeliveries, TypeOK
  <2>3. dispatch' \in [Lease -> [Analysis -> DispatchStep]]
    BY <1>1 DEF ClaimDeliveries, TypeOK, DispatchStep
  <2>4. faults' \in 0..MaxFaults
    BY <1>1, ChargeType DEF ClaimDeliveries
  <2> QED BY <1>1, <2>2, <2>3, <2>4 DEF ClaimDeliveries, TypeOK
<1>2. ASSUME NEW a \in Analysis, NEW step \in DispatchStep, Dispatching(d, a, step)
      PROVE  dispatch' \in [Lease -> [Analysis -> DispatchStep]]
  BY <1>2 DEF Dispatching, TypeOK
<1>3. ASSUME NEW a \in Analysis, NEW end \in StatementEnd, Enqueue(d, a, end)
      PROVE  TypeOK'
  <2>1. jobs' \in [Job -> QueueJob]
    BY <1>3, JobTypes DEF Enqueue, AddJob, TypeOK
  <2>2. faults' \in 0..MaxFaults
    BY <1>3, ChargeType DEF Enqueue
  <2>3. dispatch' \in [Lease -> [Analysis -> DispatchStep]]
    BY <1>3, <1>2 DEF Enqueue, DispatchStep
  <2> QED BY <1>3, <2>1, <2>2, <2>3 DEF Enqueue, TypeOK
<1>4. ASSUME NEW a \in Analysis, NEW end \in StatementEnd, MarkDeliveryDelivered(d, a, end)
      PROVE  TypeOK'
  <2>1. MarkDelivered(deliveries[a], d) \in Delivery
    BY DeliveryTypes DEF TypeOK
  <2>2. faults' \in 0..MaxFaults
    BY <1>4, ChargeType DEF MarkDeliveryDelivered
  <2>3. dispatch' \in [Lease -> [Analysis -> DispatchStep]]
    BY <1>4, <1>2 DEF MarkDeliveryDelivered, DispatchStep
  <2> QED BY <1>4, <2>1, <2>2, <2>3 DEF MarkDeliveryDelivered, TypeOK
<1>5. ASSUME NEW a \in Analysis, NEW end \in StatementEnd, RetryAfterFailure(d, a, end)
      PROVE  TypeOK'
  <2>1. RetryDelivery(deliveries[a], d) \in Delivery
    BY DeliveryTypes DEF TypeOK
  <2>2. faults' \in 0..MaxFaults
    BY <1>5, ChargeType DEF RetryAfterFailure
  <2>3. dispatch' \in [Lease -> [Analysis -> DispatchStep]]
    BY <1>5, <1>2 DEF RetryAfterFailure, DispatchStep
  <2> QED BY <1>5, <2>1, <2>2, <2>3 DEF RetryAfterFailure, TypeOK
<1>6. CASE DispatchCrash(d)
  <2>1. faults' \in 0..MaxFaults
    BY <1>6, ChargeType DEF DispatchCrash, StatementEnd
  <2> QED BY <1>6, <2>1 DEF DispatchCrash, TypeOK, DispatchStep
<1> QED BY <1>1, <1>3, <1>4, <1>5, <1>6 DEF DispatchNext

\* The queue's own events.
LEMMA QueueNextType ==
    ASSUME TypeOK, NEW j \in Job, QueueNext(j)
    PROVE  TypeOK'
<1>1. jobs[j] \in QueueJob /\ "lost" \in StatementEnd
  BY DEF TypeOK, StatementEnd
<1>2. CASE RecoverDeadOwner(j)
  BY <1>1, <1>2, JobTypes DEF RecoverDeadOwner, TypeOK, store
<1>3. CASE LoseLiveLock(j)
  <2>1. faults' \in 0..MaxFaults
    BY <1>1, <1>3, ChargeType DEF LoseLiveLock
  <2> QED BY <1>1, <1>3, <2>1, JobTypes DEF LoseLiveLock, TypeOK, store
<1>4. ASSUME NEW a \in Analysis, NEW matches \in BOOLEAN, AddCompetingJob(a, matches, j)
      PROVE  TypeOK'
  <2>1. faults' \in 0..MaxFaults
    BY <1>1, <1>4, ChargeType DEF AddCompetingJob
  <2>2. QueuedJob(a, matches, FALSE) \in QueueJob
    BY JobTypes
  <2> QED BY <1>4, <2>1, <2>2 DEF AddCompetingJob, TypeOK, store
<1> QED BY <1>2, <1>3, <1>4 DEF QueueNext

\* The statements of an execution.
LEMMA StatementType ==
    ASSUME TypeOK, ExecutionsCarry, NEW w \in Worker, NEW end \in StatementEnd
    PROVE  /\ FindAnalysis(w, end) => TypeOK'
           /\ FailMismatch(w, end) => TypeOK'
           /\ Claim(w, end) => TypeOK'
           /\ Progress(w, end) => TypeOK'
           /\ ReturnToQueue(w, end) => TypeOK'
           /\ RecordFailure(w, end) => TypeOK'
           /\ RecordScoring(w, end) => TypeOK'
           /\ Complete(w, end) => TypeOK'
<1> DEFINE a == execs[w].analysis
           j == execs[w].job
<1>a. /\ j \in Job \cup {NoJob}
      /\ execs[w].failure \in Failure
      /\ execs[w].stage \in {"queued"} \cup WorkStage
      /\ a \in Analysis => rows[a] \in Row
      /\ "final" \in Failure /\ "retryable" \in Failure /\ "scoring" \in WorkStage
  BY DEF TypeOK, Execution, Failure, WorkStage
<1>b. /\ "threw" \in Pc /\ "returned" \in Pc /\ "analyze" \in Pc /\ "complete" \in Pc
      /\ \A row : AfterFind(w, row) \in Pc
  BY DEF Pc, AfterFind
<1>1. ASSUME FindAnalysis(w, end)
      PROVE  TypeOK'
  <2>1. execs' \in [Worker -> Execution]
    BY <1>1, <1>b, GotoType, ContinueType DEF FindAnalysis
  <2>2. faults' \in 0..MaxFaults
    BY <1>1, ChargeType DEF FindAnalysis
  <2> QED BY <1>1, <2>1, <2>2 DEF FindAnalysis, TypeOK, store
<1>2. ASSUME FailMismatch(w, end)
      PROVE  TypeOK'
  <2>1. a \in Analysis => Fail(rows[a], j, "final") \in Row
    BY <1>a, RowTypes
  <2>2. execs' \in [Worker -> Execution]
    BY <1>2, <1>b, GotoType, ContinueType DEF FailMismatch
  <2> QED BY <1>2, <2>1, <2>2, UpdateRowType DEF FailMismatch, TypeOK
<1>3. ASSUME Claim(w, end)
      PROVE  TypeOK'
  <2>1. a \in Analysis => ClaimForExecution(rows[a], j) \in Row
    BY <1>a, RowTypes
  <2>2. execs' \in [Worker -> Execution]
    BY <1>3, <1>b, GotoType, ContinueType DEF Claim
  <2> QED BY <1>3, <2>1, <2>2, UpdateRowType DEF Claim, TypeOK
<1>4. ASSUME Progress(w, end)
      PROVE  TypeOK'
  <2>1. StageAfter(execs[w].stage) \in WorkStage
    BY <1>a, StageAfterType
  <2>2. a \in Analysis => UpdateProgress(rows[a], j, StageAfter(execs[w].stage)) \in Row
    BY <1>a, <2>1, RowTypes
  <2>3. [execs[w] EXCEPT !.stage = StageAfter(execs[w].stage)] \in Execution
    BY <2>1 DEF TypeOK, Execution
  <2>4. execs' \in [Worker -> Execution]
    BY <1>4, <1>a, <2>3, UnsuccessfulType, ContinueType DEF Progress
  <2> QED BY <1>4, <2>2, <2>4, UpdateRowType DEF Progress, TypeOK
<1>5. ASSUME ReturnToQueue(w, end)
      PROVE  TypeOK'
  <2>1. a \in Analysis => MarkRetryPending(rows[a], j, execs[w].failure) \in Row
    BY <1>a, RowTypes
  <2>2. execs' \in [Worker -> Execution]
    BY <1>5, <1>b, GotoType, ContinueType DEF ReturnToQueue
  <2> QED BY <1>5, <2>1, <2>2, UpdateRowType DEF ReturnToQueue, TypeOK
<1>6. ASSUME RecordFailure(w, end)
      PROVE  TypeOK'
  <2>1. a \in Analysis => Fail(rows[a], j, execs[w].failure) \in Row
    BY <1>a, RowTypes
  <2>2. execs' \in [Worker -> Execution]
    BY <1>6, <1>b, GotoType, ContinueType DEF RecordFailure
  <2> QED BY <1>6, <2>1, <2>2, UpdateRowType DEF RecordFailure, TypeOK
<1>7. ASSUME RecordScoring(w, end)
      PROVE  TypeOK'
  <2>1. a \in Analysis => UpdateProgress(rows[a], j, "scoring") \in Row
    BY <1>a, RowTypes
  <2>2. execs' \in [Worker -> Execution]
    BY <1>7, <1>b, GotoType, ContinueType DEF RecordScoring
  <2> QED BY <1>7, <2>1, <2>2, UpdateRowType DEF RecordScoring, TypeOK
<1>8. ASSUME Complete(w, end)
      PROVE  TypeOK'
  <2>1. execs[w].outcome \in Succeeded
    BY <1>8 DEF Complete, At, ExecutionsCarry
  <2>2. a \in Analysis => CompleteRow(rows[a], j, execs[w].outcome) \in Row
    BY <1>a, <2>1, RowTypes
  <2>3. execs' \in [Worker -> Execution]
    BY <1>8, <1>b, GotoType, ContinueType DEF Complete
  <2>4. reports' \in [Analysis -> Report]
    BY <1>8, <2>1 DEF Complete, TypeOK, CompleteReport, Report
  <2> QED BY <1>8, <2>2, <2>3, <2>4, UpdateRowType DEF Complete, TypeOK
<1> QED BY <1>1, <1>2, <1>3, <1>4, <1>5, <1>6, <1>7, <1>8

\* Everything else a worker does.
LEMMA WorkerNextType ==
    ASSUME TypeOK, ExecutionsCarry, NEW w \in Worker, WorkerNext(w)
    PROVE  TypeOK'
<1> DEFINE j == execs[w].job
<1>a. /\ execs[w] \in Execution
      /\ \A exec \in Execution : [exec EXCEPT !.aborted = TRUE] \in Execution
      /\ [Idle EXCEPT !.aborted = execs[w].aborted] \in Execution
  BY IdleType DEF TypeOK, Execution
<1>b. "retryable" \in Failure /\ "final" \in Failure /\ "score" \in Pc
  BY DEF Failure, Pc
<1>1. ASSUME NEW k \in Job, GetJob(w, k)
      PROVE  TypeOK'
  <2>1. /\ jobs[k] \in QueueJob /\ jobs[k].attempts + 1 \in 0..MaxAttempts
        /\ (jobs[k].attempts + 1 >= MaxAttempts) \in BOOLEAN
    BY <1>1, BoundAssumption DEF GetJob, TypeOK, QueueJob
  <2>2. jobs' \in [Job -> QueueJob]
    BY <1>1, <2>1 DEF GetJob, TypeOK, QueueJob
  <2>3. [Idle EXCEPT !.pc = "find", !.job = k, !.analysis = jobs[k].analysis,
                     !.matches = jobs[k].matches,
                     !.final = jobs[k].attempts + 1 >= MaxAttempts] \in Execution
    BY <2>1, IdleType DEF Execution, Pc, QueueJob
  <2>4. execs' \in [Worker -> Execution]
    BY <1>1, <2>3, ContinueType DEF GetJob
  <2> QED BY <1>1, <2>2, <2>4 DEF GetJob, TypeOK
<1>2. ASSUME NEW exec \in Execution, Continue(w, exec), NoWrite
      PROVE  TypeOK'
  <2>1. execs' \in [Worker -> Execution]
    BY <1>2, ContinueType
  <2> QED BY <1>2, <2>1 DEF NoWrite, TypeOK, store
<1>3. CASE AnalysisInterrupted(w) \/ AnalysisThrows(w) \/ ConnectionUnavailable(w)
  BY <1>3, <1>2, <1>b, UnsuccessfulType
  DEF AnalysisInterrupted, AnalysisThrows, ConnectionUnavailable
<1>4. ASSUME NEW retryable \in BOOLEAN, AnalysisRejected(w, retryable)
      PROVE  TypeOK'
  <2>1. Unsuccessful(w, IF retryable THEN "retryable" ELSE "final", retryable) \in Execution
    BY <1>b, UnsuccessfulType
  <2> QED BY <1>4, <1>2, <2>1 DEF AnalysisRejected
<1>5. ASSUME NEW outcome \in Succeeded, AnalysisSucceeds(w, outcome)
      PROVE  TypeOK'
  <2>1. [execs[w] EXCEPT !.pc = "score", !.outcome = outcome] \in Execution
    BY <1>a, <1>b DEF Execution, Report
  <2> QED BY <1>5, <1>2, <2>1 DEF AnalysisSucceeds
<1>6. CASE CompleteJob(w)
  <2>1. execs' \in [Worker -> Execution]
    BY <1>6, <1>a, ContinueType DEF CompleteJob
  <2> QED BY <1>6, <2>1, JobTypes DEF CompleteJob, TypeOK, store
<1>7. CASE FailJob(w)
  <2>1. execs' \in [Worker -> Execution]
    BY <1>7, <1>a, ContinueType DEF FailJob
  <2>2. jobs' \in [Job -> QueueJob]
    BY <1>7, JobTypes DEF FailJob, TypeOK
  <2> QED BY <1>7, <2>1, <2>2 DEF FailJob, TypeOK, store
<1>8. CASE RequestStop(w)
  BY <1>8, BoundAssumption DEF RequestStop, TypeOK, store
<1>9. CASE AbortJob(w)
  <2>1. execs' \in [Worker -> Execution]
    BY <1>9, <1>a, ContinueType DEF AbortJob
  <2> QED BY <1>9, <2>1 DEF AbortJob, TypeOK, store
<1>10. CASE Restart(w)
  <2>1. execs' \in [Worker -> Execution]
    BY <1>10, IdleType, ContinueType DEF Restart
  <2> QED BY <1>10, <2>1 DEF Restart, TypeOK, store
<1>11. CASE WorkerCrash(w)
  <2>1. execs' \in [Worker -> Execution]
    BY <1>11, IdleType, ContinueType DEF WorkerCrash
  <2>2. faults' \in 0..MaxFaults
    BY <1>11, ChargeType DEF WorkerCrash, StatementEnd
  <2>3. jobs' \in [Job -> QueueJob]
    BY <1>11 DEF WorkerCrash, TypeOK, QueueJob
  <2> QED BY <1>11, <2>1, <2>2, <2>3 DEF WorkerCrash, TypeOK, store
<1> QED BY <1>1, <1>3, <1>4, <1>5, <1>6, <1>7, <1>8, <1>9, <1>10, <1>11, StatementType
         DEF WorkerNext, ExecNext

LEMMA NextType == TypeOK /\ ExecutionsCarry /\ [Next]_vars => TypeOK'
<1> SUFFICES ASSUME TypeOK, ExecutionsCarry, [Next]_vars PROVE TypeOK'
  OBVIOUS
<1>1. CASE UNCHANGED vars
  BY <1>1 DEF vars, TypeOK
<1> QED BY <1>1, DispatchNextType, WorkerNextType, QueueNextType, StoreNextType, PurgeType
         DEF Next

(***************************************************************************)
(* What executions carry.                                                  *)
(***************************************************************************)
Carries(exec) ==
    /\ exec.pc # "idle" => exec.job \in Job
    /\ exec.pc \in {"retry", "fail"} => exec.failure # "none"
    /\ exec.pc \in {"score", "complete"} => exec.outcome \in Succeeded

LEMMA ContinueCarries ==
    ASSUME TypeOK, ExecutionsCarry, NEW w \in Worker, NEW exec, Carries(exec), Continue(w, exec)
    PROVE  ExecutionsCarry'
  BY DEF TypeOK, ExecutionsCarry, Continue, Carries

\* A worker that is not idle may move on to any step that carries nothing new.
LEMMA GotoCarries ==
    ASSUME TypeOK, ExecutionsCarry, NEW w \in Worker, execs[w].pc # "idle", NEW pc \in Pc,
           pc \notin {"retry", "fail", "score"},
           pc = "complete" => execs[w].pc = "score"
    PROVE  Carries(Goto(w, pc))
  BY DEF TypeOK, ExecutionsCarry, Carries, Goto, Execution, Pc

LEMMA UnsuccessfulCarries ==
    ASSUME TypeOK, ExecutionsCarry, NEW w \in Worker, execs[w].pc = "analyze",
           NEW failure \in {"retryable", "final"}, NEW retry \in BOOLEAN
    PROVE  Carries(Unsuccessful(w, failure, retry))
  BY DEF TypeOK, ExecutionsCarry, Carries, Unsuccessful, Execution

LEMMA IdleCarries ==
    /\ Carries(Idle)
    /\ \A aborted : Carries([Idle EXCEPT !.aborted = aborted])
  BY DEF Carries, Idle

LEMMA WorkerNextCarries ==
    ASSUME TypeOK, ExecutionsCarry, NEW w \in Worker, WorkerNext(w)
    PROVE  ExecutionsCarry'
<1>a. /\ "threw" \in Pc /\ "returned" \in Pc /\ "analyze" \in Pc /\ "complete" \in Pc
      /\ \A row : AfterFind(w, row) \in {"threw", "mismatch", "returned", "claim"}
      /\ "mismatch" \in Pc /\ "claim" \in Pc
  BY DEF Pc, AfterFind
<1>1. ASSUME NEW k \in Job, GetJob(w, k)
      PROVE  ExecutionsCarry'
  <2>1. Carries([Idle EXCEPT !.pc = "find", !.job = k, !.analysis = jobs[k].analysis,
                             !.matches = jobs[k].matches,
                             !.final = jobs[k].attempts + 1 >= MaxAttempts])
    BY DEF Carries, Idle
  <2> QED BY <1>1, <2>1, ContinueCarries DEF GetJob
<1>2. ASSUME NEW end \in StatementEnd, FindAnalysis(w, end)
      PROVE  ExecutionsCarry'
  BY <1>a, <1>2, GotoCarries, ContinueCarries DEF FindAnalysis, At
<1>3. ASSUME NEW end \in StatementEnd, FailMismatch(w, end)
      PROVE  ExecutionsCarry'
  BY <1>a, <1>3, GotoCarries, ContinueCarries DEF FailMismatch, At
<1>4. ASSUME NEW end \in StatementEnd, Claim(w, end)
      PROVE  ExecutionsCarry'
  BY <1>a, <1>4, GotoCarries, ContinueCarries DEF Claim, At
<1>5. ASSUME NEW end \in StatementEnd, Progress(w, end)
      PROVE  ExecutionsCarry'
  <2>1. Carries([execs[w] EXCEPT !.stage = StageAfter(execs[w].stage)])
    BY <1>5 DEF Progress, At, TypeOK, ExecutionsCarry, Execution, Carries
  <2> QED BY <1>5, <2>1, UnsuccessfulCarries, ContinueCarries DEF Progress, At
<1>6. ASSUME NEW end \in StatementEnd, ReturnToQueue(w, end)
      PROVE  ExecutionsCarry'
  BY <1>a, <1>6, GotoCarries, ContinueCarries DEF ReturnToQueue, At
<1>7. ASSUME NEW end \in StatementEnd, RecordFailure(w, end)
      PROVE  ExecutionsCarry'
  BY <1>a, <1>7, GotoCarries, ContinueCarries DEF RecordFailure, At
<1>8. ASSUME NEW end \in StatementEnd, RecordScoring(w, end)
      PROVE  ExecutionsCarry'
  BY <1>a, <1>8, GotoCarries, ContinueCarries DEF RecordScoring, At
<1>9. ASSUME NEW end \in StatementEnd, Complete(w, end)
      PROVE  ExecutionsCarry'
  BY <1>a, <1>9, GotoCarries, ContinueCarries DEF Complete, At
<1>10. CASE AnalysisInterrupted(w) \/ AnalysisThrows(w) \/ ConnectionUnavailable(w)
  BY <1>10, UnsuccessfulCarries, ContinueCarries
  DEF AnalysisInterrupted, AnalysisThrows, ConnectionUnavailable, At
<1>11. ASSUME NEW retryable \in BOOLEAN, AnalysisRejected(w, retryable)
       PROVE  ExecutionsCarry'
  <2>1. Carries(Unsuccessful(w, IF retryable THEN "retryable" ELSE "final", retryable))
    BY <1>11, UnsuccessfulCarries DEF AnalysisRejected, At
  <2> QED BY <1>11, <2>1, ContinueCarries DEF AnalysisRejected
<1>12. ASSUME NEW outcome \in Succeeded, AnalysisSucceeds(w, outcome)
       PROVE  ExecutionsCarry'
  <2>1. Carries([execs[w] EXCEPT !.pc = "score", !.outcome = outcome])
    BY <1>12 DEF AnalysisSucceeds, At, TypeOK, ExecutionsCarry, Execution, Carries
  <2> QED BY <1>12, <2>1, ContinueCarries DEF AnalysisSucceeds
<1>13. CASE CompleteJob(w) \/ FailJob(w) \/ Restart(w) \/ WorkerCrash(w)
  BY <1>13, IdleCarries, ContinueCarries DEF CompleteJob, FailJob, Restart, WorkerCrash
<1>14. CASE RequestStop(w)
  BY <1>14 DEF RequestStop, ExecutionsCarry
<1>15. CASE AbortJob(w)
  <2>1. Carries([execs[w] EXCEPT !.aborted = TRUE])
    BY DEF TypeOK, ExecutionsCarry, Execution, Carries
  <2> QED BY <1>15, <2>1, ContinueCarries DEF AbortJob
<1> QED BY <1>1, <1>2, <1>3, <1>4, <1>5, <1>6, <1>7, <1>8, <1>9, <1>10, <1>11, <1>12,
           <1>13, <1>14, <1>15 DEF WorkerNext, ExecNext

\* Delivery runs, the queue, submissions, clocks and retention leave executions alone.
LEMMA OthersLeaveExecutions ==
    ASSUME \/ \E d \in Lease : DispatchNext(d)
           \/ \E j \in Job : QueueNext(j)
           \/ \E a \in Analysis : StoreNext(a)
           \/ \E batch \in SUBSET Analysis : PurgeExpired(batch)
    PROVE  execs' = execs
  BY DEF DispatchNext, ClaimDeliveries, Enqueue, MarkDeliveryDelivered, RetryAfterFailure,
         DispatchCrash, QueueNext, RecoverDeadOwner, LoseLiveLock, AddCompetingJob,
         StoreNext, Submit, SubmitWithoutDelivery, LeaseLapses, BackoffElapses, OnlyDelivery,
         RetentionExpires, PurgeExpired

LEMMA NextCarries == TypeOK /\ ExecutionsCarry /\ [Next]_vars => ExecutionsCarry'
<1> SUFFICES ASSUME TypeOK, ExecutionsCarry, [Next]_vars PROVE ExecutionsCarry'
  OBVIOUS
<1>1. CASE execs' = execs
  BY <1>1 DEF ExecutionsCarry
<1>2. CASE UNCHANGED vars
  BY <1>1, <1>2 DEF vars
<1> QED BY <1>1, <1>2, WorkerNextCarries, OthersLeaveExecutions DEF Next

(***************************************************************************)
(* What a step may do to one analysis and its report.                      *)
(***************************************************************************)
\* A statement worker w sends for the job it executes.
Statement(w, a) ==
    LET j == execs[w].job
    IN  \/ /\ reports'[a] = reports[a]
           /\ \/ rows'[a] = ClaimForExecution(rows[a], j)
              \/ \E stage \in WorkStage : rows'[a] = UpdateProgress(rows[a], j, stage)
              \/ \E failure \in Failure : rows'[a] = MarkRetryPending(rows[a], j, failure)
              \/ \E failure \in Failure \ {"none"} : rows'[a] = Fail(rows[a], j, failure)
        \/ \E outcome \in Succeeded :
              /\ rows'[a] = CompleteRow(rows[a], j, outcome)
              /\ reports'[a] = CompleteReport(rows[a], reports[a], j, outcome)

Untouched(a) == rows'[a] = rows[a] /\ reports'[a] = reports[a]
Ages(a)      == rows'[a] = [rows[a] EXCEPT !.expired = TRUE] /\ reports'[a] = reports[a]
Executes(w, a) ==
    /\ execs[w].job \in Job
    /\ execs'[w] # execs[w]
    /\ Statement(w, a)
    /\ execs[w].pc # "idle"

RowEffect(a) ==
    \/ Untouched(a)
    \/ rows[a].status = "absent" /\ rows'[a] = QueuedRow /\ reports'[a] = reports[a]
    \/ Exists(rows[a]) /\ Ages(a)
    \/ IsPurgeable(rows[a]) /\ rows'[a] = PurgedRow /\ reports'[a] = "none"
    \/ \E w \in Worker : Executes(w, a)

\* The statements of an execution have one of the effects of Statement on its own
\* analysis and leave every other one alone.
LEMMA UpdateRowEffect ==
    ASSUME TypeOK, NEW w \in Worker, NEW end \in StatementEnd, NEW row, NEW a \in Analysis,
           UpdateRow(w, end, row)
    PROVE  rows'[a] = rows[a] \/ (a = execs[w].analysis /\ rows'[a] = row)
  BY DEF TypeOK, UpdateRow, SetRow

LEMMA ExecNextEffect ==
    ASSUME TypeOK, ExecutionsCarry, NEW w \in Worker, ExecNext(w), NEW a \in Analysis
    PROVE  Untouched(a) \/ Executes(w, a)
<1> DEFINE j == execs[w].job
<1>a. /\ execs[w] \in Execution
      /\ "final" \in Failure \ {"none"} /\ "scoring" \in WorkStage
  BY DEF TypeOK, Failure, WorkStage
<1>b. ASSUME NEW pc \in Pc, execs[w].pc # pc, Continue(w, Goto(w, pc))
      PROVE  execs'[w] # execs[w]
  BY <1>a, <1>b DEF TypeOK, Continue, Goto, Execution
<1>c. /\ "threw" \in Pc /\ "returned" \in Pc /\ "analyze" \in Pc /\ "complete" \in Pc
  BY DEF Pc
<1>1. ASSUME NEW end \in StatementEnd, FailMismatch(w, end)
      PROVE  Untouched(a) \/ Executes(w, a)
  <2>1. j \in Job /\ execs'[w] # execs[w] /\ execs[w].pc # "idle"
    BY <1>1, <1>b, <1>c DEF FailMismatch, At, ExecutionsCarry
  <2>2. rows'[a] = rows[a] \/ rows'[a] = Fail(rows[a], j, "final")
    BY <1>1, UpdateRowEffect DEF FailMismatch
  <2>3. reports'[a] = reports[a]
    BY <1>1 DEF FailMismatch
  <2> QED BY <1>a, <2>1, <2>2, <2>3 DEF Untouched, Executes, Statement
<1>2. ASSUME NEW end \in StatementEnd, Claim(w, end)
      PROVE  Untouched(a) \/ Executes(w, a)
  <2>1. j \in Job /\ execs'[w] # execs[w] /\ execs[w].pc # "idle"
    BY <1>2, <1>b, <1>c DEF Claim, At, ExecutionsCarry
  <2>2. rows'[a] = rows[a] \/ rows'[a] = ClaimForExecution(rows[a], j)
    BY <1>2, UpdateRowEffect DEF Claim
  <2>3. reports'[a] = reports[a]
    BY <1>2 DEF Claim
  <2> QED BY <2>1, <2>2, <2>3 DEF Untouched, Executes, Statement
<1>3. ASSUME NEW end \in StatementEnd, Progress(w, end)
      PROVE  Untouched(a) \/ Executes(w, a)
  <2>1. /\ execs[w].stage \in ({"queued"} \cup WorkStage) \ {"scoring"}
        /\ execs[w].pc = "analyze" /\ j \in Job
    BY <1>a, <1>3 DEF Progress, At, Execution, ExecutionsCarry
  <2>2. StageAfter(execs[w].stage) \in WorkStage /\ StageAfter(execs[w].stage) # execs[w].stage
    BY <2>1, StageAfterType DEF StageAfter, WorkStage
  <2>3. execs'[w] # execs[w]
    BY <1>a, <1>3, <2>1, <2>2
    DEF Progress, Unsuccessful, Continue, TypeOK, Execution
  <2>4. rows'[a] = rows[a] \/ rows'[a] = UpdateProgress(rows[a], j, StageAfter(execs[w].stage))
    BY <1>3, UpdateRowEffect DEF Progress
  <2>5. reports'[a] = reports[a]
    BY <1>3 DEF Progress
  <2> QED BY <2>1, <2>2, <2>3, <2>4, <2>5 DEF Untouched, Executes, Statement
<1>4. ASSUME NEW end \in StatementEnd, ReturnToQueue(w, end)
      PROVE  Untouched(a) \/ Executes(w, a)
  <2>1. j \in Job /\ execs'[w] # execs[w] /\ execs[w].pc # "idle" /\ execs[w].failure \in Failure
    BY <1>a, <1>4, <1>b, <1>c DEF ReturnToQueue, At, ExecutionsCarry, Execution
  <2>2. rows'[a] = rows[a] \/ rows'[a] = MarkRetryPending(rows[a], j, execs[w].failure)
    BY <1>4, UpdateRowEffect DEF ReturnToQueue
  <2>3. reports'[a] = reports[a]
    BY <1>4 DEF ReturnToQueue
  <2> QED BY <2>1, <2>2, <2>3 DEF Untouched, Executes, Statement
<1>5. ASSUME NEW end \in StatementEnd, RecordFailure(w, end)
      PROVE  Untouched(a) \/ Executes(w, a)
  <2>1. j \in Job /\ execs'[w] # execs[w] /\ execs[w].pc # "idle" /\ execs[w].failure \in Failure \ {"none"}
    BY <1>a, <1>5, <1>b, <1>c DEF RecordFailure, At, ExecutionsCarry, Execution
  <2>2. rows'[a] = rows[a] \/ rows'[a] = Fail(rows[a], j, execs[w].failure)
    BY <1>5, UpdateRowEffect DEF RecordFailure
  <2>3. reports'[a] = reports[a]
    BY <1>5 DEF RecordFailure
  <2> QED BY <2>1, <2>2, <2>3 DEF Untouched, Executes, Statement
<1>6. ASSUME NEW end \in StatementEnd, RecordScoring(w, end)
      PROVE  Untouched(a) \/ Executes(w, a)
  <2>1. j \in Job /\ execs'[w] # execs[w] /\ execs[w].pc # "idle"
    BY <1>6, <1>b, <1>c DEF RecordScoring, At, ExecutionsCarry
  <2>2. rows'[a] = rows[a] \/ rows'[a] = UpdateProgress(rows[a], j, "scoring")
    BY <1>6, UpdateRowEffect DEF RecordScoring
  <2>3. reports'[a] = reports[a]
    BY <1>6 DEF RecordScoring
  <2> QED BY <1>a, <2>1, <2>2, <2>3 DEF Untouched, Executes, Statement
<1>7. ASSUME NEW end \in StatementEnd, Complete(w, end)
      PROVE  Untouched(a) \/ Executes(w, a)
  <2> DEFINE o == execs[w].outcome
  <2>1. j \in Job /\ execs'[w] # execs[w] /\ execs[w].pc # "idle" /\ o \in Succeeded
    BY <1>7, <1>b, <1>c DEF Complete, At, ExecutionsCarry
  <2>2. CASE ~Applied(end) \/ a # execs[w].analysis
    BY <1>7, <2>2 DEF Complete, UpdateRow, SetRow, TypeOK, Untouched
  <2>3. CASE Applied(end) /\ a = execs[w].analysis
    <3>1. rows'[a] = CompleteRow(rows[a], j, o)
      BY <1>7, <2>3 DEF Complete, UpdateRow, SetRow, TypeOK
    <3>2. reports'[a] = CompleteReport(rows[a], reports[a], j, o)
      BY <1>7, <2>3 DEF Complete, TypeOK
    <3> QED BY <2>1, <3>1, <3>2 DEF Executes, Statement
  <2> QED BY <2>2, <2>3
<1>8. CASE \/ \E end \in StatementEnd : FindAnalysis(w, end)
           \/ AnalysisInterrupted(w)
           \/ AnalysisThrows(w)
           \/ ConnectionUnavailable(w)
           \/ \E retryable \in BOOLEAN : AnalysisRejected(w, retryable)
           \/ \E outcome \in Succeeded : AnalysisSucceeds(w, outcome)
           \/ CompleteJob(w)
           \/ FailJob(w)
  BY <1>8 DEF FindAnalysis, AnalysisInterrupted, AnalysisThrows, ConnectionUnavailable,
     AnalysisRejected, AnalysisSucceeds, CompleteJob, FailJob, NoWrite, store, Untouched
<1> QED BY <1>1, <1>2, <1>3, <1>4, <1>5, <1>6, <1>7, <1>8 DEF ExecNext

LEMMA NextEffect ==
    ASSUME TypeOK, ExecutionsCarry, [Next]_vars, NEW a \in Analysis
    PROVE  RowEffect(a)
<1>1. CASE UNCHANGED vars
  BY <1>1 DEF vars, RowEffect, Untouched
<1>2. ASSUME NEW d \in Lease, DispatchNext(d)
      PROVE  Untouched(a)
  BY <1>2 DEF DispatchNext, ClaimDeliveries, Enqueue, MarkDeliveryDelivered,
              RetryAfterFailure, DispatchCrash, Untouched
<1>3. ASSUME NEW w \in Worker, WorkerNext(w)
      PROVE  RowEffect(a)
  <2>1. CASE ExecNext(w)
    BY <2>1, ExecNextEffect DEF RowEffect
  <2>2. CASE \/ \E j \in Job : GetJob(w, j)
             \/ RequestStop(w)
             \/ AbortJob(w)
             \/ Restart(w)
             \/ WorkerCrash(w)
    BY <2>2 DEF GetJob, RequestStop, AbortJob, Restart, WorkerCrash, store, RowEffect, Untouched
  <2> QED BY <1>3, <2>1, <2>2 DEF WorkerNext
<1>4. ASSUME NEW j \in Job, QueueNext(j)
      PROVE  Untouched(a)
  BY <1>4 DEF QueueNext, RecoverDeadOwner, LoseLiveLock, AddCompetingJob, store, Untouched
<1>5. ASSUME NEW b \in Analysis, StoreNext(b)
      PROVE  RowEffect(a)
  BY <1>5 DEF StoreNext, Submit, SubmitWithoutDelivery, LeaseLapses, BackoffElapses,
     OnlyDelivery, RetentionExpires, SetRow, TypeOK, RowEffect, Untouched, Ages
<1>6. ASSUME NEW batch \in SUBSET Analysis, PurgeExpired(batch)
      PROVE  RowEffect(a)
  BY <1>6 DEF PurgeExpired, RowEffect, Untouched
<1> QED BY <1>1, <1>2, <1>3, <1>4, <1>5, <1>6 DEF Next, RowEffect

(***************************************************************************)
(* The inductive invariant.                                                *)
(***************************************************************************)
\* RecordConsistent and ReportMatchesStatus, for one analysis.
ReportConsistent(a) ==
    reports[a] = IF rows[a].status \in Succeeded THEN rows[a].status ELSE "none"

LEMMA PerAnalysis ==
    /\ RecordConsistent <=> \A a \in Analysis : RowConsistent(rows[a])
    /\ ReportMatchesStatus <=> \A a \in Analysis : ReportConsistent(a)
  BY DEF RecordConsistent, RowConsistent, ReportMatchesStatus, ReportConsistent

LEMMA InitIInv == Init => IInv
<1> SUFFICES ASSUME Init PROVE IInv
  OBVIOUS
<1>1. TypeOK
  BY InitType
<1>2. ExecutionsCarry
  BY DEF Init, ExecutionsCarry, Idle
<1>3. RecordConsistent
  BY FixedRowsConsistent, PerAnalysis DEF Init
<1>4. ReportMatchesStatus
  BY DEF Init, ReportMatchesStatus, NoRow, Succeeded
<1> QED BY <1>1, <1>2, <1>3, <1>4 DEF IInv

\* One analysis stays consistent, with its report, whatever happens to it.
LEMMA EffectKeepsConsistency ==
    ASSUME TypeOK, NEW a \in Analysis, RowEffect(a),
           RowConsistent(rows[a]), ReportConsistent(a)
    PROVE  RowConsistent(rows[a])' /\ ReportConsistent(a)'
<1>a. rows[a] \in Row /\ reports[a] \in Report
  BY DEF TypeOK
<1>1. CASE Untouched(a)
  BY <1>1 DEF Untouched, RowConsistent, ReportConsistent
<1>2. CASE rows[a].status = "absent" /\ rows'[a] = QueuedRow /\ reports'[a] = reports[a]
  BY <1>2, FixedRowsConsistent DEF RowConsistent, ReportConsistent, QueuedRow, NoRow, Succeeded
<1>3. CASE Ages(a)
  <2>1. RowConsistent([rows[a] EXCEPT !.expired = TRUE])
    BY <1>a, RowConsistent(rows[a]) DEF RowConsistent, Row, IsTerminal
  <2>2. [rows[a] EXCEPT !.expired = TRUE].status = rows[a].status
    BY <1>a DEF Row
  <2> QED BY <1>3, <2>1, <2>2 DEF Ages, RowConsistent, ReportConsistent
<1>4. CASE rows'[a] = PurgedRow /\ reports'[a] = "none"
  BY <1>4, FixedRowsConsistent DEF RowConsistent, ReportConsistent, PurgedRow, NoRow, Succeeded
<1>5. ASSUME NEW w \in Worker, Executes(w, a)
      PROVE  RowConsistent(rows[a])' /\ ReportConsistent(a)'
  <2> DEFINE j == execs[w].job
  <2>1. j \in Job
    BY <1>5 DEF Executes
  <2>2. RowConsistent(rows'[a])
    BY <1>a, <1>5, <2>1, RowsStayConsistent DEF Executes, Statement
  <2>3. ReportConsistent(a)'
    BY <1>a, <1>5, <2>1, StatusEffects
    DEF Executes, Statement, ReportConsistent, Succeeded
  <2> QED BY <2>2, <2>3 DEF RowConsistent
<1> QED BY <1>1, <1>2, <1>3, <1>4, <1>5 DEF RowEffect

LEMMA NextIInv == IInv /\ [Next]_vars => IInv'
<1> SUFFICES ASSUME IInv, [Next]_vars PROVE IInv'
  OBVIOUS
<1>1. TypeOK' /\ ExecutionsCarry'
  BY NextType, NextCarries DEF IInv
<1>2. \A a \in Analysis : RowConsistent(rows[a])' /\ ReportConsistent(a)'
  BY NextEffect, EffectKeepsConsistency, PerAnalysis DEF IInv
<1>3. RecordConsistent' /\ ReportMatchesStatus'
  BY <1>2 DEF RecordConsistent, RowConsistent, ReportMatchesStatus, ReportConsistent
<1> QED BY <1>1, <1>3 DEF IInv

(***************************************************************************)
(* The theorems.                                                           *)
(***************************************************************************)
\* IInv is invariant: types, what executions carry, consistent records and their reports.
THEOREM Invariant == Spec => []IInv
  BY InitIInv, NextIInv, PTL DEF Spec

\* Every variable keeps its type, in particular no counter leaves its bound.
THEOREM TypeCorrect == Spec => []TypeOK
<1>1. IInv => TypeOK
  BY DEF IInv
<1> QED BY <1>1, Invariant, PTL

\* What a client polls (repository.ts, findAnalysis) is always one consistent record.
THEOREM RecordsAreConsistent == Spec => []RecordConsistent
<1>1. IInv => RecordConsistent
  BY DEF IInv
<1> QED BY <1>1, Invariant, PTL

\* complete() and the retention sweep keep reports and statuses together: a report exists
\* exactly for the analyses that succeeded.
THEOREM ReportsMatchStatuses == Spec => []ReportMatchesStatus
<1>1. IInv => ReportMatchesStatus
  BY DEF IInv
<1> QED BY <1>1, Invariant, PTL

LEMMA TerminalEffect ==
    ASSUME TypeOK, NEW a \in Analysis, RowEffect(a), IsTerminal(rows[a])
    PROVE  \/ /\ rows'[a] \in {rows[a], [rows[a] EXCEPT !.expired = TRUE]}
              /\ reports'[a] = reports[a]
           \/ rows[a].expired /\ rows'[a] = PurgedRow
<1>a. rows[a] \in Row /\ rows[a].status # "absent"
  BY DEF TypeOK, IsTerminal, Terminal, Succeeded
<1>1. ASSUME NEW w \in Worker, Executes(w, a)
      PROVE  rows'[a] = rows[a] /\ reports'[a] = reports[a]
  BY <1>a, <1>1, TerminalRowsStay DEF Executes, Statement
<1> QED BY <1>a, <1>1 DEF RowEffect, Untouched, Ages, IsPurgeable

\* No statement of any attempt, job or delivery run changes a published result.
THEOREM TerminalsAreFinal == Spec => TerminalIsFinal
<1>1. IInv /\ [Next]_vars =>
        [\A a \in Analysis : IsTerminal(rows[a]) =>
            \/ /\ rows'[a] \in {rows[a], [rows[a] EXCEPT !.expired = TRUE]}
               /\ reports'[a] = reports[a]
            \/ rows[a].expired /\ rows'[a] = PurgedRow]_vars
  BY NextEffect, TerminalEffect DEF IInv
<1> QED BY <1>1, Invariant, PTL DEF Spec, TerminalIsFinal

LEMMA OwnedEffect ==
    ASSUME TypeOK, NEW a \in Analysis, RowEffect(a), RowConsistent(rows[a]),
           rows[a].activeJob # NoJob,
           rows'[a] \notin {rows[a], [rows[a] EXCEPT !.expired = TRUE]}
    PROVE  \E w \in Worker : execs[w].job = rows[a].activeJob /\ execs'[w] # execs[w]
<1>a. rows[a] \in Row /\ rows[a].status = "running"
  BY DEF TypeOK, RowConsistent
<1>1. PICK w \in Worker : Executes(w, a)
  BY <1>a DEF RowEffect, Untouched, Ages, IsPurgeable
<1>2. execs[w].job = rows[a].activeJob
  BY <1>a, <1>1, OthersLeaveOwnedRows DEF Executes, Statement
<1> QED BY <1>1, <1>2 DEF Executes

\* repository-jobs.md, "Execution ownership", whatever the queue does with its locks.
THEOREM OwnersWriteAlone == Spec => OnlyOwnerWrites
<1>1. IInv /\ [Next]_vars =>
        [\A a \in Analysis :
            /\ rows[a].activeJob # NoJob
            /\ rows'[a] \notin {rows[a], [rows[a] EXCEPT !.expired = TRUE]}
            => \E w \in Worker :
                  execs[w].job = rows[a].activeJob /\ execs'[w] # execs[w]]_vars
  BY NextEffect, OwnedEffect, PerAnalysis DEF IInv
<1> QED BY <1>1, Invariant, PTL DEF Spec, OnlyOwnerWrites

(***************************************************************************)
(* One worker at a time.  As long as the queue gives away no live lock, a  *)
(* worker that is not idle holds the lock of its job, and the worker that  *)
(* analyses or settles an analysis executes the job that owns its row.     *)
(***************************************************************************)
LocksHeld ==
    /\ \A j \in Job : jobs[j].state # "none" => jobs[j].analysis \in Analysis
    /\ \A w \in Worker : execs[w].pc # "idle" =>
          /\ execs[w].analysis \in Analysis
          /\ execs[w].analysis = jobs[execs[w].job].analysis
          /\ jobs[execs[w].job].state = "locked"
          /\ jobs[execs[w].job].holder = w

Owns(w) == /\ rows[execs[w].analysis].status = "running"
           /\ rows[execs[w].analysis].activeJob = execs[w].job

ClaimsHeld == \A w \in Worker : execs[w].pc \in Working => Owns(w)

\* An execution that moves on keeps its job and its analysis.
KeepsJob(w) ==
    execs'[w].pc # "idle" => /\ execs[w].pc # "idle"
                             /\ execs'[w].job = execs[w].job
                             /\ execs'[w].analysis = execs[w].analysis

LEMMA ContinueKeepsJob ==
    ASSUME TypeOK, NEW w \in Worker, NEW exec, Continue(w, exec),
           \/ exec.pc = "idle"
           \/ execs[w].pc # "idle" /\ exec.job = execs[w].job /\ exec.analysis = execs[w].analysis
    PROVE  \A v \in Worker : KeepsJob(v)
  BY DEF TypeOK, Continue, KeepsJob

LEMMA GotoKeepsJob ==
    ASSUME TypeOK, NEW w \in Worker, NEW pc
    PROVE  /\ Goto(w, pc).job = execs[w].job /\ Goto(w, pc).analysis = execs[w].analysis
           /\ Goto(w, pc).pc = pc
  BY DEF TypeOK, Goto, Execution

LEMMA UnsuccessfulKeepsJob ==
    ASSUME TypeOK, NEW w \in Worker, NEW failure, NEW retry \in BOOLEAN
    PROVE  /\ Unsuccessful(w, failure, retry).job = execs[w].job
           /\ Unsuccessful(w, failure, retry).analysis = execs[w].analysis
           /\ Unsuccessful(w, failure, retry).pc \in {"retry", "fail"}
  BY DEF TypeOK, Unsuccessful, Execution

\* The end of an analysis is a step of the same job.
Concludes(w) ==
    \/ AnalysisInterrupted(w) \/ AnalysisThrows(w) \/ ConnectionUnavailable(w)
    \/ \E retryable \in BOOLEAN : AnalysisRejected(w, retryable)
    \/ \E outcome \in Succeeded : AnalysisSucceeds(w, outcome)

LEMMA ConclusionKeepsJob ==
    ASSUME TypeOK, NEW w \in Worker, Concludes(w)
    PROVE  /\ execs[w].pc \in Working /\ jobs' = jobs /\ rows' = rows
           /\ \A v \in Worker : KeepsJob(v)
<1>1. execs[w].pc = "analyze" /\ jobs' = jobs /\ rows' = rows
  BY DEF Concludes, AnalysisInterrupted, AnalysisThrows, ConnectionUnavailable,
         AnalysisRejected, AnalysisSucceeds, At, NoWrite, store
<1>2. ASSUME NEW exec, Continue(w, exec), exec.job = execs[w].job,
             exec.analysis = execs[w].analysis
      PROVE  \A v \in Worker : KeepsJob(v)
  BY <1>1, <1>2, ContinueKeepsJob
<1>3. ASSUME NEW outcome \in Succeeded, AnalysisSucceeds(w, outcome)
      PROVE  \A v \in Worker : KeepsJob(v)
  <2> DEFINE exec == [execs[w] EXCEPT !.pc = "score", !.outcome = outcome]
  <2>1. exec.job = execs[w].job /\ exec.analysis = execs[w].analysis /\ Continue(w, exec)
    BY <1>3 DEF AnalysisSucceeds, TypeOK, Execution
  <2> HIDE DEF exec
  <2> QED BY <1>1, <2>1, ContinueKeepsJob
<1>a. execs[w] \in Execution
  BY DEF TypeOK
<1>4. CASE AnalysisInterrupted(w) \/ AnalysisThrows(w)
  <2> DEFINE exec == Unsuccessful(w, "retryable", TRUE)
  <2>1. Continue(w, exec) /\ exec.job = execs[w].job /\ exec.analysis = execs[w].analysis
    BY <1>a, <1>4 DEF AnalysisInterrupted, AnalysisThrows, Unsuccessful, Execution
  <2> HIDE DEF exec
  <2> QED BY <1>1, <1>2, <2>1 DEF Working
<1>5. CASE ConnectionUnavailable(w)
  <2> DEFINE exec == Unsuccessful(w, "final", FALSE)
  <2>1. Continue(w, exec) /\ exec.job = execs[w].job /\ exec.analysis = execs[w].analysis
    BY <1>a, <1>5 DEF ConnectionUnavailable, Unsuccessful, Execution
  <2> HIDE DEF exec
  <2> QED BY <1>1, <1>2, <2>1 DEF Working
<1>6. ASSUME NEW retryable \in BOOLEAN, AnalysisRejected(w, retryable)
      PROVE  \A v \in Worker : KeepsJob(v)
  <2> DEFINE exec == Unsuccessful(w, IF retryable THEN "retryable" ELSE "final", retryable)
  <2>1. Continue(w, exec) /\ exec.job = execs[w].job /\ exec.analysis = execs[w].analysis
    BY <1>a, <1>6, UnsuccessfulKeepsJob DEF AnalysisRejected
  <2> HIDE DEF exec
  <2> QED BY <1>2, <2>1
<1> QED BY <1>1, <1>3, <1>4, <1>5, <1>6 DEF Concludes, Working

\* A step that leaves the queue alone keeps the locks.
LEMMA QuietStepHoldsLocks ==
    ASSUME LocksHeld, jobs' = jobs, \A v \in Worker : KeepsJob(v)
    PROVE  LocksHeld'
  BY DEF LocksHeld, KeepsJob

LEMMA ExecNextHoldsLocks ==
    ASSUME TypeOK, ExecutionsCarry, LocksHeld, NEW w \in Worker, ExecNext(w)
    PROVE  LocksHeld'
<1>a. execs[w] \in Execution
  BY DEF TypeOK
<1>1. ASSUME NEW end \in StatementEnd,
             \/ FindAnalysis(w, end)
             \/ FailMismatch(w, end)
             \/ Claim(w, end)
             \/ ReturnToQueue(w, end)
             \/ RecordFailure(w, end)
             \/ RecordScoring(w, end)
             \/ Complete(w, end)
      PROVE  LocksHeld'
  <2>1. execs[w].pc # "idle" /\ jobs' = jobs /\ \E pc : Continue(w, Goto(w, pc))
    BY <1>1 DEF FindAnalysis, FailMismatch, Claim, ReturnToQueue, RecordFailure, RecordScoring,
                Complete, UpdateRow, At
  <2>2. \A v \in Worker : KeepsJob(v)
    BY <2>1, GotoKeepsJob, ContinueKeepsJob
  <2> QED BY <2>1, <2>2, QuietStepHoldsLocks
<1>2. ASSUME NEW end \in StatementEnd, Progress(w, end)
      PROVE  LocksHeld'
  <2>1. execs[w].pc # "idle" /\ jobs' = jobs
    BY <1>2 DEF Progress, UpdateRow, At
  <2>2. \A v \in Worker : KeepsJob(v)
    BY <1>a, <1>2, <2>1, UnsuccessfulKeepsJob, ContinueKeepsJob DEF Progress, Execution
  <2> QED BY <2>1, <2>2, QuietStepHoldsLocks
<1>3. CASE Concludes(w)
  BY <1>3, ConclusionKeepsJob, QuietStepHoldsLocks
<1>4. ASSUME CompleteJob(w) \/ FailJob(w)
      PROVE  LocksHeld'
  <2>1. /\ execs[w].pc # "idle" /\ execs[w].job \in Job
        /\ \A v \in Worker \ {w} : execs[v].pc # "idle" => execs[v].job # execs[w].job
    BY <1>4 DEF CompleteJob, FailJob, At, ExecutionsCarry, LocksHeld
  <2>2. \A v \in Worker : KeepsJob(v) /\ (execs'[v].pc # "idle" => v # w)
    BY <1>4 DEF CompleteJob, FailJob, Continue, KeepsJob, Idle, TypeOK
  <2>3. /\ \A j \in Job \ {execs[w].job} : jobs'[j] = jobs[j]
        /\ \/ jobs'[execs[w].job].state = "none"
           \/ jobs'[execs[w].job].analysis = jobs[execs[w].job].analysis
    <3>1. CASE CompleteJob(w)
      BY <2>1, <3>1 DEF CompleteJob, TypeOK, NoQueueJob
    <3>2. CASE FailJob(w)
      <4>1. jobs' = jobs \/ jobs' = [jobs EXCEPT ![execs[w].job] = Unlocked(jobs[execs[w].job])]
        BY <3>2 DEF FailJob
      <4>2. jobs[execs[w].job] \in QueueJob
        BY <2>1 DEF TypeOK
      <4>3. Unlocked(jobs[execs[w].job]).analysis = jobs[execs[w].job].analysis
        BY <4>2 DEF Unlocked, QueueJob
      <4> QED BY <2>1, <4>1, <4>3 DEF TypeOK
    <3> QED BY <1>4, <3>1, <3>2
  <2>4. jobs[execs[w].job].state = "locked"
    BY <2>1 DEF LocksHeld
  <2>5. \A v \in Worker : execs[v].pc # "idle" => execs[v].job \in Job
    BY DEF ExecutionsCarry
  <2> QED BY <2>1, <2>2, <2>3, <2>4, <2>5 DEF LocksHeld, KeepsJob
<1> QED BY <1>1, <1>2, <1>3, <1>4 DEF ExecNext, Concludes

LEMMA NextHoldsLocks ==
    ASSUME ~\E j \in Job : LoseLiveLock(j), TypeOK, ExecutionsCarry, LocksHeld, [Next]_vars
    PROVE  LocksHeld'
<1>a. \A v \in Worker : execs[v].pc # "idle" => execs[v].job \in Job
  BY DEF ExecutionsCarry
<1>1. ASSUME execs' = execs, jobs' = jobs
      PROVE  LocksHeld'
  BY <1>1 DEF LocksHeld
\* A job that is added takes a free place of the queue.
<1>2. ASSUME execs' = execs, NEW a \in Analysis, NEW j \in Job, NEW matches, NEW keyed,
             FreeJob(j), jobs' = [jobs EXCEPT ![j] = QueuedJob(a, matches, keyed)]
      PROVE  LocksHeld'
  BY <1>a, <1>2 DEF LocksHeld, FreeJob, QueuedJob, TypeOK
<1>3. ASSUME NEW d \in Lease, DispatchNext(d)
      PROVE  LocksHeld'
  <2>1. execs' = execs
    BY <1>3, OthersLeaveExecutions
  <2>2. CASE jobs' = jobs
    BY <1>1, <2>1, <2>2
  <2>3. CASE \E a \in Analysis : AddJob(a)
    BY <1>1, <1>2, <2>1, <2>3 DEF AddJob
  <2> QED BY <1>3, <2>2, <2>3 DEF DispatchNext, ClaimDeliveries, Enqueue, MarkDeliveryDelivered,
                                  RetryAfterFailure, DispatchCrash
<1>4. ASSUME NEW w \in Worker, NEW j \in Job, GetJob(w, j)
      PROVE  LocksHeld'
  <2>1. \A v \in Worker : execs[v].pc # "idle" => v # w /\ execs[v].job # j
    BY <1>4 DEF GetJob, At, LocksHeld
  <2>2. /\ jobs'[j].state = "locked" /\ jobs'[j].holder = w
        /\ jobs'[j].analysis = jobs[j].analysis /\ jobs[j].analysis \in Analysis
        /\ \A k \in Job \ {j} : jobs'[k] = jobs[k]
    BY <1>4 DEF GetJob, TypeOK, QueueJob, LocksHeld
  <2>3. /\ execs'[w].job = j /\ execs'[w].analysis = jobs[j].analysis
        /\ \A v \in Worker \ {w} : execs'[v] = execs[v]
    BY <1>4 DEF GetJob, Continue, TypeOK, Idle
  <2> QED BY <1>a, <2>1, <2>2, <2>3 DEF LocksHeld
<1>5. ASSUME NEW w \in Worker, WorkerCrash(w)
      PROVE  LocksHeld'
  <2>1. \A v \in Worker : execs'[v].pc # "idle" => v # w /\ execs'[v] = execs[v]
    BY <1>5 DEF WorkerCrash, Continue, TypeOK, Idle
  <2>2. \A j \in Job : /\ jobs'[j].state = jobs[j].state /\ jobs'[j].analysis = jobs[j].analysis
                       /\ jobs[j].holder # w => jobs'[j] = jobs[j]
    BY <1>5 DEF WorkerCrash, TypeOK, QueueJob
  <2> QED BY <1>a, <2>1, <2>2 DEF LocksHeld
<1>6. ASSUME NEW w \in Worker, RequestStop(w) \/ AbortJob(w) \/ Restart(w)
      PROVE  LocksHeld'
  <2>1. jobs' = jobs /\ \A v \in Worker : KeepsJob(v)
    BY <1>6 DEF RequestStop, AbortJob, Restart, Continue, KeepsJob, TypeOK, Idle, At, Execution
  <2> QED BY <2>1, QuietStepHoldsLocks
<1>7. ASSUME NEW w \in Worker, WorkerNext(w)
      PROVE  LocksHeld'
  BY <1>4, <1>5, <1>6, <1>7, ExecNextHoldsLocks DEF WorkerNext
<1>8. ASSUME NEW j \in Job, QueueNext(j)
      PROVE  LocksHeld'
  <2>1. execs' = execs
    BY <1>8, OthersLeaveExecutions
  <2>2. CASE RecoverDeadOwner(j)
    <3>1. \A v \in Worker : execs[v].pc # "idle" => execs[v].job # j
      BY <2>2, WorkerAssumption DEF RecoverDeadOwner, LocksHeld
    <3>2. jobs'[j].analysis = jobs[j].analysis /\ jobs[j].state # "none"
          /\ \A k \in Job \ {j} : jobs'[k] = jobs[k]
      BY <2>2 DEF RecoverDeadOwner, TypeOK, QueueJob, Unlocked
    <3> QED BY <1>a, <2>1, <3>1, <3>2 DEF LocksHeld
  <2>3. CASE \E a \in Analysis, matches \in BOOLEAN : AddCompetingJob(a, matches, j)
    BY <1>2, <2>1, <2>3 DEF AddCompetingJob
  <2> QED BY <1>8, <2>2, <2>3 DEF QueueNext
<1>9. ASSUME \/ \E a \in Analysis : StoreNext(a)
             \/ \E batch \in SUBSET Analysis : PurgeExpired(batch)
      PROVE  LocksHeld'
  <2>1. execs' = execs
    BY <1>9, OthersLeaveExecutions
  <2>2. jobs' = jobs
    BY <1>9 DEF StoreNext, Submit, SubmitWithoutDelivery, LeaseLapses, BackoffElapses,
                OnlyDelivery, RetentionExpires, PurgeExpired
  <2> QED BY <1>1, <2>1, <2>2
<1>10. CASE UNCHANGED vars
  BY <1>1, <1>10 DEF vars
<1> QED BY <1>3, <1>7, <1>8, <1>9, <1>10 DEF Next

\* The row a worker owns is changed by nobody else.
LEMMA OthersLeaveClaims ==
    ASSUME TypeOK, ExecutionsCarry, RecordConsistent, LocksHeld, [Next]_vars, NEW w \in Worker,
           execs[w].pc # "idle", Owns(w), execs'[w] = execs[w]
    PROVE  Owns(w)'
<1> DEFINE a == execs[w].analysis
<1>a. /\ a \in Analysis /\ execs[w].job \in Job /\ rows[a] \in Row /\ RowConsistent(rows[a])
      /\ execs[w].job # NoJob
  BY PerAnalysis, JobAssumption DEF LocksHeld, ExecutionsCarry, TypeOK
<1>1. RowEffect(a)
  BY <1>a, NextEffect
<1>2. ASSUME NEW v \in Worker, Executes(v, a)
      PROVE  rows'[a] = rows[a]
  <2>1. v # w
    BY <1>2 DEF Executes
  <2>2. execs[v].pc # "idle" => execs[v].job # execs[w].job
    BY <1>a, <2>1 DEF LocksHeld
  <2> QED BY <1>a, <1>2, <2>2, OthersLeaveOwnedRows DEF Executes, Statement, Owns
<1>3. rows'[a] = rows[a] \/ rows'[a] = [rows[a] EXCEPT !.expired = TRUE]
  BY <1>a, <1>1, <1>2 DEF RowEffect, Untouched, Ages, Owns, IsPurgeable
<1> QED BY <1>a, <1>3 DEF Owns, Row

\* A worker reaches, and stays in, its working steps only with the row claimed.
LEMMA OwnStepKeepsClaim ==
    ASSUME TypeOK, ExecutionsCarry, LocksHeld, NEW w \in Worker, WorkerNext(w),
           execs[w].pc \in Working => Owns(w), execs'[w].pc \in Working
    PROVE  Owns(w)'
<1> DEFINE a == execs[w].analysis
           j == execs[w].job
<1>a. execs[w] \in Execution /\ (a \in Analysis => rows[a] \in Row)
  BY DEF TypeOK
<1>b. execs[w].pc # "idle" => a \in Analysis /\ j \in Job
  BY DEF LocksHeld, ExecutionsCarry
<1>1. ASSUME rows' = rows, execs[w].pc \in Working, KeepsJob(w)
      PROVE  Owns(w)'
  BY <1>1 DEF Owns, KeepsJob, Working
<1>2. ASSUME NEW end \in StatementEnd, Claim(w, end)
      PROVE  Owns(w)'
  <2>1. a \in Analysis
    BY <1>b, <1>2 DEF Claim, At
  <2>2. /\ end = "ok" /\ CanClaim(rows[a], j)
        /\ execs'[w].job = j /\ execs'[w].analysis = a
    BY <1>a, <1>2 DEF Claim, Continue, Goto, TypeOK, Working, Execution
  <2>3. rows'[a] = ClaimForExecution(rows[a], j)
    BY <1>2, <2>1, <2>2 DEF Claim, UpdateRow, SetRow, Applied, TypeOK
  <2> QED BY <1>a, <2>1, <2>2, <2>3 DEF ClaimForExecution, Owns, Row
<1>3. ASSUME NEW end \in StatementEnd, Progress(w, end) \/ RecordScoring(w, end)
      PROVE  Owns(w)'
  <2>1. a \in Analysis /\ Owns(w)
    BY <1>b, <1>3 DEF Progress, RecordScoring, At, Working
  <2>2. execs'[w].job = j /\ execs'[w].analysis = a
    <3>1. CASE RecordScoring(w, end)
      BY <3>1, GotoKeepsJob DEF RecordScoring, Continue, TypeOK
    <3>2. CASE Progress(w, end)
      <4>1. \/ execs'[w] = [execs[w] EXCEPT !.stage = StageAfter(execs[w].stage)]
            \/ execs'[w] = Unsuccessful(w, "retryable", TRUE)
        BY <3>2 DEF Progress, Continue, TypeOK
      <4>2. CASE execs'[w] = [execs[w] EXCEPT !.stage = StageAfter(execs[w].stage)]
        BY <1>a, <4>2 DEF Execution
      <4>3. CASE execs'[w] = Unsuccessful(w, "retryable", TRUE)
        BY <4>3, UnsuccessfulKeepsJob
      <4> QED BY <4>1, <4>2, <4>3
    <3> QED BY <1>3, <3>1, <3>2
  <2>3. rows'[a] = rows[a] \/ \E stage : rows'[a] = UpdateProgress(rows[a], j, stage)
    BY <1>3, <2>1 DEF Progress, RecordScoring, UpdateRow, SetRow, TypeOK
  <2> QED BY <1>a, <2>1, <2>2, <2>3 DEF UpdateProgress, Owns, Row
<1>4. CASE Concludes(w)
  BY <1>1, <1>4, ConclusionKeepsJob
<1>5. CASE RequestStop(w) \/ AbortJob(w)
  <2>1. rows' = rows /\ KeepsJob(w) /\ execs[w].pc \in Working
    BY <1>a, <1>5 DEF RequestStop, AbortJob, Continue, KeepsJob, TypeOK, Execution, store
  <2> QED BY <1>1, <2>1
\* Every other step leaves the worker outside its working steps.
<1>6. ASSUME NEW exec, Continue(w, exec), exec.pc \notin Working
      PROVE  FALSE
  BY <1>6 DEF Continue, TypeOK
<1>7. ASSUME NEW end \in StatementEnd,
             FindAnalysis(w, end) \/ FailMismatch(w, end) \/ ReturnToQueue(w, end)
               \/ RecordFailure(w, end) \/ Complete(w, end)
      PROVE  FALSE
  <2>1. \E pc \in {"threw", "mismatch", "returned", "claim"} : Continue(w, Goto(w, pc))
    BY <1>7 DEF FindAnalysis, AfterFind, FailMismatch, ReturnToQueue, RecordFailure, Complete
  <2> QED BY <1>6, <2>1, GotoKeepsJob DEF Working
<1>8. ASSUME (\E k \in Job : GetJob(w, k)) \/ CompleteJob(w) \/ FailJob(w) \/ Restart(w)
               \/ WorkerCrash(w)
      PROVE  FALSE
  <2>1. execs'[w].pc \in {"idle", "find"}
    <3>1. CASE \E k \in Job : GetJob(w, k)
      BY <3>1 DEF GetJob, Continue, Idle, TypeOK
    <3>2. CASE CompleteJob(w)
      BY <3>2 DEF CompleteJob, Continue, Idle, TypeOK
    <3>3. CASE FailJob(w)
      BY <3>3 DEF FailJob, Continue, Idle, TypeOK
    <3>4. CASE Restart(w) \/ WorkerCrash(w)
      BY <3>4 DEF Restart, WorkerCrash, Continue, Idle, TypeOK
    <3> QED BY <1>8, <3>1, <3>2, <3>3, <3>4
  <2> QED BY <2>1 DEF Working
<1> QED BY <1>2, <1>3, <1>4, <1>5, <1>7, <1>8 DEF WorkerNext, ExecNext, Concludes

LEMMA NextHoldsClaims ==
    ASSUME IInv, LocksHeld, ClaimsHeld, [Next]_vars
    PROVE  ClaimsHeld'
<1> SUFFICES ASSUME NEW w \in Worker, execs'[w].pc \in Working
             PROVE  Owns(w)'
  BY DEF ClaimsHeld, Owns
<1>1. CASE WorkerNext(w)
  BY <1>1, OwnStepKeepsClaim DEF IInv, ClaimsHeld
<1>2. ASSUME execs'[w] = execs[w]
      PROVE  Owns(w)'
  <2>1. execs[w].pc \in Working /\ execs[w].pc # "idle"
    BY <1>2 DEF Working
  <2> QED BY <1>2, <2>1, OthersLeaveClaims DEF IInv, ClaimsHeld
<1>3. ASSUME NEW v \in Worker, v # w, WorkerNext(v)
      PROVE  execs'[w] = execs[w]
  BY <1>3 DEF WorkerNext, GetJob, ExecNext, FindAnalysis, FailMismatch, Claim, Progress,
     ReturnToQueue, RecordFailure, RecordScoring, Complete, AnalysisInterrupted, AnalysisThrows,
     ConnectionUnavailable, AnalysisRejected, AnalysisSucceeds, CompleteJob, FailJob,
     RequestStop, AbortJob, Restart, WorkerCrash, Continue, IInv, TypeOK
<1>4. CASE execs' = execs
  BY <1>2, <1>4
<1> QED BY <1>1, <1>2, <1>3, <1>4, OthersLeaveExecutions DEF Next, vars

\* repository-jobs.md, "Execution ownership": several queue jobs may name an analysis, yet
\* while the queue gives away no live lock one worker at a time analyses or settles it.
THEOREM ExecutionIsExclusive ==
    ASSUME "live_lock_loss" \notin Environment
    PROVE  Spec => []ExclusiveExecution
<1>1. Init => LocksHeld /\ ClaimsHeld
  BY DEF Init, LocksHeld, ClaimsHeld, Idle, NoQueueJob, Working
<1>2. IInv /\ LocksHeld /\ ClaimsHeld /\ [Next]_vars => LocksHeld' /\ ClaimsHeld'
  BY NextHoldsLocks, NextHoldsClaims DEF IInv, LoseLiveLock
<1>3. LocksHeld /\ ClaimsHeld => ExclusiveExecution
  BY DEF LocksHeld, ClaimsHeld, Owns, ExclusiveExecution, Working
<1> QED BY <1>1, <1>2, <1>3, Invariant, PTL DEF Spec

(***************************************************************************)
(* Accepted work keeps its job.  A job serves an analysis when no worker   *)
(* is about to delete it; a running analysis is served by its owner, and a *)
(* queued one that no delivery run will enqueue again by some job.         *)
(***************************************************************************)
Known(a) == rows[a].status # "absent"

\* Whatever refers to an analysis refers to one that was submitted.
DeliveriesTraced ==
    /\ \A d \in Lease, a \in Analysis : dispatch[d][a] # "none" => Known(a)
    /\ \A a \in Analysis : deliveries[a].status # "none" => Known(a)

JobsTraced == \A j \in Job : jobs[j].state # "none" => Known(jobs[j].analysis)

Serves(j, a) ==
    /\ jobs[j].state # "none" /\ jobs[j].analysis = a
    /\ \A w \in Worker : execs[w].pc = "returned" => execs[w].job # j

\* Enqueued, and delivered or about to be; or about to lose a job that named it.
Committed(a) ==
    \/ deliveries[a].status = "delivered"
    \/ \E d \in Lease : dispatch[d][a] = "mark" /\ HoldsLease(deliveries[a], d)
    \/ \E w \in Worker : execs[w].pc = "returned" /\ execs[w].analysis = a

Served(a) ==
    /\ rows[a].status = "running" => Serves(rows[a].activeJob, a)
    /\ rows[a].status = "queued" /\ Committed(a) => \E j \in Job : Serves(j, a)

(* What a step does to a job, to a delivery run and to a delivery. *)

JobEffect(j) ==
    \/ /\ jobs[j].state # "none" /\ jobs'[j].state # "none"
       /\ jobs'[j].analysis = jobs[j].analysis
    \/ /\ jobs'[j].state = "none"
       /\ jobs[j].state # "none" => \E w \in Worker : execs[w].pc = "returned" /\ execs[w].job = j
    \/ /\ jobs[j].state = "none" /\ jobs'[j].state # "none"
       /\ jobs'[j].analysis \in Analysis /\ Known(jobs'[j].analysis)

DispatchEffect(d, a) ==
    \/ dispatch'[d][a] \in {"none", dispatch[d][a]}
    \/ dispatch[d][a] # "none" /\ dispatch'[d][a] = "retry"
    \/ rows[a].status = "queued" /\ dispatch'[d][a] = "enqueue"
    \/ dispatch[d][a] = "enqueue" /\ dispatch'[d][a] = "mark" /\ Enqueue(d, a, "ok")

DeliveryEffect(a) ==
    \/ deliveries'[a] = deliveries[a]
    \/ rows'[a] = PurgedRow /\ deliveries'[a] = NoDelivery
    \/ /\ deliveries[a].status # "delivered" /\ Known(a)'
       /\ \A d \in Lease : HoldsLease(deliveries'[a], d) =>
             HoldsLease(deliveries[a], d) \/ dispatch'[d][a] # "mark"
       /\ deliveries'[a].status = "delivered" =>
             \E d \in Lease : dispatch[d][a] = "mark" /\ HoldsLease(deliveries[a], d)

LEMMA NextJobEffect ==
    ASSUME TypeOK, ExecutionsCarry, DeliveriesTraced, [Next]_vars, NEW j \in Job
    PROVE  JobEffect(j)
<1>1. CASE jobs' = jobs
  BY <1>1 DEF JobEffect
\* A lock is taken or given back.
<1>2. ASSUME jobs'[j].analysis = jobs[j].analysis, jobs'[j].state # "none", jobs[j].state # "none"
      PROVE  JobEffect(j)
  BY <1>2 DEF JobEffect
<1>3. ASSUME NEW a \in Analysis, Known(a), NEW k \in Job, NEW matches, NEW keyed, FreeJob(k),
             jobs' = [jobs EXCEPT ![k] = QueuedJob(a, matches, keyed)]
      PROVE  JobEffect(j)
  BY <1>3 DEF FreeJob, QueuedJob, TypeOK, JobEffect
<1>4. ASSUME NEW d \in Lease, DispatchNext(d)
      PROVE  JobEffect(j)
  <2>1. CASE \E a \in Analysis : dispatch[d][a] = "enqueue" /\ AddJob(a)
    <3>1. PICK a \in Analysis : dispatch[d][a] = "enqueue" /\ AddJob(a)
      BY <2>1
    <3>2. Known(a)
      BY <3>1 DEF DeliveriesTraced
    <3> QED BY <1>1, <1>3, <3>1, <3>2 DEF AddJob
  <2> QED BY <1>1, <1>4, <2>1 DEF DispatchNext, ClaimDeliveries, Enqueue, MarkDeliveryDelivered,
                                  RetryAfterFailure, DispatchCrash
<1>5. ASSUME NEW w \in Worker, WorkerNext(w)
      PROVE  JobEffect(j)
  <2>1. CASE \E k \in Job : GetJob(w, k)
    BY <1>1, <2>1 DEF GetJob, TypeOK, QueueJob, JobEffect
  <2>2. CASE CompleteJob(w)
    <3>1. execs[w].pc = "returned" /\ jobs' = [jobs EXCEPT ![execs[w].job] = NoQueueJob]
      BY <2>2 DEF CompleteJob, At
    <3>2. CASE execs[w].job = j
      BY <3>1, <3>2 DEF TypeOK, NoQueueJob, JobEffect
    <3>3. CASE execs[w].job # j
      BY <3>1, <3>3 DEF TypeOK, JobEffect
    <3> QED BY <3>2, <3>3
  <2>3. CASE FailJob(w)
    <3>1. jobs' = jobs \/ (jobs[execs[w].job].state = "locked"
                           /\ jobs' = [jobs EXCEPT ![execs[w].job] = Unlocked(jobs[execs[w].job])])
      BY <2>3 DEF FailJob
    <3>2. Unlocked(jobs[j]).analysis = jobs[j].analysis /\ Unlocked(jobs[j]).state = "queued"
      BY DEF TypeOK, Unlocked, QueueJob
    <3> QED BY <3>1, <3>2 DEF TypeOK, JobEffect
  <2>4. CASE WorkerCrash(w)
    <3>1. jobs'[j] \in {jobs[j], [jobs[j] EXCEPT !.holder = NoWorker]}
      BY <2>4 DEF WorkerCrash
    <3> QED BY <3>1 DEF TypeOK, QueueJob, JobEffect
  <2>5. CASE RequestStop(w) \/ AbortJob(w) \/ Restart(w)
    BY <1>1, <2>5 DEF RequestStop, AbortJob, Restart
  <2>6. CASE Concludes(w)
    BY <1>1, <2>6, ConclusionKeepsJob
  <2> QED BY <1>1, <1>5, <2>1, <2>2, <2>3, <2>4, <2>5, <2>6
          DEF WorkerNext, ExecNext, Concludes, FindAnalysis, FailMismatch, Claim, Progress,
              ReturnToQueue, RecordFailure, RecordScoring, Complete, UpdateRow
<1>6. ASSUME NEW k \in Job, QueueNext(k)
      PROVE  JobEffect(j)
  <2>1. CASE RecoverDeadOwner(k) \/ LoseLiveLock(k)
    <3>1. jobs[k].state = "locked" /\ jobs' = [jobs EXCEPT ![k] = Unlocked(jobs[k])]
      BY <2>1 DEF RecoverDeadOwner, LoseLiveLock
    <3>2. Unlocked(jobs[j]).analysis = jobs[j].analysis /\ Unlocked(jobs[j]).state = "queued"
      BY DEF TypeOK, Unlocked, QueueJob
    <3> QED BY <3>1, <3>2 DEF TypeOK, JobEffect
  <2>2. CASE \E a \in Analysis, matches \in BOOLEAN : AddCompetingJob(a, matches, k)
    BY <1>3, <2>2 DEF AddCompetingJob, Known, Exists, Missing
  <2> QED BY <1>6, <2>1, <2>2 DEF QueueNext
<1>7. CASE (\E a \in Analysis : StoreNext(a)) \/ \E batch \in SUBSET Analysis : PurgeExpired(batch)
  BY <1>1, <1>7 DEF StoreNext, Submit, SubmitWithoutDelivery, LeaseLapses, BackoffElapses,
                    OnlyDelivery, RetentionExpires, PurgeExpired
<1> QED BY <1>1, <1>4, <1>5, <1>6, <1>7 DEF Next, vars

LEMMA NextDispatchEffect ==
    ASSUME TypeOK, [Next]_vars, NEW d \in Lease, NEW a \in Analysis
    PROVE  DispatchEffect(d, a)
<1>1. CASE dispatch' = dispatch
  BY <1>1 DEF DispatchEffect
<1>2. ASSUME NEW e \in Lease, NEW batch \in SUBSET Analysis, NEW end \in StatementEnd,
             ClaimDeliveries(e, batch, end)
      PROVE  DispatchEffect(d, a)
  <2>1. a \in batch => rows[a].status = "queued"
    BY <1>2 DEF ClaimDeliveries, Candidates, IsCandidate, Unclaimed
  <2>2. \/ dispatch' = dispatch
        \/ dispatch' = [dispatch EXCEPT ![e] = [b \in Analysis |->
                            IF b \in batch THEN "enqueue" ELSE "none"]]
    BY <1>2 DEF ClaimDeliveries
  <2> QED BY <1>1, <2>1, <2>2 DEF TypeOK, DispatchEffect
<1>3. ASSUME NEW e \in Lease, NEW b \in Analysis, NEW end \in StatementEnd,
             MarkDeliveryDelivered(e, b, end) \/ RetryAfterFailure(e, b, end)
      PROVE  DispatchEffect(d, a)
  <2>1. \E step \in {"none", "retry"} : Dispatching(e, b, step)
    BY <1>3 DEF MarkDeliveryDelivered, RetryAfterFailure
  <2>2. dispatch[e][b] # "none"
    BY <1>3 DEF MarkDeliveryDelivered, RetryAfterFailure
  <2> QED BY <2>1, <2>2 DEF TypeOK, Dispatching, DispatchEffect
<1>4. ASSUME NEW e \in Lease, NEW b \in Analysis, NEW end \in StatementEnd, Enqueue(e, b, end)
      PROVE  DispatchEffect(d, a)
  <2>1. dispatch[e][b] = "enqueue" /\ Dispatching(e, b, IF end = "ok" THEN "mark" ELSE "retry")
    BY <1>4 DEF Enqueue
  <2>2. CASE d = e /\ a = b /\ end = "ok"
    BY <1>4, <2>1, <2>2 DEF TypeOK, Dispatching, DispatchEffect
  <2>3. CASE ~(d = e /\ a = b) \/ end # "ok"
    BY <2>1, <2>3 DEF TypeOK, Dispatching, DispatchEffect
  <2> QED BY <2>2, <2>3
<1>5. ASSUME NEW e \in Lease, DispatchCrash(e)
      PROVE  DispatchEffect(d, a)
  BY <1>5 DEF DispatchCrash, TypeOK, DispatchEffect
<1>6. CASE \/ \E w \in Worker : WorkerNext(w)
           \/ \E j \in Job : QueueNext(j)
           \/ \E b \in Analysis : StoreNext(b)
           \/ \E batch \in SUBSET Analysis : PurgeExpired(batch)
  <2>1. ASSUME NEW w \in Worker, WorkerNext(w)
        PROVE  dispatch' = dispatch
    <3>1. CASE ExecNext(w)
      BY <3>1 DEF ExecNext, FindAnalysis, FailMismatch, Claim, Progress, ReturnToQueue,
         RecordFailure, RecordScoring, Complete, AnalysisInterrupted, AnalysisThrows,
         ConnectionUnavailable, AnalysisRejected, AnalysisSucceeds, CompleteJob, FailJob,
         NoWrite, UpdateRow
    <3>2. CASE ~ExecNext(w)
      BY <2>1, <3>2 DEF WorkerNext, GetJob, RequestStop, AbortJob, Restart, WorkerCrash
    <3> QED BY <3>1, <3>2
  <2>2. ASSUME \/ \E j \in Job : QueueNext(j)
               \/ \E b \in Analysis : StoreNext(b)
               \/ \E batch \in SUBSET Analysis : PurgeExpired(batch)
        PROVE  dispatch' = dispatch
    BY <2>2 DEF QueueNext, RecoverDeadOwner, LoseLiveLock, AddCompetingJob, StoreNext, Submit,
       SubmitWithoutDelivery, LeaseLapses, BackoffElapses, OnlyDelivery, RetentionExpires,
       PurgeExpired
  <2> QED BY <1>1, <1>6, <2>1, <2>2
<1> QED BY <1>1, <1>2, <1>3, <1>4, <1>5, <1>6 DEF Next, DispatchNext, vars

\* A submitted analysis is never forgotten.
LEMMA KnownStays ==
    ASSUME TypeOK, ExecutionsCarry, RecordConsistent, [Next]_vars, NEW a \in Analysis, Known(a)
    PROVE  Known(a)'
<1>a. rows[a] \in Row /\ RowConsistent(rows[a])
  BY PerAnalysis DEF TypeOK
<1>1. RowEffect(a)
  BY NextEffect
<1>2. ASSUME NEW w \in Worker, Executes(w, a)
      PROVE  Known(a)'
  BY <1>a, <1>2, StatusEffects DEF Executes, Statement, Known, Succeeded
<1> QED BY <1>a, <1>1, <1>2 DEF RowEffect, Untouched, Ages, Known, PurgedRow, NoRow, Row

LEMMA NextDeliveryEffect ==
    ASSUME TypeOK, ExecutionsCarry, RecordConsistent, DeliveriesTraced, [Next]_vars, NEW a \in Analysis
    PROVE  DeliveryEffect(a)
<1>a. deliveries[a] \in Delivery
  BY DEF TypeOK
<1>b. Known(a) => Known(a)'
  BY KnownStays
<1>1. CASE deliveries' = deliveries
  BY <1>1 DEF DeliveryEffect
<1>2. ASSUME NEW e \in Lease, NEW batch \in SUBSET Analysis, NEW end \in StatementEnd,
             ClaimDeliveries(e, batch, end)
      PROVE  DeliveryEffect(a)
  <2>1. CASE ~Applied(end)
    BY <1>1, <1>2, <2>1 DEF ClaimDeliveries, TypeOK, DeliveryEffect
  <2>2. CASE Applied(end) /\ a \in batch
    <3>1. rows[a].status = "queued" /\ deliveries'[a] = Leased(BackfilledDelivery(a), e)
      BY <1>2, <2>2 DEF ClaimDeliveries, Candidates, IsCandidate, Unclaimed
    <3>2. deliveries[a].status # "delivered"
      BY <1>2, <2>2 DEF ClaimDeliveries, Candidates, IsCandidate, BackfilledDelivery, Backfilled,
                        PendingDelivery
    <3>3. dispatch'[e][a] # "mark"
      BY <1>2, <2>2 DEF ClaimDeliveries, RunIdle, TypeOK
    <3>4. /\ deliveries'[a].status = "delivering"
          /\ \A d \in Lease : HoldsLease(deliveries'[a], d) => d = e
      BY <3>1 DEF Leased, HoldsLease
    <3> QED BY <1>b, <3>1, <3>2, <3>3, <3>4 DEF DeliveryEffect, Known
  <2>3. CASE Applied(end) /\ a \notin batch
    <3>1. deliveries'[a] = Backfilled(rows[a], deliveries[a])
      BY <1>2, <2>3 DEF ClaimDeliveries, BackfilledDelivery
    <3>2. CASE deliveries'[a] # deliveries[a]
      <4>1. /\ rows[a].status = "queued" /\ deliveries[a].status = "none"
            /\ deliveries'[a].status = "pending"
        BY <3>1, <3>2 DEF Backfilled, Unclaimed, PendingDelivery, NoDelivery
      <4> QED BY <1>b, <4>1 DEF DeliveryEffect, Known, HoldsLease
    <3> QED BY <3>2 DEF DeliveryEffect
  <2> QED BY <2>1, <2>2, <2>3
<1>3. ASSUME NEW e \in Lease, NEW b \in Analysis, NEW end \in StatementEnd,
             Enqueue(e, b, end)
      PROVE  DeliveryEffect(a)
  BY <1>1, <1>3 DEF Enqueue
<1>4. ASSUME NEW e \in Lease, NEW b \in Analysis, NEW end \in StatementEnd,
             MarkDeliveryDelivered(e, b, end)
      PROVE  DeliveryEffect(a)
  <2>1. \/ deliveries'[a] = deliveries[a]
        \/ a = b /\ HoldsLease(deliveries[a], e) /\ deliveries'[a] = MarkDelivered(deliveries[a], e)
    BY <1>4 DEF MarkDeliveryDelivered, MarkDelivered, TypeOK
  <2>2. CASE a = b /\ HoldsLease(deliveries[a], e) /\ deliveries'[a] = MarkDelivered(deliveries[a], e)
    <3>1. dispatch[e][a] = "mark" /\ deliveries[a].status = "delivering" /\ Known(a)
      BY <1>4, <2>2 DEF MarkDeliveryDelivered, HoldsLease, DeliveriesTraced
    <3>2. deliveries'[a].status = "delivered"
      BY <1>a, <2>2 DEF MarkDelivered, Delivery
    <3> QED BY <1>b, <2>2, <3>1, <3>2 DEF DeliveryEffect, HoldsLease
  <2> QED BY <2>1, <2>2 DEF DeliveryEffect
<1>5. ASSUME NEW e \in Lease, NEW b \in Analysis, NEW end \in StatementEnd,
             RetryAfterFailure(e, b, end)
      PROVE  DeliveryEffect(a)
  <2>1. \/ deliveries'[a] = deliveries[a]
        \/ HoldsLease(deliveries[a], e) /\ deliveries'[a] = RetryDelivery(deliveries[a], e)
    BY <1>5 DEF RetryAfterFailure, RetryDelivery, TypeOK
  <2>2. CASE HoldsLease(deliveries[a], e) /\ deliveries'[a] = RetryDelivery(deliveries[a], e)
    <3>1. deliveries[a].status = "delivering" /\ deliveries'[a].status = "pending" /\ Known(a)
      BY <2>2 DEF HoldsLease, RetryDelivery, DeliveriesTraced
    <3> QED BY <1>b, <3>1 DEF DeliveryEffect, HoldsLease
  <2> QED BY <2>1, <2>2 DEF DeliveryEffect
<1>6. ASSUME NEW b \in Analysis, StoreNext(b)
      PROVE  DeliveryEffect(a)
  <2>1. CASE Submit(b)
    <3>1. rows[b].status = "absent" /\ deliveries' = [deliveries EXCEPT ![b] = PendingDelivery]
          /\ rows' = [rows EXCEPT ![b] = QueuedRow]
      BY <2>1 DEF Submit, SetRow
    <3>2. CASE a = b
      <4>1. /\ deliveries[a].status = "none" /\ deliveries'[a].status = "pending"
            /\ rows'[a].status = "queued"
        BY <3>1, <3>2 DEF DeliveriesTraced, Known, TypeOK, PendingDelivery, NoDelivery, QueuedRow, NoRow
      <4> QED BY <4>1 DEF DeliveryEffect, Known, HoldsLease
    <3>3. CASE a # b
      BY <3>1, <3>3 DEF TypeOK, DeliveryEffect
    <3> QED BY <3>2, <3>3
  <2>2. CASE SubmitWithoutDelivery(b) \/ RetentionExpires(b)
    BY <1>1, <2>2 DEF SubmitWithoutDelivery, RetentionExpires
  <2>3. CASE LeaseLapses(b) \/ BackoffElapses(b)
    <3>1. \/ deliveries'[a] = deliveries[a]
          \/ /\ deliveries[a].status \in {"pending", "delivering"}
             /\ \/ deliveries'[a] = [deliveries[a] EXCEPT !.lapsed = TRUE]
                \/ deliveries'[a] = [deliveries[a] EXCEPT !.due = TRUE]
      BY <2>3 DEF LeaseLapses, BackoffElapses, OnlyDelivery, TypeOK
    <3>2. CASE /\ deliveries[a].status \in {"pending", "delivering"}
               /\ \/ deliveries'[a] = [deliveries[a] EXCEPT !.lapsed = TRUE]
                  \/ deliveries'[a] = [deliveries[a] EXCEPT !.due = TRUE]
      <4>1. /\ deliveries'[a].status = deliveries[a].status
            /\ deliveries'[a].lease = deliveries[a].lease
            /\ Known(a)
        BY <1>a, <3>2 DEF Delivery, DeliveriesTraced
      <4> QED BY <1>b, <3>2, <4>1 DEF DeliveryEffect, HoldsLease
    <3> QED BY <3>1, <3>2 DEF DeliveryEffect
  <2> QED BY <1>6, <2>1, <2>2, <2>3 DEF StoreNext
<1>7. ASSUME NEW batch \in SUBSET Analysis, PurgeExpired(batch)
      PROVE  DeliveryEffect(a)
  BY <1>7 DEF PurgeExpired, DeliveryEffect
<1>8. CASE \/ \E w \in Worker : WorkerNext(w)
           \/ \E j \in Job : QueueNext(j)
           \/ \E e \in Lease : DispatchCrash(e)
  <2>1. ASSUME NEW w \in Worker, WorkerNext(w)
        PROVE  deliveries' = deliveries
    <3>1. CASE ExecNext(w)
      BY <3>1 DEF ExecNext, FindAnalysis, FailMismatch, Claim, Progress, ReturnToQueue,
         RecordFailure, RecordScoring, Complete, AnalysisInterrupted, AnalysisThrows,
         ConnectionUnavailable, AnalysisRejected, AnalysisSucceeds, CompleteJob, FailJob,
         NoWrite, UpdateRow, store
    <3>2. CASE ~ExecNext(w)
      BY <2>1, <3>2 DEF WorkerNext, GetJob, RequestStop, AbortJob, Restart, WorkerCrash, store
    <3> QED BY <3>1, <3>2
  <2>2. ASSUME \/ \E j \in Job : QueueNext(j)
               \/ \E e \in Lease : DispatchCrash(e)
        PROVE  deliveries' = deliveries
    BY <2>2 DEF QueueNext, RecoverDeadOwner, LoseLiveLock, AddCompetingJob, DispatchCrash, store
  <2> QED BY <1>1, <1>8, <2>1, <2>2
<1> QED BY <1>1, <1>2, <1>3, <1>4, <1>5, <1>6, <1>7, <1>8 DEF Next, DispatchNext, vars

LEMMA NextDeliveriesTraced ==
    ASSUME TypeOK, ExecutionsCarry, RecordConsistent, DeliveriesTraced, [Next]_vars
    PROVE  DeliveriesTraced'
<1>1. ASSUME NEW d \in Lease, NEW a \in Analysis, dispatch'[d][a] # "none"
      PROVE  Known(a)'
  <2>1. DispatchEffect(d, a)
    BY NextDispatchEffect
  <2>2. Known(a)
    BY <1>1, <2>1 DEF DispatchEffect, DeliveriesTraced, Known
  <2> QED BY <2>2, KnownStays
<1>2. ASSUME NEW a \in Analysis, deliveries'[a].status # "none"
      PROVE  Known(a)'
  <2>1. DeliveryEffect(a)
    BY NextDeliveryEffect
  <2>2. Known(a) => Known(a)'
    BY KnownStays
  <2> QED BY <1>2, <2>1, <2>2 DEF DeliveryEffect, DeliveriesTraced, NoDelivery
<1> QED BY <1>1, <1>2 DEF DeliveriesTraced, Known

LEMMA NextJobsTraced ==
    ASSUME TypeOK, ExecutionsCarry, RecordConsistent, LocksHeld, DeliveriesTraced, JobsTraced,
           [Next]_vars
    PROVE  JobsTraced'
<1> SUFFICES ASSUME NEW j \in Job, jobs'[j].state # "none"
             PROVE  rows'[jobs'[j].analysis].status # "absent"
  BY DEF JobsTraced, Known
<1>1. JobEffect(j)
  BY NextJobEffect
<1>2. PICK a \in Analysis : jobs'[j].analysis = a /\ Known(a)
  BY <1>1 DEF JobEffect, JobsTraced, LocksHeld
<1>3. Known(a)'
  BY <1>2, KnownStays
<1> QED BY <1>2, <1>3 DEF Known

\* A task that has just returned leaves its analysis finished, or with another job.
Settled(w) ==
    LET a == execs[w].analysis
    IN  /\ rows'[a].status # "queued"
        /\ rows'[a].status = "running" => rows'[a].activeJob # execs[w].job

LEMMA ReturnsSettled ==
    ASSUME IInv, LocksHeld, ClaimsHeld, [Next]_vars, NEW w \in Worker, execs'[w].pc = "returned"
    PROVE  /\ execs'[w].job = execs[w].job /\ execs'[w].analysis = execs[w].analysis
           /\ execs[w].pc # "idle"
           /\ execs[w].pc = "returned" \/ Settled(w)
<1> DEFINE a == execs[w].analysis
           j == execs[w].job
           Goal == /\ execs'[w].job = execs[w].job /\ execs'[w].analysis = execs[w].analysis
                   /\ execs[w].pc # "idle"
                   /\ execs[w].pc = "returned" \/ Settled(w)
<1>a. TypeOK /\ execs[w] \in Execution
  BY DEF IInv, TypeOK
<1>b. execs[w].pc # "idle" =>
        a \in Analysis /\ j \in Job /\ rows[a] \in Row /\ RowConsistent(rows[a])
  BY PerAnalysis DEF LocksHeld, IInv, TypeOK, ExecutionsCarry
<1>1. ASSUME execs'[w] = execs[w]
      PROVE  Goal
  BY <1>1
<1>2. ASSUME NEW end \in StatementEnd, FindAnalysis(w, end)
      PROVE  Goal
  <2>1. /\ execs'[w] = Goto(w, IF end = "ok" THEN AfterFind(w, rows[a]) ELSE "threw")
        /\ execs[w].pc = "find" /\ rows' = rows
    BY <1>a, <1>2 DEF FindAnalysis, Continue, TypeOK, At, store
  <2>2. IsTerminal(rows[a])
    BY <2>1, <1>a, GotoKeepsJob DEF AfterFind
  <2> QED BY <1>a, <2>1, <2>2, GotoKeepsJob DEF Settled, IsTerminal, Terminal, Succeeded
<1>3. ASSUME NEW end \in StatementEnd, NEW pc, execs[w].pc = pc, pc # "idle",
             Continue(w, Goto(w, IF end = "ok" THEN "returned" ELSE "threw"))
      PROVE  /\ end = "ok" /\ a \in Analysis /\ j \in Job
             /\ rows[a] \in Row /\ RowConsistent(rows[a])
             /\ execs'[w].job = j /\ execs'[w].analysis = a /\ execs[w].pc # "idle"
  <2>1. execs'[w] = Goto(w, IF end = "ok" THEN "returned" ELSE "threw")
    BY <1>3, <1>a DEF Continue, TypeOK
  <2> QED BY <1>3, <2>1, <1>a, <1>b, GotoKeepsJob
<1>4. ASSUME NEW end \in StatementEnd, FailMismatch(w, end) \/ RecordFailure(w, end)
      PROVE  Goal
  <2>1. /\ end = "ok" /\ a \in Analysis /\ j \in Job
        /\ rows[a] \in Row /\ RowConsistent(rows[a])
        /\ execs'[w].job = j /\ execs'[w].analysis = a /\ execs[w].pc # "idle"
    BY <1>3, <1>4 DEF FailMismatch, RecordFailure, At
  <2>2. \E failure : rows'[a] = Fail(rows[a], j, failure)
    BY <1>a, <1>4, <2>1 DEF FailMismatch, RecordFailure, UpdateRow, SetRow, Applied, TypeOK
  <2>3. rows'[a].status # "queued" /\ (rows'[a].status = "running" => rows'[a].activeJob # j)
    BY <2>1, <2>2 DEF Fail, CanFail, Row, RowConsistent, Exists, Missing, IsTerminal, Terminal,
                      Succeeded
  <2> QED BY <2>1, <2>3 DEF Settled
<1>5. ASSUME NEW end \in StatementEnd, Claim(w, end)
      PROVE  Goal
  <2>1. /\ execs'[w] = Goto(w, IF end # "ok" THEN "threw"
                               ELSE IF CanClaim(rows[a], j) THEN "analyze" ELSE "returned")
        /\ execs[w].pc = "claim"
    BY <1>a, <1>5 DEF Claim, Continue, TypeOK, At
  <2>2. end = "ok" /\ ~CanClaim(rows[a], j)
    BY <1>a, <2>1, GotoKeepsJob
  <2>3. rows'[a] = rows[a]
    BY <1>5, <1>a, <1>b, <2>1, <2>2 DEF Claim, ClaimForExecution, UpdateRow, SetRow, TypeOK
  <2> QED BY <1>a, <2>1, <2>2, <2>3, GotoKeepsJob DEF Settled, CanClaim
<1>6. ASSUME NEW end \in StatementEnd, Complete(w, end)
      PROVE  Goal
  <2>1. /\ end = "ok" /\ a \in Analysis /\ j \in Job
        /\ rows[a] \in Row /\ RowConsistent(rows[a])
        /\ execs'[w].job = j /\ execs'[w].analysis = a /\ execs[w].pc = "complete"
    BY <1>3, <1>6 DEF Complete, At
  <2>2. Owns(w) /\ execs[w].outcome \in Succeeded
    BY <2>1 DEF ClaimsHeld, Working, IInv, ExecutionsCarry
  <2>3. rows'[a] = CompleteRow(rows[a], j, execs[w].outcome)
    BY <1>a, <1>6, <2>1 DEF Complete, UpdateRow, SetRow, Applied, TypeOK
  <2>4. rows'[a].status \in Succeeded
    BY <2>1, <2>2, <2>3 DEF CompleteRow, IsActiveOwner, Exists, Missing, IsTerminal, Terminal,
                            Succeeded, Row, Owns
  <2> QED BY <2>1, <2>4 DEF Settled, Succeeded
<1>7. CASE AbortJob(w)
  <2>1. execs'[w] = [execs[w] EXCEPT !.aborted = TRUE]
    BY <1>a, <1>7 DEF AbortJob, Continue, TypeOK
  <2> QED BY <1>a, <2>1 DEF Execution
<1>8. CASE RequestStop(w)
  BY <1>1, <1>8 DEF RequestStop
\* Every other step of the worker leads elsewhere.
<1>9. ASSUME NEW exec, Continue(w, exec), exec.pc # "returned"
      PROVE  FALSE
  BY <1>a, <1>9 DEF Continue, TypeOK
<1>10. ASSUME NEW end \in StatementEnd,
              Progress(w, end) \/ ReturnToQueue(w, end) \/ RecordScoring(w, end)
       PROVE  FALSE
  <2>1. CASE Progress(w, end)
    <3>1. execs[w].pc = "analyze" /\ Unsuccessful(w, "retryable", TRUE).pc \in {"retry", "fail"}
      BY <1>a, <2>1 DEF Progress, At, Unsuccessful, Execution
    <3>2. [execs[w] EXCEPT !.stage = StageAfter(execs[w].stage)].pc = "analyze"
      BY <1>a, <3>1 DEF Execution
    <3> QED BY <1>9, <2>1, <3>1, <3>2 DEF Progress
  <2>2. CASE ReturnToQueue(w, end)
    BY <1>9, <1>a, <2>2, GotoKeepsJob DEF ReturnToQueue
  <2>3. CASE RecordScoring(w, end)
    BY <1>9, <1>a, <2>3, GotoKeepsJob DEF RecordScoring
  <2> QED BY <1>10, <2>1, <2>2, <2>3
<1>11. CASE Concludes(w)
  <2>1. ASSUME NEW failure, NEW retry
        PROVE  Unsuccessful(w, failure, retry).pc \in {"retry", "fail"}
    BY <1>a DEF Unsuccessful, Execution
  <2>2. \A outcome : [execs[w] EXCEPT !.pc = "score", !.outcome = outcome].pc = "score"
    BY <1>a DEF Execution
  <2>3. CASE \E outcome \in Succeeded : AnalysisSucceeds(w, outcome)
    BY <1>9, <2>2, <2>3 DEF AnalysisSucceeds
  <2>4. CASE ~\E outcome \in Succeeded : AnalysisSucceeds(w, outcome)
    <3>1. \E failure, retry : Continue(w, Unsuccessful(w, failure, retry))
      BY <1>11, <2>4 DEF Concludes, AnalysisInterrupted, AnalysisThrows, ConnectionUnavailable,
                         AnalysisRejected
    <3> QED BY <1>9, <2>1, <3>1
  <2> QED BY <2>3, <2>4
<1>12. ASSUME (\E k \in Job : GetJob(w, k)) \/ CompleteJob(w) \/ FailJob(w) \/ Restart(w)
                \/ WorkerCrash(w)
       PROVE  FALSE
  <2>1. CASE \E k \in Job : GetJob(w, k)
    BY <1>9, <2>1 DEF GetJob, Idle
  <2>2. CASE CompleteJob(w) \/ FailJob(w)
    BY <1>9, <2>2 DEF CompleteJob, FailJob, Idle
  <2>3. CASE Restart(w) \/ WorkerCrash(w)
    BY <1>9, <2>3 DEF Restart, WorkerCrash, Idle
  <2> QED BY <1>12, <2>1, <2>2, <2>3
<1>13. CASE WorkerNext(w)
  BY <1>2, <1>4, <1>5, <1>6, <1>7, <1>8, <1>10, <1>11, <1>12, <1>13
  DEF WorkerNext, ExecNext, Concludes
<1>14. ASSUME NEW v \in Worker, v # w, WorkerNext(v)
       PROVE  execs'[w] = execs[w]
  BY <1>a, <1>14 DEF WorkerNext, GetJob, ExecNext, FindAnalysis, FailMismatch, Claim, Progress,
     ReturnToQueue, RecordFailure, RecordScoring, Complete, AnalysisInterrupted, AnalysisThrows,
     ConnectionUnavailable, AnalysisRejected, AnalysisSucceeds, CompleteJob, FailJob,
     RequestStop, AbortJob, Restart, WorkerCrash, Continue, TypeOK
<1>15. CASE execs' = execs
  BY <1>1, <1>15
<1> QED BY <1>1, <1>13, <1>14, <1>15, OthersLeaveExecutions DEF Next, vars

\* Only a claim starts an analysis, or gives a running one to a job.
LEMMA OnlyClaimRuns ==
    ASSUME IInv, [Next]_vars, NEW a \in Analysis, rows'[a].status = "running",
           ~(rows[a].status = "running" /\ rows[a].activeJob = rows'[a].activeJob)
    PROVE  \E w \in Worker, end \in StatementEnd : Claim(w, end) /\ a = execs[w].analysis
<1>a. TypeOK /\ rows[a] \in Row
  BY DEF IInv, TypeOK
<1>1. CASE rows'[a] = rows[a]
  BY <1>1
<1>2. ASSUME NEW w \in Worker, NEW end \in StatementEnd, NEW row, UpdateRow(w, end, row),
             row.status # "running" \/ row = rows[a]
                \/ (rows[a].status = "running" /\ row.activeJob = rows[a].activeJob)
      PROVE  FALSE
  <2>1. rows'[a] = rows[a] \/ (a = execs[w].analysis /\ rows'[a] = row)
    BY <1>a, <1>2, UpdateRowEffect
  <2> QED BY <1>2, <2>1
<1>3. ASSUME NEW w \in Worker, NEW end \in StatementEnd, NEW row, UpdateRow(w, end, row),
             a = execs[w].analysis => row.status # "running" \/ row = rows[a]
                \/ (rows[a].status = "running" /\ row.activeJob = rows[a].activeJob)
      PROVE  FALSE
  <2>1. rows'[a] = rows[a] \/ (a = execs[w].analysis /\ rows'[a] = row)
    BY <1>a, <1>3, UpdateRowEffect
  <2> QED BY <1>3, <2>1
<1>4. ASSUME NEW w \in Worker, NEW end \in StatementEnd,
             \/ FailMismatch(w, end) \/ Progress(w, end) \/ ReturnToQueue(w, end)
             \/ RecordFailure(w, end) \/ RecordScoring(w, end) \/ Complete(w, end)
      PROVE  FALSE
  <2> DEFINE row == rows[execs[w].analysis]
             job == execs[w].job
  <2>1. CASE FailMismatch(w, end) \/ RecordFailure(w, end)
    <3>1. \E failure : UpdateRow(w, end, Fail(row, job, failure))
      BY <2>1 DEF FailMismatch, RecordFailure
    <3>2. \A failure : a = execs[w].analysis =>
             Fail(row, job, failure).status # "running" \/ Fail(row, job, failure) = rows[a]
      BY <1>a DEF Fail, Row
    <3> QED BY <1>3, <3>1, <3>2
  <2>2. CASE Progress(w, end) \/ RecordScoring(w, end)
    <3>1. \E stage : UpdateRow(w, end, UpdateProgress(row, job, stage))
      BY <2>2 DEF Progress, RecordScoring
    <3>2. \A stage : a = execs[w].analysis =>
             \/ UpdateProgress(row, job, stage) = rows[a]
             \/ /\ rows[a].status = "running"
                /\ UpdateProgress(row, job, stage).activeJob = rows[a].activeJob
      BY <1>a DEF UpdateProgress, Row
    <3> QED BY <1>3, <3>1, <3>2
  <2>3. CASE ReturnToQueue(w, end)
    <3>1. \E failure : UpdateRow(w, end, MarkRetryPending(row, job, failure))
      BY <2>3 DEF ReturnToQueue
    <3>2. \A failure : a = execs[w].analysis =>
             \/ MarkRetryPending(row, job, failure).status # "running"
             \/ MarkRetryPending(row, job, failure) = rows[a]
      BY <1>a DEF MarkRetryPending, Row
    <3> QED BY <1>3, <3>1, <3>2
  <2>4. CASE Complete(w, end)
    <3>1. UpdateRow(w, end, CompleteRow(row, job, execs[w].outcome)) /\ execs[w].outcome \in Succeeded
      BY <2>4 DEF Complete, IInv, ExecutionsCarry, At
    <3>2. a = execs[w].analysis =>
             \/ CompleteRow(row, job, execs[w].outcome).status # "running"
             \/ CompleteRow(row, job, execs[w].outcome) = rows[a]
      BY <1>a, <3>1 DEF CompleteRow, Row, Succeeded
    <3> QED BY <1>3, <3>1, <3>2
  <2> QED BY <1>4, <2>1, <2>2, <2>3, <2>4
<1>5. ASSUME NEW w \in Worker, NEW end \in StatementEnd, Claim(w, end)
      PROVE  a = execs[w].analysis
  BY <1>a, <1>1, <1>5, UpdateRowEffect DEF Claim
<1>6. ASSUME NEW b \in Analysis, StoreNext(b)
      PROVE  FALSE
  BY <1>a, <1>1, <1>6 DEF StoreNext, Submit, SubmitWithoutDelivery, LeaseLapses, BackoffElapses,
     OnlyDelivery, RetentionExpires, SetRow, TypeOK, QueuedRow, NoRow, Row
<1>7. ASSUME NEW batch \in SUBSET Analysis, PurgeExpired(batch)
      PROVE  FALSE
  BY <1>a, <1>1, <1>7 DEF PurgeExpired, PurgedRow, NoRow
<1>8. ASSUME \/ UNCHANGED vars
             \/ \E d \in Lease : DispatchNext(d)
             \/ \E j \in Job : QueueNext(j)
      PROVE  FALSE
  BY <1>1, <1>8 DEF vars, store, DispatchNext, ClaimDeliveries, Enqueue, MarkDeliveryDelivered,
     RetryAfterFailure, DispatchCrash, QueueNext, RecoverDeadOwner, LoseLiveLock, AddCompetingJob
<1>9. ASSUME NEW w \in Worker, WorkerNext(w), ~\E end \in StatementEnd : Claim(w, end)
      PROVE  FALSE
  <2>1. CASE \E end \in StatementEnd :
                 \/ FailMismatch(w, end) \/ Progress(w, end) \/ ReturnToQueue(w, end)
                 \/ RecordFailure(w, end) \/ RecordScoring(w, end) \/ Complete(w, end)
    BY <1>4, <2>1
  <2>2. CASE ~\E end \in StatementEnd :
                 \/ FailMismatch(w, end) \/ Progress(w, end) \/ ReturnToQueue(w, end)
                 \/ RecordFailure(w, end) \/ RecordScoring(w, end) \/ Complete(w, end)
    BY <1>1, <1>9, <2>2 DEF WorkerNext, GetJob, ExecNext, FindAnalysis, AnalysisInterrupted,
       AnalysisThrows, ConnectionUnavailable, AnalysisRejected, AnalysisSucceeds, CompleteJob,
       FailJob, RequestStop, AbortJob, Restart, WorkerCrash, NoWrite, store
  <2> QED BY <2>1, <2>2
<1> QED BY <1>5, <1>6, <1>7, <1>8, <1>9 DEF Next

\* A job goes on serving an analysis that is still queued, or that it owns.
LEMMA ServesStays ==
    ASSUME IInv, LocksHeld, LocksHeld', ClaimsHeld, DeliveriesTraced, [Next]_vars,
           NEW a \in Analysis, NEW j \in Job, Serves(j, a),
           \/ rows'[a].status = "queued"
           \/ rows'[a].status = "running" /\ rows'[a].activeJob = j
    PROVE  Serves(j, a)'
<1>1. jobs'[j].state # "none" /\ jobs'[j].analysis = a
  BY NextJobEffect DEF IInv, JobEffect, Serves
<1>2. ASSUME NEW w \in Worker, execs'[w].pc = "returned", execs'[w].job = j
      PROVE  FALSE
  <2>1. execs'[w].analysis = a
    BY <1>1, <1>2 DEF LocksHeld
  <2>2. execs[w].pc # "returned"
    BY <1>2, ReturnsSettled DEF Serves
  <2> QED BY <1>2, <2>1, <2>2, ReturnsSettled DEF Settled
<1> QED BY <1>1, <1>2 DEF Serves

\* A worker that claims an analysis gives it a job that serves it.
LEMMA ClaimServes ==
    ASSUME IInv, LocksHeld, LocksHeld', ClaimsHeld, [Next]_vars, NEW w \in Worker,
           NEW end \in StatementEnd, Claim(w, end), NEW a \in Analysis, a = execs[w].analysis,
           rows'[a].status = "running",
           ~(rows[a].status = "running" /\ rows[a].activeJob = rows'[a].activeJob)
    PROVE  Serves(rows[a].activeJob, a)'
<1> DEFINE j == execs[w].job
<1>a. TypeOK /\ rows[a] \in Row /\ execs[w].pc = "claim" /\ j \in Job
  BY DEF IInv, TypeOK, Claim, At, ExecutionsCarry
<1>1. rows'[a] = ClaimForExecution(rows[a], j)
  BY <1>a, UpdateRowEffect DEF Claim
<1>2. rows'[a].activeJob = j
  BY <1>a, <1>1 DEF ClaimForExecution, Row
<1>3. jobs' = jobs /\ jobs[j].state = "locked" /\ jobs[j].analysis = a /\ jobs[j].holder = w
  BY <1>a DEF Claim, UpdateRow, LocksHeld
<1>4. ASSUME NEW v \in Worker, execs'[v].pc = "returned", execs'[v].job = j
      PROVE  FALSE
  <2>1. execs'[v].analysis = a
    BY <1>3, <1>4 DEF LocksHeld
  <2>2. execs[v].pc # "returned"
    <3>1. execs[v].pc # "idle" /\ execs[v].job = j
      BY <1>4, ReturnsSettled
    <3> QED BY <1>a, <1>3, <3>1 DEF LocksHeld
  <2> QED BY <1>2, <1>4, <2>1, <2>2, ReturnsSettled DEF Settled
<1> QED BY <1>2, <1>3, <1>4 DEF Serves

\* Work becomes committed only by being enqueued.
LEMMA OnlyEnqueueCommits ==
    ASSUME IInv, LocksHeld, ClaimsHeld, DeliveriesTraced, [Next]_vars, NEW a \in Analysis,
           rows'[a].status = "queued", ~Committed(a), Committed(a)'
    PROVE  \E d \in Lease : Enqueue(d, a, "ok")
<1>1. deliveries'[a].status # "delivered"
  <2>1. DeliveryEffect(a)
    BY NextDeliveryEffect DEF IInv
  <2> QED BY <2>1 DEF DeliveryEffect, Committed, NoDelivery
<1>2. ~\E w \in Worker : execs'[w].pc = "returned" /\ execs'[w].analysis = a
  BY ReturnsSettled DEF Settled, Committed
<1>3. PICK d \in Lease : dispatch'[d][a] = "mark" /\ HoldsLease(deliveries'[a], d)
  BY <1>1, <1>2 DEF Committed, HoldsLease
<1>4. HoldsLease(deliveries[a], d)
  <2>1. DeliveryEffect(a)
    BY NextDeliveryEffect DEF IInv
  <2> QED BY <1>3, <2>1 DEF DeliveryEffect, NoDelivery, HoldsLease
<1>5. DispatchEffect(d, a)
  BY NextDispatchEffect DEF IInv
<1> QED BY <1>3, <1>4, <1>5 DEF DispatchEffect, Committed

\* An analysis is put back in the queue only by the job that ran it.
LEMMA QueuedBefore ==
    ASSUME IInv, [Next]_vars, NEW a \in Analysis, rows'[a].status = "queued"
    PROVE  rows[a].status \in {"absent", "queued", "running"}
<1>a. rows[a] \in Row /\ RowConsistent(rows[a])
  BY PerAnalysis DEF IInv, TypeOK
<1>1. RowEffect(a)
  BY NextEffect DEF IInv
<1>2. ASSUME NEW w \in Worker, Executes(w, a)
      PROVE  rows[a].status \in {"queued", "running"}
  BY <1>a, <1>2, StatusEffects DEF Executes, Statement, Succeeded
<1> QED BY <1>a, <1>1, <1>2 DEF RowEffect, Untouched, Ages, PurgedRow, NoRow, Row

LEMMA NextServed ==
    ASSUME IInv, LocksHeld, LocksHeld', ClaimsHeld, DeliveriesTraced, JobsTraced, [Next]_vars,
           NEW a \in Analysis, Served(a)
    PROVE  Served(a)'
<1>a. rows[a] \in Row /\ RowConsistent(rows[a])
  BY PerAnalysis DEF IInv, TypeOK
<1>b. rows[a].status = "running" => rows[a].activeJob \in Job
  BY <1>a DEF Row, RowConsistent
<1>1. ASSUME rows'[a].status = "running"
      PROVE  Serves(rows[a].activeJob, a)'
  <2>1. CASE rows[a].status = "running" /\ rows[a].activeJob = rows'[a].activeJob
    <3>1. PICK j \in Job : rows[a].activeJob = j
      BY <1>b, <2>1
    <3>2. Serves(j, a)'
      BY <1>1, <2>1, <3>1, ServesStays DEF Served
    <3> QED BY <2>1, <3>1, <3>2 DEF Serves
  <2>2. CASE ~(rows[a].status = "running" /\ rows[a].activeJob = rows'[a].activeJob)
    BY <1>1, <2>2, OnlyClaimRuns, ClaimServes
  <2> QED BY <2>1, <2>2
<1>2. ASSUME rows'[a].status = "queued", Committed(a)'
      PROVE  \E j \in Job : Serves(j, a)'
  <2>1. CASE rows[a].status = "running"
    BY <1>2, <1>b, <2>1, ServesStays DEF Served
  <2>2. CASE rows[a].status = "queued" /\ Committed(a)
    BY <1>2, <2>2, ServesStays DEF Served
  <2>3. CASE ~Committed(a)
    <3>1. PICK d \in Lease : Enqueue(d, a, "ok")
      BY <1>2, <2>3, OnlyEnqueueCommits
    <3>2. AddJob(a) /\ execs' = execs
      BY <3>1 DEF Enqueue, Applied
    <3>3. ASSUME NEW j \in Job, FreeJob(j), jobs' = [jobs EXCEPT ![j] = QueuedJob(a, TRUE, TRUE)]
          PROVE  Serves(j, a)'
      BY <3>2, <3>3 DEF FreeJob, QueuedJob, Serves, IInv, TypeOK
    <3>4. ASSUME NEW j \in Job, jobs[j].state # "none", jobs[j].analysis = a, jobs' = jobs
          PROVE  Serves(j, a)'
      BY <2>3, <3>2, <3>4 DEF Serves, Committed, LocksHeld
    <3> QED BY <3>2, <3>3, <3>4 DEF AddJob, HasKeyedJob
  <2>4. CASE rows[a].status = "absent"
    <3>1. ~Committed(a)
      BY <2>4 DEF Committed, DeliveriesTraced, JobsTraced, LocksHeld, IInv, ExecutionsCarry, Known
    <3> QED BY <2>3, <3>1
  <2> QED BY <1>2, <2>1, <2>2, <2>3, <2>4, QueuedBefore
<1> QED BY <1>1, <1>2 DEF Served, Serves, Committed

\* ADR-0014 and repository-jobs.md: accepted work keeps its job.  While the queue gives away no
\* live lock, a delivered analysis that waits has a job to claim it and a running one its owner.
THEOREM UnfinishedIsServed ==
    ASSUME "live_lock_loss" \notin Environment
    PROVE  Spec => []UnfinishedHasJob
<1> DEFINE Inv == /\ LocksHeld /\ ClaimsHeld /\ DeliveriesTraced /\ JobsTraced
                  /\ \A a \in Analysis : Served(a)
<1>1. Init => Inv
  BY DEF Init, LocksHeld, ClaimsHeld, Idle, NoQueueJob, Working, DeliveriesTraced, JobsTraced,
         NoDelivery, Served, NoRow
<1>2. ASSUME IInv, Inv, [Next]_vars
      PROVE  Inv'
  <2>1. LocksHeld' /\ ClaimsHeld'
    BY <1>2, NextHoldsLocks, NextHoldsClaims DEF IInv, LoseLiveLock
  <2>2. DeliveriesTraced' /\ JobsTraced'
    BY <1>2, NextDeliveriesTraced, NextJobsTraced DEF IInv
  <2>3. \A a \in Analysis : Served(a)'
    BY <1>2, <2>1, NextServed
  <2> QED BY <2>1, <2>2, <2>3
<1>3. Inv => UnfinishedHasJob
  BY DEF Served, Serves, Committed, UnfinishedHasJob
<1> HIDE DEF Inv
<1>4. IInv /\ Inv /\ [Next]_vars => Inv'
  BY <1>2
<1> QED BY <1>1, <1>3, <1>4, Invariant, PTL DEF Spec

\* ADR-0014: delivered outbox rows remain until their analysis is removed; whatever the queue
\* does, no late statement of a delivery run touches one.
THEOREM DeliveriesAreFinal == Spec => DeliveredIsFinal
<1>1. Init => DeliveriesTraced
  BY DEF Init, DeliveriesTraced, NoDelivery
<1>2. IInv /\ DeliveriesTraced /\ [Next]_vars => DeliveriesTraced'
  BY NextDeliveriesTraced DEF IInv
<1>3. IInv /\ DeliveriesTraced /\ [Next]_vars =>
        [\A a \in Analysis : deliveries[a].status = "delivered" =>
            \/ deliveries'[a] = deliveries[a]
            \/ ~Exists(rows'[a]) /\ deliveries'[a] = NoDelivery]_vars
  BY NextDeliveryEffect DEF IInv, DeliveryEffect, Exists, Missing, PurgedRow, NoRow
<1> QED BY <1>1, <1>2, <1>3, Invariant, PTL DEF Spec, DeliveredIsFinal

(***************************************************************************)
(* The attempt budget.  Until the first fault a locked job is executed by  *)
(* its holder, which knows whether this attempt is the final one, and a    *)
(* final attempt gives its job back only when its analysis is over.        *)
(***************************************************************************)
Over(a) == IsTerminal(rows[a]) \/ rows[a].status = "deleted"

BudgetKept ==
    /\ \A j \in Job : jobs[j].state = "locked" =>
          \E w \in Worker : jobs[j].holder = w /\ execs[w].pc # "idle" /\ execs[w].job = j
    /\ \A w \in Worker : execs[w].pc # "idle" =>
          /\ execs[w].final <=> jobs[execs[w].job].attempts >= MaxAttempts
          /\ execs[w].pc = "retry" => ~execs[w].final
          /\ execs[w].pc = "threw" /\ execs[w].final => Over(execs[w].analysis)
    /\ \A j \in Job : /\ jobs[j].state = "queued"
                      /\ jobs[j].attempts >= MaxAttempts
                      => Over(jobs[j].analysis)

Calm == LocksHeld /\ JobsTraced /\ BudgetKept

\* A fault cannot be undone: an undisturbed state was reached by undisturbed steps.
LEMMA CalmStep ==
    ASSUME TypeOK, [Next]_vars, faults' = 0
    PROVE  /\ faults = 0
           /\ \A end \in StatementEnd : Charge(end) => end = "ok"
           /\ ~\E j \in Job : LoseLiveLock(j)
           /\ ~\E a \in Analysis, matches \in BOOLEAN, j \in Job : AddCompetingJob(a, matches, j)
           /\ ~\E w \in Worker : WorkerCrash(w)
<1>1. \A end : Charge(end) => end = "ok" /\ faults = 0
  BY BoundAssumption DEF Charge, TypeOK
<1>2. ASSUME NEW d \in Lease, DispatchNext(d)
      PROVE  faults = 0
  BY <1>1, <1>2 DEF DispatchNext, ClaimDeliveries, Enqueue, MarkDeliveryDelivered,
     RetryAfterFailure, DispatchCrash
<1>3. ASSUME NEW w \in Worker, WorkerNext(w)
      PROVE  faults = 0
  <2>1. CASE ExecNext(w)
    BY <1>1, <2>1 DEF ExecNext, FindAnalysis, FailMismatch, Claim, Progress, ReturnToQueue,
       RecordFailure, RecordScoring, Complete, AnalysisInterrupted, AnalysisThrows,
       ConnectionUnavailable, AnalysisRejected, AnalysisSucceeds, CompleteJob, FailJob,
       NoWrite, UpdateRow
  <2>2. CASE ~ExecNext(w)
    BY <1>1, <1>3, <2>2 DEF WorkerNext, GetJob, RequestStop, AbortJob, Restart, WorkerCrash
  <2> QED BY <2>1, <2>2
<1>4. ASSUME \/ \E j \in Job : QueueNext(j)
             \/ \E a \in Analysis : StoreNext(a)
             \/ \E batch \in SUBSET Analysis : PurgeExpired(batch)
             \/ UNCHANGED vars
      PROVE  faults = 0
  BY <1>1, <1>4 DEF QueueNext, RecoverDeadOwner, LoseLiveLock, AddCompetingJob, StoreNext, Submit,
     SubmitWithoutDelivery, LeaseLapses, BackoffElapses, OnlyDelivery, RetentionExpires,
     PurgeExpired, vars
<1>5. faults = 0
  BY <1>2, <1>3, <1>4 DEF Next
<1>6. ~Charge("lost")
  BY <1>1
<1> QED BY <1>1, <1>5, <1>6 DEF LoseLiveLock, AddCompetingJob, WorkerCrash

LEMMA OverStays ==
    ASSUME TypeOK, ExecutionsCarry, RecordConsistent, [Next]_vars, NEW a \in Analysis, Over(a)
    PROVE  Over(a)'
<1>a. rows[a] \in Row /\ RowConsistent(rows[a])
  BY PerAnalysis DEF TypeOK
<1>1. RowEffect(a)
  BY NextEffect
<1>2. CASE IsTerminal(rows[a])
  BY <1>a, <1>1, <1>2, TerminalEffect DEF Over, IsTerminal, PurgedRow, NoRow, Row
<1>3. CASE rows[a].status = "deleted"
  <2>1. ASSUME NEW w \in Worker, Executes(w, a)
        PROVE  rows'[a].status = "deleted"
    BY <1>a, <1>3, <2>1, StatusEffects DEF Executes, Statement
  <2> QED BY <1>a, <1>1, <1>3, <2>1 DEF RowEffect, Untouched, Ages, Exists, Missing, IsPurgeable,
                                        IsTerminal, Terminal, Succeeded, Over
<1> QED BY <1>2, <1>3 DEF Over

\* A step that moves one execution on, and leaves the queue alone.
LEMMA MoveKeepsBudget ==
    ASSUME IInv, Calm, [Next]_vars, NEW w \in Worker, NEW exec, Continue(w, exec), jobs' = jobs,
           execs[w].pc # "idle", exec.pc # "idle", exec.job = execs[w].job,
           exec.analysis = execs[w].analysis, exec.final = execs[w].final,
           exec.pc = "retry" => ~execs[w].final,
           exec.pc = "threw" /\ execs[w].final => Over(execs[w].analysis)
    PROVE  BudgetKept'
<1>1. execs'[w] = exec /\ \A v \in Worker \ {w} : execs'[v] = execs[v]
  BY DEF Continue, IInv, TypeOK
<1>2. \A a \in Analysis : Over(a) => Over(a)'
  BY OverStays DEF IInv
<1>3. /\ \A v \in Worker : execs[v].pc # "idle" => execs[v].analysis \in Analysis
      /\ \A j \in Job : jobs[j].state # "none" => jobs[j].analysis \in Analysis
  BY DEF Calm, LocksHeld
<1> QED BY <1>1, <1>2, <1>3 DEF Calm, BudgetKept, Over

LEMMA ExecNextKeepsBudget ==
    ASSUME IInv, Calm, [Next]_vars, faults' = 0, NEW w \in Worker, ExecNext(w)
    PROVE  BudgetKept'
<1> DEFINE a == execs[w].analysis
           j == execs[w].job
<1>a. TypeOK /\ execs[w] \in Execution /\ BudgetKept
  BY DEF IInv, TypeOK, Calm
<1>b. \A end \in StatementEnd : Charge(end) => end = "ok"
  BY <1>a, CalmStep
<1>c. ASSUME NEW pc
      PROVE  /\ Goto(w, pc).pc = pc /\ Goto(w, pc).job = j /\ Goto(w, pc).analysis = a
             /\ Goto(w, pc).final = execs[w].final
  BY <1>a DEF Goto, Execution
<1>1. ASSUME NEW end \in StatementEnd, FindAnalysis(w, end)
      PROVE  BudgetKept'
  <2> DEFINE exec == Goto(w, AfterFind(w, rows[a]))
  <2>1. Continue(w, exec) /\ jobs' = jobs /\ execs[w].pc = "find"
    BY <1>b, <1>1 DEF FindAnalysis, At
  <2>2. /\ exec.pc = AfterFind(w, rows[a])
        /\ exec.job = j /\ exec.analysis = a /\ exec.final = execs[w].final
    BY <1>c
  <2>3. AfterFind(w, rows[a]) = "threw" => Over(a)
    <3>1. rows[a].status # "absent"
      BY <1>a, <2>1 DEF Calm, LocksHeld, JobsTraced, Known, IInv, ExecutionsCarry
    <3> QED BY <3>1 DEF AfterFind, Exists, Missing, Over
  <2>4. AfterFind(w, rows[a]) \notin {"retry", "idle"}
    BY DEF AfterFind
  <2> HIDE DEF exec
  <2> QED BY <2>1, <2>2, <2>3, <2>4, MoveKeepsBudget
<1>2. ASSUME NEW end \in StatementEnd,
             \/ FailMismatch(w, end) \/ Claim(w, end) \/ RecordFailure(w, end)
             \/ RecordScoring(w, end) \/ Complete(w, end)
      PROVE  BudgetKept'
  <2>1. PICK pc \in {"returned", "analyze", "complete"} : Continue(w, Goto(w, pc))
    BY <1>b, <1>2 DEF FailMismatch, Claim, RecordFailure, RecordScoring, Complete, UpdateRow
  <2>2. jobs' = jobs /\ execs[w].pc # "idle"
    BY <1>2 DEF FailMismatch, Claim, RecordFailure, RecordScoring, Complete, UpdateRow, At
  <2> DEFINE exec == Goto(w, pc)
  <2>3. /\ exec.pc = pc /\ exec.job = j /\ exec.analysis = a /\ exec.final = execs[w].final
        /\ Continue(w, exec)
    BY <1>c, <2>1
  <2> HIDE DEF exec
  <2> QED BY <2>1, <2>2, <2>3, MoveKeepsBudget
<1>3. ASSUME NEW end \in StatementEnd, Progress(w, end)
      PROVE  BudgetKept'
  <2> DEFINE exec == [execs[w] EXCEPT !.stage = StageAfter(execs[w].stage)]
  <2>1. Continue(w, exec) /\ jobs' = jobs /\ execs[w].pc = "analyze"
    BY <1>b, <1>3 DEF Progress, UpdateRow, At
  <2>2. exec.pc = "analyze" /\ exec.job = j /\ exec.analysis = a /\ exec.final = execs[w].final
    BY <1>a, <2>1 DEF Execution
  <2> HIDE DEF exec
  <2> QED BY <2>1, <2>2, MoveKeepsBudget
<1>4. ASSUME NEW end \in StatementEnd, ReturnToQueue(w, end)
      PROVE  BudgetKept'
  <2> DEFINE exec == Goto(w, "threw")
  <2>1. Continue(w, exec) /\ jobs' = jobs /\ execs[w].pc = "retry"
    BY <1>4 DEF ReturnToQueue, UpdateRow, At
  <2>2. exec.pc = "threw" /\ exec.job = j /\ exec.analysis = a /\ exec.final = execs[w].final
    BY <1>c
  <2>3. ~execs[w].final
    BY <1>a, <2>1 DEF BudgetKept
  <2> HIDE DEF exec
  <2> QED BY <2>1, <2>2, <2>3, MoveKeepsBudget
<1>5. CASE Concludes(w)
  <2>1. jobs' = jobs /\ execs[w].pc = "analyze"
    BY <1>5 DEF Concludes, AnalysisInterrupted, AnalysisThrows, ConnectionUnavailable,
                AnalysisRejected, AnalysisSucceeds, NoWrite, At
  <2>2. ASSUME NEW failure, NEW retry, Continue(w, Unsuccessful(w, failure, retry))
        PROVE  BudgetKept'
    <3> DEFINE exec == Unsuccessful(w, failure, retry)
    <3>1. /\ exec.pc \in {"retry", "fail"}
          /\ exec.pc = "retry" => ~execs[w].final
          /\ exec.job = j /\ exec.analysis = a /\ exec.final = execs[w].final
          /\ Continue(w, exec)
      BY <1>a, <2>2 DEF Unsuccessful, Execution
    <3> HIDE DEF exec
    <3> QED BY <2>1, <3>1, MoveKeepsBudget
  <2>3. ASSUME NEW outcome \in Succeeded, AnalysisSucceeds(w, outcome)
        PROVE  BudgetKept'
    <3> DEFINE exec == [execs[w] EXCEPT !.pc = "score", !.outcome = outcome]
    <3>1. /\ exec.pc = "score" /\ exec.job = j /\ exec.analysis = a /\ exec.final = execs[w].final
          /\ Continue(w, exec)
      BY <1>a, <2>3 DEF AnalysisSucceeds, Execution
    <3> HIDE DEF exec
    <3> QED BY <2>1, <3>1, MoveKeepsBudget
  <2> QED BY <1>5, <2>2, <2>3 DEF Concludes, AnalysisInterrupted, AnalysisThrows,
             ConnectionUnavailable, AnalysisRejected
<1>6. ASSUME CompleteJob(w) \/ FailJob(w)
      PROVE  BudgetKept'
  <2>1. /\ execs[w].pc \in {"returned", "threw"} /\ j \in Job
        /\ jobs[j].state = "locked" /\ jobs[j].holder = w /\ jobs[j] \in QueueJob
        /\ execs[w].analysis = jobs[j].analysis
    BY <1>6, <1>a DEF CompleteJob, FailJob, At, Calm, LocksHeld, IInv, ExecutionsCarry, TypeOK
  <2>2. execs'[w].pc = "idle" /\ \A v \in Worker \ {w} : execs'[v] = execs[v]
    BY <1>6, <1>a DEF CompleteJob, FailJob, Continue, Idle, TypeOK
  <2>3. /\ \A k \in Job \ {j} : jobs'[k] = jobs[k]
        /\ jobs'[j].state # "locked"
        /\ jobs'[j].state = "queued" => /\ execs[w].pc = "threw"
                                        /\ jobs'[j].attempts = jobs[j].attempts
                                        /\ jobs'[j].analysis = jobs[j].analysis
    <3>1. CASE CompleteJob(w)
      BY <1>a, <2>1, <3>1 DEF CompleteJob, NoQueueJob, TypeOK
    <3>2. CASE FailJob(w)
      <4>1. jobs' = [jobs EXCEPT ![j] = Unlocked(jobs[j])] /\ execs[w].pc = "threw"
        BY <2>1, <3>2 DEF FailJob, At
      <4>2. /\ Unlocked(jobs[j]).state = "queued"
            /\ Unlocked(jobs[j]).attempts = jobs[j].attempts
            /\ Unlocked(jobs[j]).analysis = jobs[j].analysis
        BY <2>1 DEF Unlocked, QueueJob
      <4> QED BY <1>a, <2>1, <4>1, <4>2 DEF TypeOK
    <3> QED BY <1>6, <3>1, <3>2
  <2>4. /\ \A b \in Analysis : Over(b) => Over(b)'
        /\ \A v \in Worker : execs[v].pc # "idle" =>
              execs[v].analysis \in Analysis /\ execs[v].job \in Job /\ (execs[v].job = j => v = w)
        /\ \A k \in Job : jobs[k].state # "none" => jobs[k].analysis \in Analysis
    BY <2>1, OverStays DEF IInv, Calm, LocksHeld, ExecutionsCarry
  <2>5. execs[w].pc = "threw" /\ jobs[j].attempts >= MaxAttempts => Over(jobs[j].analysis)
    BY <1>a, <2>1 DEF BudgetKept
  <2> QED BY <1>a, <2>1, <2>2, <2>3, <2>4, <2>5 DEF BudgetKept, Over
<1> QED BY <1>1, <1>2, <1>3, <1>4, <1>5, <1>6 DEF ExecNext, Concludes

LEMMA NextKeepsBudget ==
    ASSUME IInv, Calm, [Next]_vars, faults' = 0
    PROVE  BudgetKept'
<1>a. TypeOK /\ BudgetKept
  BY DEF IInv, Calm
<1>b. /\ \A a \in Analysis : Over(a) => Over(a)'
      /\ \A v \in Worker : execs[v].pc # "idle" => execs[v].analysis \in Analysis /\ execs[v].job \in Job
      /\ \A k \in Job : jobs[k].state # "none" => jobs[k].analysis \in Analysis
  BY OverStays DEF IInv, Calm, LocksHeld, ExecutionsCarry
<1>1. ASSUME execs' = execs, jobs' = jobs
      PROVE  BudgetKept'
  BY <1>a, <1>b, <1>1 DEF BudgetKept, Over
<1>2. ASSUME execs' = execs, NEW a \in Analysis, NEW j \in Job, FreeJob(j),
             jobs' = [jobs EXCEPT ![j] = QueuedJob(a, TRUE, TRUE)]
      PROVE  BudgetKept'
  <2>1. /\ jobs'[j].state = "queued" /\ ~(jobs'[j].attempts >= MaxAttempts)
        /\ \A k \in Job \ {j} : jobs'[k] = jobs[k]
    BY <1>a, <1>2, BoundAssumption DEF TypeOK, QueuedJob
  <2>2. \A v \in Worker : execs[v].pc # "idle" => execs[v].job \in Job \ {j}
    BY <1>b, <1>2 DEF FreeJob
  <2>3. ASSUME NEW k \in Job, jobs'[k].state = "locked"
        PROVE  \E w \in Worker : jobs'[k].holder = w /\ execs'[w].pc # "idle" /\ execs'[w].job = k
    <3>1. jobs'[k] = jobs[k]
      BY <2>1, <2>3
    <3>2. PICK w \in Worker : jobs[k].holder = w /\ execs[w].pc # "idle" /\ execs[w].job = k
      BY <1>a, <2>3, <3>1 DEF BudgetKept
    <3> QED BY <1>2, <3>1, <3>2
  <2>4. ASSUME NEW w \in Worker, execs'[w].pc # "idle"
        PROVE  /\ execs'[w].final <=> jobs'[execs'[w].job].attempts >= MaxAttempts
               /\ execs'[w].pc = "retry" => ~execs'[w].final
               /\ execs'[w].pc = "threw" /\ execs'[w].final => Over(execs[w].analysis)'
    <3>1. execs'[w] = execs[w] /\ jobs'[execs[w].job] = jobs[execs[w].job]
      BY <1>2, <2>1, <2>2, <2>4
    <3>2. /\ execs[w].final <=> jobs[execs[w].job].attempts >= MaxAttempts
          /\ execs[w].pc = "retry" => ~execs[w].final
          /\ execs[w].pc = "threw" /\ execs[w].final => Over(execs[w].analysis)
      BY <1>a, <2>4, <3>1 DEF BudgetKept
    <3>3. Over(execs[w].analysis) => Over(execs[w].analysis)'
      BY <1>b, <2>4, <3>1 DEF Over
    <3> QED BY <3>1, <3>2, <3>3
  <2>5. ASSUME NEW k \in Job, jobs'[k].state = "queued", jobs'[k].attempts >= MaxAttempts
        PROVE  Over(jobs[k].analysis)'
    BY <1>a, <1>b, <2>1, <2>5 DEF BudgetKept, Over
  <2> QED BY <2>3, <2>4, <2>5 DEF BudgetKept, Over
<1>3. ASSUME NEW d \in Lease, DispatchNext(d)
      PROVE  BudgetKept'
  <2>1. execs' = execs
    BY <1>3, OthersLeaveExecutions
  <2>2. jobs' = jobs \/ \E a \in Analysis : AddJob(a)
    BY <1>3 DEF DispatchNext, ClaimDeliveries, Enqueue, MarkDeliveryDelivered, RetryAfterFailure,
                DispatchCrash
  <2> QED BY <1>1, <1>2, <2>1, <2>2 DEF AddJob
<1>4. ASSUME NEW w \in Worker, NEW j \in Job, GetJob(w, j)
      PROVE  BudgetKept'
  <2>1. /\ execs[w].pc = "idle" /\ jobs[j].state = "queued" /\ jobs[j] \in QueueJob
        /\ \A v \in Worker : execs[v].pc # "idle" => v # w /\ execs[v].job # j
    BY <1>4, <1>a DEF GetJob, At, Calm, LocksHeld, TypeOK
  <2>2. /\ jobs'[j].state = "locked" /\ jobs'[j].holder = w
        /\ jobs'[j].attempts = jobs[j].attempts + 1
        /\ \A k \in Job \ {j} : jobs'[k] = jobs[k]
    BY <1>4, <1>a, <2>1 DEF GetJob, TypeOK, QueueJob
  <2>3. /\ execs'[w].pc = "find" /\ execs'[w].job = j
        /\ execs'[w].final <=> jobs[j].attempts + 1 >= MaxAttempts
        /\ \A v \in Worker \ {w} : execs'[v] = execs[v]
    BY <1>4, <1>a DEF GetJob, Continue, TypeOK, Idle
  <2> QED BY <1>a, <1>b, <2>1, <2>2, <2>3 DEF BudgetKept, Over
<1>5. ASSUME NEW w \in Worker, RequestStop(w) \/ AbortJob(w) \/ Restart(w)
      PROVE  BudgetKept'
  <2>1. CASE RequestStop(w)
    BY <1>1, <2>1 DEF RequestStop
  <2>2. CASE AbortJob(w)
    <3> DEFINE exec == [execs[w] EXCEPT !.aborted = TRUE]
    <3>1. /\ Continue(w, exec) /\ jobs' = jobs /\ execs[w].pc # "idle" /\ exec.pc = execs[w].pc
          /\ exec.job = execs[w].job /\ exec.analysis = execs[w].analysis
          /\ exec.final = execs[w].final
      BY <1>a, <2>2 DEF AbortJob, At, TypeOK, Execution
    <3>2. /\ exec.pc = "retry" => ~execs[w].final
          /\ exec.pc = "threw" /\ execs[w].final => Over(execs[w].analysis)
      BY <1>a, <3>1 DEF BudgetKept
    <3> HIDE DEF exec
    <3> QED BY <3>1, <3>2, MoveKeepsBudget
  <2>3. CASE Restart(w)
    <3>1. /\ jobs' = jobs /\ execs[w].pc = "idle" /\ execs'[w].pc = "idle"
          /\ \A v \in Worker \ {w} : execs'[v] = execs[v]
      BY <1>a, <2>3 DEF Restart, At, Continue, Idle, TypeOK
    <3> QED BY <1>a, <1>b, <3>1 DEF BudgetKept, Over
  <2> QED BY <1>5, <2>1, <2>2, <2>3
<1>6. ASSUME NEW j \in Job, QueueNext(j)
      PROVE  BudgetKept'
  <2>1. RecoverDeadOwner(j)
    BY <1>a, <1>6, CalmStep DEF QueueNext
  <2> QED BY <1>a, <2>1, WorkerAssumption DEF RecoverDeadOwner, BudgetKept
<1>7. ASSUME \/ \E a \in Analysis : StoreNext(a)
             \/ \E batch \in SUBSET Analysis : PurgeExpired(batch)
      PROVE  BudgetKept'
  <2>1. execs' = execs
    BY <1>7, OthersLeaveExecutions
  <2>2. jobs' = jobs
    BY <1>7 DEF StoreNext, Submit, SubmitWithoutDelivery, LeaseLapses, BackoffElapses,
                OnlyDelivery, RetentionExpires, PurgeExpired
  <2> QED BY <1>1, <2>1, <2>2
<1>8. CASE UNCHANGED vars
  BY <1>1, <1>8 DEF vars
<1>9. ASSUME NEW w \in Worker, WorkerNext(w)
      PROVE  BudgetKept'
  BY <1>a, <1>4, <1>5, <1>9, CalmStep, ExecNextKeepsBudget DEF WorkerNext
<1> QED BY <1>3, <1>6, <1>7, <1>8, <1>9 DEF Next

\* repository-jobs.md: the final attempt settles the analysis.  Without a fault no job uses up
\* its attempts and leaves its analysis unfinished, however often it is thrown or interrupted.
THEOREM BudgetIsSound == Spec => []OnlyFaultsExhaust
<1> DEFINE Inv == DeliveriesTraced /\ (faults = 0 => Calm)
<1>1. Init => Inv
  BY DEF Init, Calm, LocksHeld, JobsTraced, BudgetKept, DeliveriesTraced, Idle, NoQueueJob,
         NoDelivery
<1>2. ASSUME IInv, Inv, [Next]_vars
      PROVE  Inv'
  <2>1. DeliveriesTraced'
    BY <1>2, NextDeliveriesTraced DEF IInv
  <2>2. ASSUME faults' = 0
        PROVE  Calm'
    <3>1. Calm /\ ~\E j \in Job : LoseLiveLock(j)
      BY <1>2, <2>2, CalmStep DEF IInv
    <3>2. LocksHeld'
      BY <1>2, <3>1, NextHoldsLocks DEF IInv, Calm
    <3>3. JobsTraced'
      BY <1>2, <3>1, NextJobsTraced DEF IInv, Calm
    <3>4. BudgetKept'
      BY <1>2, <2>2, <3>1, NextKeepsBudget
    <3> QED BY <3>2, <3>3, <3>4 DEF Calm
  <2> QED BY <2>1, <2>2
<1>3. Inv => OnlyFaultsExhaust
  BY DEF Calm, BudgetKept, Over, OnlyFaultsExhaust, ExhaustedJobIsSettled, Exhausted, Exists, Missing
<1> HIDE DEF Inv
<1>4. IInv /\ Inv /\ [Next]_vars => Inv'
  BY <1>2
<1> QED BY <1>1, <1>3, <1>4, Invariant, PTL DEF Spec

(***************************************************************************)
(* RepositoryJobs implements AnalysisPromise.                              *)
(***************************************************************************)
\* Only a retention sweep changes several analyses in one step.
LEMMA OneAtATime ==
    ASSUME TypeOK, [Next]_vars, ~\E batch \in SUBSET Analysis : PurgeExpired(batch),
           NEW a \in Analysis, NEW b \in Analysis, a # b
    PROVE  Untouched(a) \/ Untouched(b)
<1>1. CASE UNCHANGED vars
  BY <1>1 DEF vars, Untouched
<1>2. ASSUME NEW d \in Lease, DispatchNext(d)
      PROVE  Untouched(a)
  BY <1>2 DEF DispatchNext, ClaimDeliveries, Enqueue, MarkDeliveryDelivered,
              RetryAfterFailure, DispatchCrash, Untouched
<1>3. ASSUME NEW w \in Worker, ExecNext(w)
      PROVE  Untouched(a) \/ Untouched(b)
  <2>1. CASE \E end \in StatementEnd : \/ FailMismatch(w, end)
                                        \/ Claim(w, end)
                                        \/ Progress(w, end)
                                        \/ ReturnToQueue(w, end)
                                        \/ RecordFailure(w, end)
                                        \/ RecordScoring(w, end)
    <3>1. PICK end \in StatementEnd : \E row : UpdateRow(w, end, row) /\ reports' = reports
      BY <2>1, Zenon DEF FailMismatch, Claim, Progress, ReturnToQueue, RecordFailure, RecordScoring
    <3> QED BY <3>1, UpdateRowEffect DEF Untouched
  <2>2. CASE \E end \in StatementEnd : Complete(w, end)
    BY <2>2 DEF Complete, UpdateRow, SetRow, TypeOK, Untouched
  <2>3. CASE \/ \E end \in StatementEnd : FindAnalysis(w, end)
             \/ AnalysisInterrupted(w)
             \/ AnalysisThrows(w)
             \/ ConnectionUnavailable(w)
             \/ \E retryable \in BOOLEAN : AnalysisRejected(w, retryable)
             \/ \E outcome \in Succeeded : AnalysisSucceeds(w, outcome)
             \/ CompleteJob(w)
             \/ FailJob(w)
    BY <2>3 DEF FindAnalysis, AnalysisInterrupted, AnalysisThrows, ConnectionUnavailable,
       AnalysisRejected, AnalysisSucceeds, CompleteJob, FailJob, NoWrite, store, Untouched
  <2> QED BY <1>3, <2>1, <2>2, <2>3 DEF ExecNext
<1>4. ASSUME NEW w \in Worker, WorkerNext(w)
      PROVE  Untouched(a) \/ Untouched(b)
  BY <1>3, <1>4 DEF WorkerNext, GetJob, RequestStop, AbortJob, Restart, WorkerCrash, store,
                    Untouched
<1>5. ASSUME NEW j \in Job, QueueNext(j)
      PROVE  Untouched(a)
  BY <1>5 DEF QueueNext, RecoverDeadOwner, LoseLiveLock, AddCompetingJob, store, Untouched
<1>6. ASSUME NEW c \in Analysis, StoreNext(c)
      PROVE  Untouched(a) \/ Untouched(b)
  BY <1>6 DEF StoreNext, Submit, SubmitWithoutDelivery, LeaseLapses, BackoffElapses,
     OnlyDelivery, RetentionExpires, SetRow, TypeOK, Untouched
<1> QED BY <1>1, <1>2, <1>4, <1>5, <1>6 DEF Next

LEMMA PromiseSets ==
    /\ Promise!Succeeded = Succeeded
    /\ Promise!Settled = Terminal
  BY DEF Promise!Succeeded, Promise!Settled, Succeeded, Terminal

\* A step that changes one analysis is a step of the promise, or a stutter.
LEMMA TouchKeepsPromise ==
    ASSUME TypeOK, NEW a \in Analysis, RowEffect(a), RowConsistent(rows[a]),
           rows' \in [Analysis -> Row], reports' \in [Analysis -> Report],
           \A b \in Analysis \ {a} : Untouched(b)
    PROVE  [Promise!PromiseNext]_(Promise!promise)
<1> DEFINE Now  == [b \in Analysis |-> rows[b].status]
           Next1 == [b \in Analysis |-> rows'[b].status]
<1> USE DEF Promise!promise
<1>a. rows[a] \in Row /\ reports[a] \in Report
  BY DEF TypeOK
<1>b. Next1 = [Now EXCEPT ![a] = rows'[a].status]
  BY DEF Untouched
<1>c. reports' = [reports EXCEPT ![a] = reports'[a]]
  BY DEF TypeOK, Untouched
<1>1. CASE rows'[a].status = rows[a].status /\ reports'[a] = reports[a]
  BY <1>1, <1>b, <1>c DEF TypeOK
<1>2. CASE rows[a].status = "absent" /\ rows'[a] = QueuedRow /\ reports'[a] = reports[a]
  <2>1. rows'[a].status = "queued"
    BY <1>2 DEF QueuedRow, NoRow
  <2>2. Promise!Accept(a)
    BY <1>2, <1>b, <1>c, <2>1 DEF Promise!Accept, TypeOK
  <2> QED BY <2>2 DEF Promise!PromiseNext
<1>3. CASE IsPurgeable(rows[a]) /\ rows'[a] = PurgedRow /\ reports'[a] = "none"
  <2>1. rows'[a].status = "deleted" /\ rows[a].status \in Promise!Settled
    BY <1>3, PromiseSets DEF PurgedRow, NoRow, IsPurgeable, IsTerminal
  <2>2. Promise!Remove({a})
    BY <1>3, <1>b, <1>c, <2>1 DEF Promise!Remove, TypeOK
  <2> QED BY <2>2 DEF Promise!PromiseNext
<1>4. ASSUME NEW w \in Worker, Executes(w, a)
      PROVE  \/ rows'[a].status = rows[a].status /\ reports'[a] = reports[a]
             \/ /\ rows[a].status = "queued" /\ rows'[a].status = "running"
                /\ reports'[a] = reports[a]
             \/ /\ rows[a].status = "running" /\ rows'[a].status = "queued"
                /\ reports'[a] = reports[a]
             \/ /\ rows[a].status \in {"queued", "running"} /\ rows'[a].status = "failed"
                /\ reports'[a] = reports[a]
             \/ \E outcome \in Succeeded :
                   /\ rows[a].status = "running" /\ rows'[a].status = outcome
                   /\ reports'[a] = outcome
  BY <1>a, <1>4, StatusEffects DEF Executes, Statement
<1>5. CASE rows[a].status = "queued" /\ rows'[a].status = "running" /\ reports'[a] = reports[a]
  <2>1. Promise!Start(a)
    BY <1>5, <1>b, <1>c DEF Promise!Start, TypeOK
  <2> QED BY <2>1 DEF Promise!PromiseNext
<1>6. CASE rows[a].status = "running" /\ rows'[a].status = "queued" /\ reports'[a] = reports[a]
  <2>1. Promise!Return(a)
    BY <1>6, <1>b, <1>c DEF Promise!Return, TypeOK
  <2> QED BY <2>1 DEF Promise!PromiseNext
<1>7. CASE rows[a].status \in {"queued", "running"} /\ rows'[a].status = "failed"
           /\ reports'[a] = reports[a]
  <2>1. Promise!GiveUp(a)
    BY <1>7, <1>b, <1>c DEF Promise!GiveUp, TypeOK
  <2> QED BY <2>1 DEF Promise!PromiseNext
<1>8. ASSUME NEW outcome \in Succeeded, rows[a].status = "running",
             rows'[a].status = outcome, reports'[a] = outcome
      PROVE  [Promise!PromiseNext]_(Promise!promise)
  <2>1. Promise!Succeed(a, outcome)
    BY <1>8, <1>b, <1>c DEF Promise!Succeed
  <2> QED BY <1>8, <2>1, PromiseSets DEF Promise!PromiseNext
<1>9. CASE Ages(a)
  BY <1>a, <1>1, <1>9 DEF Ages, Row
<1> QED BY <1>1, <1>2, <1>3, <1>4, <1>5, <1>6, <1>7, <1>8, <1>9 DEF RowEffect, Untouched

LEMMA NextKeepsPromise ==
    ASSUME IInv, [Next]_vars
    PROVE  [Promise!PromiseNext]_(Promise!promise)
<1>a. TypeOK /\ ExecutionsCarry /\ TypeOK'
  BY NextType DEF IInv
<1>b. rows' \in [Analysis -> Row] /\ reports' \in [Analysis -> Report]
  BY <1>a DEF TypeOK
<1>1. ASSUME NEW batch \in SUBSET Analysis, PurgeExpired(batch)
      PROVE  Promise!Remove(batch)
  <2>1. PurgedRow.status = "deleted"
    BY DEF PurgedRow, NoRow
  <2> QED BY <1>1, <2>1, PromiseSets DEF PurgeExpired, IsPurgeable, IsTerminal, Promise!Remove
<1>2. CASE \E batch \in SUBSET Analysis : PurgeExpired(batch)
  BY <1>1, <1>2 DEF Promise!PromiseNext
<1>3. CASE ~\E batch \in SUBSET Analysis : PurgeExpired(batch)
  <2>1. CASE \A a \in Analysis : Untouched(a)
    BY <1>a, <1>b, <2>1 DEF Untouched, TypeOK, Promise!promise
  <2>2. ASSUME NEW a \in Analysis, ~Untouched(a)
        PROVE  [Promise!PromiseNext]_(Promise!promise)
    <3>1. \A b \in Analysis \ {a} : Untouched(b)
      BY <1>a, <1>3, <2>2, OneAtATime
    <3>2. RowEffect(a) /\ RowConsistent(rows[a])
      BY <1>a, NextEffect, PerAnalysis DEF IInv
    <3> QED BY <1>a, <1>b, <3>1, <3>2, TouchKeepsPromise
  <2> QED BY <2>1, <2>2
<1> QED BY <1>2, <1>3

\* Whatever the queue, the workers and the faults do, a client sees the promised life.
THEOREM PromiseIsKept == Spec => KeepsPromise
<1>1. Init => Promise!PromiseInit
  BY DEF Init, Promise!PromiseInit, NoRow
<1>2. IInv /\ [Next]_vars => [Promise!PromiseNext]_(Promise!promise)
  BY NextKeepsPromise
<1> QED BY <1>1, <1>2, Invariant, PTL DEF Spec, KeepsPromise, Promise!PromiseSpec
=============================================================================
