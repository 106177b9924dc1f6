--------------------------- MODULE RepositoryJobs ---------------------------
(***************************************************************************)
(* The life of a repository analysis in StackLens, from the submission     *)
(* that commits the analysis and its outbox row, through the delivery runs *)
(* that lease outbox rows and enqueue queue jobs, to the workers that      *)
(* claim, execute and settle the analysis, and the retention sweep that    *)
(* removes it.                                                             *)
(*                                                                         *)
(* Every await on PostgreSQL is one action, so two delivery runs, two      *)
(* workers, a sweep and the clock interleave between any two of them.  A   *)
(* statement either succeeds, is lost before it commits, or commits and    *)
(* then reports an error (the connection dropped after COMMIT).  Workers   *)
(* and delivery runs may also die between any two statements.              *)
(*                                                                         *)
(* The queue is Graphile Worker, an external library: it is modelled by    *)
(* the guarantees apps/worker and packages/repository-jobs rely on.        *)
(***************************************************************************)
EXTENDS AnalysisStore, Naturals, FiniteSets

CONSTANTS
    Analysis,       \* analysis identifiers
    Connected,      \* those submitted with a GitHub connection
    Worker,         \* worker processes (each executes one job at a time)
    NoAnalysis, NoWorker,
    MaxAttempts,    \* REPOSITORY_ANALYSIS_MAX_ATTEMPTS
    MaxFaults,      \* bound: crashes, statement errors, foreign events
    MaxStops,       \* bound: planned worker stops
    Environment     \* which foreign events happen, see below

ASSUME AnalysisAssumption == NoAnalysis \notin Analysis /\ Connected \subseteq Analysis
ASSUME WorkerAssumption   == NoWorker \notin Worker
ASSUME BoundAssumption    == MaxAttempts \in Nat \ {0} /\ MaxFaults \in Nat /\ MaxStops \in Nat
\* "competing_job":  a second queue job names the analysis (a deployment overlap that
\*                   enqueued without the stable key, or an operator).
\* "live_lock_loss": the queue unlocks a job whose worker is still executing it (its
\*                   stale-lock timeout passed, or an operator was wrong about a death).
ASSUME EnvironmentAssumption == Environment \subseteq {"competing_job", "live_lock_loss"}

VARIABLES
    rows,        \* table analysis
    reports,     \* table analysis_report
    deliveries,  \* table analysis_delivery
    jobs,        \* the queue
    dispatch,    \* delivery runs: the steps still to do for each leased analysis
    execs,       \* what each worker is executing
    stopping,    \* the workers asked to stop
    faults, stops

store == <<rows, reports, deliveries>>
vars  == <<rows, reports, deliveries, jobs, dispatch, execs, stopping, faults, stops>>

(***************************************************************************)
(* Types.                                                                  *)
(***************************************************************************)
\* holder = NoWorker in a locked job: its owner died and the lock is stale.
QueueJob == [state : {"none", "queued", "locked"}, analysis : Analysis \cup {NoAnalysis},
             matches : BOOLEAN, keyed : BOOLEAN, attempts : 0..MaxAttempts,
             holder : Worker \cup {NoWorker}]
NoQueueJob == [state |-> "none", analysis |-> NoAnalysis, matches |-> TRUE, keyed |-> FALSE,
               attempts |-> 0, holder |-> NoWorker]

DispatchStep == {"none", "enqueue", "mark", "retry"}

\* The awaits of executeRepositoryAnalysisJob, in program order; then the queue's own
\* write for a task that returned or threw.
Pc == {"idle", "find", "mismatch", "claim", "analyze", "retry", "fail", "score",
       "complete", "returned", "threw"}
Working == {"analyze", "retry", "fail", "score", "complete"}   \* holds the execution claim

Execution == [pc : Pc, job : Job \cup {NoJob}, analysis : Analysis \cup {NoAnalysis},
              matches : BOOLEAN, final : BOOLEAN, stage : {"queued"} \cup WorkStage,
              failure : Failure, outcome : Report, aborted : BOOLEAN]
Idle == [pc |-> "idle", job |-> NoJob, analysis |-> NoAnalysis, matches |-> TRUE,
         final |-> FALSE, stage |-> "queued", failure |-> "none", outcome |-> "none",
         aborted |-> FALSE]

TypeOK ==
    /\ rows \in [Analysis -> Row]
    /\ reports \in [Analysis -> Report]
    /\ deliveries \in [Analysis -> Delivery]
    /\ jobs \in [Job -> QueueJob]
    /\ dispatch \in [Lease -> [Analysis -> DispatchStep]]
    /\ execs \in [Worker -> Execution]
    /\ stopping \subseteq Worker
    /\ faults \in 0..MaxFaults
    /\ stops \in 0..MaxStops

Init ==
    /\ rows = [a \in Analysis |-> NoRow]
    /\ reports = [a \in Analysis |-> "none"]
    /\ deliveries = [a \in Analysis |-> NoDelivery]
    /\ jobs = [j \in Job |-> NoQueueJob]
    /\ dispatch = [d \in Lease |-> [a \in Analysis |-> "none"]]
    /\ execs = [w \in Worker |-> Idle]
    /\ stopping = {}
    /\ faults = 0
    /\ stops = 0

(***************************************************************************)
(* How a statement ends.                                                   *)
(***************************************************************************)
StatementEnd == {"ok", "lost", "ambiguous"}
Applied(end) == end # "lost"
Charge(end) ==
    \/ end = "ok" /\ faults' = faults
    \/ end # "ok" /\ faults < MaxFaults /\ faults' = faults + 1

SetRow(a, row) == rows' = [rows EXCEPT ![a] = row]
Continue(w, exec) == execs' = [execs EXCEPT ![w] = exec]
At(w, pc) == execs[w].pc = pc
Goto(w, pc) == [execs[w] EXCEPT !.pc = pc]

(***************************************************************************)
(* Submission.                                                             *)
(***************************************************************************)
\* The identifier is fresh, so the analysis and its outbox row are both inserted, in one
\* transaction.  Dispatch follows as a delivery run of its own.
Submit(a) ==
    /\ rows[a].status = "absent"
    /\ SetRow(a, QueuedRow)
    /\ deliveries' = [deliveries EXCEPT ![a] = PendingDelivery]
    /\ UNCHANGED <<reports, jobs, dispatch, execs, stopping, faults, stops>>

\* The older entry point: no outbox row, left to the backfill.
SubmitWithoutDelivery(a) ==
    /\ rows[a].status = "absent"
    /\ SetRow(a, QueuedRow)
    /\ UNCHANGED <<reports, deliveries, jobs, dispatch, execs, stopping, faults, stops>>

(***************************************************************************)
(* Delivery.                                                               *)
(***************************************************************************)
RunIdle(d) == \A a \in Analysis : dispatch[d][a] = "none"

BackfilledDelivery(a) == Backfilled(rows[a], deliveries[a])
Candidates == {a \in Analysis : IsCandidate(rows[a], BackfilledDelivery(a))}

\* dispatchReady, first await.  SKIP LOCKED makes the batch any part of the candidates.
ClaimDeliveries(d, batch, end) ==
    /\ RunIdle(d)
    /\ batch # {} /\ batch \subseteq Candidates
    /\ Charge(end)
    /\ deliveries' = [a \in Analysis |->
           IF ~Applied(end) THEN deliveries[a]
           ELSE IF a \in batch THEN Leased(BackfilledDelivery(a), d)
           ELSE BackfilledDelivery(a)]
    /\ dispatch' = IF end = "ok"
                   THEN [dispatch EXCEPT ![d] = [a \in Analysis |->
                             IF a \in batch THEN "enqueue" ELSE "none"]]
                   ELSE dispatch
    /\ UNCHANGED <<rows, reports, jobs, execs, stopping, stops>>

\* addJob with jobKeyMode "unsafe_dedupe": a job with the same key is left alone, in
\* whatever state it is.
HasKeyedJob(a) == \E j \in Job : jobs[j].state # "none" /\ jobs[j].keyed /\ jobs[j].analysis = a
FreeJob(j) ==
    /\ jobs[j].state = "none"
    /\ \A w \in Worker : execs[w].job # j
    /\ \A a \in Analysis : rows[a].activeJob # j
QueuedJob(a, matches, keyed) ==
    [state |-> "queued", analysis |-> a, matches |-> matches, keyed |-> keyed,
     attempts |-> 0, holder |-> NoWorker]
AddJob(a) ==
    \/ HasKeyedJob(a) /\ jobs' = jobs
    \/ ~HasKeyedJob(a) /\ \E j \in Job :
           FreeJob(j) /\ jobs' = [jobs EXCEPT ![j] = QueuedJob(a, TRUE, TRUE)]

Dispatching(d, a, step) == dispatch' = [dispatch EXCEPT ![d][a] = step]

Enqueue(d, a, end) ==
    /\ dispatch[d][a] = "enqueue"
    /\ Charge(end)
    /\ IF Applied(end) THEN AddJob(a) ELSE jobs' = jobs
    /\ Dispatching(d, a, IF end = "ok" THEN "mark" ELSE "retry")
    /\ UNCHANGED <<rows, reports, deliveries, execs, stopping, stops>>

MarkDeliveryDelivered(d, a, end) ==
    /\ dispatch[d][a] = "mark"
    /\ Charge(end)
    /\ deliveries' = IF Applied(end)
                     THEN [deliveries EXCEPT ![a] = MarkDelivered(@, d)] ELSE deliveries
    /\ Dispatching(d, a, IF end = "ok" THEN "none" ELSE "retry")
    /\ UNCHANGED <<rows, reports, jobs, execs, stopping, stops>>

\* The catch block: whatever failed, back to pending after a delay.  If this statement
\* fails too, the lease is left to lapse.
RetryAfterFailure(d, a, end) ==
    /\ dispatch[d][a] = "retry"
    /\ Charge(end)
    /\ deliveries' = IF Applied(end)
                     THEN [deliveries EXCEPT ![a] = RetryDelivery(@, d)] ELSE deliveries
    /\ Dispatching(d, a, "none")
    /\ UNCHANGED <<rows, reports, jobs, execs, stopping, stops>>

\* The process of a delivery run dies; its leases stay behind.
DispatchCrash(d) ==
    /\ ~RunIdle(d)
    /\ Charge("lost")
    /\ dispatch' = [dispatch EXCEPT ![d] = [a \in Analysis |-> "none"]]
    /\ UNCHANGED <<rows, reports, deliveries, jobs, execs, stopping, stops>>

(***************************************************************************)
(* Execution.                                                              *)
(***************************************************************************)
GetJob(w, j) ==
    /\ At(w, "idle") /\ w \notin stopping
    /\ jobs[j].state = "queued" /\ jobs[j].attempts < MaxAttempts
    /\ jobs' = [jobs EXCEPT ![j].state = "locked", ![j].holder = w, ![j].attempts = @ + 1]
    /\ Continue(w, [Idle EXCEPT !.pc = "find", !.job = j, !.analysis = jobs[j].analysis,
                                !.matches = jobs[j].matches,
                                !.final = jobs[j].attempts + 1 >= MaxAttempts])
    /\ UNCHANGED <<rows, reports, deliveries, dispatch, stopping, faults, stops>>

\* Where the task goes from the record it found.
AfterFind_SkipRunning(w, row) ==            \* mutant: a running analysis is left alone
    IF ~Exists(row) THEN "threw"
    ELSE IF ~execs[w].matches THEN "mismatch"
    ELSE IF IsTerminal(row) \/ row.status = "running" THEN "returned" ELSE "claim"

AfterFind(w, row) ==
    IF ~Exists(row) THEN "threw"
    ELSE IF ~execs[w].matches THEN "mismatch"
    ELSE IF IsTerminal(row) THEN "returned" ELSE "claim"

FindAnalysis(w, end) ==
    /\ At(w, "find")
    /\ Charge(end)
    /\ Continue(w, Goto(w, IF end = "ok" THEN AfterFind(w, rows[execs[w].analysis]) ELSE "threw"))
    /\ UNCHANGED <<store, jobs, dispatch, stopping, stops>>

\* A statement on the analysis row of the executing job.
UpdateRow(w, end, row) ==
    /\ Charge(end)
    /\ IF Applied(end) THEN SetRow(execs[w].analysis, row) ELSE rows' = rows
    /\ UNCHANGED <<deliveries, jobs, dispatch, stopping, stops>>

FailMismatch(w, end) ==
    /\ At(w, "mismatch")
    /\ UpdateRow(w, end, Fail(rows[execs[w].analysis], execs[w].job, "final"))
    /\ Continue(w, Goto(w, IF end = "ok" THEN "returned" ELSE "threw"))
    /\ UNCHANGED reports

Claim(w, end) ==
    /\ At(w, "claim")
    /\ UpdateRow(w, end, ClaimForExecution(rows[execs[w].analysis], execs[w].job))
    /\ Continue(w, Goto(w, IF end # "ok" THEN "threw"
                           ELSE IF CanClaim(rows[execs[w].analysis], execs[w].job)
                           THEN "analyze" ELSE "returned"))
    /\ UNCHANGED reports

\* What an unsuccessful analysis does next: the attempt budget decides.
Unsuccessful_IgnoreBudget(w, failure, retry) ==   \* mutant: the final attempt also retries
    [execs[w] EXCEPT !.pc = IF retry THEN "retry" ELSE "fail", !.failure = failure]

Unsuccessful_InPlace(w, failure, retry) ==  \* mutant: retried without leaving the task
    [execs[w] EXCEPT !.pc = IF retry /\ ~execs[w].final THEN "analyze" ELSE "fail",
                     !.failure = failure]

Unsuccessful(w, failure, retry) ==
    [execs[w] EXCEPT !.pc = IF retry /\ ~execs[w].final THEN "retry" ELSE "fail",
                     !.failure = failure]

StageAfter(stage) ==
    CASE stage = "queued" -> "resolving_repository"
      [] stage = "resolving_repository" -> "collecting_snapshot"
      [] stage = "collecting_snapshot" -> "collecting_metadata"
      [] stage = "collecting_metadata" -> "running_rules"
      [] OTHER -> "scoring"

\* onProgress with the next durable stage; a failed statement rejects the analysis.
Progress(w, end) ==
    /\ At(w, "analyze") /\ ~execs[w].aborted /\ execs[w].stage # "scoring"
    /\ UpdateRow(w, end, UpdateProgress(rows[execs[w].analysis], execs[w].job,
                                        StageAfter(execs[w].stage)))
    /\ Continue(w, IF end = "ok"
                   THEN [execs[w] EXCEPT !.stage = StageAfter(execs[w].stage)]
                   ELSE Unsuccessful(w, "retryable", TRUE))
    /\ UNCHANGED reports

NoWrite == UNCHANGED <<store, jobs, dispatch, stopping, faults, stops>>

\* throwIfAborted, or a provider rejected because of the abort: `interrupted'.
AnalysisInterrupted(w) ==
    /\ At(w, "analyze") /\ execs[w].aborted
    /\ Continue(w, Unsuccessful(w, "retryable", TRUE))
    /\ NoWrite

AnalysisThrows(w) ==
    /\ At(w, "analyze") /\ ~execs[w].aborted
    /\ Continue(w, Unsuccessful(w, "retryable", TRUE))
    /\ NoWrite

\* GitHubConnectionError: no connected dependencies, or the repository was not readable.
ConnectionUnavailable(w) ==
    /\ At(w, "analyze") /\ ~execs[w].aborted
    /\ execs[w].analysis \in Connected
    /\ execs[w].stage \in {"queued", "resolving_repository"}
    /\ Continue(w, Unsuccessful(w, "final", FALSE))
    /\ NoWrite

\* The result { ok: false }: the repository (retryable or not) or its manifest.
AnalysisRejected(w, retryable) ==
    /\ At(w, "analyze") /\ ~execs[w].aborted
    /\ execs[w].stage = "collecting_snapshot"
    /\ Continue(w, Unsuccessful(w, IF retryable THEN "retryable" ELSE "final", retryable))
    /\ NoWrite

AnalysisSucceeds(w, outcome) ==
    /\ At(w, "analyze") /\ ~execs[w].aborted
    /\ execs[w].stage = "scoring"
    /\ Continue(w, [execs[w] EXCEPT !.pc = "score", !.outcome = outcome])
    /\ NoWrite

ReturnToQueue(w, end) ==
    /\ At(w, "retry")
    /\ UpdateRow(w, end, MarkRetryPending(rows[execs[w].analysis], execs[w].job,
                                          execs[w].failure))
    /\ Continue(w, Goto(w, "threw"))
    /\ UNCHANGED reports

RecordFailure(w, end) ==
    /\ At(w, "fail")
    /\ UpdateRow(w, end, Fail(rows[execs[w].analysis], execs[w].job, execs[w].failure))
    /\ Continue(w, Goto(w, IF end = "ok" THEN "returned" ELSE "threw"))
    /\ UNCHANGED reports

RecordScoring(w, end) ==
    /\ At(w, "score")
    /\ UpdateRow(w, end, UpdateProgress(rows[execs[w].analysis], execs[w].job, "scoring"))
    /\ Continue(w, Goto(w, IF end = "ok" THEN "complete" ELSE "threw"))
    /\ UNCHANGED reports

Complete(w, end) ==
    LET a == execs[w].analysis
        j == execs[w].job
        o == execs[w].outcome
    IN  /\ At(w, "complete")
        /\ UpdateRow(w, end, CompleteRow(rows[a], j, o))
        /\ reports' = IF Applied(end)
                      THEN [reports EXCEPT ![a] = CompleteReport(rows[a], reports[a], j, o)]
                      ELSE reports
        /\ Continue(w, Goto(w, IF end = "ok" THEN "returned" ELSE "threw"))

\* The queue deletes the job of a task that returned ...
CompleteJob(w) ==
    /\ At(w, "returned")
    /\ jobs' = [jobs EXCEPT ![execs[w].job] = NoQueueJob]
    /\ Continue(w, [Idle EXCEPT !.aborted = execs[w].aborted])
    /\ UNCHANGED <<store, dispatch, stopping, faults, stops>>

Unlocked(job) == [job EXCEPT !.state = "queued", !.holder = NoWorker]

\* ... and unlocks, for a later attempt, the job of a task that threw.
FailJob(w) ==
    LET j == execs[w].job
    IN  /\ At(w, "threw")
        /\ jobs' = IF jobs[j].state = "locked" /\ jobs[j].holder = w
                   THEN [jobs EXCEPT ![j] = Unlocked(jobs[j])] ELSE jobs
        /\ Continue(w, [Idle EXCEPT !.aborted = execs[w].aborted])
        /\ UNCHANGED <<store, dispatch, stopping, faults, stops>>

(***************************************************************************)
(* Stops, crashes and the recovery of locks.                               *)
(***************************************************************************)
\* runtime.stop(): no further jobs are taken; after the grace period the abort signal
\* fires; the process is replaced once its job has settled.
RequestStop(w) ==
    /\ w \notin stopping /\ stops < MaxStops
    /\ stopping' = stopping \cup {w}
    /\ stops' = stops + 1
    /\ UNCHANGED <<store, jobs, dispatch, execs, faults>>

AbortJob(w) ==
    /\ w \in stopping /\ ~At(w, "idle") /\ ~execs[w].aborted
    /\ Continue(w, [execs[w] EXCEPT !.aborted = TRUE])
    /\ UNCHANGED <<store, jobs, dispatch, stopping, faults, stops>>

Restart(w) ==
    /\ w \in stopping /\ At(w, "idle")
    /\ stopping' = stopping \ {w}
    /\ Continue(w, Idle)
    /\ UNCHANGED <<store, jobs, dispatch, faults, stops>>

\* The lock of a dead worker survives it.
WorkerCrash(w) ==
    /\ ~At(w, "idle")
    /\ Charge("lost")
    /\ jobs' = [j \in Job |-> IF jobs[j].holder = w
                              THEN [jobs[j] EXCEPT !.holder = NoWorker] ELSE jobs[j]]
    /\ Continue(w, Idle)
    /\ stopping' = stopping \ {w}
    /\ UNCHANGED <<store, dispatch, stops>>

\* recoverConfirmedDeadOwner, or the queue's own stale-lock timeout.
RecoverDeadOwner(j) ==
    /\ jobs[j].state = "locked" /\ jobs[j].holder = NoWorker
    /\ jobs' = [jobs EXCEPT ![j] = Unlocked(jobs[j])]
    /\ UNCHANGED <<store, dispatch, execs, stopping, faults, stops>>

LoseLiveLock(j) ==
    /\ "live_lock_loss" \in Environment
    /\ jobs[j].state = "locked" /\ jobs[j].holder # NoWorker
    /\ Charge("lost")
    /\ jobs' = [jobs EXCEPT ![j] = Unlocked(jobs[j])]
    /\ UNCHANGED <<store, dispatch, execs, stopping, stops>>

AddCompetingJob(a, matches, j) ==
    /\ "competing_job" \in Environment
    /\ Exists(rows[a]) /\ FreeJob(j)
    /\ Charge("lost")
    /\ jobs' = [jobs EXCEPT ![j] = QueuedJob(a, matches, FALSE)]
    /\ UNCHANGED <<store, dispatch, execs, stopping, stops>>

(***************************************************************************)
(* Time and retention.                                                     *)
(***************************************************************************)
OnlyDelivery(a, delivery) ==
    /\ deliveries' = [deliveries EXCEPT ![a] = delivery]
    /\ UNCHANGED <<rows, reports, jobs, dispatch, execs, stopping, faults, stops>>

LeaseLapses(a) ==
    /\ deliveries[a].status = "delivering" /\ ~deliveries[a].lapsed
    /\ OnlyDelivery(a, [deliveries[a] EXCEPT !.lapsed = TRUE])

BackoffElapses(a) ==
    /\ deliveries[a].status = "pending" /\ ~deliveries[a].due
    /\ OnlyDelivery(a, [deliveries[a] EXCEPT !.due = TRUE])

RetentionExpires(a) ==
    /\ Exists(rows[a]) /\ ~rows[a].expired
    /\ SetRow(a, [rows[a] EXCEPT !.expired = TRUE])
    /\ UNCHANGED <<reports, deliveries, jobs, dispatch, execs, stopping, faults, stops>>

\* One sweep: LIMIT and SKIP LOCKED make the batch any part of the purgeable rows; the
\* report and the outbox row go with the analysis (ON DELETE CASCADE).
PurgeExpired(batch) ==
    /\ batch # {} /\ \A a \in batch : IsPurgeable(rows[a])
    /\ rows' = [a \in Analysis |-> IF a \in batch THEN PurgedRow ELSE rows[a]]
    /\ reports' = [a \in Analysis |-> IF a \in batch THEN "none" ELSE reports[a]]
    /\ deliveries' = [a \in Analysis |-> IF a \in batch THEN NoDelivery ELSE deliveries[a]]
    /\ UNCHANGED <<jobs, dispatch, execs, stopping, faults, stops>>

(***************************************************************************)
(* The specification.                                                      *)
(***************************************************************************)
DispatchNext(d) ==
    \/ \E batch \in SUBSET Analysis, end \in StatementEnd : ClaimDeliveries(d, batch, end)
    \/ \E a \in Analysis, end \in StatementEnd :
          \/ Enqueue(d, a, end)
          \/ MarkDeliveryDelivered(d, a, end)
          \/ RetryAfterFailure(d, a, end)
    \/ DispatchCrash(d)

\* What a worker does by itself once it has a job.
ExecNext(w) ==
    \/ \E end \in StatementEnd :
          \/ FindAnalysis(w, end)
          \/ FailMismatch(w, end)
          \/ Claim(w, end)
          \/ Progress(w, end)
          \/ ReturnToQueue(w, end)
          \/ RecordFailure(w, end)
          \/ RecordScoring(w, end)
          \/ Complete(w, end)
    \/ AnalysisInterrupted(w)
    \/ AnalysisThrows(w)
    \/ ConnectionUnavailable(w)
    \/ \E retryable \in BOOLEAN : AnalysisRejected(w, retryable)
    \/ \E outcome \in Succeeded : AnalysisSucceeds(w, outcome)
    \/ CompleteJob(w)
    \/ FailJob(w)

WorkerNext(w) ==
    \/ \E j \in Job : GetJob(w, j)
    \/ ExecNext(w)
    \/ RequestStop(w)
    \/ AbortJob(w)
    \/ Restart(w)
    \/ WorkerCrash(w)

QueueNext(j) ==
    \/ RecoverDeadOwner(j)
    \/ LoseLiveLock(j)
    \/ \E a \in Analysis, matches \in BOOLEAN : AddCompetingJob(a, matches, j)

StoreNext(a) ==
    \/ Submit(a)
    \/ SubmitWithoutDelivery(a)
    \/ LeaseLapses(a)
    \/ BackoffElapses(a)
    \/ RetentionExpires(a)

Next ==
    \/ \E d \in Lease : DispatchNext(d)
    \/ \E w \in Worker : WorkerNext(w)
    \/ \E j \in Job : QueueNext(j)
    \/ \E a \in Analysis : StoreNext(a)
    \/ \E batch \in SUBSET Analysis : PurgeExpired(batch)

Spec == Init /\ [][Next]_vars

(***************************************************************************)
(* Fairness.  The delivery pump reschedules itself after every run, the    *)
(* queue hands a runnable job to an idle worker, awaited statements        *)
(* return, clocks advance, stale locks are recovered (by the queue's       *)
(* timeout if not by the operator) and a stopped worker is started again.  *)
(* Nothing is assumed of crashes, errors, submissions or stop requests.    *)
(***************************************************************************)
ClaimFor(a) ==
    \E d \in Lease, batch \in SUBSET Analysis, end \in StatementEnd :
        a \in batch /\ ClaimDeliveries(d, batch, end)
DeliveryStep(d, a) ==
    \E end \in StatementEnd :
        Enqueue(d, a, end) \/ MarkDeliveryDelivered(d, a, end) \/ RetryAfterFailure(d, a, end)

Fairness ==
    /\ \A a \in Analysis : /\ WF_vars(ClaimFor(a))
                           /\ WF_vars(LeaseLapses(a))
                           /\ WF_vars(BackoffElapses(a))
    /\ \A d \in Lease, a \in Analysis : WF_vars(DeliveryStep(d, a))
    /\ \A w \in Worker : /\ WF_vars(\E j \in Job : GetJob(w, j))
                         /\ WF_vars(ExecNext(w))
                         /\ WF_vars(Restart(w))
    /\ \A j \in Job : WF_vars(RecoverDeadOwner(j))

FairSpec == Spec /\ Fairness

(***************************************************************************)
(* Safety.                                                                 *)
(***************************************************************************)
\* What a client polls is one consistent record, however many attempts, jobs and late
\* statements touched it: the stage follows the status, a failure summary is present
\* exactly when the analysis failed (and never on a running or succeeded one), and an
\* execution owner exists exactly while the analysis runs.
RecordConsistent ==
    \A a \in Analysis :
        LET row == rows[a] IN
        /\ row.status = "queued" => row.stage = "queued"
        /\ row.status = "running" => row.stage \in {"queued"} \cup WorkStage
        /\ IsTerminal(row) => row.stage = row.status
        /\ row.status = "failed" => row.failure # "none"
        /\ row.status \in {"running"} \cup Succeeded => row.failure = "none"
        /\ row.status = "running" <=> row.activeJob # NoJob

\* A report is stored exactly for the analyses that succeeded, and it is the report of
\* the outcome the status announces: complete() never stores the report of an attempt
\* that had lost its claim.
ReportMatchesStatus ==
    \A a \in Analysis :
        reports[a] = IF rows[a].status \in Succeeded THEN rows[a].status ELSE "none"

\* What an execution carries to its next statement: its job, the failure it is about to
\* record, the outcome it is about to publish.
ExecutionsCarry ==
    \A w \in Worker :
        /\ execs[w].pc # "idle" => execs[w].job \in Job
        /\ execs[w].pc \in {"retry", "fail"} => execs[w].failure # "none"
        /\ execs[w].pc \in {"score", "complete"} => execs[w].outcome \in Succeeded

\* The inductive invariant of RepositoryJobs_proofs: a late statement does no harm to the
\* record because of what the record and the execution carry, whatever the queue does.
IInv == TypeOK /\ ExecutionsCarry /\ RecordConsistent /\ ReportMatchesStatus

\* At most one worker at a time is analysing, or settling, the same analysis, even when
\* several queue jobs name it.  (Not claimed when the queue gives away live locks.)
ExclusiveExecution ==
    \A v, w \in Worker :
        /\ execs[v].pc \in Working /\ execs[w].pc \in Working
        /\ execs[v].analysis = execs[w].analysis
        => v = w

\* An unfinished analysis whose delivery is over still has a queue job: it is queued and
\* some job will claim it, or it runs and the queue still knows the job that owns it.
\* (Not claimed when the queue gives away live locks: see README.)
UnfinishedHasJob ==
    \A a \in Analysis :
        /\ rows[a].status = "queued" /\ deliveries[a].status = "delivered"
           => \E j \in Job : jobs[j].state # "none" /\ jobs[j].analysis = a
        /\ rows[a].status = "running"
           => /\ jobs[rows[a].activeJob].state # "none"
              /\ jobs[rows[a].activeJob].analysis = a

\* A queue job that names the analysis has used its attempts up: no worker takes it.
Exhausted(a) ==
    \E j \in Job : /\ jobs[j].state = "queued" /\ jobs[j].analysis = a
                   /\ jobs[j].attempts >= MaxAttempts

\* docs/implementation/repository-jobs.md: on the final attempt the task records `failed'
\* and returns "so Graphile does not leave a permanently-failed queue row as the only
\* source of truth": a job with no attempts left belongs to no unfinished analysis.
ExhaustedJobIsSettled ==
    \A a \in Analysis : Exists(rows[a]) /\ ~IsTerminal(rows[a]) => ~Exhausted(a)

\* The same, for the executions no crash and no statement error has disturbed: thrown,
\* interrupted, rejected and unconnected analyses never use up the attempts of a job
\* without settling the analysis.
OnlyFaultsExhaust == faults = 0 => ExhaustedJobIsSettled

(***************************************************************************)
(* Actions that may never happen.                                          *)
(***************************************************************************)
\* A terminal analysis is final: no late statement of any attempt, job or delivery run
\* changes what was published, it only ages and is purged as a whole.
TerminalIsFinal ==
    [][\A a \in Analysis : IsTerminal(rows[a]) =>
          \/ /\ rows'[a] \in {rows[a], [rows[a] EXCEPT !.expired = TRUE]}
             /\ reports'[a] = reports[a]
          \/ rows[a].expired /\ rows'[a] = PurgedRow]_vars

\* repository-jobs.md, "Execution ownership": a different queue job cannot update the
\* progress of, complete or fail an analysis currently owned by another job.  Only an
\* execution of the owning job changes an owned row.
OnlyOwnerWrites ==
    [][\A a \in Analysis :
          /\ rows[a].activeJob # NoJob
          /\ rows'[a] \notin {rows[a], [rows[a] EXCEPT !.expired = TRUE]}
          => \E w \in Worker : execs[w].job = rows[a].activeJob /\ execs'[w] # execs[w]]_vars

\* ADR-0014: delivered outbox rows remain until their analysis is removed, so a delivery
\* is never recreated for an analysis already enqueued.
DeliveredIsFinal ==
    [][\A a \in Analysis : deliveries[a].status = "delivered" =>
          \/ deliveries'[a] = deliveries[a]
          \/ ~Exists(rows'[a]) /\ deliveries'[a] = NoDelivery]_vars

(***************************************************************************)
(* The abstract specification this one implements.                         *)
(***************************************************************************)
Promise == INSTANCE AnalysisPromise
               WITH status <- [a \in Analysis |-> rows[a].status], report <- reports

\* Whatever the queue, the workers and the faults do, a client sees the promised life:
\* accepted, run, perhaps returned to the queue, settled once and together with its
\* report, removed as a whole.
KeepsPromise == Promise!PromiseSpec

(***************************************************************************)
(* Liveness.                                                               *)
(***************************************************************************)
\* An accepted analysis settles, with or without an outbox row, through crashed delivery
\* runs, lost statements, dead workers and planned stops.  The one way out is a job that
\* a fault of its final attempt left exhausted (see ExhaustedJobIsSettled).
AcceptedSettles ==
    \A a \in Analysis :
        rows[a].status = "queued" ~> IsTerminal(rows[a]) \/ ~Exists(rows[a]) \/ Exhausted(a)

\* A worker asked to stop comes back: its job settles whatever it was doing.
StopDrains == \A w \in Worker : w \in stopping ~> w \notin stopping
=============================================================================
