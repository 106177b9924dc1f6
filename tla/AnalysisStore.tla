--------------------------- MODULE AnalysisStore ---------------------------
(***************************************************************************)
(* The durable store of StackLens: the rows of the tables `analysis',      *)
(* `analysis_report' and `analysis_delivery', and what each statement of   *)
(* DrizzleAnalysisRepository (packages/persistence/src/repository.ts) does *)
(* to ONE row.  Every operator maps an old row to a new one; a WHERE       *)
(* clause that does not match leaves the row as it is, and the caller is   *)
(* not told, which is exactly how an UPDATE of zero rows behaves.          *)
(*                                                                         *)
(* Timestamps are abstracted to the one bit a statement compares with      *)
(* `now': retention expired, delivery due, lease lapsed.                   *)
(***************************************************************************)
CONSTANTS
    Job,        \* queue job identifiers
    NoJob,      \* SQL NULL in active_job_id
    Lease,      \* lease tokens of delivery runs
    NoLease     \* SQL NULL in lease_token

ASSUME JobAssumption   == NoJob \notin Job
ASSUME LeaseAssumption == NoLease \notin Lease

(***************************************************************************)
(* Types.                                                                  *)
(***************************************************************************)
Succeeded == {"completed", "completed_with_limitations"}
Terminal  == Succeeded \cup {"failed"}
Missing   == {"absent", "deleted"}    \* no row yet, or purged: both read as no row
Status    == {"queued", "running"} \cup Terminal \cup Missing

\* The durable stages an execution walks through, in this order.
WorkStage == {"resolving_repository", "collecting_snapshot", "collecting_metadata",
              "running_rules", "scoring"}
Stage     == {"queued"} \cup WorkStage \cup Terminal

\* failure_summary: absent, or present with its `retryable' flag.
Failure == {"none", "retryable", "final"}

Row == [status : Status, stage : Stage, activeJob : Job \cup {NoJob},
        failure : Failure, expired : BOOLEAN]

Delivery == [status : {"none", "pending", "delivering", "delivered"},
             lease : Lease \cup {NoLease}, due : BOOLEAN, lapsed : BOOLEAN]

Report == {"none"} \cup Succeeded     \* which outcome the stored report documents

NoRow      == [status |-> "absent", stage |-> "queued", activeJob |-> NoJob,
               failure |-> "none", expired |-> FALSE]
NoDelivery == [status |-> "none", lease |-> NoLease, due |-> FALSE, lapsed |-> FALSE]

Exists(row)     == row.status \notin Missing
IsTerminal(row) == row.status \in Terminal

(***************************************************************************)
(* Submission.                                                             *)
(***************************************************************************)
QueuedRow == [NoRow EXCEPT !.status = "queued"]

PendingDelivery == [NoDelivery EXCEPT !.status = "pending", !.due = TRUE]

\* What the outbox statements mean by work that still needs a delivery.
Unclaimed(row) == row.status = "queued" /\ row.activeJob = NoJob

(***************************************************************************)
(* The outbox: backfill, claim with a lease, delivered, retry.             *)
(***************************************************************************)
Backfilled(row, delivery) ==
    IF Unclaimed(row) /\ delivery.status = "none" THEN PendingDelivery ELSE delivery

IsCandidate_PendingOnly(row, delivery) ==           \* mutant: lapsed leases not reclaimed
    Unclaimed(row) /\ delivery.status = "pending" /\ delivery.due

IsCandidate(row, delivery) ==
    /\ Unclaimed(row)
    /\ \/ delivery.status = "pending" /\ delivery.due
       \/ delivery.status = "delivering" /\ delivery.lapsed

Leased(delivery, lease) ==
    [status |-> "delivering", lease |-> lease, due |-> delivery.due, lapsed |-> FALSE]

HoldsLease_AnyHolder(delivery, lease) == TRUE       \* mutant: no fencing

HoldsLease(delivery, lease) ==
    delivery.status = "delivering" /\ delivery.lease = lease

MarkDelivered(delivery, lease) ==
    IF HoldsLease(delivery, lease)
    THEN [delivery EXCEPT !.status = "delivered", !.lease = NoLease, !.lapsed = FALSE]
    ELSE delivery

RetryDelivery(delivery, lease) ==
    IF HoldsLease(delivery, lease)
    THEN [status |-> "pending", lease |-> NoLease, due |-> FALSE, lapsed |-> FALSE]
    ELSE delivery

(***************************************************************************)
(* Execution: claim, progress, retry, complete, fail.                      *)
(***************************************************************************)
CanClaim_AnyActive(row, job) ==                     \* mutant: ownership not compared
    row.status \in {"queued", "running"}

CanClaim(row, job) ==
    \/ row.status = "queued"
    \/ row.status = "running" /\ row.activeJob = job

ClaimForExecution(row, job) ==
    IF CanClaim(row, job)
    THEN [row EXCEPT !.status = "running", !.activeJob = job, !.failure = "none"]
    ELSE row

UpdateProgress(row, job, stage) ==
    IF row.status = "running" /\ row.activeJob = job
    THEN [row EXCEPT !.stage = stage]
    ELSE row

\* The WHERE clause shared by markRetryPending and complete.
IsActiveOwner(row, job) ==
    row.activeJob = job /\ Exists(row) /\ ~IsTerminal(row)

MarkRetryPending_KeepOwner(row, job, failure) ==    \* mutant: active_job_id not reset
    IF IsActiveOwner(row, job)
    THEN [row EXCEPT !.status = "queued", !.stage = "queued", !.failure = failure]
    ELSE row

MarkRetryPending(row, job, failure) ==
    IF IsActiveOwner(row, job)
    THEN [row EXCEPT !.status = "queued", !.stage = "queued", !.activeJob = NoJob,
                     !.failure = failure]
    ELSE row

CompleteRow(row, job, outcome) ==
    IF IsActiveOwner(row, job)
    THEN [row EXCEPT !.status = outcome, !.stage = outcome, !.activeJob = NoJob,
                     !.failure = "none"]
    ELSE row

CompleteReport_NoClaimCheck(row, report, job, outcome) ==   \* mutant: report always upserted
    IF Exists(row) THEN outcome ELSE report

\* complete() is one transaction: the report is upserted only if the row was claimed.
CompleteReport(row, report, job, outcome) ==
    IF IsActiveOwner(row, job) THEN outcome ELSE report

CanFail_NoTerminalGuard(row, job) ==                \* mutant: terminal statuses not excluded
    row.activeJob \in {NoJob, job} /\ Exists(row)

CanFail_AnyOwner(row, job) ==                       \* mutant: owner not compared
    Exists(row) /\ ~IsTerminal(row)

CanFail(row, job) ==
    row.activeJob \in {NoJob, job} /\ Exists(row) /\ ~IsTerminal(row)

Fail(row, job, failure) ==
    IF CanFail(row, job)
    THEN [row EXCEPT !.status = "failed", !.stage = "failed", !.activeJob = NoJob,
                     !.failure = failure]
    ELSE row

(***************************************************************************)
(* Retention.                                                              *)
(***************************************************************************)
IsPurgeable_AnyStatus(row) == row.expired            \* mutant: terminal not required

IsPurgeable(row) == row.expired /\ IsTerminal(row) /\ row.activeJob = NoJob

\* The row is gone; identifiers are random UUIDs and are never submitted again.
PurgedRow == [NoRow EXCEPT !.status = "deleted"]
=============================================================================
