-------------------------- MODULE AnalysisPromise --------------------------
(***************************************************************************)
(* What StackLens promises a client about a repository analysis, with the  *)
(* queue, the outbox, the workers and their faults left out: it is         *)
(* accepted, may run and be returned to the queue any number of times,     *)
(* settles once, together with its report, and is removed as a whole.      *)
(* RepositoryJobs is shown to implement this specification, and            *)
(* ReportReader uses it as the environment of the status endpoint.         *)
(***************************************************************************)
CONSTANT Analysis

VARIABLES
    status,     \* the durable status of each analysis
    report      \* the outcome its stored report documents, or "none"

promise == <<status, report>>

Succeeded == {"completed", "completed_with_limitations"}
Settled   == Succeeded \cup {"failed"}
NotFound  == {"absent", "deleted"}

PromiseTypeOK ==
    /\ status \in [Analysis -> {"queued", "running"} \cup Settled \cup NotFound]
    /\ report \in [Analysis -> {"none"} \cup Succeeded]

PromiseInit ==
    /\ status = [a \in Analysis |-> "absent"]
    /\ report = [a \in Analysis |-> "none"]

Accept(a) ==
    /\ status[a] = "absent"
    /\ status' = [status EXCEPT ![a] = "queued"]
    /\ UNCHANGED report

Start(a) ==
    /\ status[a] = "queued"
    /\ status' = [status EXCEPT ![a] = "running"]
    /\ UNCHANGED report

Return_AnyStatus(a) ==          \* mutant: settled analyses return too
    /\ status[a] \notin NotFound
    /\ status' = [status EXCEPT ![a] = "queued"]
    /\ UNCHANGED report

Return(a) ==
    /\ status[a] = "running"
    /\ status' = [status EXCEPT ![a] = "queued"]
    /\ UNCHANGED report

\* The status and the report become visible in one step.
Succeed(a, outcome) ==
    /\ status[a] = "running"
    /\ status' = [status EXCEPT ![a] = outcome]
    /\ report' = [report EXCEPT ![a] = outcome]

GiveUp(a) ==
    /\ status[a] \in {"queued", "running"}
    /\ status' = [status EXCEPT ![a] = "failed"]
    /\ UNCHANGED report

\* A retention sweep removes any number of settled analyses, each with its report.
Remove(batch) ==
    /\ batch # {} /\ \A a \in batch : status[a] \in Settled
    /\ status' = [a \in Analysis |-> IF a \in batch THEN "deleted" ELSE status[a]]
    /\ report' = [a \in Analysis |-> IF a \in batch THEN "none" ELSE report[a]]

PromiseNext ==
    \/ \E a \in Analysis :
          \/ Accept(a)
          \/ Start(a)
          \/ Return(a)
          \/ \E outcome \in Succeeded : Succeed(a, outcome)
          \/ GiveUp(a)
    \/ \E batch \in SUBSET Analysis : Remove(batch)

PromiseSpec == PromiseInit /\ [][PromiseNext]_promise
=============================================================================
