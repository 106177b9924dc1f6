---------------------------- MODULE ReportReader ----------------------------
(***************************************************************************)
(* GET /v1/analyses/:analysisId.  A poll is one READ COMMITTED transaction *)
(* of up to three reads (the analysis, its report, the analysis again), so *)
(* workers and the retention sweep commit between them: the environment is *)
(* AnalysisPromise, which RepositoryJobs implements.                       *)
(***************************************************************************)
EXTENDS AnalysisPromise

CONSTANTS
    Client,         \* browsers that poll
    Person,         \* GitHub identities
    Nobody,         \* no session, or an analysis without an owner
    OwnerOf,        \* owner_github_id of each analysis
    SessionOf       \* the identity a client signs in as

ASSUME PersonAssumption == Nobody \notin Person
ASSUME OwnerAssumption ==
    /\ OwnerOf \in [Analysis -> Person \cup {Nobody}]
    /\ SessionOf \in [Client -> Person \cup {Nobody}]

VARIABLES
    poll,       \* the request each client is waiting for
    answer      \* the last answer each client got about each analysis

vars == <<status, report, poll, answer>>

ReadPc == {"idle", "analysis", "report", "recheck"}
Poll == [pc : ReadPc, analysis : Analysis, viewer : Person \cup {Nobody},
         seen : {"none"} \cup Succeeded]

\* 200 with the record (and the report of a succeeded one), 404, 503 because a completed
\* analysis has no report, 503 because a read failed; and the status last shown by a 200.
Unsettled == {"queued", "running"}
Answer == [kind : {"none", "found", "not_found", "report_missing", "dependency_failed"},
           shown : {"none"} \cup Unsettled \cup Settled]

\* Every poll and every answer is one the handler can produce.
ReaderTypeOK ==
    /\ PromiseTypeOK
    /\ poll \in [Client -> Poll]
    /\ answer \in [Client -> [Analysis -> Answer]]

Init ==
    /\ PromiseInit
    /\ poll \in [Client -> [pc : {"idle"}, analysis : Analysis, viewer : {Nobody},
                            seen : {"none"}]]
    /\ answer = [c \in Client |-> [a \in Analysis |-> [kind |-> "none", shown |-> "none"]]]

(***************************************************************************)
(* The handler.                                                            *)
(***************************************************************************)
Answered(c, kind, shown) ==
    /\ answer' = [answer EXCEPT ![c][poll[c].analysis] = [kind |-> kind, shown |-> shown]]
    /\ poll' = [poll EXCEPT ![c].pc = "idle", ![c].seen = "none"]
    /\ UNCHANGED promise
Found(c, s)      == Answered(c, "found", s)
Refused(c, kind) == Answered(c, kind, answer[c][poll[c].analysis].shown)
ReadOn(c, pc, seen) ==
    /\ poll' = [poll EXCEPT ![c].pc = pc, ![c].seen = seen]
    /\ UNCHANGED <<promise, answer>>

\* The session may be missing or expired: then nobody is asking.
Request(c, a) ==
    /\ poll[c].pc = "idle"
    /\ \E viewer \in {SessionOf[c], Nobody} :
          poll' = [poll EXCEPT ![c] = [pc |-> "analysis", analysis |-> a, viewer |-> viewer,
                                       seen |-> "none"]]
    /\ UNCHANGED <<promise, answer>>

Visible_SameOwner(c) ==             \* mutant: anonymous analyses compared like owned ones
    LET a == poll[c].analysis
    IN  status[a] \notin NotFound /\ OwnerOf[a] = poll[c].viewer

\* The table's check constraint excludes a connection without an owner.
Visible(c) ==
    LET a == poll[c].analysis
    IN  status[a] \notin NotFound /\ OwnerOf[a] \in {Nobody, poll[c].viewer}

\* What the response is made of: a succeeded analysis without its report is not shown.
ReplyWithout(c, s) == IF s \in Succeeded THEN Refused(c, "report_missing") ELSE Found(c, s)

ReadAnalysis(c) ==
    LET s == status[poll[c].analysis]
    IN  /\ poll[c].pc = "analysis"
        /\ \/ ~Visible(c) /\ Refused(c, "not_found")
           \/ Visible(c) /\ s \notin Succeeded /\ Found(c, s)
           \/ Visible(c) /\ s \in Succeeded /\ ReadOn(c, "report", s)

ReadReport_Trusting(c) ==           \* mutant: a missing report is not rechecked
    /\ poll[c].pc = "report"
    /\ IF report[poll[c].analysis] # "none" THEN Found(c, poll[c].seen)
                                            ELSE ReplyWithout(c, poll[c].seen)

ReadReport(c) ==
    /\ poll[c].pc = "report"
    /\ \/ report[poll[c].analysis] # "none" /\ Found(c, poll[c].seen)
       \/ report[poll[c].analysis] = "none" /\ ReadOn(c, "recheck", poll[c].seen)

Recheck(c) ==
    /\ poll[c].pc = "recheck"
    /\ \/ Visible(c) /\ ReplyWithout(c, status[poll[c].analysis])
       \/ ~Visible(c) /\ Refused(c, "not_found")

ReadFails(c) ==
    /\ poll[c].pc # "idle"
    /\ Refused(c, "dependency_failed")

Next ==
    \/ \E c \in Client :
          \/ \E a \in Analysis : Request(c, a)
          \/ ReadAnalysis(c)
          \/ ReadReport(c)
          \/ Recheck(c)
          \/ ReadFails(c)
    \/ PromiseNext /\ UNCHANGED <<poll, answer>>

Spec == Init /\ [][Next]_vars

(***************************************************************************)
(* Properties.                                                             *)
(***************************************************************************)
\* repository-analysis.ts, "Retention may remove the analysis between reads": the sweep
\* and the workers never make a poll report a completed analysis whose report is missing.
NeverReportMissing ==
    \A c \in Client, a \in Analysis : answer[c][a].kind # "report_missing"

\* Every variable has its type, and no poll ever announces a report that is lost
\* (the reading of a stored report and of its job's status).
ReaderInv == ReaderTypeOK /\ NeverReportMissing

\* Polling never goes back: once a client has been shown how an analysis ended, no later
\* poll shows it unfinished, or ended in another way, however many polls failed between.
PollsNeverGoBack ==
    [][\A c \in Client, a \in Analysis :
          answer[c][a].shown \in Settled => answer'[c][a].shown = answer[c][a].shown]_vars

\* A client entitled to see an accepted analysis is told `not found' only once it has
\* been removed.
FoundUntilRemoved ==
    [][\A c \in Client, a \in Analysis :
          /\ answer'[c] # answer[c] /\ poll[c].analysis = a
          /\ answer'[c][a].kind = "not_found"
          /\ OwnerOf[a] \in {Nobody, poll[c].viewer}
          => status[a] \in NotFound]_vars
=============================================================================
