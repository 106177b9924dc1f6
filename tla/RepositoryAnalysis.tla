--------------------------- MODULE RepositoryAnalysis ---------------------------
(***************************************************************************)
(* One analysis from the acquired repository to its report                 *)
(* (packages/analysis-orchestration/src/repository-analysis.ts), with the  *)
(* providers of apps/worker/src/providers.ts: npm metadata one package at  *)
(* a time, OSV after it, then the rules, the checks and the score.  Any    *)
(* provider may fail, evidence of the repository may be lost on the way,   *)
(* a progress write may be refused and the job may be aborted.  A pasted   *)
(* manifest (apps/api/src/quick-manifest-analysis.ts) takes the same last  *)
(* step without any provider.                                              *)
(*                                                                         *)
(* A world is what is true, whatever is learnt of it:                      *)
(*   kind        "repository" or "manifest"                                *)
(*   repository  a snapshot (WorkspaceProject) of the whole repository     *)
(*   lost        the kinds of evidence the acquisition does not bring back *)
(*   registry    [package -> what npm answers]                             *)
(*   pages       [query -> what OSV tells, page by page]                   *)
(*   refused     the names the OSV adapter does not ask about              *)
(***************************************************************************)
EXTENDS ProjectRules, OsvAdapter, StackHealthScore, Functions, TLC

CONSTANTS
    World,           \* the worlds to start from
    MaxPackages,     \* packages asked of npm: 100
    MaxQueries,      \* queries sent to OSV: 100
    BatchSize        \* npm requests of a batch: 4

\* What OSV holds for a query comes in pages, and only for exact versions.
ASSUME PagesAssumption ==
    \A w \in World : \A q \in DOMAIN w.pages :
        w.pages[q] \in Seq(SUBSET Advisory) /\ q.version # NoVersion

\* A world has the whole of a repository, with one manifest at each path and one of
\* them at the root; npm answers something for every package they declare.
ASSUME WorldAssumption ==
    \A w \in World :
        /\ IsSnapshot(w.repository) /\ w.repository.known = TRUE
        /\ w.repository.complete = TRUE /\ w.repository.discovered = TRUE
        /\ IsFiniteSet(w.repository.manifests)
        /\ \E m \in w.repository.manifests : m.path = Root
        /\ \A m, n \in w.repository.manifests : m.path = n.path => m = n
        /\ \A m \in w.repository.manifests :
              /\ IsFiniteSet(m.scripts)
              /\ \A d \in m.raw : d.name \in DOMAIN w.registry

\* The path of a link is never the root: localPath makes nothing of an empty path.
ASSUME LinkAssumption ==
    \A w \in World : \A l \in w.repository.locks : \A e \in l.installed : e.target # Root

VARIABLES
    world,
    at,          \* the phase, or how the analysis ended
    project,     \* the snapshot acquired
    npm,         \* [todo, chain, flight, settled, answers]
    aborted      \* the job's abort signal

vars == <<world, at, project, npm, osv, aborted>>

Ended   == {"report", "repository_unavailable", "missing_manifest", "invalid_manifest", "thrown"}
Running == at \notin Ended

NoProject == [known |-> FALSE]

-----------------------------------------------------------------------------
(* The repository as it is acquired. *)

\* The files each kind of loss takes away.
LostFiles(lost) ==
    (IF "source" \in lost THEN OwnSource \cup {"helper"} ELSE {})
      \cup (IF "tests" \in lost THEN {"test", "custom_test", "node_test", "node_ts_test"} ELSE {})
      \cup (IF "configuration" \in lost
            THEN Config \cup {"lint_config", "noCheck", "extends_package"} ELSE {})

AcquiredManifest(m, lost) ==
    [m EXCEPT !.files = @ \ LostFiles(lost),
              !.uses  = IF "source" \in lost THEN {} ELSE @,
              !.state = IF "manifest" \in lost /\ m.path # Root THEN "missing" ELSE @]

\* A lost lockfile alone leaves the source coverage complete.
Acquired(repository, lost) ==
    [repository EXCEPT
        !.locks      = IF "lockfile" \in lost THEN {} ELSE @,
        !.patterns   = IF "workspace_file" \in lost THEN "none" ELSE @,
        !.manifests  = {AcquiredManifest(m, lost) :
                           m \in {x \in @ : x.path = Root \/ "tree" \notin lost}},
        !.complete   = lost \subseteq {"lockfile"},
        !.discovered = lost \cap {"tree", "workspace_file"} = {}]

\* A manifest alone: no repository, no lockfile, one package.
ManifestOnly(repository) ==
    [repository EXCEPT
        !.locks     = {},
        !.patterns  = "none",
        !.manifests = {[RootManifest(repository) EXCEPT !.files = {}, !.uses = {}]},
        !.complete  = FALSE,
        !.known     = FALSE]

-----------------------------------------------------------------------------
(* npm. *)

UniquePackageNames(snapshot) ==
    {d.name : d \in UNION {ExternalDeclarations(m) : m \in Members(snapshot)}}

SelectedPackages(snapshot) == FirstOf(MaxPackages, UniquePackageNames(snapshot))

\* What is not a package document with a latest version is refused.
ParseNpmPackageMetadata(payload) ==
    IF payload.latest \in payload.versions THEN payload ELSE NoAnswer

Noted(answers, n, payload) ==
    [k \in {n} \cup DOMAIN answers |->
        IF k = n THEN ParseNpmPackageMetadata(payload) ELSE answers[k]]

ExactOsvQueries(snapshot) ==
    UNION {{[name |-> b.name, version |-> Effective(m, b)] : b \in DependencyFactBases(m)} :
              m \in Members(snapshot)}

AskableQueries(snapshot) ==
    {q \in ExactOsvQueries(snapshot) :
        q.name \in SelectedPackages(snapshot) /\ q.version # NoVersion}

\* The first queries by name; which versions of the last name is left open.
SelectedQueries(snapshot) ==
    LET all == AskableQueries(snapshot)
    IN  {Q \in SUBSET all :
            /\ Cardinality(Q) = Min({MaxQueries, Cardinality(all)})
            /\ \A q \in Q, r \in all : r.name < q.name => r \in Q}

PagesOf(queries) ==
    [q \in queries |-> IF q \in DOMAIN world.pages THEN world.pages[q] ELSE <<>>]

-----------------------------------------------------------------------------
(* The report. *)

Registry == [n \in DOMAIN world.registry |->
                IF n \in DOMAIN npm.answers THEN npm.answers[n] ELSE NoAnswer]

\* The rules of the analyzer; a manifest alone is only looked at for overlaps.
AllOutputs(snapshot, members, registry, o, checks) ==
    LET own      == RuleOutputs(members, registry, o)
        projects == ProjectOutputs(snapshot, members, checks)
    IN  IF snapshot.known
        THEN [r \in DOMAIN own \cup DOMAIN projects |->
                 IF r \in DOMAIN own THEN own[r] ELSE projects[r]]
        ELSE [overlap |-> projects.overlap]

Assembled(snapshot, members, checks, outputs, o) ==
    LET kept == UNION {Accepted(outputs[r]) : r \in DOMAIN outputs}
    IN  [outputs     |-> kept,
         recommended |-> Recommended(kept),
         rejected    |-> {r \in DOMAIN outputs : ~DistinctIds(outputs[r])},
         issues      |-> WorkspaceIssues(snapshot),
         discovered  |-> snapshot.discovered,
         paths       |-> {m.path : m \in members},
         checks      |-> checks,
         osv         |-> o,
         scores      |-> StackHealth(checks, FALSE)]

Evaluated(snapshot, members, registry, checks, o) ==
    Assembled(snapshot, members, checks, AllOutputs(snapshot, members, registry, o, checks), o)

RunAnalyzer(snapshot, registry, o) ==
    LET members == Members(snapshot)
    IN  Evaluated(snapshot, members, registry,
                  InspectionChecks(snapshot, members, registry, o), o)

\* What the phases have collected determines the report, once they are over.
Report == RunAnalyzer(project, Registry, OsvSnapshot)

-----------------------------------------------------------------------------
(* The phases.  Each ends with a progress write; one that is refused, or   *)
(* made under an abort, ends the analysis.                                 *)

Recorded(next) == at' \in (IF aborted THEN {} ELSE {next}) \cup {"thrown"}

AcquireRepository ==
    /\ at = "repository"
    /\ \/ Recorded("manifest") /\ project' = Acquired(world.repository, world.lost)
       \/ Recorded("repository_unavailable") /\ UNCHANGED project
    /\ UNCHANGED <<world, npm, osv, aborted>>

ParseManifest ==
    /\ at = "manifest"
    /\ LET state == RootManifest(project).state
       IN  /\ Recorded(CASE state = "missing"   -> "missing_manifest"
                         [] state = "malformed" -> "invalid_manifest"
                         [] OTHER               -> "package_metadata")
           /\ npm' = IF state = "ok" THEN [npm EXCEPT !.todo = SelectedPackages(project)] ELSE npm
    /\ UNCHANGED <<world, project, osv, aborted>>

\* Mutant: the offset of the next batch does not move on.
StartNpmBatch_SameAgain ==
    /\ at = "package_metadata"
    /\ npm.chain = {} /\ npm.flight = {} /\ npm.settled = {} /\ npm.todo # {}
    /\ npm' = [npm EXCEPT !.chain = FirstOf(BatchSize, npm.todo)]
    /\ UNCHANGED <<world, at, project, osv, aborted>>

\* The fetches of a batch are all started, each waiting for the one before it.
StartNpmBatch ==
    /\ at = "package_metadata"
    /\ npm.chain = {} /\ npm.flight = {} /\ npm.settled = {} /\ npm.todo # {}
    /\ npm' = [npm EXCEPT !.chain = FirstOf(BatchSize, npm.todo),
                          !.todo  = @ \ FirstOf(BatchSize, npm.todo)]
    /\ UNCHANGED <<world, at, project, osv, aborted>>

\* Mutant: the requests of a batch do not wait for one another.
RequestNpmMetadata_AtOnce ==
    /\ at = "package_metadata"
    /\ npm.chain # {}
    /\ IF aborted
       THEN at' = "thrown" /\ npm' = [npm EXCEPT !.chain = {}]
       ELSE /\ npm' = [npm EXCEPT !.flight = @ \cup {Min(npm.chain)}, !.chain = @ \ {Min(npm.chain)}]
            /\ UNCHANGED at
    /\ UNCHANGED <<world, project, osv, aborted>>

\* An abort is noticed before the request; then nothing of the chain is sent.
RequestNpmMetadata ==
    /\ at = "package_metadata"
    /\ npm.chain # {} /\ npm.flight = {}
    /\ IF aborted
       THEN at' = "thrown" /\ npm' = [npm EXCEPT !.chain = {}]
       ELSE /\ npm' = [npm EXCEPT !.flight = {Min(npm.chain)}, !.chain = @ \ {Min(npm.chain)}]
            /\ UNCHANGED at
    /\ UNCHANGED <<world, project, osv, aborted>>

\* An answer, or a failure in its place; under an abort it is not used, and
\* the requests waiting behind it are not sent.
SettleNpmRequest(payload) ==
    \E n \in npm.flight :
        IF aborted
        THEN at' = "thrown" /\ npm' = [npm EXCEPT !.flight = @ \ {n}, !.chain = {}]
        ELSE /\ npm' = [npm EXCEPT !.flight  = @ \ {n},
                                   !.settled = @ \cup {n},
                                   !.answers = Noted(npm.answers, n, payload)]
             /\ UNCHANGED at

NpmAnswers ==
    /\ \E n \in npm.flight : SettleNpmRequest(world.registry[n])
    /\ UNCHANGED <<world, project, osv, aborted>>

NpmFails ==
    /\ SettleNpmRequest(NoAnswer)
    /\ UNCHANGED <<world, project, osv, aborted>>

\* The results of a batch are worked off in its order once all are there.
ProcessBatchResult ==
    /\ at = "package_metadata"
    /\ npm.chain = {} /\ npm.flight = {} /\ npm.settled # {}
    /\ Recorded("package_metadata")
    /\ npm' = [npm EXCEPT !.settled = @ \ {Min(@)}]
    /\ UNCHANGED <<world, project, osv, aborted>>

\* OSV is asked about the exact versions, or skipped when there are none.
RequestVulnerabilities ==
    /\ at = "package_metadata"
    /\ npm.todo = {} /\ npm.chain = {} /\ npm.flight = {} /\ npm.settled = {}
    /\ \E queries \in SelectedQueries(project) :
        IF queries = {}
        THEN Recorded("analysis") /\ UNCHANGED osv
        ELSE /\ Recorded("vulnerability_data")
             /\ IF at' = "thrown" THEN UNCHANGED osv ELSE OsvRequest(queries, world.refused)
    /\ UNCHANGED <<world, project, npm, aborted>>

\* Under an abort every request fails at once.
AskOsv ==
    /\ at = "vulnerability_data"
    /\ IF aborted
       THEN OsvBatchFailed(BatchFailure) \/ OsvDetail({DetailFailure})
       ELSE OsvStep(PagesOf(DOMAIN osv.matches))
    /\ UNCHANGED <<world, at, project, npm, aborted>>

OsvSettled ==
    /\ at = "vulnerability_data"
    /\ osv.stage \in {"available", "unavailable"}
    /\ Recorded("analysis")
    /\ UNCHANGED <<world, project, npm, osv, aborted>>

Analyze ==
    /\ at = "analysis"
    /\ Recorded("report")
    /\ UNCHANGED <<world, project, npm, osv, aborted>>

\* The other way in: a manifest is validated and analysed in one call.
AnalyzeQuickManifest ==
    /\ at = "quick_manifest"
    /\ LET snapshot == ManifestOnly(world.repository)
       IN  IF RootManifest(snapshot).state = "ok"
           THEN at' = "report" /\ project' = snapshot
           ELSE at' = "invalid_manifest" /\ UNCHANGED project
    /\ UNCHANGED <<world, npm, osv, aborted>>

Abort ==
    /\ Running /\ at # "quick_manifest" /\ ~aborted
    /\ aborted' = TRUE
    /\ UNCHANGED <<world, at, project, npm, osv>>

-----------------------------------------------------------------------------

Init ==
    /\ world \in World
    /\ at = IF world.kind = "repository" THEN "repository" ELSE "quick_manifest"
    /\ project = NoProject
    /\ npm = [todo |-> {}, chain |-> {}, flight |-> {}, settled |-> {}, answers |-> <<>>]
    /\ osv = OsvIdle
    /\ aborted = FALSE

Work ==
    \/ AcquireRepository \/ ParseManifest
    \/ StartNpmBatch \/ RequestNpmMetadata \/ NpmAnswers \/ NpmFails \/ ProcessBatchResult
    \/ RequestVulnerabilities \/ AskOsv \/ OsvSettled
    \/ Analyze \/ AnalyzeQuickManifest

Next == Work \/ Abort

\* Every request has a timeout, and the steps between requests are the
\* process's own; nothing says that a job is aborted.
Spec == Init /\ [][Next]_vars /\ WF_vars(Work)

-----------------------------------------------------------------------------
(* What is true of the world, whatever was learnt of it. *)

Truth == IF world.kind = "repository" THEN world.repository ELSE ManifestOnly(world.repository)

TrueAdvisories(m, d) ==
    LET q == [name |-> d.name, version |-> Effective(m, d)]
    IN  (UNION Range(PagesOf({q})[q])) \ Withdrawn

TrueRegistry == [n \in DOMAIN world.registry |-> ParseNpmPackageMetadata(world.registry[n])]

\* What OSV would have said with no failure and no bound.
TrueOsv ==
    LET queries == {q \in ExactOsvQueries(Truth) : q.version # NoVersion}
        pages   == PagesOf(queries)
    IN  [known   |-> queries # {},
         queries |-> {[name |-> q.name, version |-> q.version,
                       matches |-> UNION Range(pages[q]), complete |-> TRUE] : q \in queries},
         records |-> UNION {UNION Range(pages[q]) : q \in queries}]

TrueUses(m) == {u.name : u \in m.uses} \cup ScriptUses(m)

-----------------------------------------------------------------------------
(* Properties. *)

\* An advisory of an installed version is found and comes with a recommendation,
\* under any of its aliases, or the report says for this dependency, package or
\* rule that it could not be looked at.
Told(report, m, d, a) ==
    \/ \E f \in report.recommended :
          /\ f.id.code = "vulnerability" /\ f.at = m.path /\ f.basis.name = d.name
          /\ f.id.advisory \in {a} \cup AdvisoryAliasGroup(Advisory, a)
    \/ \E o \in report.outputs :
          /\ o.kind = "limitation" /\ o.at = m.path /\ o.basis.name \in {d.name, NoName}
          /\ o.id.code \in {"osv-resolved-version-missing", "osv-exact-version-missing",
                            "osv-query-incomplete", "osv-source-unavailable"}
    \/ "vulnerable" \in report.rejected
    \/ m.path \notin report.paths
          /\ ("workspace_manifest_unavailable" \in report.issues \/ ~report.discovered)
    \/ "workspace_dependency_unresolved" \in report.issues

NothingUntold(report) ==
    \A m \in Members(Truth) : \A d \in ExternalDeclarations(m) :
        \A a \in TrueAdvisories(m, d) : Told(report, m, d, a)

\* No advisory of an installed version is lost silently, whatever evidence the
\* acquisition, npm or OSV failed to give and whatever limit was reached.
NoSilentGap == at = "report" /\ world.kind = "repository" => NothingUntold(Report)

\* Rated by what OSV holds and by what the report has.
Deserved(scores, records) ==
    \A m \in Members(Truth) : \A d \in ExternalDeclarations(m) :
        /\ scores.security = Available(100) =>
              /\ Effective(m, d) # NoVersion
              /\ \A a \in TrueAdvisories(m, d) : AdvisorySeverity(records, a) = "none"
        /\ scores.dependencies = Available(100) =>
              Effective(m, d) \notin world.registry[d.name].deprecated

\* A security or dependency score of 100 is given only to a project in which
\* every installed version is known, without an advisory rated above none and
\* not deprecated: no failure, limit or loss makes a score perfect.
PerfectScoreIsEarned ==
    at = "report" => Deserved(Report.scores.categories, TrueOsv.records \cup OsvSnapshot.records)

NotAbove(s, t) == s.status = "available" /\ t.status = "available" => s.value =< t.value

\* Without a lockfile a declaration of a member by its name counts as a link to it,
\* but not under a packageManager that is not npm@<version>.
LinksAreKept ==
    \/ "lockfile" \notin world.lost
    \/ world.repository.manager \in Manager \cup {NoManager}

NoneAbove(scores, ideal) ==
    /\ \A c \in Category : NotAbove(scores.categories[c], ideal.categories[c])
    /\ LinksAreKept => NotAbove(scores.overall, ideal.overall)

\* Source of its own keeps a root of several packages from being taken for one
\* that only orchestrates them.
RootKeepsRole ==
    \/ "source" \notin world.lost
    \/ Cardinality(Manifests(Truth)) = 1
    \/ RootManifest(Truth).files \cap OwnSource = {}

\* A score computed from part of the evidence never exceeds the one that all of
\* it would have given, in any category and overall.  (Three losses do raise it and
\* are not covered: a configuration, for test files it excludes are then counted;
\* the source of a root with members, for its checks no longer apply; and, for the
\* overall score, a lockfile under a packageManager without a version, for links
\* to members are then taken for packages of npm that have nothing against them.)
MissingEvidenceNeverRaises ==
    at = "report" /\ "configuration" \notin world.lost /\ RootKeepsRole =>
        NoneAbove(Report.scores, RunAnalyzer(Truth, TrueRegistry, TrueOsv).scores)

Explained(report, scores, findings) ==
    LET of(codes) == {f \in findings : f.id.code \in codes}
        ratings   == {AdvisorySeverity(report.osv.records, f.id.advisory) :
                         f \in of({"vulnerability"})}
    IN  /\ scores.security.status = "available" /\ "vulnerable" \notin report.rejected =>
              scores.security.value = Min({100} \cup {Band(r) : r \in ratings})
        /\ scores.dependencies = Available(70) /\ "deprecated" \notin report.rejected =>
              of({"deprecated"}) # {}
        /\ \A c \in {"maintainability", "testing", "tooling"} :
              scores[c].status = "available" /\ scores[c].value < 100 =>
                  of({x.of : x \in {y \in report.checks : y.category = c}}) # {}

ExplainedIn(report) == Explained(report, report.scores.categories, Findings(report.outputs))

\* The score and the findings, computed by different rules, tell one story: what
\* takes points from a category is a finding of the report, and the worst
\* advisory of the findings is the one the security score stands for.
ScoreIsExplained == at = "report" /\ world.kind = "repository" => ExplainedIn(Report)

\* A dependency is called potentially unnecessary only when nothing in the
\* repository refers to it: not in a member below, not in a script, and not in
\* what could not be parsed.  (The unparsed files of the members of a root that
\* has source of its own are not covered: the code does not look at them.)
UnusedIsUnused ==
    at = "report" =>
        \A f \in {o \in Report.outputs : o.id.code = "unnecessary"} :
            LET members == Members(Truth)
                owner   == MemberAt(members, f.at)
            IN  \A m \in {x \in members : owner \in Ancestors(members, x)} :
                  /\ m = owner \/ f.basis.name \notin DeclaredNames(m)
                  /\ f.basis.name \in TrueUses(m)
                  => owner.role = "package" /\ m # owner /\ f.basis.name \notin References(m)

\* The report never takes a part of what OSV told for all of it: a query counts as
\* complete only when each of its pages has arrived, and when the details of a matched
\* advisory are missing a recorded failure says so, whatever call failed or was bounded.
OsvNeverOverstates ==
    at = "report" =>
        /\ osv.stage \in {"idle", "available", "unavailable"}
        /\ osv.stage = "available" =>
              /\ \A q \in DOMAIN osv.matches \cap osv.complete :
                    osv.matches[q] = UNION Range(PagesOf(DOMAIN osv.matches)[q])
              /\ osv.records = Matched(osv.matches) \/ osv.failures # {}

\* Once an analysis has ended, however it ended, none of its requests to npm is
\* outstanding or still to be sent: the job that comes next meets no leftovers.
QuietAfterEnd ==
    ~Running => npm.flight = {} /\ npm.chain = {}

\* Every analysis ends, even when OSV hands out page tokens for ever.
FlowEnds == <>(~Running)

\* docs/requirements.md, SCORE-003: "Unavailable or unsupported evidence must not
\* automatically reduce a project's score."  A lockfile check fails only for a
\* repository without a lockfile.
NoPenaltyForMissingEvidence ==
    at = "report" =>
        \A c \in Report.checks :
            c.of = "lockfile" /\ c.state = "fail" => world.repository.locks = {}
=============================================================================
