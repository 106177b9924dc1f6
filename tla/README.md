# StackLens: verification project

StackLens analyses a JavaScript/TypeScript repository: an API accepts a repository URL and
stores an analysis, an outbox hands it to a queue, a worker acquires the repository from
GitHub, runs a pipeline of rules over it and stores a report, and a browser polls for it.
This directory holds TLA+ modules of the parts of that system where interleavings, failures
and limits decide whether it is correct, the TLC configurations that check them on small
instances, and proofs, checked by TLAPS, of their main safety properties for every instance.

Paths below are relative to `src/`.

- [1. The system](#1-the-system)
- [2. Modules](#2-modules)
- [3. Runs: what is checked and within which bounds](#3-runs)
- [4. Fairness](#4-fairness)
- [5. What is proved](#5-what-is-proved)
- [6. What the checks found](#6-what-the-checks-found)
- [7. What is not modelled](#7-what-is-not-modelled)
- [8. What would come next](#8-what-would-come-next)

To check a module: `tlc -config RulePipeline.cfg MCRulePipeline.tla`; to prove about one:
`tlapm RulePipeline_proofs.tla`. `PROJECT.json` lists the runs, the source lines behind every
definition, the hazards with the properties aimed at them, and, for each property, a mutation
of a definition (named `Definition_Mutation` in the modules) under which TLC must find that
property violated.

## 1. The system

### Components, their state and operations

| Component | Source | State it keeps | Operations | What is hard about it |
|---|---|---|---|---|
| Durable store | `packages/persistence/src/repository.ts` | tables `analysis`, `analysis_report`, `analysis_delivery` | create, claim/mark/retry a delivery, find, claim for execution, progress, retry-pending, complete, fail, purge | every caller decides on a row it read one await earlier; statements may be lost, or commit and then report an error |
| Delivery outbox | `packages/repository-jobs/src/delivery.ts` | leases in `analysis_delivery`, one timer | claim a batch, enqueue, mark delivered, retry with back-off | two systems without a common transaction; a lease may be outlived; runs overlap |
| Queue | Graphile Worker (library), `enqueue.ts`, `job.ts` | jobs with key, attempts and lock | addJob, getJob, completeJob, failJob, forced unlock | locks of dead and of merely slow workers; exhausted jobs |
| Worker task | `apps/worker/src/task.ts` | one execution: stage, claim, abort signal | check, claim, analyse, settle, give back | attempt budget; planned stop; late results of a superseded attempt |
| Worker process | `apps/worker/src/{main,runtime,retention,shutdown}.ts` | startup stage, runner, two pumps, pool | start, stop, signal, sweep | signals during startup; several callers of stop; work in flight when the pool closes |
| Recovery | `apps/worker/src/recovery.ts` | none | unlock jobs of dead owners | must fit the ownership rule of the store |
| API: submission and status | `apps/api/src/repository-analysis*.ts` | none beyond the store | submit, read status and report, check the owner | a read in two or three statements races retention and ownership |
| GitHub connection service | `packages/github-auth/src/service.ts`, `apps/api/src/github-auth-http.ts` | rows `github_connection`, two cookies | session query, OAuth start and callback, sign-out, authorize a submission | cookies change under open tabs; answers get lost or come late |
| GitHub connection, browser | `apps/web/src/features/github-connection/*`, `complete.html` | query cache of each tab | query, expire, sign out, confirm | an old answer must not restore an ended session |
| Connection queries | `packages/persistence/src/github-connections.ts` | one borrowed pool client per call | run one statement under a deadline | three parties may release the client: abort listener, finally, abandoned operation |
| Analyzer core | `packages/analyzer-core/src/*` | the collections of one analysis | fact, finding, priority, recommendation, score, assemble | plugged-in rules may throw or return anything; all-or-nothing outputs; identifier collisions |
| Report contracts | `packages/contracts/src/*` | none | parse and cross-check a report | rejects the whole report for one dangling reference |
| GitHub acquisition | `packages/data-sources/src/github/*` | queue of candidates, batch, blob cache, three budgets | resolve, list, download in batches, splice selected files, publish | budgets under concurrency; displaced, aliased, failed files; aborts; lost access |
| Orchestration | `packages/analysis-orchestration/src/repository-analysis.ts`, `apps/worker/src/providers.ts` | phase, provider chain | acquire, look packages up in batches, query OSV, analyse | cancellation between phases; a serial chain per job; the first hundred packages only |
| npm and OSV adapters | `packages/data-sources/src/{npm-registry,osv}` | pages, tokens, details of one request | lookups, paged queries | limits and partial results that must not pass for complete ones |
| JavaScript rules | `packages/rules-javascript` | none | members, resolved versions, advisories, usage, scripts, setup checks, recommendations | each rule reads the evidence on its own; what is missing must reach all of them; one duplicate identifier silences a rule |
| Scoring | `packages/scoring` | none | category and overall scores | "unknown" is neither good nor bad |
| Web report pages | `apps/web/src/features/{repository-analysis,quick-analysis,analysis-report}` | query cache | poll, render | polling and back-off |
| API process | `apps/api/src/{runtime,server,main}.ts` | server, pool | start, stop | shutdown order |
| Quick manifest analysis | `apps/api/src/quick-manifest-*.ts` | none | analyse a pasted manifest | the same rules and score with almost no evidence |
| Design system, relay, operations scripts, migrations | `packages/ui`, `apps/github-callback-relay`, `scripts/operations`, `packages/persistence/src/migrate.ts` | none at run time | | |

### How they interact

```
 browser tabs --HTTP--> API --one transaction--> analysis + delivery rows (PostgreSQL)
      ^                  |                                   |
      |  status, report  |                 delivery runs (worker's pump, API after a submit)
      +------------------+                                   | lease, addJob, mark
                                                             v
   github_connection rows <--token--  worker task <--getJob-- queue (Graphile Worker)
                                          |  acquisition -> lookups -> rules -> report
                                          +--> claim, progress, complete / fail / retry
```

The processes share nothing but PostgreSQL. Everything correctness rests on is therefore in the
`WHERE` clauses of the store's statements, in the keys and locks of the queue, and in the order
of awaits inside each process; this is where the models are detailed.

### What makes each part correct

- Store, outbox, queue, task: an accepted analysis is executed and settled once, its report is
  visible exactly with its success, terminal records are final, only the owning job writes, no
  delivery is lost, recreated or stolen from a live lease.
- Status endpoint: polls never go backwards, never mistake a purge for a lost report, never hide
  an analysis from somebody who may see it.
- Worker process: whatever the order of signals and failures, one stop, in stages, that ends,
  and nothing starts after it began.
- Connection queries: every borrowed client comes back once, clean or destroyed; success means
  committed.
- GitHub connections: a confirmed sign-out is a deletion, an ended session is not shown again,
  requests act on the session their page showed.
- Analyzer core: outputs are kept or omitted whole, every omission is reported, a report is
  rejected only for what no stage can check.
- Acquisition: within its budgets, nothing lost silently, "complete" means complete, lost access
  ends it, every acquisition ends.
- Analysis, rules and score: every advisory of an installed version is found or its absence is
  announced; no failure, limit or loss makes a score better, but for three losses (section 6);
  what takes points is a finding;
  a dependency is called unnecessary only on complete evidence; an analysis ends and leaves no
  request behind.

## 2. Modules

| Module | Models | Composes / uses |
|---|---|---|
| `AnalysisPromise` | abstract: the life of an analysis a client is promised | |
| `AnalysisStore` | the SQL statements of the store, as operators on rows | |
| `RepositoryJobs` | submission, outbox, queue, worker task, recovery, retention | extends `AnalysisStore`; implements `AnalysisPromise` |
| `ReportReader` | `GET /v1/analyses/:id` polled by browsers | its environment is `AnalysisPromise` |
| `WorkerRuntime` | one worker process from start to closed pool | |
| `ConnectionQuery` | `runConnectionQuery` | |
| `GitHubConnections` | connection rows, cookies, tabs, API handlers | its statements are those `ConnectionQuery` runs |
| `RulePipeline` | analyzer core and the report's integrity checks | |
| `GitHubAcquisition` | `GitHubRepositoryAdapter.fetch` | |
| `RepositoryAnalysis` | one analysis: acquisition outcome, npm batches, OSV, report, abort; the quick manifest | extends all modules below |
| `OsvAdapter` | `OsvVulnerabilityAdapter.fetch`: refused requests, pages, tokens, details | |
| `SemanticVersion` | exact versions and their order | |
| `Lockfile` | resolved versions from npm, pnpm and yarn lockfiles | `SemanticVersion` |
| `WorkspaceProject` | members of a workspace, kinds of declarations, effective versions | `Lockfile` |
| `DependencyRules` | deprecated, outdated, migration, vulnerability and registry rules, their checks | `WorkspaceProject` |
| `ScriptGraph` | static tracing of package scripts to the tools they run | `WorkspaceProject` |
| `WorkspaceInspection` | the inspection checks a report is scored by | `DependencyRules`, `ScriptGraph` |
| `ProjectRules` | source usage, unnecessary and overlapping dependencies, setup findings, recommendations | `WorkspaceInspection` |
| `StackHealthScore` | category and overall scores | |

`MC*` modules give constants their values; `*_proofs` modules hold the theorems.
Every module that is proved about is free of recursive operators.

### AnalysisStore and RepositoryJobs

*State.* A row is a status, a stage, an owner (`activeJob`), a failure and the bit `expired`; a
delivery is a status, a lease, and the bits `due` and `lapsed`. Timestamps are only ever compared
with "now", so each comparison is a bit and the clock is an action that sets it (`LeaseLapses`,
`BackoffElapses`, `RetentionExpires`). Nothing orders these actions, so clocks of different
processes need not agree. `dispatch[d][a]` is what delivery run `d` still has to do for analysis
`a`; `execs[w]` is the program counter of a worker's task and what it carries to its next
statement.

*Actions.* One per awaited statement. Each statement ends `ok`, `lost` (nothing happened) or
`ambiguous` (it committed and the caller got an error). A worker or a delivery run may die
between any two statements; the rows keep what was committed and the queue keeps the lock of the
dead (`holder = NoWorker`) until `RecoverDeadOwner`.

*Abstractions.*
- The lease token of the code is a fresh UUID per run; here it is the delivery run itself, which
  starts its next batch only when the previous one is done or died. Purged identifiers are not
  reused (they are UUIDs).
- A batch is any part of the candidates: that is what `LIMIT` and `SKIP LOCKED` allow.
- The number of delivery attempts only determines the length of a delay, which is left open.
- `startedAt`, names and messages are not modelled.
- A worker executes one job at a time; queue job identifiers are reused only when nobody refers
  to them, so that a few suffice.
- The queue: `getJob` takes a queued job with attempts left and counts the attempt; `completeJob`
  deletes by identifier; `failJob` acts only if the lock is still held; `addJob` with
  `unsafe_dedupe` leaves an existing job with the same key alone, exhausted ones included.
- The analysis itself (acquisition, rules) is one step with any outcome.

*Environment.* `Environment` selects which foreign events happen: `competing_job` (a job for the
same analysis that does not carry the stable key) and `live_lock_loss` (the queue unlocks a job
whose worker still runs it, as its recovery of stale locks may).

### ReportReader

A poll reads the analysis, then for a succeeded one its report, then rechecks the analysis when
the report is missing; between these statements `AnalysisPromise` takes any steps. A browser is
signed in as the owner or not at all. Because `RepositoryJobs` implements `AnalysisPromise`,
what `ReportReader` shows holds above the real store.

### WorkerRuntime

`main` is how far startup got; `stop` the stages of `runtime.stop()` (stop runner and pumps,
release utilities, end the pool); `pump`, `delivery`, `awaited`, `retention` are the two timer
loops and the writes they wait for; `refused` records a write that met the closed pool.
Callers of `stop` share one promise, so a second caller is no state of its own. The forced exit
after the shutdown deadline ends the process from any state and is not an action.

### ConnectionQuery

`step` is what the async operation awaits, `race` how `Promise.race` settled, `client`,
`borrowed`, `completed`, `aborted` and `done` are the variables of the function, `tx` the server's
transaction. An abort (deadline or caller) may come at any time; the abandoned operation goes on.

### GitHubConnections

A *session* stands for everything that belongs to one connection: cookie, session hash, CSRF
token and sealed token. `row` is the table, `browser` the two cookies all tabs share, `page[t]`
what a tab shows and has learned, `poll[t]` its session query, `call[t]` its one state-changing
request. Any request may fail at any server step; a statement given up at its deadline may still
take effect later (`late`). `over` and `ended` are ghosts: sessions a page knows are over.
- Looking an expired row up and removing it is one step; a cookie's `Max-Age` and the row's
  expiry are two events.
- An OAuth flow belongs to the tab that started it; a second start overwrites the state cookie,
  so the first callback is refused. The answers of a page that was left are dropped.
- GitHub accounts are not told apart, and analyses are not stored: who may read what is
  `ReportReader`'s.
- What a worker does with a connection's token is `GitHubAcquisition`'s (`Connected`).

### RulePipeline

Rules are numbers in the code-unit order of their identifiers. What an evaluation may return is a
constant set of outputs, each of which `returns`, `throws` or is `misshapen`; collections are sets.
The identifier of a limitation is a name and a counter, `Truncate` is what `slice(0, 200)` leaves
of a preferred name, so collisions are possible. The differences between report schemas 1 and 2
are reduced to facts of kind `check`, which only schema 2 accepts. `Unchecked` collects the four
requirements of the report schema no stage verifies (priority factors, inspection limitations,
limitation sources, score citations): any of them loses the whole report, which is how
`packages/analyzer-core/README.md` describes the boundary, so it is documented as a property
(`RejectedOnlyByUnchecked`) and not reported as a fault. An exception of the scorer ends the
analysis (`aborted`).

### GitHubAcquisition

`phase` is where `fetch` is; `taken` and `rest` are the consumed and the remaining part of
`retainedCandidates`; `batch`, `pending`, `reserved` the batch being filled or in flight;
`cached` and `verdicts` the two blob maps; `skipped[p]` the limitation lists naming path `p`.
- Everything between two awaits is uninterrupted in the program. Loops over files take one step
  per file, and `Abort` is enabled only at the awaits.
- A tree is a constant: class and size of each path, blob of each path, candidates in order. The
  classification by path patterns is thus given with the tree; TLC evaluates the assumptions that
  the order is `candidateOrder` and lists exactly the candidates.
- A blob's content is fixed by its identifier. An answer is the blob, a refusal of the credential,
  or a failure (transient, permanent, rate limit).
- The selector is any function of the program's state: it may ask for any selectable path after
  any batch, each at most once per answer.
- Rejected URLs and refs (before the first request) are left out. The request client's own limit
  check is unreachable: `WithinBudget`, part of the invariant, shows why.
- A displaced source that the selector asks for again is both listed as skipped and retained;
  coverage then errs on the side of "partial".

### RepositoryAnalysis and the modules it extends

*Worlds.* The instances start from a set of *worlds*: a repository as it really is, the kinds of
evidence the acquisition loses (lockfile, part of the tree, manifests, the workspace file,
source, tests, configuration), what npm holds for each package, what OSV tells page by page, and
the names the OSV adapter refuses. A property can therefore compare the report with the truth
the analysis only saw a part of, which no test of the repository does.

*State.* `at` is the phase, or how the analysis ended; `project` the snapshot acquired; `npm` the
batches of package lookups: `todo`, the `chain` of requests of the batch waiting for one another,
the one in `flight`, the `settled` ones still to be worked off in order, the `answers`; `osv` the
adapter's record of matches, complete queries, pending pages, details still to ask for, failures;
`aborted` the job's signal.

*Actions.* One per awaited call, and one per progress write: `Recorded` says that a write made
under an abort, or refused by the store, ends the analysis by an exception. `NpmAnswers` and
`NpmFails` settle the request in flight; an abort between two requests is noticed before the
next is sent. `AskOsv` takes the steps of `OsvAdapter`: OSV answers a page for every pending
query, hands out a new token, the same token again, or a failure. What the phases collected
determines the report, so `Report` is an operator on the state and not a variable.

*The report.* `RuleOutputs` and `ProjectOutputs` are what each rule returns for all members;
`Accepted` is what the analyzer core leaves of it: an identifier returned twice rejects
everything the rule returned. An output carries the identity its identifier is hashed from, so
that a collision is a property of the rules and not of a hash. The score is computed from the
checks of `WorkspaceInspection` alone; findings come from the rules; that the two agree is a
property (`ScoreIsExplained`).

*Abstractions.*
- Packages, advisories and files are numbers or kinds. A specifier is an exact version or a
  text; a lockfile is what its importers declared and what was installed, for its four readers
  (npm 2 and 3, older npm, pnpm, yarn). Build metadata and pnpm catalogs are left out.
- What a source or configuration file *says* is given with the world (`uses`, kinds of files);
  what the rules conclude from it is modelled. CVSS vectors are given as base scores.
- The shell grammar of scripts is reduced to the commands tracing tells apart, or `Dynamic`. Of
  several chains of delegations to one script, the code measures the one it walks first; the
  model takes the shortest (`CycleOrBound`).
- The details of a failed call (status, timeout, size, malformed) are one failure each: nothing
  downstream tells them apart. Retries inside one npm request are part of the request.
- When a name is declared in versions beyond the query limit, which of them are asked is open.
- What the loop of `advisoryAliasGroup` collects is defined by what it reaches, the least set of
  identifiers that holds the advisory's and that no record links to anything outside
  (`Identifiers`), not by its rounds. So is "an identifier returned twice" (`DistinctIds`).
- The first of several conditions that holds decides, as in the code: such choices are chains of
  `IF`, because the guards of a `CASE` have no order.

*Assumptions.* `WorldAssumption`: a world holds a whole repository with one manifest per path and
one at the root, finitely many, and npm answers something for every declared name.
`PagesAssumption`: OSV holds pages of known advisories, for exact versions only.
`AdvisoryAssumption`: the types of the advisory tables, base scores in 0..100. `LinkAssumption`: no
lockfile entry links to the root, because `localPath` makes nothing of an empty path
(`packages/rules-javascript/src/static-data.ts:15-37`).

## 3. Runs

| Run | Instance | Question |
|---|---|---|
| `competing` | 1 analysis, 2 workers, 2 delivery runs, 2 jobs (one competing), 2 attempts, 1 fault, 1 stop | `ExclusiveExecution`: one worker at a time; `UnfinishedHasJob`: accepted work never loses its job; `OnlyFaultsExhaust`: without a fault no job runs out of attempts unsettled; `DeliveredIsFinal`: no delivery is recreated |
| `lockloss` | 1 analysis, 2 workers, 2 jobs, 2 attempts, 2 faults, live locks may be lost | `ReportMatchesStatus`, `TerminalIsFinal`, `OnlyOwnerWrites`: what the statements guarantee without any help from the queue; `KeepsPromise`: refinement of `AnalysisPromise` |
| `liveness` | 1 connected analysis, 1 worker, 2 attempts, 2 faults, 1 stop | `AcceptedSettles`, `StopDrains` under `FairSpec` |
| `exhausted` | 1 analysis, 1 worker, 1 attempt, 1 fault | violated: a fault of the final attempt (section 6) |
| `reader` | an owned and an anonymous analysis, 1 browser | `ReaderInv` (no lost report is ever announced), `PollsNeverGoBack`, `FoundUntilRemoved` |
| `connection_query` | 2 operations, a pool of 1 | `ReleasedOnce`, `ReturnedClean`, `OkIsCommitted`, and `CallsEnd` under `FairSpec` |
| `worker_process` | 2 deliveries in flight | `ClosesQuiet`, `NothingStartsAfterStop`, and `StopCompletes` under `FairSpec` |
| `rule_pipeline` | 2 fact rules, 2 finding rules, 1 recommendation rule, 6 to 7 outputs each | `PipelineInv`, `FailedRuleLeavesNothing`, `NothingDroppedSilently`, `RejectedOnlyByUnchecked` |
| `github_session` | 2 tabs, 2 sessions | `EndedStaysHidden`, `SignedOutIsDeleted`, `ActsOnWhatWasShown` |
| `github_acquisition` | 6 trees of 6 paths, 5 blobs, batches of 2, 4 files, 5 bytes, 6 requests | `IInv`, `NothingLostSilently`, `CompleteMeansAll`, `LostAccessEnds`, and `Settles` under `FairSpec` |
| `analysis` | 405 worlds, 6 packages, 4 advisories, 3 packages and 2 queries per analysis, batches of 2 | `NoSilentGap`, `PerfectScoreIsEarned`, `MissingEvidenceNeverRaises`, `ScoreIsExplained`, `UnusedIsUnused`, `OsvNeverOverstates`, `QuietAfterEnd`, and `FlowEnds` under fairness |
| `analysis_lockfile` | the worlds with a lockfile to lose | violated: a lockfile that was not acquired counts as missing (section 6) |

`IInv` (`PipelineInv`) is each module's inductive invariant; its first conjunct is the module's
type invariant.

### Why these bounds

- *Queue.* Rows of different analyses share no state but the batch of a claim, which is any
  subset, so one analysis meets every case of its own life. Two workers, two jobs and two
  delivery runs are the least that compete; two attempts have a first and a final one; one fault
  is enough to break every assumption once, and `lockloss` and `liveness` allow two. The theorems
  of `RepositoryJobs_proofs` hold without bounds.
- *Reader.* Polls do not write, so one browser suffices; two analyses distinguish owned from
  anonymous.
- *Connection query.* Two calls and one client: one waits for the other's client.
- *Pipeline.* The outputs of `MCRulePipeline` include every way a stage may accept or reject one:
  sound, thrown, misshapen, foreign or unknown identifiers, unknown evidence, clashing names,
  references to another rule's outputs that may be missing.
- *GitHub session.* Everything happens in one tab; the other signs in, replacing the shared
  cookie, or reloads. Two sessions are the old and the new one. About three million states.
- *Acquisition.* The trees differ in what becomes scarce: bytes (aliased blobs, sizes unknown or
  mis-declared), requests (a blob per file), files (two candidates too many), nothing (a small
  one), and one hides files. All of them meet every answer, selector choice and abort.

- *Analysis.* Each family of worlds varies what interacts and keeps the rest plain: `dependencies`
  one declaration against seven states of the lockfile, four of OSV, three of npm; `several` a
  package declared twice, more packages and queries than the limits allow, a refused name;
  `workspace` and `links` a root and members, what they declare, use, link and lose; `roots` and
  `unnamed` the two losses that do raise a score (section 6), beside those that do not; `setup`
  scripts, tools, test files and configurations; `others` pasted manifests and repositories
  without a usable one. `MaxPackages = 3`, `MaxQueries = 2`, `BatchSize = 2`,
  `MaxPaginationRounds = 3` and `MaxAdvisoryDetails = 3` are each exceeded by some world;
  `MaxScriptDepth = 2` by none but a cycle, which ends in the same answer. `MaxSafeInteger = 9`
  only says which numbers are versions. About 115,000 states, each report compared with the
  truth.

`CHECK_DEADLOCK FALSE` stands in every configuration because every one of these systems may come
to rest: all analyses removed, the process stopped, every call answered, the report written, the analysis over.
That none of them rests too early is what the liveness properties say.

## 4. Fairness

- `RepositoryJobs!Fairness`: the pump reschedules itself after every run, so an analysis that stays
  a candidate is eventually in a claimed batch; awaited statements return (possibly with an
  error); leases lapse and back-offs elapse because clocks advance; the queue hands a runnable job
  to an idle worker; stale locks are recovered; a stopped worker is started again by its
  supervisor. Only weak fairness is used. Nothing is assumed of submissions, faults or stops.
- `WorkerRuntime!Fairness`: startup decides, statements return, continuations run, a task ends (the
  runtime aborts it one second after a stop). Signals, timers and exits may come or not.
- `ConnectionQuery`: the deadline fires, continuations of promises that settled run. Nothing is
  assumed of pool or server: a checkout or a statement may never return.
- `GitHubAcquisition`: `WF(Run)`. Every request is bounded by a timeout (`request.ts:119`) and the
  rest of `fetch` is synchronous. Nothing is assumed of aborts or of the selector; `Settles` holds
  although the selector may always ask for more, because a path is admitted only within the file
  limit.

- `RepositoryAnalysis`: `WF(Work)`. Every request to npm and OSV has a timeout and the steps between
  them are the process's own. Nothing is assumed of `Abort`, of the providers or of the progress
  writes; `FlowEnds` holds although OSV may hand out page tokens for ever.

## 5. What is proved

All theorems are of the specification without fairness and hold for every value of the
constants that satisfies the named assumptions of the modules (`BoundAssumption`, ...). They say
nothing about the code outside the models.

**RepositoryJobs**. `IInv` strengthens the two
safety invariants by what executions carry: an execution about to record a failure has one, one
about to publish has an outcome. That is all a late statement can damage a record with, so no
assumption about locks, leases or exclusive execution is needed, and the theorems hold for
`Environment` of any kind. The first part of the module proves once what each statement of the store
does to a consistent row; `NextEffect` shows that every step changes each row by one of these
statements; `Invariant`, `RecordsAreConsistent`, `ReportsMatchStatuses`, `TerminalsAreFinal` and
`OwnersWriteAlone` follow per analysis. `PromiseIsKept` is the refinement: initial states map to
initial states, and each step to a step of `AnalysisPromise` or a stutter, because at most one
analysis changes at a time except in a sweep.

Four theorems need more than the rows, because they relate rows, jobs, deliveries and executions:
- `ExecutionIsExclusive`, when live locks are kept: `LocksHeld` (a worker inside a task holds the
  lock of its job, which names the analysis it works on) and `ClaimsHeld` (one that works on an
  analysis owns its row). Two workers with one analysis would hold one job.
- `UnfinishedIsServed`, when live locks are kept. "Has a job" is not inductive: the job may be
  the one a returned task is about to delete. The invariant says that a job *serves* an analysis
  (`Serves`) only while its worker, if it has one, is not about to conclude it, and `Served` that
  a running analysis is served by its owner and a queued one that was enqueued by some job. A task that
  returns leaves its analysis settled, or with another owner whose job serves it. `Committed`
  lists who relies on a job: a delivered delivery, a run about to mark one, a returned task.
- `DeliveriesAreFinal`, without any assumption: only a run that still holds the lease writes a
  delivery, a delivered one has no lease, and `DeliveriesTraced` excludes that it is submitted anew.
- `BudgetIsSound`, without any assumption on the environment (a lost lock counts as a fault):
  `Calm` holds until the first fault. A locked job is held by its worker, whose task knows whether
  the attempt is the final one, hence records a failure instead of giving the job back.

**ReportReader**. Three reads with anything in between tell one story because a settled analysis
only ever disappears, and its report with it. `PollsRemember`: what a poll has read of a settled
analysis is still true unless it has been removed since, and the third read is only reached then.
`AnswersRemember` says the same of what each client was shown last. `NoReportIsMissed`,
`PollingNeverGoesBack`, `NotFoundMeansRemoved`.

**ConnectionQuery**. `IInv` is the custody of the client: lent and not yet remembered by
`borrowed`, or remembered and to be released by whoever comes first, or gone with exactly one
release. `ReleasesAreSingle`, `ReturnsAreClean`, `SuccessIsCommitted`.

**WorkerRuntime**. `IInv` says what each stage of startup and of a stop may rely on and that the
stages waited for stay drained. `ClosureIsQuiet`, `ClosureIsSingle`, `NothingStartsLate`. (The model's `refused` records a write
that met the closed pool; section 6.)

**RulePipeline**. The invariant needs `WaitingIsSilent` (nothing exists in the name of a rule that
has not run, else a failing rule would leave something behind) and `RankingIsOrderly` (every
omission so far is about a candidate already taken). `AllocatedIsFresh` is a lemma about the
allocation loop: the least free counter exists, by counting, whatever collides. `FailuresAreWhole`,
`OmissionsAreReported`, `RejectionsAreForUnchecked`.

**GitHubConnections**. The argument: a secret waiting to be saved is fresh, hence a removed row
never comes back (`GoneForGood`); what was authorized is for the session shown, so a late deletion
only removes what a page asked to remove; an answer was read before anything its page has
learned since, so comparing it with the ended sessions is enough. `EndedSessionsStayHidden`,
`SignOutDeletes`, `RequestsActOnWhatWasShown`.

**GitHubAcquisition**. Budgets: `requests + |pending|` and `taken + |rest| + |additions|` never pass
their limits, and a file is charged only if it fits. Accounts: a queued path is in hand (queue,
batch or additions), retained, or named in a list, and each of the first `MaxFiles` candidates is
queued or named. In a snapshot nothing is in hand, hence `NothingIsLost`; if coverage is complete
the queue was never cut and no evidence was skipped, hence `CompleteCoverage`. These proofs need no
assumption about sizes, answers or the selector. `AccessLossEnds` holds for trees that declare the
sizes of their blobs: a refused blob is still wanted by a file of the batch in flight
(`RefusalSeen`), and neither byte limit can drop that file before its answer is looked at, because
the files still in the batch keep their bytes reserved. What they reserve from the i-th one on is
a function the invariant says exists (`ReservedBy`), which spares the proof a sum.

**RepositoryAnalysis** (`RepositoryAnalysis_proofs`). `VersionsAreOrdered`, `NewerOneWay`: the order of
versions is total and antisymmetric whatever the numbers and prerelease identifiers.
`PerfectRiskScore`, `NoOverallFromUnknown`: for any set of checks a risk score of 100 leaves no check
unknown, failed or rated, and one unknown check withholds the overall number. `QuietWhenEnded`: for
any world, limits and batch size. `OsvIsNeverOverstated`: `OsvInv` says for every stage what the
adapter's record may claim: a query not yet cut short has been told every page before the current
round, its matches contain nothing else, and details are missing only while they are still to be
asked or with a recorded failure. The proof needs `PagesAssumption` only.

The other theorems compare a report with the truth, for every world that satisfies the
assumptions of section 2. They share one inductive invariant, `CollectedInv`: at a report the
project is what the acquisition left of the world's repository, npm is only believed (every answer
is that of the world, or none), the queries are those of the project, and the adapter's record is
as `OsvInv` says. It is all that needs induction over steps; the rest is about operators.

- `UnusedIsNeverUsed`. A use in a member below is seen, or its file is one the parser gave up on, and
  then an issue of that member stops the rule for every owner above it.
- `ScoreIsAlwaysExplained`. Two computations, one result: each rated advisory of a check has a finding
  under the representative of its alias group, with the same rating, because a group does not
  depend on which of its advisories one starts from; each finding is a check. A category without
  a failed check has all its points.
- `NoGapIsSilent`. For a dependency of the truth either its member, its link or its version is lost,
  and the loss leaves an issue or a limitation; or the version is the true one
  (`VersionStays`), and then the query was refused, cut short, or told everything.
- `PerfectScoresAreEarned`. A number means that no check of the category is unknown (`KnownIn`), so every
  member was kept, every link is as in the truth, every version known and therefore true
  (`KnownVersions`), and every advisory that OSV holds for it in the records.
- `EvidenceNeverRaises`. Per category: without the losses it excludes, the checks for lint, types and tests
  of the report are those of the truth as soon as none of them is unknown (`SafeguardsSame`, which
  rests on tracing scripts alike in members that are alike); the two tooling checks can only get
  worse; a severity computed from fewer records is not higher than it should be
  (`SeverityGrows`), and a deprecated version stays deprecated. For the overall score the same
  categories must count on both sides (`SameApply`): a link to a member must not become a package
  when the lockfile is lost. The mean is the library's fold over a set; `TotalIs` shows that it is
  the sum of five terms, whatever the order, by a least counterexample, since the induction
  theorems themselves cannot be applied.

*Only model-checked:* the liveness properties (`AcceptedSettles`, `StopDrains`, `CallsEnd`,
`StopCompletes`, `Settles`, `FlowEnds`) and the fairness they need, which are outside the prover's
reach, as is `ENABLED`. Every invariant and every action property of a passing run is a theorem.
What recursive definitions compute is not proved for its own sake: the delegations of scripts
enter the proofs only through "equal for members that are alike".

## 6. What the checks found

1. **A fault on the final attempt strands the analysis** (`exhausted`). `repository-jobs.md:92-94`
   says the final attempt records `failed` so that the queue's row is not the only trace. The
   statements of that attempt are not retried: when one of them fails, or the worker dies, the
   job is exhausted, its key stays taken, its delivery stays `delivered`, and the analysis stays
   `queued` or `running` for ever. Retention never removes it. `AcceptedSettles` holds up to this
   case, and `OnlyFaultsExhaust` shows that nothing but a fault leads to it.
2. **A lockfile that was not acquired counts as missing** (`analysis_lockfile`). `docs/requirements.md:790`
   (SCORE-003) says unavailable evidence must not reduce a score. A lockfile that is too large, or
   whose blob failed, is not acquired, but does not make the coverage partial either
   (`packages/data-sources/src/github/adapter.ts:100-107` leaves lockfiles out), and
   `workspace-inspection.ts:639` takes "complete coverage, no lockfile" for "has no lockfile": the
   tooling check fails and the score drops.

Two more disagreements are no longer runs of their own:

- *A delivery can be cut off by the closing pool.* `docs/implementation/worker-recovery.md:24-25` says
  maintenance and queue writes finish before pool closure. `Promise.all` over a batch
  (`packages/repository-jobs/src/delivery.ts:60`) rejects with its first failed `retry`, the run looks
  finished, `stop()` goes on, and the writes of the sibling deliveries meet the closed pool
  (`refused` in `WorkerRuntime`). `ClosesQuiet` states what does hold; the lease repairs it later.
- *Acquired sources can exceed candidates.* With a configuration selector, `*.config.ts` files are not
  counted as candidates but are counted as acquired (`adapter.ts:884-886`), and a report can say
  "Acquired 1 of 0 supported source files" (`project-readiness.ts:38`).

Observed, without a statement in the repository that they contradict:

- When the queue gives away the lock of a live worker, both attempts run under the same job
  identifier. The late one's `markRetryPending` is accepted and drops the claim of the newer
  attempt, whose result is then refused; if its job has meanwhile been removed, the analysis is
  `queued` without a job. Records stay consistent (`lockloss`), but `ExclusiveExecution` and
  `UnfinishedHasJob` are claimed only without such losses.
- The answer of a sign-out that arrives after another tab connected clears the new cookie.
- `LostAccessEnds` needs `HonestSizes`: an entry whose declared size no longer fits the byte
  budget when its turn comes is dropped before its refused answer is looked at, which
  reservations exclude when declared sizes are true.

- A package declared twice with different specifiers makes the deprecated, outdated and
  vulnerability rules return one identifier twice; `pipeline.ts:205-219` then rejects the rule for all
  members. The score stays, the finding list is empty, and the report says that the rule failed:
  this is why `NoSilentGap` and `ScoreIsExplained` name `rejected`.
- npm alias specifiers (`npm:other@1.0.0`) are looked up under the alias, not the package.
- One dependency name between 215 and 500 characters refuses the whole OSV request.
- A diamond of `extends` in `json-configuration.ts` visits a shared base once: an unresolved base does
  not reset what the second path inherits.
- A root with source of its own does not collect the unparsed files of its members, and the files of
  a member whose manifest is unavailable belong to nobody; a root dependency used only there is
  called potentially unnecessary. `UnusedIsUnused` excludes the first case and says so.
- The lint check can fail when the lint configuration was not acquired.
- When a configuration that excludes tests is not acquired, the tests it excludes count:
  `MissingEvidenceNeverRaises` excludes lost configurations.
- A root of several packages whose own source is not acquired is taken for one that only orchestrates
  (`workspace.ts:234-237`): its checks no longer apply (`workspace-inspection.ts:501`) and the testing
  score can rise. `RootKeepsRole` excludes it.
- A `packageManager` without a version (`"npm"`) is a supported manager for the inspection
  (`workspace-inspection.ts:608`) but not `npm@` for the link resolver (`lockfile.ts:661-662`). When the
  lockfile is lost, a link to a member then counts as a package of npm, one more category gets a
  number, and the overall score can rise. `LinksAreKept` excludes it for the overall score only.

## 7. What is not modelled

`PROJECT.json` lists every component with its status. In short:

- *Text and formats.* Field formats of the contracts (schema declarations), package names, URLs,
  shell quoting, the grammars of lockfiles, workspace patterns, configurations and source, CVSS
  vectors, the patterns by which a path is a source, a test or a configuration. The models take
  what was read as given and are detailed about what is concluded from it; TLC could only check
  such text character by character.
- *Presentation.* The report, quick analysis and landing pages except the connection control; the
  design system; the callback relay; operations scripts.
- *Shells of other components.* Start and stop of the API process (the worker's stop, which has more
  to wait for, is `WorkerRuntime`); HTTP rate and body limits; migrations, row-level policies and
  pool construction (constant configuration; the owner check itself is a guard).
- *Cryptography.* Secrets are equal or different.
- *Kept for old data.* The legacy scorer and schema 1 reports, except where the pipeline
  distinguishes them.

## 8. What would come next

1. `ApiRuntime`: the stages of the API's shutdown, where a second caller of `stop` may return before
   the first one's work is done; `AnalysisPolling`: the report page's query interval, composed with
   `ReportReader`.
2. The classification and order of paths, which `GitHubAcquisition` and `RepositoryAnalysis` take as
   given, as functions checked against a reference definition.
3. `RepositoryAnalysis` as the analysis step of `RepositoryJobs`: the composition is by outcome today
   (a report, a failure, an exception), and the abort signal of the task is `Abort`.
4. A proof that the rounds of `advisoryAliasGroup` reach what `Identifiers` defines, which needs an
   induction over the records; TLC could compare the two on small sets of records.
