---------------------------- MODULE WorkerRuntime ----------------------------
(***************************************************************************)
(* The life of one worker process: main.ts and startStackLensWorker build  *)
(* the pool, the worker utilities, the delivery pump, the Graphile runner  *)
(* and the retention pump, and take them down again on a signal, on a      *)
(* failed startup or when the runner exits.  A write issued on the pool    *)
(* once pool.end was called is refused; pool.end itself waits for the      *)
(* writes already accepted.                                                *)
(***************************************************************************)
EXTENDS Naturals

CONSTANT Slot       \* deliveries that can be in flight at once

VARIABLES
    main,       \* how far startup got
    stopping,   \* main.ts: a stop was requested
    settled,    \* main.ts ran its handler of runner.promise, or never attached it
    stop,       \* how far runtime.stop(), or the cleanup of a failed startup, got
    runner,     \* the Graphile runner
    job,        \* a task executes, or its final queue write is unfinished
    pump,       \* the delivery pump: its timer, or what its current run does
    delivery,   \* the write each dispatchDelivery in flight waits for
    awaited,    \* the deliveries the current run awaits
    retention,  \* the retention pump: its timer, or what its current sweep does
    utils,      \* worker utilities: none, open or released
    pool,       \* none, open, ending (end was called) or ended
    ends,       \* calls to pool.end
    refused     \* a delivery write was refused by the closed pool

process == <<main, stopping, settled, stop>>
pumps   == <<pump, delivery, awaited, retention>>
closing == <<utils, pool, ends>>
vars    == <<process, runner, job, pumps, closing, refused>>

Write == {"enqueue", "mark", "retry"}

TypeOK ==
    /\ main \in {"new", "migrating", "starting", "up", "failed"}
    /\ stopping \in BOOLEAN /\ settled \in BOOLEAN
    /\ stop \in {"none", "stages", "release", "end", "done"}
    /\ runner \in {"none", "running", "stopping", "stopped", "exited"}
    /\ job \in {"none", "task"}
    /\ pump \in {"none", "timer", "claim", "dispatch"}
    /\ delivery \in [Slot -> {"none"} \cup Write]
    /\ awaited \in SUBSET Slot
    /\ retention \in {"none", "timer", "analyses", "connections"}
    /\ utils \in {"none", "open", "released"}
    /\ pool \in {"none", "open", "ending", "ended"}
    /\ ends \in Nat
    /\ refused \in BOOLEAN

Init ==
    /\ main = "new" /\ stopping = FALSE /\ settled = FALSE /\ stop = "none"
    /\ runner = "none" /\ job = "none"
    /\ pump = "none" /\ retention = "none"
    /\ delivery = [s \in Slot |-> "none"] /\ awaited = {}
    /\ utils = "none" /\ pool = "none" /\ ends = 0
    /\ refused = FALSE

(***************************************************************************)
(* Taking the runtime down.                                                *)
(***************************************************************************)
EndPool ==
    /\ pool' = "ending"
    /\ ends' = ends + 1

\* Both pumps' stop(): the flag `stopped', which is stop # "none", and clearTimeout.
ClearTimer(p) == IF p = "timer" THEN "none" ELSE p

BeginStop ==
    /\ stop' = "stages"
    /\ runner' = IF runner = "running" THEN "stopping" ELSE runner
    /\ pump' = ClearTimer(pump)
    /\ retention' = ClearTimer(retention)

\* runtime.stop(): every caller shares the promise of the first one.
StopRuntime ==
    IF stop = "none" THEN BeginStop ELSE UNCHANGED <<stop, runner, pump, retention>>

(***************************************************************************)
(* main.ts and startup.                                                    *)
(***************************************************************************)
Boot ==
    /\ main = "new"
    /\ main' = "migrating"
    /\ pool' = "open"
    /\ UNCHANGED <<stopping, settled, stop, runner, job, pumps, utils, ends, refused>>

MigrationFails ==
    /\ main = "migrating"
    /\ main' = "failed"
    /\ stop' = "done"
    /\ EndPool
    /\ UNCHANGED <<stopping, settled, runner, job, pumps, utils, refused>>

\* makeWorkerUtils succeeded; the pump's first run claims at once, run() is pending.
Migrated ==
    /\ main = "migrating"
    /\ main' = "starting"
    /\ utils' = "open"
    /\ pump' = "claim"
    /\ UNCHANGED <<stopping, settled, stop, runner, job, delivery, awaited, retention, pool,
                   ends, refused>>

Started_ForgetSignal ==         \* mutant: `stopping' is not tested after startup
    /\ main = "starting" /\ stop = "none"
    /\ main' = "up"
    /\ runner' = "running" /\ retention' = "analyses"
    /\ UNCHANGED <<stopping, settled, stop, job, pump, delivery, awaited, closing, refused>>

\* run() resolves and the retention pump starts with a sweep.  A signal that came during
\* startup stops the runtime now that there is one.
Started ==
    /\ main = "starting" /\ stop = "none"
    /\ main' = "up"
    /\ retention' = "analyses"
    /\ \/ /\ stopping
          /\ settled' = TRUE
          /\ stop' = "stages" /\ runner' = "stopping" /\ pump' = ClearTimer(pump)
       \/ ~stopping /\ runner' = "running" /\ UNCHANGED <<settled, stop, pump>>
    /\ UNCHANGED <<stopping, job, delivery, awaited, closing, refused>>

StartFails_CloseAtOnce ==       \* mutant: the pump's run is not awaited
    /\ main = "starting" /\ stop = "none"
    /\ stop' = "release"
    /\ pump' = ClearTimer(pump)
    /\ UNCHANGED <<main, stopping, settled, runner, job, delivery, awaited, retention, closing, refused>>

\* run() rejects: the pump is stopped and awaited, then the utilities and the pool go.
StartFails ==
    /\ main = "starting" /\ stop = "none"
    /\ stop' = "stages"
    /\ pump' = ClearTimer(pump)
    /\ UNCHANGED <<main, stopping, settled, runner, job, delivery, awaited, retention, closing, refused>>

Signal ==
    /\ main \in {"migrating", "starting", "up"} /\ ~stopping
    /\ stopping' = TRUE
    /\ IF main = "up" THEN StopRuntime ELSE UNCHANGED <<stop, runner, pump, retention>>
    /\ UNCHANGED <<main, settled, job, delivery, awaited, closing, refused>>

RunnerExits ==
    /\ runner = "running" /\ job = "none"
    /\ runner' = "exited"
    /\ UNCHANGED <<process, job, pumps, closing, refused>>

\* main.ts's handler of runner.promise, after a stop or an exit.
RunnerSettled ==
    /\ main = "up" /\ runner \in {"stopped", "exited"} /\ ~settled
    /\ settled' = TRUE
    /\ stopping' = TRUE
    /\ StopRuntime
    /\ UNCHANGED <<main, job, delivery, awaited, closing, refused>>

(***************************************************************************)
(* The stages of a stop.                                                   *)
(***************************************************************************)
StagesSettled ==
    /\ stop = "stages"
    /\ runner \notin {"running", "stopping"}
    /\ pump = "none" /\ retention = "none"
    /\ stop' = "release"
    /\ UNCHANGED <<main, stopping, settled, runner, job, pumps, closing, refused>>

\* Whether or not the utilities' release rejects, the pool is ended.
ReleaseUtils ==
    /\ stop = "release"
    /\ stop' = "end"
    /\ utils' = "released"
    /\ UNCHANGED <<main, stopping, settled, runner, job, pumps, pool, ends, refused>>

CallPoolEnd ==
    /\ stop = "end"
    /\ stop' = "done"
    /\ main' = IF main = "starting" THEN "failed" ELSE main
    /\ EndPool
    /\ UNCHANGED <<stopping, settled, runner, job, pumps, utils, refused>>

PoolEnded ==
    /\ pool = "ending"
    /\ \A s \in Slot : delivery[s] = "none"
    /\ pool' = "ended"
    /\ UNCHANGED <<process, runner, job, pumps, utils, ends, refused>>

(***************************************************************************)
(* The runner and its tasks.                                               *)
(***************************************************************************)
JobStarts ==
    /\ runner = "running" /\ job = "none"
    /\ job' = "task"
    /\ UNCHANGED <<process, runner, pumps, closing, refused>>

JobFinishes ==
    /\ job = "task"
    /\ job' = "none"
    /\ UNCHANGED <<process, runner, pumps, closing, refused>>

RunnerStopped ==
    /\ runner = "stopping" /\ job = "none"
    /\ runner' = "stopped"
    /\ UNCHANGED <<process, job, pumps, closing, refused>>

(***************************************************************************)
(* The delivery pump.                                                      *)
(***************************************************************************)
\* `running' settles: its finally block sets the next timer unless the pump was stopped.
AfterRun == IF stop = "none" THEN "timer" ELSE "none"

PumpTimer ==
    /\ pump = "timer"
    /\ pump' = "claim"
    /\ UNCHANGED <<process, runner, job, delivery, awaited, retention, closing, refused>>

\* A run's claim returns some deliveries, none, or an error.
Claimed ==
    /\ pump = "claim"
    /\ \E batch \in SUBSET {s \in Slot : delivery[s] = "none"} :
          /\ delivery' = [s \in Slot |-> IF s \in batch THEN "enqueue" ELSE delivery[s]]
          /\ awaited' = batch
          /\ pump' = IF batch = {} THEN AfterRun ELSE "dispatch"
    /\ UNCHANGED <<process, runner, job, retention, closing, refused>>

\* dispatchDelivery returned: Promise.all waits for the others of the run.
Delivered(s) ==
    /\ delivery' = [delivery EXCEPT ![s] = "none"]
    /\ awaited' = awaited \ {s}
    /\ pump' = IF awaited = {s} THEN AfterRun ELSE pump

\* dispatchDelivery rejected: Promise.all rejects at once and the run settles, while the
\* other deliveries of the run go on with nobody awaiting them.
Rejected(s) ==
    /\ delivery' = [delivery EXCEPT ![s] = "none"]
    /\ \/ s \in awaited /\ awaited' = {} /\ pump' = AfterRun
       \/ s \notin awaited /\ UNCHANGED <<awaited, pump>>

NextWrite(s, write) ==
    /\ pool = "open"
    /\ delivery' = [delivery EXCEPT ![s] = write]
    /\ UNCHANGED <<pump, awaited, refused>>

\* The closed pool refuses the next write, and the retry after it.
Refused(s) ==
    /\ pool # "open"
    /\ Rejected(s)
    /\ refused' = TRUE

WriteSucceeds(s) ==
    /\ \/ delivery[s] = "enqueue" /\ (NextWrite(s, "mark") \/ Refused(s))
       \/ delivery[s] \in {"mark", "retry"} /\ Delivered(s) /\ UNCHANGED refused
    /\ UNCHANGED <<process, runner, job, retention, closing>>

WriteFails(s) ==
    /\ \/ delivery[s] \in {"enqueue", "mark"} /\ (NextWrite(s, "retry") \/ Refused(s))
       \/ delivery[s] = "retry" /\ Rejected(s) /\ UNCHANGED refused
    /\ UNCHANGED <<process, runner, job, retention, closing>>

(***************************************************************************)
(* The retention pump.                                                     *)
(***************************************************************************)
RetentionTimer ==
    /\ retention = "timer"
    /\ retention' = "analyses"
    /\ UNCHANGED <<process, runner, job, pump, delivery, awaited, closing, refused>>

\* The connections are swept after the analyses, unless a stop came in between.
AnalysesPurged ==
    /\ retention = "analyses"
    /\ retention' = IF stop = "none" THEN "connections" ELSE AfterRun
    /\ UNCHANGED <<process, runner, job, pump, delivery, awaited, closing, refused>>

SweepEnds_AlwaysReschedule ==   \* mutant: `stopped' is not tested
    /\ retention \in {"analyses", "connections"}
    /\ retention' = "timer"
    /\ UNCHANGED <<process, runner, job, pump, delivery, awaited, closing, refused>>

\* The sweep failed, or the connections' sweep ended, failed or was aborted.
SweepEnds ==
    /\ retention \in {"analyses", "connections"}
    /\ retention' = AfterRun
    /\ UNCHANGED <<process, runner, job, pump, delivery, awaited, closing, refused>>

Next ==
    \/ Boot \/ MigrationFails \/ Migrated \/ Started \/ StartFails
    \/ Signal \/ RunnerExits \/ RunnerSettled
    \/ StagesSettled \/ ReleaseUtils \/ CallPoolEnd \/ PoolEnded
    \/ JobStarts \/ JobFinishes \/ RunnerStopped
    \/ PumpTimer \/ Claimed \/ (\E s \in Slot : WriteSucceeds(s) \/ WriteFails(s))
    \/ RetentionTimer \/ AnalysesPurged \/ SweepEnds

\* Startup decides, statements return, promise continuations run, and a task ends (it is
\* aborted one second after the stop).  Signals and timers may come or not.
Fairness ==
    /\ WF_vars(MigrationFails \/ Migrated) /\ WF_vars(Started \/ StartFails)
    /\ WF_vars(RunnerSettled) /\ WF_vars(StagesSettled) /\ WF_vars(ReleaseUtils)
    /\ WF_vars(CallPoolEnd) /\ WF_vars(PoolEnded)
    /\ WF_vars(JobFinishes) /\ WF_vars(RunnerStopped) /\ WF_vars(Claimed)
    /\ \A s \in Slot : WF_vars(WriteSucceeds(s) \/ WriteFails(s))
    /\ WF_vars(AnalysesPurged \/ SweepEnds)

Spec     == Init /\ [][Next]_vars
FairSpec == Spec /\ Fairness

(***************************************************************************)
(* The inductive invariant.                                                *)
(***************************************************************************)
\* What exists at each point of startup.
Startup ==
    /\ main \in {"new", "migrating"} =>
           stop = "none" /\ utils = "none" /\ pump = "none" /\ awaited = {}
    /\ main # "up" => runner = "none" /\ retention = "none"
    /\ main = "failed" => stop = "done"

\* Once a stop began no pump has a timer.
Stopping == stop # "none" => runner # "running" /\ pump # "timer" /\ retention # "timer"

\* What the stages of a stop have waited for stays that way.
Drained ==
    /\ stop \in {"release", "end", "done"} =>
           runner # "stopping" /\ pump = "none" /\ retention = "none"
    /\ stop \in {"end", "done"} => utils # "open"
    /\ job = "task" => runner \in {"running", "stopping"}
    /\ awaited # {} => pump = "dispatch"

PoolMatchesStop ==
    /\ pool \in {"ending", "ended"} <=> stop = "done"
    /\ ends = IF stop = "done" THEN 1 ELSE 0

\* Types, and what each stage of startup and of a stop may rely on.
IInv == TypeOK /\ Startup /\ Stopping /\ Drained /\ PoolMatchesStop

(***************************************************************************)
(* Properties.                                                             *)
(***************************************************************************)
\* When the pool closes, no task executes, no sweep runs,
\* and every delivery still in flight was abandoned by a run that settled early.
ClosesQuiet ==
    pool \in {"ending", "ended"} =>
        /\ job = "none" /\ runner \notin {"running", "stopping"}
        /\ pump = "none" /\ retention = "none" /\ awaited = {}

\* pool.end rejects when it is called again, and must follow the utilities that use it.
ClosesOnce ==
    /\ ends <= 1
    /\ ends = 1 => utils # "open"

\* After a stop began, no task, no sweep and no delivery starts.
NothingStartsAfterStop ==
    [][stop # "none" =>
         /\ job' = "task" => job = "task"
         /\ pump' \in {"timer", "claim"} => pump = pump'
         /\ retention' # "none" => retention = retention']_vars

\* main.ts, "A signal during migrations must also stop the runner as soon as startup
\* completes": every stop request, whenever it comes, and every exit of the runner end
\* with the pool closed.
StopCompletes == stopping \/ runner = "exited" ~> pool = "ended"
=============================================================================
