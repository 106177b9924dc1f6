------------------------ MODULE WorkerRuntime_proofs ------------------------
(* The order in which a worker process closes, for any number of deliveries in flight. *)
EXTENDS WorkerRuntime, TLAPS

\* Nothing exists before Boot.
LEMMA InitIInv == Init => IInv
<1> SUFFICES ASSUME Init PROVE IInv
  OBVIOUS
<1>1. TypeOK
  BY DEF Init, TypeOK, Write
<1>2. Startup /\ PoolMatchesStop
  BY DEF Init, Startup, PoolMatchesStop
<1>3. Stopping /\ Drained
  BY DEF Init, Stopping, Drained
<1> QED
  BY <1>1, <1>2, <1>3 DEF IInv

\* Startup goes forward, fails, or ends in a stop.
LEMMA StartupIInv ==
  ASSUME IInv, Boot \/ MigrationFails \/ Migrated \/ Started \/ StartFails
  PROVE  IInv'
<1> USE DEF IInv, Startup, process, pumps, closing
<1>1. TypeOK'
  <2>1. CASE Started
    <3>1. stopping \in BOOLEAN /\ stopping' = stopping /\ refused' = refused
      BY <2>1 DEF Started, TypeOK
    <3>2. settled' \in BOOLEAN
      BY <2>1 DEF Started, TypeOK
    <3> QED
      BY <2>1, <3>1, <3>2 DEF Started, ClearTimer, TypeOK, Write
  <2>2. CASE ~Started
    BY <2>2 DEF Boot, MigrationFails, Migrated, StartFails, EndPool, ClearTimer, TypeOK, Write
  <2> QED
    BY <2>1, <2>2
<1>2. Startup'
  BY DEF Boot, MigrationFails, Migrated, Started, StartFails, EndPool, ClearTimer
<1>3. Stopping'
  BY DEF Boot, MigrationFails, Migrated, Started, StartFails, EndPool, ClearTimer, Stopping
<1>4. Drained'
  BY DEF Boot, MigrationFails, Migrated, Started, StartFails, EndPool, ClearTimer, Drained, Stopping
<1>5. PoolMatchesStop'
  BY DEF Boot, MigrationFails, Migrated, Started, StartFails, EndPool, ClearTimer, PoolMatchesStop, Stopping, Drained
<1> QED
  BY <1>1, <1>2, <1>3, <1>4, <1>5

\* A signal or the end of the runner stops a runtime that is up, once.
LEMMA RequestIInv ==
  ASSUME IInv, Signal \/ RunnerExits \/ RunnerSettled
  PROVE  IInv'
<1> USE DEF IInv, Startup, process, pumps, closing
<1>1. TypeOK'
  <2>1. (stop' = stop /\ runner' = runner /\ pump' = pump /\ retention' = retention)
        \/ RunnerExits \/ BeginStop
    BY DEF Signal, RunnerSettled, StopRuntime
  <2>2. /\ stopping' \in BOOLEAN /\ settled' \in BOOLEAN
        /\ UNCHANGED <<main, job, delivery, awaited, utils, pool, ends, refused>>
    BY DEF TypeOK, Signal, RunnerExits, RunnerSettled
  <2>3. stop' = stop \/ stop' = "stages"
    BY <2>1 DEF RunnerExits, BeginStop
  <2>4. runner' \in {runner, "stopping", "exited"}
    BY <2>1 DEF RunnerExits, BeginStop
  <2>5. pump' \in {pump, "none"} /\ retention' \in {retention, "none"}
    BY <2>1 DEF RunnerExits, BeginStop, ClearTimer
  <2> QED
    BY <2>2, <2>3, <2>4, <2>5 DEF TypeOK
<1>2. Startup'
  BY DEF Signal, RunnerExits, RunnerSettled, StopRuntime, BeginStop, ClearTimer
<1>3. Stopping'
  BY DEF Signal, RunnerExits, RunnerSettled, StopRuntime, BeginStop, ClearTimer, Stopping
<1>4. Drained'
  BY DEF Signal, RunnerExits, RunnerSettled, StopRuntime, BeginStop, ClearTimer, Drained, Stopping
<1>5. PoolMatchesStop'
  BY DEF Signal, RunnerExits, RunnerSettled, StopRuntime, BeginStop, ClearTimer, PoolMatchesStop, Stopping, Drained
<1> QED
  BY <1>1, <1>2, <1>3, <1>4, <1>5

\* A stop goes on when its stages have settled.
LEMMA StagesIInv ==
  ASSUME IInv, StagesSettled \/ ReleaseUtils \/ CallPoolEnd \/ PoolEnded
  PROVE  IInv'
<1> USE DEF IInv, Startup, process, pumps, closing
<1>1. TypeOK'
  BY DEF StagesSettled, ReleaseUtils, CallPoolEnd, PoolEnded, EndPool, TypeOK, Write
<1>2. Startup'
  BY DEF StagesSettled, ReleaseUtils, CallPoolEnd, PoolEnded, EndPool
<1>3. Stopping'
  BY DEF StagesSettled, ReleaseUtils, CallPoolEnd, PoolEnded, EndPool, Stopping
<1>4. Drained'
  BY DEF StagesSettled, ReleaseUtils, CallPoolEnd, PoolEnded, EndPool, Drained, Stopping
<1>5. PoolMatchesStop'
  BY DEF StagesSettled, ReleaseUtils, CallPoolEnd, PoolEnded, EndPool, PoolMatchesStop, Stopping, Drained
<1> QED
  BY <1>1, <1>2, <1>3, <1>4, <1>5

\* Tasks start only on a running runner, which stops after them.
LEMMA RunnerIInv ==
  ASSUME IInv, JobStarts \/ JobFinishes \/ RunnerStopped
  PROVE  IInv'
<1> USE DEF IInv, Startup, process, pumps, closing
<1>1. TypeOK'
  BY DEF JobStarts, JobFinishes, RunnerStopped, TypeOK, Write
<1>2. Startup'
  BY DEF JobStarts, JobFinishes, RunnerStopped
<1>3. Stopping'
  BY DEF JobStarts, JobFinishes, RunnerStopped, Stopping
<1>4. Drained'
  BY DEF JobStarts, JobFinishes, RunnerStopped, Drained, Stopping
<1>5. PoolMatchesStop'
  BY DEF JobStarts, JobFinishes, RunnerStopped, PoolMatchesStop, Stopping, Drained
<1> QED
  BY <1>1, <1>2, <1>3, <1>4, <1>5

\* Only a pump that was not stopped has a timer; a claim ends its run or awaits a batch.
LEMMA RunIInv ==
  ASSUME IInv, PumpTimer \/ Claimed
  PROVE  IInv'
<1> USE DEF IInv, Startup, process, pumps, closing
<1>1. TypeOK'
  BY DEF PumpTimer, Claimed, AfterRun, TypeOK, Write
<1>2. Startup'
  BY DEF PumpTimer, Claimed, AfterRun
<1>3. Stopping'
  BY DEF PumpTimer, Claimed, AfterRun, Stopping
<1>4. Drained'
  BY DEF PumpTimer, Claimed, AfterRun, Drained, Stopping
<1>5. PoolMatchesStop'
  BY DEF PumpTimer, Claimed, AfterRun, PoolMatchesStop, Stopping, Drained
<1> QED
  BY <1>1, <1>2, <1>3, <1>4, <1>5

\* A run whose last delivery returns settles.
LEMMA DeliveredIInv ==
  ASSUME IInv, NEW s \in Slot, Delivered(s),
         UNCHANGED <<process, runner, job, retention, closing>>, refused' \in BOOLEAN
  PROVE  IInv'
<1> USE DEF IInv, Startup, process, pumps, closing
<1>1. TypeOK'
  BY DEF Delivered, AfterRun, TypeOK, Write
<1>2. Startup'
  BY DEF Delivered, AfterRun
<1>3. Stopping'
  BY DEF Delivered, AfterRun, Stopping
<1>4. Drained'
  BY DEF Delivered, AfterRun, Drained, Stopping
<1>5. PoolMatchesStop'
  BY DEF Delivered, AfterRun, PoolMatchesStop, Stopping, Drained
<1> QED
  BY <1>1, <1>2, <1>3, <1>4, <1>5

\* A rejection settles the run that awaited it; nobody awaits the others afterwards.
LEMMA RejectedIInv ==
  ASSUME IInv, NEW s \in Slot, Rejected(s),
         UNCHANGED <<process, runner, job, retention, closing>>, refused' \in BOOLEAN
  PROVE  IInv'
<1> USE DEF IInv, Startup, process, pumps, closing
<1>1. TypeOK'
  BY DEF Rejected, AfterRun, TypeOK, Write
<1>2. Startup'
  BY DEF Rejected, AfterRun
<1>3. Stopping'
  BY DEF Rejected, AfterRun, Stopping
<1>4. Drained'
  BY DEF Rejected, AfterRun, Drained, Stopping
<1>5. PoolMatchesStop'
  BY DEF Rejected, AfterRun, PoolMatchesStop, Stopping, Drained
<1> QED
  BY <1>1, <1>2, <1>3, <1>4, <1>5

\* The next write of a delivery changes nothing else.
LEMMA NextWriteIInv ==
  ASSUME IInv, NEW s \in Slot, NEW write \in Write, NextWrite(s, write),
         UNCHANGED <<process, runner, job, retention, closing>>
  PROVE  IInv'
<1> USE DEF IInv, Startup, process, pumps, closing
<1>1. TypeOK'
  BY DEF NextWrite, TypeOK, Write
<1>2. Startup'
  BY DEF NextWrite
<1>3. Stopping'
  BY DEF NextWrite, Stopping
<1>4. Drained'
  BY DEF NextWrite, Drained, Stopping
<1>5. PoolMatchesStop'
  BY DEF NextWrite, PoolMatchesStop, Stopping, Drained
<1> QED
  BY <1>1, <1>2, <1>3, <1>4, <1>5

\* The steps of the retention pump.
LEMMA RetentionIInv ==
  ASSUME IInv, RetentionTimer \/ AnalysesPurged \/ SweepEnds
  PROVE  IInv'
<1> USE DEF IInv, Startup, process, pumps, closing
<1>1. TypeOK'
  BY DEF RetentionTimer, AnalysesPurged, SweepEnds, AfterRun, TypeOK, Write
<1>2. Startup'
  BY DEF RetentionTimer, AnalysesPurged, SweepEnds, AfterRun
<1>3. Stopping'
  BY DEF RetentionTimer, AnalysesPurged, SweepEnds, AfterRun, Stopping
<1>4. Drained'
  BY DEF RetentionTimer, AnalysesPurged, SweepEnds, AfterRun, Drained, Stopping
<1>5. PoolMatchesStop'
  BY DEF RetentionTimer, AnalysesPurged, SweepEnds, AfterRun, PoolMatchesStop, Stopping, Drained
<1> QED
  BY <1>1, <1>2, <1>3, <1>4, <1>5

\* Every step of the process keeps the invariant.
LEMMA NextIInv == IInv /\ [Next]_vars => IInv'
<1> SUFFICES ASSUME IInv, [Next]_vars PROVE IInv'
  OBVIOUS
<1>1. refused \in BOOLEAN
  BY DEF IInv, TypeOK
<1>2. ASSUME NEW s \in Slot, WriteSucceeds(s) PROVE IInv'
  BY <1>1, <1>2, DeliveredIInv, RejectedIInv, NextWriteIInv DEF WriteSucceeds, Refused, Write
<1>3. ASSUME NEW s \in Slot, WriteFails(s) PROVE IInv'
  BY <1>1, <1>3, RejectedIInv, NextWriteIInv DEF WriteFails, Refused, Write
<1>4. CASE UNCHANGED vars
  BY <1>4 DEF vars, process, pumps, closing, IInv, TypeOK, Startup, Stopping, Drained,
              PoolMatchesStop
<1> QED
  BY <1>2, <1>3, <1>4, StartupIInv, RequestIInv, StagesIInv, RunnerIInv, RunIInv, RetentionIInv
     DEF Next

\* The inductive invariant of the worker process.
THEOREM Invariant == Spec => []IInv
BY InitIInv, NextIInv, PTL DEF Spec

\* When the pool closes, nothing of the runner, the pumps or an awaited delivery is left.
THEOREM ClosureIsQuiet == Spec => []ClosesQuiet
<1>1. IInv => ClosesQuiet
  BY DEF IInv, TypeOK, Startup, Stopping, Drained, PoolMatchesStop, ClosesQuiet
<1> QED
  BY <1>1, Invariant, PTL

\* The pool is ended at most once, after the utilities that use it.
THEOREM ClosureIsSingle == Spec => []ClosesOnce
<1>1. IInv => ClosesOnce
  BY DEF IInv, Drained, PoolMatchesStop, ClosesOnce
<1> QED
  BY <1>1, Invariant, PTL

\* After a stop began, no task, no sweep and no delivery run starts.
THEOREM NothingStartsLate == Spec => NothingStartsAfterStop
<1> DEFINE Quiet == stop # "none" =>
                       /\ job' = "task" => job = "task"
                       /\ pump' \in {"timer", "claim"} => pump = pump'
                       /\ retention' # "none" => retention = retention'
<1>1. IInv /\ [Next]_vars => Quiet
  <2> SUFFICES ASSUME IInv, [Next]_vars, stop # "none"
               PROVE  /\ job' = "task" => job = "task"
                      /\ pump' \in {"timer", "claim"} => pump = pump'
                      /\ retention' # "none" => retention = retention'
    OBVIOUS
  <2> USE DEF IInv, Startup, Stopping, process, pumps, closing
  <2>1. CASE Boot \/ MigrationFails \/ Migrated \/ Started \/ StartFails
    BY <2>1 DEF Boot, MigrationFails, Migrated, Started, StartFails, ClearTimer
  <2>2. CASE Signal \/ RunnerExits \/ RunnerSettled
    BY <2>2 DEF Signal, RunnerExits, RunnerSettled, StopRuntime
  <2>3. CASE StagesSettled \/ ReleaseUtils \/ CallPoolEnd \/ PoolEnded
    BY <2>3 DEF StagesSettled, ReleaseUtils, CallPoolEnd, PoolEnded
  <2>4. CASE JobStarts \/ JobFinishes \/ RunnerStopped
    BY <2>4 DEF JobStarts, JobFinishes, RunnerStopped
  <2>5. CASE PumpTimer \/ Claimed
    BY <2>5 DEF PumpTimer, Claimed, AfterRun
  <2>6. ASSUME NEW s \in Slot, WriteSucceeds(s) \/ WriteFails(s)
        PROVE  pump' \in {pump, "none"} /\ job' = job /\ retention' = retention
    BY <2>6 DEF WriteSucceeds, WriteFails, Refused, NextWrite, Delivered, Rejected, AfterRun
  <2>7. CASE RetentionTimer \/ AnalysesPurged \/ SweepEnds
    BY <2>7 DEF RetentionTimer, AnalysesPurged, SweepEnds, AfterRun
  <2>8. CASE UNCHANGED vars
    BY <2>8 DEF vars
  <2> QED
    BY <2>1, <2>2, <2>3, <2>4, <2>5, <2>6, <2>7, <2>8 DEF Next
<1>2. IInv /\ [Next]_vars => [Quiet]_vars
  BY <1>1
<1> QED
  BY <1>2, Invariant, PTL DEF Spec, NothingStartsAfterStop
=============================================================================
