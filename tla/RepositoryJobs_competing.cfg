\* Safety with competing queue jobs, crashes and statement errors; live locks are kept.
SPECIFICATION Spec
CONSTANTS
    a1 = a1   w1 = w1  w2 = w2
    j1 = j1  j2 = j2  j3 = j3  d1 = d1  d2 = d2
    NoJob = NoJob  NoLease = NoLease  NoAnalysis = NoAnalysis  NoWorker = NoWorker
    Analysis <- OneAnalysis
    Connected <- OneAnalysis
    Worker <- TwoWorkers
    Job <- TwoJobs
    Lease <- TwoRuns
    MaxAttempts = 2
    MaxFaults = 1
    MaxStops = 1
    Environment <- Competing
SYMMETRY Symmetry
CHECK_DEADLOCK FALSE
INVARIANTS
    ExclusiveExecution
    UnfinishedHasJob
    OnlyFaultsExhaust
PROPERTIES
    DeliveredIsFinal
