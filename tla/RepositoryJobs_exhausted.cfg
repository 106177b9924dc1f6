\* repository-jobs.md says a final attempt never leaves its job behind as the only record.
SPECIFICATION Spec
CONSTANTS
    a1 = a1   w1 = w1  w2 = w2
    j1 = j1  j2 = j2  j3 = j3  d1 = d1  d2 = d2
    NoJob = NoJob  NoLease = NoLease  NoAnalysis = NoAnalysis  NoWorker = NoWorker
    Analysis <- OneAnalysis
    Connected <- NoConnected
    Worker <- OneWorker
    Job <- TwoJobs
    Lease <- OneRun
    MaxAttempts = 1
    MaxFaults = 1
    MaxStops = 0
    Environment <- Calm
CHECK_DEADLOCK FALSE
INVARIANTS
    ExhaustedJobIsSettled
