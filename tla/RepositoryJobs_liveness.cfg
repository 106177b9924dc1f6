\* Every accepted analysis settles and every stop drains, under FairSpec.
SPECIFICATION FairSpec
CONSTANTS
    a1 = a1   w1 = w1  w2 = w2
    j1 = j1  j2 = j2  j3 = j3  d1 = d1  d2 = d2
    NoJob = NoJob  NoLease = NoLease  NoAnalysis = NoAnalysis  NoWorker = NoWorker
    Analysis <- OneAnalysis
    Connected <- OneAnalysis
    Worker <- OneWorker
    Job <- TwoJobs
    Lease <- OneRun
    MaxAttempts = 2
    MaxFaults = 2
    MaxStops = 1
    Environment <- Calm
CHECK_DEADLOCK FALSE
PROPERTIES
    AcceptedSettles
    StopDrains
