\* Safety that survives the queue giving away the lock of a live worker.
SPECIFICATION Spec
CONSTANTS
    a1 = a1   w1 = w1  w2 = w2
    j1 = j1  j2 = j2  j3 = j3  d1 = d1  d2 = d2
    NoJob = NoJob  NoLease = NoLease  NoAnalysis = NoAnalysis  NoWorker = NoWorker
    Analysis <- OneAnalysis
    Connected <- NoConnected
    Worker <- TwoWorkers
    Job <- TwoJobs
    Lease <- OneRun
    MaxAttempts = 2
    MaxFaults = 2
    MaxStops = 0
    Environment <- Foreign
SYMMETRY Symmetry
CHECK_DEADLOCK FALSE
INVARIANTS
    ReportMatchesStatus
PROPERTIES
    TerminalIsFinal
    OnlyOwnerWrites
    KeepsPromise
