\* One connected acquisition of each tree, with any selector, any answers and an abort.
SPECIFICATION FairSpec
CONSTANTS
    Unknown = Unknown
    Path <- MCPath  Sha <- MCSha  Content <- MCContent  Trees <- MCTrees
    Root = "root"
    Connected = TRUE  Selecting = TRUE
    MaxFiles = 4  MaxFileBytes = 2  MaxTotalFileBytes = 5  MaxRequests = 6
    BatchSize = 2
CHECK_DEADLOCK FALSE
INVARIANTS
    IInv
    NothingLostSilently
    CompleteMeansAll
    LostAccessEnds
PROPERTIES
    Settles
