\* Two operations compete for a pool of one client.
SPECIFICATION FairSpec
CONSTANTS
    Op = {find, save}
    PoolSize = 1
CHECK_DEADLOCK FALSE
INVARIANTS
    ReleasedOnce
    ReturnedClean
    OkIsCommitted
PROPERTIES
    CallsEnd
