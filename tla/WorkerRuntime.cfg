\* One worker process with up to two deliveries in flight.
SPECIFICATION FairSpec
CONSTANTS
    Slot = {d1, d2}
CHECK_DEADLOCK FALSE
INVARIANTS
    ClosesQuiet
PROPERTIES
    NothingStartsAfterStop
    StopCompletes
