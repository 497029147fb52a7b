SPECIFICATION FairSpec
CONSTANTS
    Addresses = {0, 1}
    MaxEvents = 3
INVARIANTS TypeOK PanicOnlyAfterStale NotWaitingForNothing
PROPERTY TransferEnds
CHECK_DEADLOCK FALSE
