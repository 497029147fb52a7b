SPECIFICATION FairSpec
CONSTANTS
    Addresses = {0, 1}
    MaxEvents = 3
INVARIANT NoPanic
CHECK_DEADLOCK FALSE
