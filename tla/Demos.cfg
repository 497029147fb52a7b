CONSTANTS
    Programs = {"posix", "lwip", "rtos", "app"}
    MaxTyped = 1
    MaxPolls = 3
    MaxByeTicks = 2
    MaxSigints = 3
SPECIFICATION FairSpec
INVARIANTS
    TypeOK
    NothingLeftBehind
    RepeatsRole
    EndsCleanly
PROPERTIES
    QuitsOnFreshInput
    EndIsNoticed
    CtrlCEnds
CHECK_DEADLOCK FALSE
