CONSTANTS
    Boards = {"pico", "pico_w", "nxp"}
    DefaultRole = "Client"
    KLinkHold = 1
    KRejoinRetry = 5
SPECIFICATION FairSpec
INVARIANTS
    TypeOK
    RunsAsStored
    OneActivity
PROPERTIES
    SessionHasEnds
    UnattendedRuns
    OutageEnds
    ReinvitesAfterOutage
