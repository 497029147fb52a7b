CONSTANTS
    Boards = {"nxp"}
    DefaultRole = "Client"
    KLinkHold = 1
    KRejoinRetry = 5
SPECIFICATION FairSpec
INVARIANT StaticStays
