CONSTANTS
    Boards = {"pico_w"}
    DefaultRole = "Client"
    KLinkHold = 1
    KRejoinRetry = 5
SPECIFICATION FairSpec
INVARIANT NothingPollsDownChip
