SPECIFICATION FairSpec
CONSTANTS
    MsgTypes = {2, 4, 15}
    DataNibble = 2
    MaxPackets = 3
    MaxUnmounts = 1
    FifoWords = 5
    TxSlots = 1
    kMaxUmpPerPass = 2
    Builds <- AllBuilds
INVARIANTS
    TypeOK
    LineFramed
    SentWhole
PROPERTIES
    ImplementsPacketPipe
    RetriedWhileUsbHasData
    DiscoveryAnswered
