SPECIFICATION FairSpec
CONSTANTS
    kHostTxQWords = 7
    DriverWords = 5
    MsgTypes = {2, 4, 15}
    DataNibble = 15
    EndTypes = {3}
    MaxPackets = 4
    MaxUnmounts = 1
INVARIANTS
    TypeOK
    InOrder
PROPERTIES
    Drained
