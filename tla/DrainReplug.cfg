SPECIFICATION Spec
CONSTANTS
    MsgTypes = {2, 4, 15}
    DataNibble = 2
    MaxPackets = 3
    MaxUnmounts = 2
    FifoWords = 5
    TxSlots = 1
    kMaxUmpPerPass = 2
    Builds <- OnlyNxpHost
INVARIANTS
    NeverHalfPacket
