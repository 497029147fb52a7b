SPECIFICATION Spec
CONSTANTS
    StageWords = 5
    FifoWords = 9
    MsgTypes = {2, 4, 15}
    MaxPackets = 4
    MaxPerCall = 3
    MaxReplies = 1
    MaxUnmounts = 1
INVARIANTS
    TypeOK
    NeverTorn
    InOrder
