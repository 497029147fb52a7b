SPECIFICATION Spec
CHECK_DEADLOCK FALSE
CONSTANTS
    Keys <- KeysOneGroup
    MaxMessages = 3
    MaxParts = 4
    MaxResets = 1
INVARIANTS
    TypeOK
    NeverSpliced
    AgreesWithReceiver
    OnlyBrokenLost
