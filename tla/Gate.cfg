SPECIFICATION Spec
CONSTANTS
    Keys <- KeysSysEx7
    OtherTypes = {2}
    FifoWords = 4
    MaxMessages = 3
    MaxParts = 4
    MaxUnmounts = 1
    Builds <- AllBuilds
INVARIANTS
    TypeOK
    NeverSpliced
    OpenOnlyWhileOwed
    NothingStray
    LossIsBounded
