SPECIFICATION FairSpec
CONSTANTS
    Adapters = {"a", "b"}
    NoAddr = NoAddr
    Garbage = Garbage
    Texts <- MCTexts
    MaxThreads = 2
    MaxChoices = 2
    MaxPackets = 2
    HastyPackets = 1
INVARIANTS
    TypeOK
    FramesGoWhereShown
    ReaderDownNeedsFailedOpen
    PassedInOrder
    PassedWhole
    FilterIsAdapter
PROPERTIES
    AddressAsTyped
    ReadersStop
    PacketsHeard
CHECK_DEADLOCK FALSE
