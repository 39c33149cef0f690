SPECIFICATION FairSpec
CONSTANTS
    Files = {"a", "c", "d"}
    NoFile = "none"
    NameLen <- AnyFileName
    FileLen <- AnyFileLen
    MaxAppData = 3
    LongMod = 16
    Threads = {t1}
    Unreliable <- AllTypes
    Refusals <- AllRefusals
    MaxJobs = 2
INVARIANTS
    BytesInPlace
    LostChunksLeaveHoles
    DeathNeedsLostFrame
    LeakNeedsLostLast
PROPERTIES
    EveryRunEnds
CHECK_DEADLOCK FALSE
