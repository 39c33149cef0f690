SPECIFICATION FairSpec
CONSTANTS
    Files = {"a", "c", "d"}
    NoFile = "none"
    NameLen <- AnyFileName
    FileLen <- AnyFileLen
    MaxAppData = 3
    LongMod = 16
    Threads = {t1}
    Unreliable = {}
    Refusals = {}
    MaxJobs = 2
INVARIANT
    ArrivedIntact
CHECK_DEADLOCK FALSE
