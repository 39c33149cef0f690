SPECIFICATION FairSpec
CONSTANTS
    Files = {"a", "b"}
    NoFile = "none"
    NameLen <- LongFileName
    FileLen <- LongFileLen
    MaxAppData = 3
    LongMod = 16
    Threads = {t1, t2}
    Unreliable = {}
    Refusals = {}
    MaxJobs = 2
INVARIANT
    ArrivedIntact
CHECK_DEADLOCK FALSE
