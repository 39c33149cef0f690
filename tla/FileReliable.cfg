SPECIFICATION FairSpec
CONSTANTS
    Files = {"a", "b"}
    NoFile = "none"
    NameLen <- LongFileName
    FileLen <- LongFileLen
    MaxAppData = 3
    LongMod = 16
    Threads = {t1}
    Unreliable = {}
    Refusals = {}
    MaxJobs = 3
INVARIANTS
    TypeOK
    ArrivedIntact
    OnTrack
PROPERTIES
    DeliversFiles
CHECK_DEADLOCK FALSE
