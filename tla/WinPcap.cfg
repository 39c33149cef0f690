SPECIFICATION FairSpec
CONSTANTS
    Sizes = {1, 2}
    FileHeader = 2
    USec = 2
    Wrap = 16
    MaxPackets = 2
    Chars = {"a", "b", "c"}
    Nul = "nul"
    AdapterNames <- MCAdapterNames
    Max_Num_Adapter = 2
    HdrLen = 3
    CapLens = {1, 4}
    Alignment = 4
    MaxRecords = 2
    MaxCaptured = 2
INVARIANTS
    TypeOK
    NothingStale
    GivesBack
    HandlersRight
    
    
    BridgesSafely
PROPERTIES
    NeverStuck
CHECK_DEADLOCK FALSE
