SPECIFICATION FairSpec
CONSTANTS
    Callers = {"ui", "worker"}
    UI = "ui"
    Addr = {"zero", "s", "a", "b", "o"}
    Adapters = {"s"}
    Typed = {"a", "b"}
    ZeroAddr = "zero"
    Hosts = {"A"}
    OwnAddr <- PeerAddr
    MaxData = 2
    MaxCalls = 2
    ForeignHeaders <- ThirdHeaders
    MaxForeign = 1
INVARIANTS
    TypeOK
    LayersGetTheirs
    HandedInOrder
PROPERTIES
    SendsWhole
CHECK_DEADLOCK FALSE
