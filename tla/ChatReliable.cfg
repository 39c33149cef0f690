SPECIFICATION FairSpec
CONSTANTS
    Lengths = {1, 2, 3, 4, 5, 6}
    CharMax = 2
    UShortMax = 7
    UCharMax = 3
    Unreliable = {}
    MaxTexts = 3
INVARIANTS
    TypeOK
PROPERTIES
    DeliversTexts
CHECK_DEADLOCK FALSE
