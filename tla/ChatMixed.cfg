SPECIFICATION Spec
CONSTANTS
    Lengths = {1, 2, 4, 5}
    CharMax = 2
    UShortMax = 7
    UCharMax = 3
    Unreliable <- AllTypes
    MaxTexts = 3
INVARIANTS
    ShownOnlyIfComplete
CHECK_DEADLOCK FALSE
