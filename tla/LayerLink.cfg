SPECIFICATION Spec
CONSTANTS
    Names = {"A", "B", "C"}
    NoLayer = "null"
    StackSize = 6
    MaxTokens = 9
INVARIANTS
    LinkedAsWritten
    NeverDown
CHECK_DEADLOCK FALSE
