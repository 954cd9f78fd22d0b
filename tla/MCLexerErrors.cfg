CONSTANTS
    Letter = {"a", "e", "f", "i", "n", "r", "u", "x"}
    Continuation = {"a9"}
    Keyword <- MCKeyword
    ReservedKeyword <- MCReservedKeyword
    Buffers <- MCBuffers
    MaxLength = 4
SPECIFICATION Spec
INVARIANTS
    ErrorsLocated
CHECK_DEADLOCK FALSE
