CONSTANTS
    Letter = {"a", "e", "f", "i", "n", "r", "u", "x"}
    Continuation = {"a9"}
    Keyword <- MCKeyword
    ReservedKeyword <- MCReservedKeyword
    Buffers <- MCBuffers
    MaxLength = 4
SPECIFICATION Spec
INVARIANTS
    NothingSkipped
    StreamInOrder
    RelexAgrees
PROPERTIES
    LexEnds
CHECK_DEADLOCK FALSE
