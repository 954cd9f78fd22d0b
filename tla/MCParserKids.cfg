CONSTANTS
    Identifiers <- MCIdentifiers
    LiteralKind <- MCLiteralKind
    TupleIndexes <- MCTupleIndexes
    FloatParts <- MCFloatParts
    CountLimit = 65536
    NameLimit = 1073741824
    NullNode = NullNode
    Inputs <- MCInputsTail
SPECIFICATION Spec
INVARIANTS
    KidsAsTabulated
CHECK_DEADLOCK FALSE
