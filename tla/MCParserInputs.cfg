CONSTANTS
    Identifiers <- MCIdentifiers
    LiteralKind <- MCLiteralKind
    TupleIndexes <- MCTupleIndexes
    FloatParts <- MCFloatParts
    CountLimit = 65536
    NameLimit = 1073741824
    NullNode = NullNode
    Inputs <- MCInputs
SPECIFICATION Spec
INVARIANTS
    TypeOK
    LoopsEnd
    RoundTrip
    SpellsBack
    OneParent
    SpansNest
    KidsAsLaidOut
    MessagesFilled
    RecoveryIsLocal
PROPERTIES
    DeclConsumes
CHECK_DEADLOCK FALSE
