CONSTANTS
    Buffers <- MCBuffers
    Scripts <- MCScripts
    Radix = 10
SPECIFICATION FairSpec
INVARIANTS
    CacheTruthful
    LinesNumbered
    GutterHolds
    MarksShowSpan
    SpanShown
    MarksUnderText
    SaysEverything
    PrintedInOrder
PROPERTIES
    PrintingEnds
CHECK_DEADLOCK FALSE
