CONSTANTS
    Path <- MCPath
    ModName <- MCModName
    FileDotEt <- MCFileDotEt
    ModDotEt <- MCModDotEt
    NoPath = NoPath
    Disks <- MCDisks
SPECIFICATION FairSpec
INVARIANTS
    InProgressIsStack
    ResultsAreFinished
    SuccessIsComplete
    FailureHasCause
    ParsedOnce
    ParseErrorsReported
PROPERTIES
    PackTerminates
    BuildsPack
