CONSTANTS
    Path <- MCPath
    ModName <- MCModName
    FileDotEt <- MCFileDotEt
    ModDotEt <- MCModDotEt
    NoPath = NoPath
    Disks <- MCAllDisks
    CommandLines <- MCCommandLines
    MaxArgs = 3
SPECIFICATION Spec
INVARIANTS
    OptionsAreTheLine
    EarlierPacksBuilt
    
PROPERTIES
    ProgramEnds
CHECK_DEADLOCK FALSE
