CONSTANTS
    Path <- MCPath
    ModName <- MCModName
    FileDotEt <- MCFileDotEt
    ModDotEt <- MCModDotEt
    NoPath = NoPath
    Disks <- MCDisks
SPECIFICATION Spec
INVARIANT DiscoversAll
