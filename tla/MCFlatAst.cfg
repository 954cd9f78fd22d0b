CONSTANTS
    CountLimit = 2
    NameLimit = 3
    NullNode = NullNode
    Str = {empty, x, y}
    EmptyStr = empty
    FileId = {f1, f2}
    Op = {1}
    MaxKids = 2
    KidLists <- MCKidLists
    MaxNodes = 2
SYMMETRY Symmetry
SPECIFICATION Spec
INVARIANTS
    SlicesTile
    SameNameSameId
    ReadsBack
    Canonical
PROPERTIES
    Stable
CHECK_DEADLOCK FALSE
