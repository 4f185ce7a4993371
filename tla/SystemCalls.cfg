SPECIFICATION MCSpec
CONSTANTS
    Results = {1, 2}
    NumSlots = 4
    FirstUnix = 3
    NumUnix = 6
    MaxOpen = 1
    Names = {a, b}
    Inodes = {1, 2, 3, 4, 5}
    Bytes = {0}
    Empty = Empty
    MaxLength = 1
    NULL = NULL
    Stale = Stale
    Width = 8
    Chars = {45, 48, 49, 50, 55, 56, 120}
    MaxTyped = 5
    MAX_SIZE = 3
    Letters = {1, 2}
    MaxText = 6
CHECK_DEADLOCK FALSE
SYMMETRY NameSymmetry
INVARIANTS
    
    DescriptorsOwned
    OpenFilesLinked
    
    StringPrintedWhole
