SPECIFICATION Spec
CONSTANTS
    NumSlots = 4
    FirstUnix = 3
    NumUnix = 6
    Names = {a, b}
    Inodes = {1, 2, 3, 4, 5}
    Bytes = {0}
    Empty = Empty
    MaxLength = 1
    NULL = NULL
    Stale = Stale
CHECK_DEADLOCK FALSE
INVARIANT HeldFilesOpen
