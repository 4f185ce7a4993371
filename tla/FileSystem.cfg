SPECIFICATION MCSpec
CONSTANTS
    NumSectors = 9
    NumDirEntries = 2
    SectorSize = 2
    EntrySize = 2
    PartSize = 3
    NumDirect = 2
    Names = {a, b, long1, long2}
    Long1 = long1
    Long2 = long2
    LongPrefix = long
    Stored <- MCStored
    Lengths = {0, 3}
    NoName = noname
    FileLengths = {0, 4, 5}
    Bytes = {1, 2}
    MaxRequest = 4
    MaxPosition = 6
    Junk = 0
    SectorsPerTrack = 4
    NumTracks = 3
    RotationTime = 3
    SeekTime = 4
    Pauses = {0, 1, 2, 3}
    MaxTicks = 40
INVARIANTS
    
    DoneWithSector
PROPERTIES
    ImplementsCatalog
    ImplementsByteFile
