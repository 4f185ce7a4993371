SPECIFICATION MCSpec
CONSTANTS
    Threads = {t1, t2, t3}
    Sectors = {s1, s2}
    Data = {blank, d1}
    Blank = blank
    Typed <- MCKeys
INVARIANTS
    SectorTransferred
    CharsKept
PROPERTIES
    KeysAreEchoed
