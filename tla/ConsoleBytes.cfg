SPECIFICATION MCSpec
CONSTANTS
    Threads = {t1}
    Sectors = {s1, s2}
    Data = {blank, d1}
    Blank = blank
    Typed <- MCBytes
PROPERTIES
    KeysAreEchoed
