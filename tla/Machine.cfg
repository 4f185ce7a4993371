SPECIFICATION MCSpec
CONSTANTS
    ByteBits = 1
    PageSize = 8
    NumPhysPages = 3
    JumpBits = 1
    MaxSteps = 3
    Results = {3}
    Gprs <- MCGprs
    Text <- DelayText
    StartWords <- Words
    StartMemory <- MCMemories
    PageMap <- MCPageMap
    Frames = {0, 1, 3}
    UserStackSize = 6
    StackGap = 4
    Sizes = {0, 1, 2, 3}
    Values = {9}
    MaxStores = 2
CHECK_DEADLOCK FALSE
INVARIANTS
    UnalignedWords
    ArithmeticExact
    TranslationSafe
    ProgramHasItsMemory
PROPERTY ImplementsPlain
