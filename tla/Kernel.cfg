SPECIFICATION MCSpec
CONSTANTS
    Builds = {TRUE, FALSE}
    Groups <- MCGroups
    MaxGroups = 2
    Threads <- MCThreads
    Main <- MCMain
    Values = {"v0", "v1"}
    Func <- MCFunc
    Arg <- MCArg
    MaxUser = 2
    Things = {1, 2, 3, 4}
    Rank <- MCRank
    Keys = {0, 1, 2, 4, 8, 12}
    InitialBuckets = 2
    ResizeRatio = 1
    IncreaseSizeBy = 2
INVARIANTS
    
    
    
    RunsItsFunction
    TableIsSet
PROPERTY ImplementsItems
