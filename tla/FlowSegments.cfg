SPECIFICATION Spec
CONSTANTS
    Segments <- MCSegments
    Flows <- MCFlows
    Keys = {"name", "desc", "speed"}
    ConnLimit = 2
    MaxFlows <- MCMaxFlows
    MaxFaults = 1
    Word = 1024
    MsPerS = 10
    NsPerMs = 10
INVARIANTS
    HistoryFree
    UnmatchedAreDropped
    SecondPassIsIdle
    
    AsPathIsTheRoute
    PlaceholdersAreQueried
CHECK_DEADLOCK FALSE
