\* One flow from In and a file with two from an earlier process; the segment stops for good at the end.
SPECIFICATION FairSpec
CONSTANTS
    Capacity = 2
    ReadMark = 1
    LowMark = 1
    HighMark = 1
    BatchSize = 2
    MaxFlows = 1
    Leftover = 2
    Files = {1, 2, 3}
INVARIANTS
    NoReadWhileWriting
    OnePlace

    
CHECK_DEADLOCK FALSE
