\* Two messages, in one partition or in two, one rebalance; a process ends for good.
SPECIFICATION FairSpec
CONSTANTS
    Partitions = {p1, p2}
    MaxRetries = 1
    MaxMessages = 2
    MaxBad = 1
    MaxSessions = 2
INVARIANTS
    NothingSkipped
PROPERTIES
    FlowsComeThrough
CHECK_DEADLOCK FALSE
