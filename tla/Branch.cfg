\* One segment of either kind in each pipeline; the branch may stop for good after a shutdown.
SPECIFICATION FairSpec
CONSTANTS
    N = 1
    Kinds = {"pass", "filter"}
    MaxFlows = 2
INVARIANTS
    RoutedByCondition
    EmptyWhenOutClosed
PROPERTIES
    DropsAreSeen
    
CHECK_DEADLOCK FALSE
