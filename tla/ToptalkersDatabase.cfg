\* Records share nothing but the lock, so one address is enough. With "both" a flow counts twice for
\* it. The window has two buckets; two packets in it exceed the threshold.
SPECIFICATION FairSpec
CONSTANTS
    Keys = {a}
    Capacity = 2
    ThresholdBuckets = 2
    BucketDuration = 1
    ThresholdBps = 8
    ThresholdPps = 0
    CleanupEvery = 2
    Sizes = {2}
    MaxFlows = 2
INVARIANTS
    WindowIsExact
PROPERTIES
    CleanupLosesOneFlow
    RunGoesOn
CHECK_DEADLOCK FALSE
