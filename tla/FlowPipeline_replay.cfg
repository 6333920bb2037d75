\* A chain with a segment that gives up when its source cannot be read.
SPECIFICATION FairSpec
CONSTANTS
    N = 2
    Kinds = {"input", "replay"}
    MaxFlows = 1
PROPERTIES
    GracefulShutdown
CHECK_DEADLOCK FALSE
