\* Up to three contained segments share the channels; nothing happens after the crash or the end.
SPECIFICATION FairSpec
CONSTANTS
    Jobs = {j1, j2, j3}
    MaxFlows = 3
INVARIANTS
    LossIsBounded
PROPERTIES
    FlowsComeThrough
CHECK_DEADLOCK FALSE
