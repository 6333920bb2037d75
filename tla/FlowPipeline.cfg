\* All chains of two pass, filter and input segments, with the fairness of the Go scheduler.
SPECIFICATION FairSpec
CONSTANTS
    N = 2
    Kinds = {"pass", "filter", "input"}
    MaxFlows = 2
INVARIANTS
    CloseIsOrderly
    AccountedInOrder
PROPERTIES
    SubscribedSeesAllDrops
    ImplementsTransfer
    GracefulShutdown
    FlowsMoveOn
