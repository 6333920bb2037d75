\* One or two writers, of one server or of two; four flows make two full batches or incomplete ones.
\* The process ends for good after a shutdown or a panic.
SPECIFICATION FairSpec
CONSTANTS
    Servers = {s1, s2}
    MaxWorkers = 2
    BatchSize = 2
    QueueSize = 1
    Following = 1
    MaxFlows = 4
    MaxFailures = 1
INVARIANTS
    AtLeastOnce
    
PROPERTIES
    TimerSendsBatches
CHECK_DEADLOCK FALSE
