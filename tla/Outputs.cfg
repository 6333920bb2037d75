\* Batches of two flows, five flows, one error. A segment that has returned does nothing any more.
SPECIFICATION FairSpec
CONSTANTS
    Kinds = {"json", "zstd", "csv", "http", "sqlite", "clickhouse", "mongodb", "kafkaproducer", "influx"}
    BatchSize = 2
    MaxFlows = 5
    MaxFaults = 1
INVARIANTS
    StoredInOrder
    CompleteAtClose
    StoredAsReceived

    
CHECK_DEADLOCK FALSE
