\* The DELETE in the batch of another relay overtakes: expected violation.
SPECIFICATION RelaySpec
CONSTANTS
    d1 = d1
    d2 = d2
    p1 = p1
    p2 = p2
    i1 = i1
    i2 = i2
    Docs = {d1}
    Contents = {"inline"}
    MaxVersion = 2
    Partitions = {p1}
    PartitionOf <- SamePartition
    Relays = {i1, i2}
    RelayBatch = 2
    MaxFaults = 0
    MaxCrashes = 0
INVARIANTS
    LogInVersionOrder
CHECK_DEADLOCK FALSE
