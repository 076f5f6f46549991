\* A publish raises: expected violation.
SPECIFICATION RelaySpec
CONSTANTS
    d1 = d1
    d2 = d2
    p1 = p1
    p2 = p2
    i1 = i1
    i2 = i2
    Docs = {d1, d2}
    Contents = {"inline"}
    MaxVersion = 2
    Partitions = {p1}
    PartitionOf <- SamePartition
    Relays = {i1}
    RelayBatch = 2
    MaxFaults = 1
    MaxCrashes = 0
INVARIANTS
    StampedIsRelayed
CHECK_DEADLOCK FALSE
