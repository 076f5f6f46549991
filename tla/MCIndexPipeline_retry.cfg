\* INCR fails after mark_live: expected violation.
SPECIFICATION Spec
CONSTANTS
    d1 = d1
    d2 = d2
    p1 = p1
    p2 = p2
    i1 = i1
    i2 = i2
    acme = acme
    globex = globex
    Docs = {d1}
    Contents = {"inline"}
    MaxVersion = 1
    Partitions = {p1}
    PartitionOf <- SamePartition
    Relays = {i1}
    Owner = i1
    RelayBatch = 2
    MaxPoll = 2
    MaxAttempts = 2
    MaxFaults = 1
    MaxCrashes = 0
    Tenants = {acme, globex}
    TenantOf <- OneTenant
INVARIANTS
    CachedSearchesRetired
CHECK_DEADLOCK FALSE
