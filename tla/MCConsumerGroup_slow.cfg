\* The only indexer is slow once: expected violation.
SPECIFICATION GroupSpec
CONSTANTS
    d1 = d1
    d2 = d2
    p1 = p1
    i1 = i1
    i2 = i2
    acme = acme
    Docs = {d1, d2}
    Contents = {"text"}
    MaxVersion = 1
    Partitions = {p1}
    PartitionOf <- OnePartition
    Relays = {i1}
    Owner = i1
    RelayBatch = 2
    MaxPoll = 2
    MaxAttempts = 2
    MaxFaults = 0
    MaxCrashes = 0
    Tenants = {acme}
    TenantOf <- OneTenant
    MaxLosses = 1
PROPERTIES
    NothingPendingForever
CHECK_DEADLOCK FALSE
