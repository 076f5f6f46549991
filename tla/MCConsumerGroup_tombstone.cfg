\* A former owner extracts for longer than gc_deletes: expected violation.
SPECIFICATION GroupSpec
CONSTANTS
    d1 = d1
    d2 = d2
    p1 = p1
    i1 = i1
    i2 = i2
    acme = acme
    Docs = {d1}
    Contents = {"text"}
    MaxVersion = 2
    Partitions = {p1}
    PartitionOf <- OnePartition
    Relays = {i1, i2}
    Owner = i1
    RelayBatch = 2
    MaxPoll = 2
    MaxAttempts = 2
    MaxFaults = 0
    MaxCrashes = 0
    Tenants = {acme}
    TenantOf <- OneTenant
    MaxLosses = 1
PROPERTIES
    NoResurrection
CHECK_DEADLOCK FALSE
