\* An owner is too slow, dies, or its thread ends; another indexer takes over.
SPECIFICATION GroupSpec
CONSTANTS
    d1 = d1
    d2 = d2
    p1 = p1
    i1 = i1
    i2 = i2
    acme = acme
    Docs = {d1}
    Contents = {"text", "corrupt", "scan"}
    MaxVersion = 2
    Partitions = {p1}
    PartitionOf <- OnePartition
    Relays = {i1, i2}
    Owner = i1
    RelayBatch = 2
    MaxPoll = 2
    MaxAttempts = 2
    MaxFaults = 1
    MaxCrashes = 0
    Tenants = {acme}
    TenantOf <- OneTenant
    MaxLosses = 1
INVARIANTS
    GroupTypeOK
    CommittedIsHandled
PROPERTIES
    ImplementsReplica
    EveryPendingSettles
    DeletedDisappears
    ReturnsOnlyIfOutlived
CHECK_DEADLOCK FALSE
