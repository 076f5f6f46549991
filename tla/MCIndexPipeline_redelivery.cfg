\* Calls fail and processes die; two indexers, one document deleted again and again.
SPECIFICATION Spec
CONSTANTS
    d1 = d1
    d2 = d2
    p1 = p1
    p2 = p2
    i1 = i1
    i2 = i2
    acme = acme
    globex = globex
    Docs = {d1}
    Contents = {"inline", "corrupt"}
    MaxVersion = 3
    Partitions = {p1}
    PartitionOf <- SamePartition
    Relays = {i1, i2}
    Owner = i1
    RelayBatch = 2
    MaxPoll = 2
    MaxAttempts = 2
    MaxFaults = 2
    MaxCrashes = 2
    Tenants = {acme, globex}
    TenantOf <- OneTenant
INVARIANTS
    EveryVersionHasItsEvent
    RowPointsAtBytes
    NoEventRelayedTwice
    StaleCopyIsOwed
    FailureIsExplained
PROPERTIES
    NoResurrection
CHECK_DEADLOCK FALSE
