\* Two requests of one tenant and one of another, two gateway threads.
SPECIFICATION Spec
CONSTANTS
    acme = acme
    globex = globex
    r1 = r1
    r2 = r2
    r3 = r3
    a1 = a1
    a2 = a2
    Tenants = {acme, globex}
    Requests = {r1, r2, r3}
    TenantOf <- TwoAndOne
    ApiProcesses = {a1}
    GatewayThreads = 2
    Limit = 1
    MaxEvents = 1
INVARIANTS
    TypeOK
    SuspendedRunsNothing
    FreshTokenAccepted
    LimitIsTheTenants
    RepliesAreTrue
PROPERTIES
    EveryRequestAnswered
CHECK_DEADLOCK FALSE
