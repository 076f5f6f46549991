\* Two tenants, one process of two threads; Redis may lose its data once.
SPECIFICATION Spec
CONSTANTS
    acme = acme
    globex = globex
    q1 = q1
    q2 = q2
    p1 = p1
    p2 = p2
    w1 = w1
    w2 = w2
    w3 = w3
    Tenants = {acme, globex}
    Queries = {q1}
    Processes = {p1}
    Threads = {w1, w2}
    ProcessOf <- OneProcess
    L1TTL = 1
    L2TTL = 2
    L1Size = 0
    MaxChanges = 1
    MaxLosses = 1
INVARIANTS
    TypeOK
    AnswersTheQuestion
    InvalidationHolds
    AgeBounded
    L1Bounded
SYMMETRY Symmetry
CHECK_DEADLOCK FALSE
