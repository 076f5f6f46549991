\* A deletion between the two reads: expected violation.
SPECIFICATION Spec
CONSTANTS
    f1 = f1
    f2 = f2
    f3 = f3
    Fetches = {f1}
INVARIANTS
    EveryFailureAtItsStage
CHECK_DEADLOCK FALSE
