\* Two loads of the page under way at once.
SPECIFICATION Spec
CONSTANTS
    f1 = f1
    f2 = f2
    f3 = f3
    Fetches = {f1, f2}
INVARIANTS
    TypeOK
    FailureAtItsStage
PROPERTIES
    PageSettles
    EverythingRevealed
CHECK_DEADLOCK FALSE
