\* Two users one after the other, two questions, two requests on their way.
SPECIFICATION Spec
CONSTANTS
    Questions = {"", "a"}
    MaxLogins = 2
    MaxRequests = 2
INVARIANTS
    TypeOK
    ShownIsTheAnswer
    SignedInUntilExpiry
PROPERTIES
    ListSettles
CHECK_DEADLOCK FALSE
