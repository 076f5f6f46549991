\* An answer overtakes a later one: expected violation.
SPECIFICATION Spec
CONSTANTS
    Questions = {"", "a"}
    MaxLogins = 2
    MaxRequests = 2
INVARIANTS
    ShownIsTheUrls
CHECK_DEADLOCK FALSE
