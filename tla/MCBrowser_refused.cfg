\* The refusal of an old token clears the new one: expected violation.
SPECIFICATION Spec
CONSTANTS
    Questions = {"", "a"}
    MaxLogins = 2
    MaxRequests = 2
INVARIANTS
    ShownTenantHasItsToken
CHECK_DEADLOCK FALSE
