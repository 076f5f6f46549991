\* Three services start on empty stores; calls fail, services die, containers are made anew.
SPECIFICATION Spec
CONSTANTS
    MaxFaults = 2
    MaxStops = 2
INVARIANTS
    TypeOK
    ServingHasWhatItUses
PROPERTIES
    StartsChangeNoTenant
    EveryServiceComesUp
CHECK_DEADLOCK FALSE
