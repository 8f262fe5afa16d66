SPECIFICATION Spec
CONSTANTS
    MaxId = 9
    MaxFaults = 2
    MAX_PENDING_ICE = 2
CHECK_DEADLOCK FALSE
INVARIANT
    LinkIsTrue
PROPERTY
    Recovers
