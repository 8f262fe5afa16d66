SPECIFICATION Spec
CONSTANTS
    Node = {1, 2, 3}
    Name = {0, 10, 11, 20}
    Overtaken = FALSE
    MAX_CHANNELS = 2
    MAX_TOMBSTONES = 1
    Scenario <- Rooms
CHECK_DEADLOCK FALSE
INVARIANTS
    GateIsTrue
    DirectoriesAgree
PROPERTY
    FallsSilent
