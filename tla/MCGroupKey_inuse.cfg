SPECIFICATION Spec
CONSTANTS
    Node = {1, 2, 3}
    Scenario <- InUse
    ROOM_KEY_PREV_SLOTS = 2
    SameTick = FALSE
    Overtake = FALSE
    ROOM_GEN_BOUND = 1024
    Gen = {1, 2, 3, 4, 5, 6, 7, 8, 9, 10, 11, 12}
CHECK_DEADLOCK FALSE
INVARIANTS OneKeyWhenQuiet HandsOutOwnKeys FutureSecrecy ForwardSecrecy
