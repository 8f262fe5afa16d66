SPECIFICATION ClientSpec
CONSTANTS
    Socket = {s1, s2}
    User = {u1, u2}
    Room = {r1}
    Secret = {k1}
    None = None
    WARN_CAP = 2
    HARD_CAP = 2
    PEER_CHAN = 3
    MSG_RATE_MAX = 1
    TURN = FALSE
    ServerScenario <- OneSender
    Call = {1, 2}
    RendersFirst = TRUE
    ClScenario <- Sessions
    Speaker = {p1}
    Rate = {2}
    CAP_MAX = 2
    MIX_MAX = 2
    SELF_MAX = 1
    TARGET = 2
    PLAY_MAX = 4
    AuScenario <- Rigs
CHECK_DEADLOCK FALSE
INVARIANTS
    NoHiddenParticipants
    NothingLeftOpen
    ScreenIsTrue
PROPERTIES
    ListsCatchUp
    OutageEnds
    RigEnds
