SPECIFICATION SessionSpec
CONSTANTS
    Socket = {s1}
    User = {u1}
    Room = {r1}
    Secret = {k1}
    None = None
    WARN_CAP = 2
    HARD_CAP = 2
    PEER_CHAN = 3
    MSG_RATE_MAX = 1
    TURN = FALSE
    ServerScenario <- OneSender
    Call = {1, 2}
    RendersFirst = TRUE
    ClScenario <- Refusal
    Speaker = {p1}
    Rate = {2}
    CAP_MAX = 2
    MIX_MAX = 2
    SELF_MAX = 1
    TARGET = 2
    PLAY_MAX = 4
    AuScenario <- NoRigs
CHECK_DEADLOCK FALSE
INVARIANT CanJoinAgain
