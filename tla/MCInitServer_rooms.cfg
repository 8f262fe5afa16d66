SPECIFICATION Spec
CONSTANTS
    Socket = {s1, s2, s3}
    User = {u1, u2, u3}
    Room = {r1}
    Secret = {k1, k2}
    None = None
    WARN_CAP = 2
    HARD_CAP = 2
    PEER_CHAN = 6
    MSG_RATE_MAX = 1
    TURN = TRUE
    ServerScenario <- Scenes
SYMMETRY Symmetry
CHECK_DEADLOCK FALSE
INVARIANTS
    TypeOK
    BoundsRespected
    NoEmptyRoom
    NoGhostMember
    NoHiddenParticipants
PROPERTY
    OnlyOwnerEvicts
