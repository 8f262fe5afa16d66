SPECIFICATION PartsSpec
CONSTANTS
    Code = {c1}
    Ip = {i1}
    MAX_AGE_SECS = 6
    EMPTY_GRACE_SECS = 3
    MAX_ATTEMPTS = 2
    LOCK_SECS = 3
    SWEEP_SECS = 2
    RL_WINDOW = 2
    RL_JOIN_MAX = 2
    RL_CREATE_MAX = 1
    MaxTime = 10
    TokenRoom = {q1, q2}
    AuthSecret = {"s"}
    BootScenario <- Boots
    MaxLines = 4
    MaxClicks = 4
    Node = {1, 2}
    ROOM_KEY_PREV_SLOTS = 2
    SameTick = FALSE
    Gen = {1, 2, 3, 4, 5}
    WINDOW = 3
    MaxCtr = 8
    Me = 2
    Peer = {1, 3}
    RETRY_OFFERER = 4
    RETRY_ANSWERER = 12
    WARN_AFTER = 10
    KEYLESS_WARN_AFTER = 2
    WatchScenario <- Watches
    Client = {1, 2}
    MAX_AUTH_TRIES = 2
    Careful = TRUE
    PttScenario <- Desk
    App = {a1, a2}
    Amount = {0, 50, 100}
    DuckScenario <- Voices
    Length = {0, 1, 32, 33, 64, 65, 128, 129, 1500, 2000, 2001}
    Number <- Numbers
    Speaker = {p1, p2}
    Rate = {1, 2}
    CAP_MAX = 2
    MIX_MAX = 2
    SELF_MAX = 1
    TARGET = 2
    PLAY_MAX = 4
    AuScenario <- Rigs
    Pace <- Paces
    Level = {0, 10, 200, 1000}
    Knobs <- Tunings
    Factor = {10, 21, 65, 120}
    VcScenario <- Chain
CHECK_DEADLOCK FALSE
INVARIANTS
    PinBudgets
    PinsStayGood
    ServedRight
    PagesHold
    MintIsTaken
    LagsOnlyByGrace
    BurstStaysOpenable
    LateFrameAccepted
    UserIsTold
    MicIsSafe
    SnapshotFresh
    DuckingIsUndone
    GuardsSuffice
    RigIsSafe
    ChainIsSound
PROPERTIES
    ReapsInTime
    DeliversAtMostOnce
