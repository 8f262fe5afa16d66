SPECIFICATION BrokerSpec
CONSTANTS
    Code = {c1}
    Ip = {i1}
    MAX_AGE_SECS = 6
    EMPTY_GRACE_SECS = 3
    MAX_ATTEMPTS = 2
    LOCK_SECS = 3
    SWEEP_SECS = 2
    RL_WINDOW = 2
    RL_JOIN_MAX = 2
    RL_CREATE_MAX = 1
    MaxTime = 10
CHECK_DEADLOCK FALSE
PROPERTY SurvivesGrace
