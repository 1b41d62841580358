SPECIFICATION Spec
CONSTANTS
    Kinds = {"v1", "v2", "hc", "none"}
    BLOCKS = 3
    FACTOR = 4
    Value = {"v", "w"}
    MAX_SECTORS = 2
    RETRIES = 1
    INIT_TRIES = 2
    POLLS = 2
    TIMEOUT = 2
    AnswerDelays = {0, 2}
    TokenDelays = {1, 2, 6}
    BusyTimes = {0, 3, 18}
    Rounds = {0, 1}
    MISSED = 2
    RESETS = 1
INVARIANTS
    AddressingIsRight
    CallsTellTheTruth
PROPERTIES
    CallsReturn
CHECK_DEADLOCK FALSE
