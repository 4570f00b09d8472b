CONSTANTS
    f1 = f1
    Fds = {f1}
    BatchCap = 2
    KBurst = 2
    MinBatch = 1
    MaxSessions = 1
    MaxTokens = 1
    BmtBudget = 0
    Offers <- OneOfEach
    MaxReqs = 1
    MaxConns = 2
    SndCap = 1
    Env = {"signal", "kqueue", "shut", "gone", "readerr", "decodefail", "null", "idle"}
SPECIFICATION TimedSpec
PROPERTIES
    ShutdownStops
    SlotsReclaimed
CHECK_DEADLOCK FALSE
