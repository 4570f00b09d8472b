CONSTANTS
    f1 = f1
    Fds = {f1}
    BatchCap = 2
    KBurst = 2
    MinBatch = 1
    MaxSessions = 1
    MaxTokens = 1
    BmtBudget = 0
    Offers <- LongPrompt
    MaxReqs = 1
    MaxConns = 1
    SndCap = 1
    Env = {}
SPECIFICATION Spec
INVARIANTS
    PrefillFinished
