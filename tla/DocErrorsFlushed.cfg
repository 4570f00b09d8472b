CONSTANTS
    f1 = f1
    Fds = {f1}
    BatchCap = 2
    KBurst = 2
    MinBatch = 1
    MaxSessions = 1
    MaxTokens = 1
    BmtBudget = 0
    Offers <- ShortPrompt
    MaxReqs = 1
    MaxConns = 1
    SndCap = 1
    Env = {"decodefail"}
SPECIFICATION FairSpec
PROPERTIES
    ErrorsFlushedAndClosed
