CONSTANTS
    f1 = f1
    f2 = f2
    Fds = {f1, f2}
    BatchCap = 2
    KBurst = 2
    MinBatch = 2
    MaxSessions = 2
    MaxTokens = 0
    BmtBudget = 1
    Offers <- PromptOrBad
    MaxReqs = 1
    MaxConns = 2
    SndCap = 1
    Env = {"shut", "gone"}
SPECIFICATION FairSpec
INVARIANTS
    SequencesDistinct
PROPERTIES
    EveryRequestEnds
    DisconnectFreesCells
