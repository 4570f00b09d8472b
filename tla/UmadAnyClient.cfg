CONSTANTS
    f1 = f1
    Fds = {f1}
    BatchCap = 2
    KBurst = 2
    MinBatch = 1
    MaxSessions = 1
    MaxTokens = 1
    BmtBudget = 0
    Offers <- OneOfEach
    MaxReqs = 2
    MaxConns = 2
    SndCap = 1
    Env = {"pipeline", "shut", "gone", "readerr", "decodefail", "null",
           "idle", "noaccept"}
SPECIFICATION Spec
INVARIANTS
    TypeOK
    NoOrphanCells
    TxArmed
PROPERTIES
    SequencesPooled
