CONSTANTS
    f1 = f1
    f2 = f2
    Fds = {f1, f2}
    BatchCap = 2
    KBurst = 2
    MinBatch = 1
    MaxSessions = 1
    MaxTokens = 1
    BmtBudget = 0
    Offers <- OneOfEach
    MaxReqs = 2
    MaxConns = 2
    SndCap = 1
    Env = {"shut", "gone", "decodefail", "mute"}
SPECIFICATION Spec
SYMMETRY Symmetry
INVARIANTS
    SessionsBounded
    ReplyWellFormed
    RequestAccountedFor
    WatchedForInput
    HangUpAfterReply
    EventsCurrent
    PositionsContinuous
PROPERTIES
    ServesReplies
