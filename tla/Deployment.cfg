SPECIFICATION Spec
CONSTANTS
    Daemons = {d1, d2}
    Nobody = nobody
    MaxFrame = 5
    Quoted = {"two lines"}
    Control <- TheControl
    Bare <- ReadByCli
    Masked <- ReadByUmad
    Opts = {"bad", "prompt", "options", "metrics"}
    Id = "bell"
    Prompt = "two lines"
    UpCap = 3
    DownCap = 10
    Pieces <- ThreePieces
SYMMETRY AnyDaemon
INVARIANTS
    TypeOK
    RequestIntact
    PrintedFaithfully
    ExitTruthful
    AloneServes
    NoStandoff
CHECK_DEADLOCK FALSE
