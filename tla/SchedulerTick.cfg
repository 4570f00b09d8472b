CONSTANTS
    Fds <- MCFds
    BatchCap = 4
    KBurst = 2
    MinBatch = 1
    Views <- MCViews
SPECIFICATION Spec
INVARIANTS
    TypeOK
    BatchFits
    SplitAccounts
    EstimateExact
    SampledAtLastRow
    DecodeFirst
    NoEmptyTick
    LoopsImplementPolicy
PROPERTY TickEnds
CHECK_DEADLOCK FALSE
