SPECIFICATION Spec
CONSTANTS
    NVocab = 3
    Levels = 3
    Curves <- TwoCurves
    D = 6
    CutBelow = 5
    TopPs <- SomeTopPs
    TopKs <- SomeTopKs
INVARIANTS
    TypeOK
    DrawnInNucleus
    DrawsByWeight
    ImpossibleOnlyByRounding
    GreedyReturnsMax
