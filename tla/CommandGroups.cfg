SPECIFICATION Spec
CONSTANTS
    Programs = {"measure", "timed"}
    Leader = leader
    Kids = {kid}
    MaxSignals = 2
INVARIANTS
    TypeOK
    NothingOutlives
    CompleteIsUndisturbed
    ZeroIsComplete
    OwnResult
PROPERTIES
    StoppedEnds
