SPECIFICATION Spec
CONSTANTS
    Experiments = {e1, e2}
    Launcher = launcher
    Operator = operator
    MaxParallel = 1
    Faults = {"killed", "name_reuse"}
INVARIANTS
    RecordedBeforeMachines
    FailureIsReported
    SuccessIsComplete
PROPERTIES
    ForeignAppsSurvive
    KeepsOwnership
    RecordIsNeverLost
CHECK_DEADLOCK FALSE
