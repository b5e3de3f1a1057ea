SPECIFICATION Spec
CONSTANTS
    Experiments = {e1}
    Launcher = launcher
    Operator = operator
    MaxParallel = 2
    Faults = {"killed", "eager_operator"}
INVARIANTS
    RecordedBeforeMachines
CHECK_DEADLOCK FALSE
