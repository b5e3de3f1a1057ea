SPECIFICATION Spec
CONSTANTS
    Experiments = {e1}
    Launcher = launcher
    Operator = operator
    MaxParallel = 2
    Faults = {}
INVARIANTS
    AppsRecoverable
CHECK_DEADLOCK FALSE
