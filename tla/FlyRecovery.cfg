\* One experiment, every fault except a recovery typed while workers still run.
SPECIFICATION RecoverySpec
CONSTANTS
    Experiments = {e1}
    Launcher = launcher
    Operator = operator
    MaxParallel = 1
    Faults = {"killed", "late_call", "late_spawn", "ps_fails", "second_interrupt",
              "reframe_dies", "relay_fails", "name_reuse"}
INVARIANTS
    TypeOK
    NoStrayApp
    RecordedDestroyedMeansGone
PROPERTIES
    CampaignEnds
    RecordedAppsGoAway
CHECK_DEADLOCK FALSE
