SPECIFICATION Spec
CONSTANTS
    a = a
    b = b
    Tools = {a, b}
    Order <- Uneven
    Setups <- Various
    Outcomes = {"right", "nothing", "fail", "late"}
    Walls = {1, 3}
    Cutoff = 3
    TooShort = 2
    Faults = {"step", "interrupt"}
    MaxFaults = 2
    Absent = Absent
    Empty = Empty
    Damaged = Damaged
    None = None
    Block = 4096
    MinFile = 1024
    ProbeBytes = 262144
    ProbeInodes = 20
    Draws = {1, 4, 64, 1000}
INVARIANTS
    FairComparison
    ColdIsCold
    VerdictIsRight
    LeftoversExplained
    SuccessIsComplete
    CurtailedWasMeasured
    DiskNeverFull
    UserDataUntouched
    SizesFit
