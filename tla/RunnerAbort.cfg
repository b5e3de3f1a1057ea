SPECIFICATION Spec
CONSTANTS
    a = a
    b = b
    Tools = {a, b}
    Order <- Twice
    Setups <- Fresh
    Outcomes = {"right"}
    Walls = {1}
    Cutoff = 0
    TooShort = 0
    Faults = {"step"}
    MaxFaults = 2
    Absent = Absent
    Empty = Empty
    Damaged = Damaged
    None = None
    Block = 4096
    MinFile = 1024
    ProbeBytes = 262144
    ProbeInodes = 20
    Draws = {1, 4, 64, 1000}
INVARIANTS AbortIsRecorded
