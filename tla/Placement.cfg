SPECIFICATION Spec
CONSTANTS
    stay = stay
    near = near
    far = far
    Experiments = {stay, near, far}
    Regions = {"h", "r", "s"}
    Campaigns <- Files
    CreateCap = 1
    FindCap = 1
    SecretsCap = 1
    ScaleCap = 1
    PollCap = 1
    SshCap = 2
INVARIANTS
    TypeOK
    WithinBudget
    PeakAsPlanned
PROPERTIES
    MeasuredAsPlanned
