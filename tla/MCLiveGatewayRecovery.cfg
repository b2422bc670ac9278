SPECIFICATION Spec
CONSTANTS
    Socket = {s1, s2, s3}
    Caller = {c1}
    None = None
    PlanLength = 2
    Threshold = 2
    SlowAfter = 2
    RecoveryEnabled = TRUE
    MaxFaults = 3
SYMMETRY Symmetry
PROPERTIES
    RestartSparesReadyLink
