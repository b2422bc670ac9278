SPECIFICATION MCSpec
CONSTANTS
    Day = {1, 2}
    SampleDay = 1
    MaxTime = 3
    MaxRows = 3
    MaxJobs = 2
    MaxSnapshots = 1
    MaxFaults = 1
    Command = {"gateway", "desktop"}
    Gateway = "gateway"
    Desktop = "desktop"
    OnMac = TRUE
    StaleAfter = 1
    MaxReceipts = 3
    None = None
INVARIANTS
    OneActiveJobPerDay
    CompletedJobHasSummary
    OneVerdict
    GreenCountsEvidence
    GreenIsUncontested
    VerdictsHideNothing
PROPERTIES
    GreenIsEarned
CHECK_DEADLOCK FALSE
