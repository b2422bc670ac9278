SPECIFICATION FairSpec
CONSTANTS
    Socket = {s1, s2, s3}
    Caller = {c1}
    None = None
    PlanLength = 2
    Threshold = 2
    SlowAfter = 2
    RecoveryEnabled = FALSE
    MaxFaults = 3
INVARIANTS
    NeverStranded
    ControlOnGrantedSocket
    ReadyMeansGranted
    ReadyLinkIsWatched
    OneConversation
    ClosedIsQuiet
    AttemptsAreBounded
PROPERTIES
    EventuallyLinked
    HungLinkIsNoticed
    ImplementsPort
