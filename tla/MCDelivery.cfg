SPECIFICATION Spec
CONSTANTS
    slackOfIncident = slackOfIncident
    issueOfIncident = issueOfIncident
    emailOfDay = emailOfDay
    Handoff <- MCHandoff
    Target <- MCTarget
    Keyed <- MCKeyed
    Channel <- MCChannel
    MaxReceipts = 3
    MaxFaults = 2
    None = None
INVARIANTS
    SendsAreReceipted
    SentOncePerKey
    AttemptBehindReceipt
    RetryChain
    RecordTellsReceipt
