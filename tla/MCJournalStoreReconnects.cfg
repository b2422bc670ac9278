SPECIFICATION Spec
CONSTANTS
    s1 = s1
    a1 = a1
    b1 = b1
    Event <- MCEvent
    Id <- MCEvent
    IdOf <- MCReconnectIdOf
    Day <- MCDay
    DayOf <- MCDayOf
    Counted = {}
    SampleDay = 1
    Sample = {s1}
    Backfill = {}
    SnapshotId = {r1, r2}
    Edited = {1}
    MaxKeep = 1
    MaxFaults = 0
    None = None
SYMMETRY Symmetry
INVARIANTS
    NothingLost
