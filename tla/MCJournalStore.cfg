SPECIFICATION Spec
CONSTANTS
    s1 = s1
    a1 = a1
    b1 = b1
    Event <- MCEvent
    Id <- MCEvent
    IdOf <- MCIdOf
    Day <- MCDay
    DayOf <- MCDayOf
    Counted = {a1, b1}
    SampleDay = 1
    Sample = {s1}
    Backfill = {a1, b1}
    SnapshotId = {r1, r2}
    Edited = {1}
    MaxKeep = 1
    MaxFaults = 1
    None = None
SYMMETRY Symmetry
INVARIANTS
    NothingLost
    NoInvisibleEntry
    AddHeals
    RollbackRestores
PROPERTIES
    DeletesOnlyOldDays
