SPECIFICATION Spec
CONSTANTS
    d1 = d1
    d2 = d2
    e1 = e1
    e2 = e2
    x1 = x1
    x2 = x2
    None = None
    Day = {d1, d2}
    Entry = {e1, e2}
    EntryDay <- MCEntryDay
    Important = {e1}
    Sample = {e2}
    Decision = {x1, x2}
    Handoff = {x1}
    File <- MCFile
    Moment = {1}
    MaxIncidents = 2
    MaxNotes = 2
    MaxRecords = 1
    MaxFaults = 1
CONSTRAINT MCFewRows
INVARIANTS
    NothingDangles
    LineageNamesIncidents
PROPERTIES
    CapturedDayStays
CHECK_DEADLOCK FALSE
