SPECIFICATION MCSpec
CONSTANTS
    NDays = 2
    c1 = c1
    c2 = c2
    Slot <- MCSlot
    MaxWrites = 1
    MaxClicks = 2
    MaxEdits = 1
    MaxOutages = 1
    MaxEvents = 3
    Idle = Idle
INVARIANTS
    ContextUnderItsDay
PROPERTIES
    DraftSurvivesRefresh
    SelectionSettles
