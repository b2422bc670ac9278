SPECIFICATION MCSpec
CONSTANTS
    NamedViews <- MCNamedViews
    Defaults <- MCDefaults
    UserView = {"u1", "u2"}
    Cap = 2
    Editions = 1
    MaxPuts = 3
    MaxDeaths = 1
    Day = {"d1", "d2"}
    Template = {"t1", "t2"}
    Item = {"i1", "i2"}
    None = None
INVARIANTS
    SavedViewKept
CHECK_DEADLOCK FALSE
