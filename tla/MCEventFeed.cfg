SPECIFICATION Spec
CONSTANTS
    m1 = m1
    m2 = m2
    s1 = s1
    s2 = s2
    None = None
    Message = {m1, m2}
    Session = {s1, s2}
    SessionOf <- MCSessionOf
    Assistant = {m1, m2}
    MaxFiles = 2
    MaxMessages = 1
    MaxEvents = 3
    MaxLives = 2
    MaxRuns = 2
    MaxDrops = 1
INVARIANTS
    LossIsTold
    GapsAreReal
    HeardMessageStays
CHECK_DEADLOCK FALSE
