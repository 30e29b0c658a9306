SPECIFICATION Spec
CONSTANTS
    None = None
    a = a
    b = b
    g = g
    y = y
    m = m
    Wf = {a, b}
    Dir = {g, y, m}
    Own <- OwnSame
    Shared <- SharedSame
    Edited = {m}
    MaxVersion = 1
    MaxPulls = 1
    MaxParks = 1
INVARIANT
    AutoMergesApplied
CHECK_DEADLOCK FALSE
