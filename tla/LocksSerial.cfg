SPECIFICATION FairSpec
CONSTANTS
    None = None
    a = a
    b = b
    c = c
    e = e
    f = f
    g = g
    w = w
    x = x
    y = y
    z = z
    Wf = {a, b, c, e, f, g}
    Dir = {w, x, y, z}
    Task = {1}
    Needs <- Pairs
    Faults = {}
    MaxBoots = 1
INVARIANT
    NoLostWakeup
PROPERTY
    Served
CHECK_DEADLOCK FALSE
