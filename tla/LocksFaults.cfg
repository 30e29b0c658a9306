SPECIFICATION FairSpec
CONSTANTS
    None = None
    a = a
    b = b
    c = c
    e = e
    f = f
    g = g
    w = w
    x = x
    y = y
    z = z
    Wf = {a, b, c}
    Dir = {x, y}
    Task = {1, 2}
    Needs <- Overlap3
    Faults = {"timeout", "conflict", "die", "terminate", "reset"}
    MaxBoots = 2
INVARIANTS
    TypeOK
    GrantsBacked
    MutualExclusion
    NoHoldAndWait
    NoCorpse
    Remembered
PROPERTY
    HandlersDrain
CHECK_DEADLOCK FALSE
