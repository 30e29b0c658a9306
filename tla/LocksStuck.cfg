SPECIFICATION Spec
CONSTANTS
    None = None
    a = a
    b = b
    c = c
    e = e
    f = f
    g = g
    w = w
    x = x
    y = y
    z = z
    Wf = {a, b, c}
    Dir = {x, y}
    Task = {1, 2}
    Needs <- Overlap3
    Faults = {"timeout"}
    MaxBoots = 1
INVARIANT
    NeverStuck
CHECK_DEADLOCK FALSE
