SPECIFICATION Spec
CONSTANTS
    None = None
    a = a
    b = b
    c = c
    e = e
    f = f
    g = g
    w = w
    x = x
    y = y
    z = z
    Wf = {a, b, c}
    Dir = {x, y}
    Task = {1, 2}
    Needs <- Overlap3
    Faults = {"terminate"}
    MaxBoots = 2
INVARIANT
    Exclusive
CHECK_DEADLOCK FALSE
