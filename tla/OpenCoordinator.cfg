SPECIFICATION Spec
CONSTANTS
    None = None
    p = p
    q = q
    c = c
    x = x
    y = y
    Wf = {p, q, c}
    Dir = {x, y}
    Task = {1, 2}
    Requests <- Family
    DirSets <- AllOrBoth
    MaxArrivals = 2
    MaxBoots = 2
INVARIANTS
    TypeOK
PROPERTY
    Refinement
CHECK_DEADLOCK FALSE
