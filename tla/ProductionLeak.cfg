SPECIFICATION Spec
CONSTANTS
    None = None
    o = o
    k1 = k1
    k2 = k2
    p = p
    z = z
    s = s
    g = g
    key = key
    Wf = {o, k1, k2, p, z}
    Dir = {s, g, key}
    Task = {1}
    Orch = {o}
    Children <- BatchChildren
    Stage = {z}
    Own <- OwnDirs
    Shared <- SharedDirs
    Key = key
    MaxParks = 1
    MaxMishaps = 1
INVARIANT
    BatchReleases
CHECK_DEADLOCK FALSE
