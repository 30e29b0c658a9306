SPECIFICATION FairSpec
CONSTANTS
    a = a
    b = b
    c = c
    PR = {a, b, c}
    Number <- TwoRepositories
    MaxArrivals = 2
INVARIANTS
    TypeOK
    BusyMeansFront
    NothingDropped
    OnlyItsNumber
PROPERTIES
    ResolvedOnce
    EveryMergeStarts
    HistoryResets
CHECK_DEADLOCK FALSE
