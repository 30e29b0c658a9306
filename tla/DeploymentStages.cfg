SPECIFICATION FairSpec
CONSTANTS
    PlanRetries = 2
    ApplyRetries = 2
    MergeRetries = 3
    MaxHead = 2
    MaxOthers = 1
INVARIANTS
    TypeOK
    MergesApplied
    AppliesVerified
    EndsTruthfully
PROPERTIES
    AppliesApproved
    Ends
CHECK_DEADLOCK FALSE
