SPECIFICATION Spec
CONSTANTS
    None = None
    Author = {asha}
    Client = {request1, request2}
    Deployment = {run1}
    Content = {old, new}
    MaxRows = 2
INVARIANTS
    TypeOK
    RevokeStands
PROPERTIES
    VerdictsOnReview
    VerdictWhole
    AcceptsApproved
SYMMETRY Renamings
CHECK_DEADLOCK FALSE
