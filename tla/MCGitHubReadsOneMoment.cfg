SPECIFICATION ReadsSpec
CONSTANTS
    MaxChanges = 3
    h1 = h1
    h2 = h2
    body1 = body1
    body2 = body2
    none = none
    Heads <- MCHeads
    Bodies <- MCBodies
    NoBody = none
    AppOf <- MCAppOf
    PageSize = 3
    MaxReadyChanges = 3
CHECK_DEADLOCK FALSE
INVARIANTS
    ReceiptIsLiveState
    VerdictIsOneMoment
