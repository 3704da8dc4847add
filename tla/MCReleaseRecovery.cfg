SPECIFICATION RecoverySpec
CONSTANTS
    Path <- MCPath
    Text <- MCText
    Frozen <- MCFrozen
    Landed <- MCLanded
    Proposal <- MCProposal
    FirstV2 = 1
    FirstV3 = 1
    FirstV4 = 2
    MaxVersion = 5
    MaxMain = 5
    MaxAttempts = 1
    MaxDispatch = 2
    Disturbance = {"kill"}
    MaxDisturbances = 1
CHECK_DEADLOCK FALSE
INVARIANTS
    SelectionStaysOldest
    ExecutorsAscend
PROPERTIES
    DispatchRecovers
