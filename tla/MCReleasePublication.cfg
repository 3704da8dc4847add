SPECIFICATION Spec
CONSTANTS
    Path <- MCPath
    Text <- MCText
    Frozen <- MCFrozen
    Proposal <- MCProposal
    Landed <- MCLanded
    MaxDispatch = 0
    FirstV2 = 1
    FirstV3 = 1
    FirstV4 = 2
    MaxVersion = 3
    MaxMain = 3
    MaxAttempts = 2
    Disturbance = {"kill", "timeout", "codeql", "toggle", "draft"}
    MaxDisturbances = 1
CHECK_DEADLOCK FALSE
INVARIANTS
    LedgerIsProven
    OneRecordPerSource
    SuccessIsReleased
PROPERTIES
    HistoryIsRefined
    AttemptsEnd
    UndisturbedIsReleased
