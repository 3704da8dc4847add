SPECIFICATION Spec
CONSTANTS
    PUBLIC_CONNECTOR_SITES <- MCSites
    EvidenceOf <- MCEvidenceOf
    MaxEdits = 4
CHECK_DEADLOCK FALSE
INVARIANTS
    MainStaysInert
    ScaffoldBindsEvidence
    VerdictIsEarned
