SPECIFICATION Spec
CONSTANTS
    PUBLIC_CONNECTOR_SITES <- MCSites
    EvidenceOf <- MCEvidenceOf
    MaxEdits = 3
CHECK_DEADLOCK FALSE
INVARIANT EvidenceIsBound
