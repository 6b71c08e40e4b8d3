\* A restart after a later Repair's evidence intake could not be prepared.
SPECIFICATION Spec
CONSTANTS
    Capabilities <- MCCapabilities
    AgentAssessments <- MCAgentAssessments
    HostCapture = FALSE
    FreshSessions = FALSE
    Faults = {"crash", "intake"}
    MaxRevision = 16
    Origins = {"created"}
INVARIANT
    EvidenceOfThisIteration
CHECK_DEADLOCK FALSE
