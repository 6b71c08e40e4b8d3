\* The process dies while a pause waits for the operation it has interrupted.
SPECIFICATION FairSpec
CONSTANTS
    Capabilities <- MCCapabilities
    AgentAssessments <- MCAgentAssessments
    HostCapture = TRUE
    FreshSessions = FALSE
    Faults = {"crash"}
    MaxRevision = 10
    Origins = {"created"}
PROPERTY
    PauseBecomesReady
CHECK_DEADLOCK FALSE
