\* Pausing an evidence capture that the Agent performs.
SPECIFICATION FairSpec
CONSTANTS
    Capabilities <- MCCapabilities
    AgentAssessments <- MCAgentAssessments
    HostCapture = FALSE
    FreshSessions = FALSE
    Faults = {}
    MaxRevision = 12
    Origins = {"created"}
PROPERTY
    PauseBecomesReady
CHECK_DEADLOCK FALSE
