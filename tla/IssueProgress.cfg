\* Liveness of the automatic stages, with a shutdown, a crash and a start at any step.
SPECIFICATION FairSpec
CONSTANTS
    Capabilities <- MCCapabilities
    AgentAssessments <- MCAgentAssessments
    HostCapture = TRUE
    FreshSessions = FALSE
    Faults = {"crash", "shutdown"}
    MaxRevision = 12
    Origins = {"created", "recovering", "unbound"}
PROPERTIES
    ReachesHuman
    StopCompletes
CHECK_DEADLOCK FALSE
