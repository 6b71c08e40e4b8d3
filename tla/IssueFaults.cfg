\* Every unusual event at once, on a shorter history; the project captures by itself and has
\* an Agent that gives every session a name of its own.
SPECIFICATION FairSpec
CONSTANTS
    Capabilities <- MCCapabilities
    AgentAssessments <- MCAgentAssessments
    HostCapture = TRUE
    FreshSessions = TRUE
    Faults = {"crash", "shutdown", "input", "intake", "cleanup", "cancel", "provider"}
    MaxRevision = 11
    Origins = {"created", "recovering", "unbound"}
INVARIANT
    HumanGate
PROPERTY
    PauseCompletes
CHECK_DEADLOCK FALSE
