\* A new issue, a crash or a shutdown at any step.
SPECIFICATION Spec
CONSTANTS
    Capabilities <- MCCapabilities
    AgentAssessments <- MCAgentAssessments
    HostCapture = FALSE
    FreshSessions = FALSE
    Faults = {"crash", "shutdown", "cancel"}
    MaxRevision = 15
    Origins = {"created", "recovering", "unbound"}
INVARIANTS
    TypeOK
    SnapshotCurrent
    ReadyMeansQuiet
    HumanGate
    EvidenceOfThisIteration
    PendingFits
    NotStranded
    OffersAreHonoured
PROPERTY
    HumanHasTheWord
CHECK_DEADLOCK FALSE
