SPECIFICATION FairSpec
CONSTANTS
    Issues = {i1}
    RestartLimit = 1
    MaxStarting = 5
    Faults = {"exit", "launch", "timeout", "missing", "retry", "failed", "cancel", "stop", "terminal"}
    MaxFaults = 2
    MaxStages = 2
INVARIANTS
    TypeOK
    ResultIsOwn
    NothingLeftBehind
    TempWhileRunning
PROPERTY
    TurnsEnd
CHECK_DEADLOCK FALSE
