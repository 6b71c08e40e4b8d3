\* Three issues, two slots, one issue whose operations may reject, shutdown at any step.
SPECIFICATION FairSpec
CONSTANTS
    Issues = {1, 2, 3}
    MaxConcurrentIssues = 2
    Failing = {1}
    Stoppable = TRUE
    MaxOperations = 2
INVARIANTS
    TypeOK
    WorkConserving
PROPERTIES
    DrainIsQuiescent
    UnrelatedServed
    DrainEnds
CHECK_DEADLOCK FALSE
