\* A kick for an issue that has failed in a pump another issue keeps running.
SPECIFICATION FairSpec
CONSTANTS
    Issues = {1, 2}
    MaxConcurrentIssues = 2
    Failing = {1}
    Stoppable = FALSE
    MaxOperations = 2
PROPERTY
    KickIsHeard
CHECK_DEADLOCK FALSE
