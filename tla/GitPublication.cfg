SPECIFICATION FairSpec
CONSTANTS
    Issues = {i1, i2}
    LegacyIssues = {i2}
    Developer = dev
    Base = main
    Other = topic
    PushToRemote = TRUE
    Faults = {"crash", "remote", "dirty", "switch", "overlap", "repair"}
    MaxCommits = 2
    MaxDeveloperCommits = 1
    MaxFaults = 1
INVARIANTS
    TypeOK
    PublishedEverywhere
PROPERTIES
    Delivers
    DecidesRightly
    ReachesRest
CHECK_DEADLOCK FALSE
