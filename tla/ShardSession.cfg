SPECIFICATION FairSpec
CONSTANTS
    Claims = {k1}
    Sites = {s1}
    MaxCommits = 3
    MaxSessions = 3
    MaxWire = 2
    BackoffMin = 1
    BackoffMax = 3
INVARIANTS
    TypeOK
    ReadyIsExact
    NotReadyIsEmpty
    LocatedUnlessReplaced
    BackoffIsEarned
PROPERTIES
    Repaired
    ShutdownHeard
CHECK_DEADLOCK FALSE
