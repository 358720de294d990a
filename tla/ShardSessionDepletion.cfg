SPECIFICATION Spec
CONSTANTS
    Claims = {k1}
    Sites = {s1}
    MaxCommits = 2
    MaxSessions = 1
    MaxWire = 1
    BackoffMin = 1
    BackoffMax = 3
PROPERTIES
    DepletionKeepsLocation
CHECK_DEADLOCK FALSE
