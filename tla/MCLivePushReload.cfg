SPECIFICATION Spec
CONSTANTS
    r1 = r1
    d1 = d1
    d2 = d2
    Entities = {e1}
    Dims = {d1, d2}
    Overworld = Overworld
    Descs = {chest}
    Absent = Absent
    Regions = {r1}
    Keys <- TwoKeys
    Conns = {c1}
    Unsent = Unsent
    Residents = 0
    MaxDimKeys = 2
    MaxRows = 2
    MaxTx = 2
    MaxLoads = 2
    MaxFrames = 2
INVARIANTS
    FreshAfterReload
CHECK_DEADLOCK FALSE
