SPECIFICATION Spec
CONSTANTS
    r1 = r1
    r2 = r2
    k1 = k1
    k2 = k2
    Regions = {r1, r2}
    Players = {p1, p2}
    Rows = {m1, m2}
    ClaimsOf <- OneClaimEach
    Nobody = Nobody
    MaxLoads = 3
    MaxTx = 2
INVARIANTS
    TypeOK
    MissingOnlyIfTorn
    ExtraOnlyIfOrphaned
CHECK_DEADLOCK FALSE
