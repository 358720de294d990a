SPECIFICATION Spec
VIEW Tables
SYMMETRY Symmetry
CONSTANTS
    Players = {p1, p2}
    Claims = {c1}
    Buildings = {b1}
    Networks = {n1}
    Bags = {box}
    Deployables = {box, cart}
    Crafts = {k1}
    MemberRows = {m1}
    Dims = {d1}
    Overworld = Overworld
    NoId = NoId
    Descs = {chest, bank}
    Included = {chest}
    Personal = {bank}
    Indexes = {0}
    Coins = {1}
    Stamps = {s1}
    None = None
    MaxRows = 5
INVARIANTS
    TypeOK
    CandidatesComplete
PROPERTIES
    ClaimInventoryWakes
    CraftsWake
    PlayerInventoryWakes
    PlayerHousingWakes
    RosterWakes
