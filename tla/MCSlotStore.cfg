SPECIFICATION Spec
CONSTANTS
    Ids = {a, b, c}
    Keys = {z, k1}
    Zero = z
    Nobody = Nobody
    MaxSlots = 3
SYMMETRY AnyOrder
INVARIANTS
    TypeOK
    SlotsExact
    LookupsExact
    UniqueSound
PROPERTY RowsAreKept
