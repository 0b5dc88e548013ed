SYMMETRY Symmetry
CONSTANTS
    Cids = {c1, c2}
    Tags = {t1}
    Capacity = 3
    MaxListed = 5
    NoKey = NoKey
SPECIFICATION Spec
INVARIANT RingIndexed
PROPERTIES TeardownComplete BusyEvictsNothing
