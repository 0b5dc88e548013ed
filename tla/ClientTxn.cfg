CONSTANTS
    k1 = k1
    k2 = k2
    w1 = w1
    w2 = w2
    Keys = {k1, k2}
    Owners = {w1, w2}
    Window = 2
    Windows = 2
    MaxActive = 2
    NoKey = NoKey
SPECIFICATION Spec
SYMMETRY Interchangeable
INVARIANT CountNotAbove
