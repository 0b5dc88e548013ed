CONSTANTS
    k1 = k1
    k2 = k2
    c1 = c1
    c2 = c2
    Keys = {k1, k2}
    Cids = {c1, c2}
    CidOf <- MCCidOf
    Owners = {w1}
    RingSize = 2
    NoKey = NoKey
SPECIFICATION Spec
INVARIANTS LiveIndexed AckIndexSound
PROPERTIES AckStopsReply AckOfSameCall
