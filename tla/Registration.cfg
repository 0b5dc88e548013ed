CONSTANTS
    a1 = a1
    a2 = a2
    c1 = c1
    c2 = c2
    c3 = c3
    d1 = d1
    w1 = w1
    w2 = w2
    Aors = {a1, a2}
    ContactsOf <- MCContactsOf
    Workers = {w1}
    SlotCount = 2
    RingSize = 2
    MaxLife = 2
    DbFails = FALSE
    None = None
SYMMETRY Symmetry
SPECIFICATION Spec
INVARIANTS RingCovers OneSlotPerContact
PROPERTIES RemovedUnreachable StoreKeepsOthers
