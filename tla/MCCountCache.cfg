SPECIFICATION Spec
CONSTANTS
    Readers = {r1, r2}
    Writers = {w1, w2}
    Prevs = {p1, p2}
    Grams = {g1}
    NoGram = NoGram
    Nobody = Nobody
    MaxWrites = 2
INVARIANTS
    CacheInv
    LockOrder
    ClosedGateMeansNoGram
PROPERTIES
    ReadsCurrentGram
SYMMETRY Threads
