SPECIFICATION Spec

CONSTANTS
    w1 = w1
    w2 = w2
    w3 = w3
    Workers <- ThreeWorkers
    Threshold = 2
    Window = 2
    Rows <- FourRows

INVARIANTS
    TypeOK
    GuessesBounded

PROPERTIES
    LockLifts
