SPECIFICATION Spec

CONSTANTS
    o1 = o1
    w1 = w1
    w2 = w2
    None = None
    Owners <- MCOwners
    Workers <- MCWorkers
    MaxPerOwner = 1
    MaxClients = 3
    MaxSecrets = 4

SYMMETRY Symmetry

INVARIANTS
    TypeOK
    OwnedBounded

PROPERTIES
    RevocationsLast
    ImplementsCredentials
