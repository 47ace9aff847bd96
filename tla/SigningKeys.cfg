SPECIFICATION Spec

CONSTANTS
    w1 = w1
    w2 = w2
    w3 = w3
    Workers <- TwoWorkers
    TokenTTL = 2
    Grace = 3
    Latency = 1
    MaxKeys = 3

SYMMETRY Symmetry

INVARIANTS
    TypeOK
    YoungTokensVerify
    ActiveKeysBounded
    RevokedKeyDies

PROPERTIES
    NoReactivation
