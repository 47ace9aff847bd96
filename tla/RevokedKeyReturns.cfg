SPECIFICATION Spec

CONSTANTS
    w1 = w1
    w2 = w2
    w3 = w3
    Workers <- TwoWorkers
    TokenTTL = 1
    Grace = 3
    Latency = 1
    MaxKeys = 2

SYMMETRY Symmetry

PROPERTIES
    RevokedStaysRevoked
