SPECIFICATION Spec

CONSTANTS
    w1 = w1
    w2 = w2
    Workers <- MCWorkers
    CacheTTL = 2
    Margin = 1
    Lifetimes <- MCLifetimes
    MaxVersions <- MCMaxVersions
    MaxSecrets = 2
    MaxNow = 2

SYMMETRY Symmetry
VIEW LiveCaches

INVARIANTS
    TypeOK
    StalenessBounded
    CachedBearersOutlastMargin
    BearersMatchSecret
