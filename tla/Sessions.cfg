SPECIFICATION Spec

CONSTANTS
    u1 = u1
    w1 = w1
    w2 = w2
    Users <- OneUser
    Workers <- TwoWorkers
    MaxSessions = 2
    RefreshTTL = 1
    AccessTTL = 1
    Enabled <- Operations
    MaxTokens = 3
    MaxNow = 1

SYMMETRY Symmetry
VIEW Seen

INVARIANTS
    TypeOK
    ParentRetired
    SweepCoversEarlierSessions
    EvictsInOrder
    ReuseBoundedByConcurrency
    OverrunBounded

PROPERTIES
    ImplementsLifecycle
    EvictsLiveOnlyAtCap
