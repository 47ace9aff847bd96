SPECIFICATION Spec

CONSTANTS
    u1 = u1
    w1 = w1
    w2 = w2
    Users <- OneUser
    Workers <- OneWorker
    MaxSessions = 2
    RefreshTTL = 1
    AccessTTL = 1
    Enabled <- NoPatches
    MaxTokens = 3
    MaxNow = 0

PROPERTIES
    NoTokensForInactiveUser
