SPECIFICATION Spec

CONSTANTS
    p1 = p1
    a = a
    e = e
    f = f
    g = g
    w1 = w1
    w2 = w2
    Providers <- MCProviders
    Subjects <- MCSubjects
    Emails <- MCEmails
    None = None
    Workers <- MCWorkers
    StateTTL = 1
    MaxStates = 2
    MaxCodes = 3

SYMMETRY Symmetry

INVARIANTS
    TypeOK
    SignsInLinkedUser
    StateReuseBounded
    SignInsAuthenticated

PROPERTIES
    LinksAreStable
