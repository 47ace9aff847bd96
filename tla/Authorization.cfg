SPECIFICATION Spec

CONSTANTS
    p = p
    q = q
    r1 = r1
    r2 = r2
    i1 = i1
    i2 = i2
    w1 = w1
    w2 = w2
    None = None
    Perms <- MCPerms
    LegacyRoles <- MCLegacyRoles
    PackRole <- MCPackRole
    CustomRoles <- MCCustomRoles
    Rows <- MCRows
    Workers <- MCWorkers
    Strict = FALSE

SYMMETRY Symmetry

VIEW View

INVARIANTS
    TypeOK
    AnswersWereHeld
    AnswersExact

PROPERTY
    RemovedPermissionsGo
