SPECIFICATION FairSpec

CONSTANTS
    w1 = w1
    w2 = w2
    Replicas <- MCReplicas
    Engines <- MCEngines
    Revisions = 1
    Permissions <- MCPermissions
    PackRoles <- MCPackRoles
    PackGrants <- MCPackGrants
    MaxCrashes = 1
    Workers <- MCWorkers
    Home <- MCHome
    Emails <- MCEmails
    AutoAdmin = TRUE
    Matching <- MCMatching
    Mapped <- MCMapped
    MaxMappings = 1
    AdminRows <- MCAdminRows

VIEW View

INVARIANTS
    TypeOK
    RoleRowsBounded
    SeededWhenServing
    FirstAdminsBounded
    AssignmentsBounded
    AuditGapsExplained

PROPERTY
    StartupsSucceed
