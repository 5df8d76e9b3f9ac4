SPECIFICATION Spec
CONSTANTS
    r1 = r1
    r2 = r2
    alice = alice
    web = web
    TUser = TUser
    TServer = TServer
    TNone = TNone
    staff = staff
    Requests = {r1, r2}
    Clients = {alice, web}
    Templates = {TUser, TServer, TNone}
    Groups = {staff}
    Configured = {TUser, TServer}
    AllowedGroups <- MCAllowedGroups
    Stem <- MCStem
    HashFits = {alice}
    Jobs <- TwoTemplateJobs
    MaxAttempts = 1
INVARIANT
    OwnSubject
CHECK_DEADLOCK FALSE
