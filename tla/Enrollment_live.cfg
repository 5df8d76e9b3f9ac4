SPECIFICATION FairSpec
CONSTANTS
    r1 = r1
    r2 = r2
    alice = alice
    web = web
    TUser = TUser
    TServer = TServer
    TNone = TNone
    staff = staff
    Requests = {r1, r2}
    Clients = {alice, web}
    Templates = {TUser, TServer, TNone}
    Groups = {staff}
    Configured = {TUser, TServer}
    AllowedGroups <- MCAllowedGroups
    Stem <- MCStem
    HashFits = {alice, web}
    Jobs <- IssueJobs
    MaxAttempts = 2
PROPERTY
    EveryRequestEnds
CHECK_DEADLOCK FALSE
