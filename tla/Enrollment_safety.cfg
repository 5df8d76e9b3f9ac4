SPECIFICATION Spec
CONSTANTS
    r1 = r1
    r2 = r2
    alice = alice
    web = web
    TUser = TUser
    TServer = TServer
    TNone = TNone
    staff = staff
    Requests = {r1, r2}
    Clients = {alice, web}
    Templates = {TUser, TServer, TNone}
    Groups = {staff}
    Configured = {TUser, TServer}
    AllowedGroups <- MCAllowedGroups
    Stem <- MCStem
    HashFits = {alice, web}
    Jobs <- Job
    MaxAttempts = 1
SYMMETRY Symmetry
INVARIANTS
    OwnSubject
    InadmissibleLeavesNoTrace
    IssuedIsSigned
    UndisturbedSucceeds
    AuditTellsOutcome
CHECK_DEADLOCK FALSE
