SPECIFICATION Spec
CONSTANTS
    r1 = r1
    r2 = r2
    alice = alice
    web = web
    TUser = TUser
    TServer = TServer
    TNone = TNone
    staff = staff
    Requests = {r1, r2}
    Clients = {alice, web}
    Templates = {TUser, TServer, TNone}
    Groups = {staff}
    Configured = {TUser, TServer}
    AllowedGroups <- MCAllowedGroups
    Stem <- MCStem
    HashFits = {alice, web}
    Jobs <- RetryJobs
    MaxAttempts = 2
SYMMETRY Symmetry
INVARIANTS
    TypeOK
    InadmissibleLeavesNoTrace
    IssuedIsSigned
    UndisturbedSucceeds
    SecondNeedsDelete
PROPERTIES
    KeepsPromise
    NeverBack
CHECK_DEADLOCK FALSE
