SPECIFICATION FairService
CONSTANTS
    r1 = r1
    r2 = r2
    alice = alice
    web = web
    TUser = TUser
    TServer = TServer
    TNone = TNone
    staff = staff
    Requests = {r1, r2}
    Clients = {alice, web}
    Templates = {TUser, TServer, TNone}
    Groups = {staff}
    Configured = {TUser, TServer}
    AllowedGroups <- MCAllowedGroups
    Stem <- MCStem
    HashFits = {alice, web}
    Jobs <- DeviceJobs
    MaxAttempts = 1
    Principal <- MCPrincipal
    Legs <- OneLeg
    Preemptive = {r1}
INVARIANTS
    ServiceTypeOK
    HandOverAgrees
    UndisturbedDeviceCertified
    SuccessHasCertificate
PROPERTIES
    KeepsWord
    EveryDeviceEnds
CHECK_DEADLOCK FALSE
