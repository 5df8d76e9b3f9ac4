SPECIFICATION Spec
CONSTANTS
    t1 = t1
    t2 = t2
    w1 = w1
    w2 = w2
    alice = alice
    staff = staff
    TUser = TUser
    TServer = TServer
    before = before
    after = after
    Threads = {t1, t2}
    Workers = {w1, w2}
    WorkerOf <- MCWorkerOf
    Clients = {alice}
    Groups = {staff}
    Templates = {TUser, TServer}
    Rules = {before}
    AllowedGroups <- OneRule
    LdapConfigured = TRUE
    Connected = FALSE
    CacheEnabled = TRUE
PROPERTY
    GroupsFetched
