SPECIFICATION Spec
CONSTANTS
    t1 = t1
    t2 = t2
    w1 = w1
    w2 = w2
    alice = alice
    staff = staff
    TUser = TUser
    TServer = TServer
    before = before
    after = after
    Threads = {t1, t2}
    Workers = {w1}
    WorkerOf <- OneWorker
    Clients = {alice}
    Groups = {staff}
    Templates = {TUser, TServer}
    Rules = {before, after}
    AllowedGroups <- RolloutGroups
    LdapConfigured = TRUE
    Connected = TRUE
    CacheEnabled = TRUE
SYMMETRY Symmetry
INVARIANTS
    TypeOK
    CachedMatchesKey
    AnswerFromCurrentGroups
PROPERTIES
    CacheForgetsOutages
    KeepsListing
