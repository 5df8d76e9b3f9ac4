SPECIFICATION FairSpec
CONSTANTS
    t1 = t1
    t2 = t2
    user = user
    computer = computer
    probe = probe
    alice = alice
    host = host
    Threads = {t1, t2}
    Clients = {user, computer, probe}
    MayAsk <- MCMayAsk
    Accounts = {alice, host}
    UserAccounts = {alice}
    ComputerAccounts = {host}
    AccountOf <- MCAccountOf
    Configurations = {{}, {"ejbca"}, {"ldap", "ejbca"}}
    MaxAttempts = 2
INVARIANTS
    TypeOK
    OwnGroups
    CaOfThisLife
PROPERTY
    ProbesAnswered
