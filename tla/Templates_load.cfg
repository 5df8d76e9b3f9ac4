SPECIFICATION Spec
CONSTANTS
    User = User
    Server = Server
    Kiosk = Kiosk
    staffDn = staffDn
    adminDn = adminDn
    staff = staff
    admins = admins
    Names = {User, Server, Kiosk}
    GroupDns = {staffDn, adminDn}
    CnOf <- MCCnOf
    MappingFiles <- MCMappingFiles
    DefaultNames <- MCDefaultNames
INVARIANTS
    TypeOK
    ReferencesResolve
    ListedIffEnrollable
    LastMappingWins
