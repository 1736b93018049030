SPECIFICATION AccessSpec
CONSTANTS
    a1 = a1
    a2 = a2
    Accounts = {a1, a2}
    ConfigAdmin = ConfigAdmin
    Requests = {r1, r2}
    Tokens = {t1, t2}
    NoToken = NoToken
    Nobody = Nobody
    MaxEra = 1
    MaxEpoch = 1
    ann = ann
    ben = ben
    Users = {owner, visitor, admin}
    Admins = {admin}
    MaxSongs = 3
    PageSize = 1
    MaxPage = 3
    MaxPageSize = 20
    Visitors = {ann, ben}
    Peer = proxy
    HeaderSet = TRUE
    Limit = 2
    Window = 3
    owner = owner
    visitor = visitor
    admin = admin
SYMMETRY Symmetric
INVARIANTS AccessTypeOK AdminRemains SessionsAreCurrent WalkIsExact ServedToTheEntitled AllowanceIsFair
PROPERTIES AdmittedIsApproved
CHECK_DEADLOCK FALSE
