SPECIFICATION AccountsSpec
CONSTANTS
    root = root
    bob = bob
    r1 = r1
    r2 = r2
    p1 = p1
    p2 = p2
    p3 = p3
    admin = admin
    viewer = viewer
    t1 = t1
    None = None
    Root = root
    Admin = admin
    Admins <- OneRoot
    Requests <- OneRequest
    Passwords <- ThreePasswords
    Roles <- TwoRoles
    ResetTokens <- OneToken
    MaxLoginAttempts = 2
    LockoutTicks = 2
    TokenTicks = 1
    HistoryChecked = 2
    HistoryKept = 3
    MaxFailed = 3
    MaxSetups = 1
    MaxChanges = 3
    MaxStarted = 4
PROPERTIES
    NotRecentlyUsed
