SPECIFICATION Spec
CONSTANTS
    User = {u1, u2}
    Password = {p1, p2}
    Token = {t1, t2, t3}
    Req = {r1}
    NoUser = NoUser
    NoPassword = NoPassword
    NoToken = NoToken
    Kinds = {"login", "refresh", "logout", "password", "delete", "activate", "deactivate"}
    MaxExpired = 1
    CommitFirst = FALSE
SYMMETRY Symmetry
CONSTRAINT ExpiryBound
INVARIANTS
    OneLiveTokenPerFamily
    ReuseEndsFamily
    PasswordChangeEndsSessions
    DeletedAccountIsShut
PROPERTIES
    RevocationIsJustified
CHECK_DEADLOCK FALSE
