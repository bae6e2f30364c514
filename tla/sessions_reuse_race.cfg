SPECIFICATION Spec
CONSTANTS
    User = {u1}
    Password = {p1}
    Token = {t1, t2, t3}
    Req = {r1, r2}
    NoUser = NoUser
    NoPassword = NoPassword
    NoToken = NoToken
    Kinds = {"login", "refresh"}
    MaxExpired = 0
    CommitFirst = TRUE
SYMMETRY Symmetry
INVARIANT ReuseEndsFamily
CHECK_DEADLOCK FALSE
