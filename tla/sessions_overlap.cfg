SPECIFICATION OpenSpec
CONSTANTS
    User = {u1}
    Password = {p1}
    Token = {t1, t2, t3}
    Req = {r1, r2}
    NoUser = NoUser
    NoPassword = NoPassword
    NoToken = NoToken
    Kinds = {"refresh", "logout", "password"}
    MaxExpired = 0
    CommitFirst = TRUE
INVARIANTS
    ChainWellFormed
    LogoutSticks
    
PROPERTIES
    
    RequestsFinish
CHECK_DEADLOCK FALSE
