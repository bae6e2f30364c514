SPECIFICATION RequestsSpec
CONSTANTS
    User = {u1, u2}
    Admin = {u1}
    Task = {t1}
    Title = {a, b}
    Status = {"todo", "done"}
    Positions = {}
    Req = {r1, r2}
    Kinds = {"create", "update", "move", "delete"}
    MaxVersion = 1
    Nobody = Nobody
    Unset = Unset
PROPERTIES
    ActsAtomically
    NoLostUpdate
    DeletedIsFinal
    RequestsFinish
CHECK_DEADLOCK FALSE
