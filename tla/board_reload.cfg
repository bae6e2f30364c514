SPECIFICATION Spec
CONSTANTS
    User = {u1}
    Admin = {u1}
    Task = {t1}
    Title = {a}
    Status = {"todo", "done"}
    Positions = {}
    Req = {r1, r2}
    Kinds = {"create", "update", "delete"}
    MaxVersion = 1
    Nobody = Nobody
    Unset = Unset
SYMMETRY Symmetry
INVARIANT ReloadSucceeds
CHECK_DEADLOCK FALSE
