SPECIFICATION Spec
CONSTANTS
    User = {u1, u2}
    Email = {e1, e2}
    SeedEmail = e1
    Req = {r1, r2}
    Kinds = {"seed", "register", "create", "update", "role", "delete"}
    Unset = Unset
SYMMETRY Symmetry
INVARIANTS
    TypeOK
    OneAccountPerEmail
    GoneWritesNothing
PROPERTIES
    PowerComesFromAdmins
    EditsTouchTheirColumns
CHECK_DEADLOCK FALSE
