SPECIFICATION Spec
CONSTANTS
    User = {u1, u2}
    Project = {p1}
    Column = {c1, c2}
    Value = {v1, v2}
    Member = {m1, m2}
    Note = {n1, n2}
    Req = {r1, r2}
    Kinds = {"create", "edit", "close", "add", "remove", "read", "readall", "users"}
    Unset = Unset
SYMMETRY Symmetry
INVARIANTS
    LatecomersWriteNothing
    ReadAllIsComplete
PROPERTIES
    ActsAtomically
    RemovalIsOfTheRowFound
    ReadingIsOwn
    PatchTouchesItsColumns
CHECK_DEADLOCK FALSE
