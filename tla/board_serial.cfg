SPECIFICATION MCSpec
CONSTANTS
    User = {u1, u2}
    Admin = {}
    Task = {t1, t2}
    Title = {a}
    Status = {"todo", "done"}
    Positions = {}
    Req = {r1}
    Kinds = {"create", "move", "delete", "members"}
    MaxVersion = 2
    Nobody = Nobody
    Unset = Unset
    Name = {n1, n2}
    Late = {a}
    Urgent = {a}
    MaxCommits = 2
SYMMETRY Symmetry
VIEW Relevant
INVARIANTS
    DistinctPositions
    OutsidersWriteNothing
    FiguresDriftByCommits
CHECK_DEADLOCK FALSE
