SPECIFICATION MCSpec
CONSTANTS
    User = {u1, u2}
    Admin = {u1}
    Backends = {"local", "remote"}
    Key = {k1, k2}
    Bodies = {0, 3, 4}
    Limit = 3
    Chunk = 2
    Text = {x, y}
    MaxComment = 2
    Size = 1
    Req = {r1, r2}
    Workloads = {{"upload", "download", "world"}, {"post", "edit", "erase", "world"}, {"post", "erase", "walk"}}
    Unset = Unset
SYMMETRY Symmetry
INVARIANTS
    TypeOK
    RowsHaveTheirBlob
    
    OnlyFaultsLeaveBlobs
    
    WalkMissesNothing
PROPERTIES
    CommentsAreTheirAuthors
CHECK_DEADLOCK FALSE
