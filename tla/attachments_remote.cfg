SPECIFICATION Spec
CONSTANTS
    User = {u1, u2}
    Admin = {u1}
    Backends = {"remote"}
    Key = {k1}
    Bodies = {3}
    Limit = 3
    Chunk = 2
    Text = {x}
    MaxComment = 0
    Size = 1
    Req = {r1}
    Workloads = {{"upload", "download"}}
    Unset = Unset
INVARIANT StoredFilesAreServed
CHECK_DEADLOCK FALSE
