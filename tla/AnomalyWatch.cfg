CONSTANTS
    Requests = {r1, r2}
    Clients = {x, y}
    NoClient = "none"
    Tools = {"t"}
    NoTool = "none"
    Gone = "gone"
    SeedLimit = 2
    MaxStarts = 3
SPECIFICATION WatchSpec
SYMMETRY Symmetry

INVARIANTS FirstTimeSaidOnce
PROPERTIES QuietOnlyAlone
CHECK_DEADLOCK FALSE
