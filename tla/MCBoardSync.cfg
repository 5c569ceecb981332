SPECIFICATION FairSpec
CONSTANTS
    shape = shape
    page = page
    u = u
    v = v
    a = a
    b = b
    w = w
    Ids = {shape, page}
    Shapes = {shape}
    Bindings = {}
    Structural = {page}
    Vals = {u}
    Ends <- NoEnds
    Absent = absent
    Clients = {a, w}
    MaxRecords = 2
    MaxTombstones = 1
    MaxRev = 2
    Writers = {a}
    EditIds <- OneEdits
    Slots = {1, 2}
    MaxEdits = 2
    MaxImports = 1
    MaxFails = 1
    MaxSkips = 1
    MaxCrashes = 0
INVARIANTS ViewerConsistent
PROPERTIES EventuallySettled
CHECK_DEADLOCK FALSE
