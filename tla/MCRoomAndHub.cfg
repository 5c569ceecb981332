SPECIFICATION RoomAndHubSpec
CONSTANTS
    Clients = {a}
    Tabs = {a}
    RingCap = 2
    SubBuf = 2
    MaxEvents = 3
    MaxBreaks = 3
    Ids = {"shape", "arrow", "page"}
    Shapes = {"shape"}
    Bindings = {"arrow"}
    Structural = {"page"}
    Vals = {"u", "v"}
    Ends <- MCEnds
    Absent = absent
    MaxRecords = 3
    MaxTombstones = 1
    MaxRev = 3
    Keys = {"k1", "k2"}
    Size <- MCSize
    Callers = {1, 2, 3}
    KeyOf <- MCKeyOf
    IsFresh = {2}
    Deadline <- MCDeadline
    TTL = 1
    LeaderTimeout = 1
    MaxEntries = 1
    MaxBytes = 64
    MaxWrites = 1
INVARIANTS StreamComplete BroadcastComplete DeleteWins FreshEnough
PROPERTIES NoSilentGap CatchesUp
CHECK_DEADLOCK FALSE
