SPECIFICATION Spec
CONSTANTS
    MaxBoards = 1
    Handlers = {h}
    Mixes = {{"force", "garbled"}}
    MaxLiveRooms = 1
    MaxStreams = 1
    MaxEdits = 2
    MaxFails = 0
    MaxLoads = 1
PROPERTIES SavesLand
CHECK_DEADLOCK FALSE
