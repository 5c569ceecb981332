SPECIFICATION FairSpec
CONSTANTS
    MaxBoards = 2
    Handlers = {h}
    Mixes = {{"put", "create"}, {"put", "force", "rename", "delete", "crash"},
             {"force", "garbled", "large", "backup"},
             {"create", "delete", "crash"}, {"purge", "backup"}, {"backup", "restore"}}
    MaxLiveRooms = 1
    MaxStreams = 1
    MaxEdits = 2
    MaxFails = 1
    MaxLoads = 2
INVARIANTS NoPatchLost RoomAheadOfFile BackupComplete
PROPERTIES EventuallySaved
CHECK_DEADLOCK FALSE
