CONSTANTS
    a = a
    b = b
    NoData = NoData
    Channels <- MCChannels
    MaxMsgs = 2
    MaxChanges = 1
    MaxFetches = 2
    MaxDrops = 1
    RingCap = 1
SYMMETRY ChannelSymmetry
SPECIFICATION Spec
INVARIANTS OneRowPerPost StreamIsRefetch
CHECK_DEADLOCK FALSE
