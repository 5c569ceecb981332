SPECIFICATION FairSpec
CONSTANTS
    Calls = {1, 2, 3}
    Req <- ThreeReq
    Capacity = 4
    Headroom = 0
    RefillPer = 2
    MaxInFlight <- OneSlot
    ReserveFloor <- Floors
    MaxQueueWait <- Waits
    DefaultCooldown = 2
    MaxCooldown = 3
    Minute = 2
    RetryAfters = {0}
    Remainings <- Quotas
    Actuals = {4}
    MaxTrips = 1
    IdleCap = 4
INVARIANTS NoLostWakeup WorkConserving SlotsMatchHolders
PROPERTIES StrictPriority EveryWaitEnds
