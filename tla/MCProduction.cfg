SPECIFICATION ProductionSpec
CONSTANTS
    MaxJobsPerProject = 2
    MaxStepsPerJob = 3
    MaxEdgesPerJob = 3
    MaxBatchesPerJob = 1
    MaxResultsPerStep = 1
    MaxPlaceholdersPerStep = 1
    MaxPlanDocsPerStep = 1
    MaxFulfillmentsPerBatch = 1
    MaxIds = 11
    NoData = NoData
    MaxEdits = 2
    MaxCalls = 2
    MaxFails = 0
INVARIANTS Acyclic EdgesAnchored ChildIdsUnique RunsFitTheirPlan GesturesLand
PROPERTIES TypingKept JobConverges
CHECK_DEADLOCK FALSE
