SPECIFICATION FairClientSpec
CONSTANTS
    MaxTransfers = 2
    MaxStarts <- Starts
    MaxRetries = 2
    MaxFaults = 1
    MaxRecords = 2
    OperatorFollowsPrompts = TRUE
INVARIANTS
    ClientTypeOK
    BurnsFollowMints
    ReportsAreTrue
PROPERTIES
    ImplementsBatch
    EveryScriptEnds
    EveryEscrowEnds
CHECK_DEADLOCK FALSE
