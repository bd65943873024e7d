SPECIFICATION FairSpec

CONSTANTS
    Null = Null
    MaxHeight = 2
    MaxFork = 1
    InitHead = 1
    EventHeights = {}
    Reincluded = {}
    MaxLogs = 1
    NodeMayLag = FALSE
    ChunkSize = 2
    InitialSyncBlockCount = 3
    Listening = FALSE
    Cron = TRUE
    NewHeads = FALSE
    StoredHeads <- TwoStored
    SyncOver = TRUE
    MaxFaults = 0
    MaxCrashes = 0

PROPERTY RowsConvergeToNode
