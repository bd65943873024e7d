SPECIFICATION FairSpec

CONSTANTS
    Null = Null
    MaxHeight = 2
    MaxFork = 0
    InitHead = 0
    EventHeights = {}
    Reincluded = {}
    MaxLogs = 1
    NodeMayLag = FALSE
    ChunkSize = 2
    InitialSyncBlockCount = 3
    Listening = FALSE
    Cron = TRUE
    NewHeads = TRUE
    StoredHeads <- GenesisStored
    SyncOver = TRUE
    MaxFaults = 2
    MaxCrashes = 0

PROPERTY HandlesHeadersInOrder
PROPERTY PollingEnds
PROPERTY QueueDrains
PROPERTY GapsGetFilled
