SPECIFICATION Spec

CONSTANTS
    Null = Null
    MaxHeight = 2
    MaxFork = 0
    InitHead = 1
    EventHeights = {1}
    Reincluded = {}
    MaxLogs = 1
    NodeMayLag = FALSE
    ChunkSize = 2
    InitialSyncBlockCount = 3
    Listening = TRUE
    Cron = FALSE
    NewHeads = TRUE
    StoredHeads <- GenesisStored
    SyncOver = FALSE
    MaxFaults = 0
    MaxCrashes = 0

INVARIANT SyncLeavesNoEventBehind

CHECK_DEADLOCK FALSE
