SPECIFICATION Spec

CONSTANTS
    Null = Null
    MaxHeight = 2
    MaxFork = 1
    InitHead = 1
    EventHeights = {1}
    Reincluded = {1}
    MaxLogs = 1
    NodeMayLag = FALSE
    ChunkSize = 2
    InitialSyncBlockCount = 3
    Listening = TRUE
    Cron = TRUE
    NewHeads = TRUE
    StoredHeads <- TwoStored
    SyncOver = TRUE
    MaxFaults = 0
    MaxCrashes = 0

INVARIANT CanonicalEventsAreRestored
