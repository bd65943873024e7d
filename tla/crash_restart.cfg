SPECIFICATION Spec

CONSTANTS
    Null = Null
    MaxHeight = 2
    MaxFork = 0
    InitHead = 1
    EventHeights = {2}
    Reincluded = {}
    MaxLogs = 1
    NodeMayLag = FALSE
    ChunkSize = 2
    InitialSyncBlockCount = 3
    Listening = TRUE
    Cron = TRUE
    NewHeads = TRUE
    StoredHeads <- TwoStored
    SyncOver = TRUE
    MaxFaults = 1
    MaxCrashes = 1

INVARIANT TypeOK
INVARIANT NoPrematureFinality
INVARIANT NoFalseAlarm
INVARIANT LastProcessedIsStored
INVARIANT SyncFillsWindow
