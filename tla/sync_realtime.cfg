SPECIFICATION Spec

CONSTANTS
    Null = Null
    MaxHeight = 2
    MaxFork = 1
    InitHead = 0
    EventHeights = {1, 2}
    Reincluded = {}
    MaxLogs = 1
    NodeMayLag = FALSE
    ChunkSize = 2
    InitialSyncBlockCount = 3
    Listening = TRUE
    Cron = FALSE
    NewHeads = TRUE
    StoredHeads <- EmptyOrStored
    SyncOver = FALSE
    MaxFaults = 0
    MaxCrashes = 0

INVARIANT NoHeaderLost
INVARIANT ReorgLogsAreReal
INVARIANT NoFalseAlarm
INVARIANT LastProcessedIsStored
INVARIANT SyncFillsWindow
INVARIANT SyncCollectsEvents
PROPERTY HandlesHeadersInOrder
PROPERTY AbandonedStayRolledBack

CHECK_DEADLOCK FALSE
