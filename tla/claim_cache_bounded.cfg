SPECIFICATION Spec

CONSTANTS
    Null = Null
    Failed = Failed
    MaxHeight = 2
    MaxFork = 0
    InitHead = 2
    EventHeights = {}
    Reincluded = {}
    MaxLogs = 1
    NodeMayLag = FALSE
    Callers = {c1}
    AskedTags = {}
    AskedNumbers = {0, 1, 2}
    MaxCacheSize = 2
    MaxRetries = 1

INVARIANT CacheStaysBounded
