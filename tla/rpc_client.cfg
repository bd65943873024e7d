SPECIFICATION FairSpec

CONSTANTS
    Null = Null
    Failed = Failed
    MaxHeight = 1
    MaxFork = 1
    InitHead = 0
    EventHeights = {}
    Reincluded = {}
    MaxLogs = 1
    NodeMayLag = FALSE
    Callers = {c1, c2}
    AskedTags = {"safe"}
    AskedNumbers = {0, 1}
    MaxCacheSize = 2
    MaxRetries = 2

INVARIANT ClientTypeOK
PROPERTY AnswersComeFromTheNode
PROPERTY EveryCallReturns
