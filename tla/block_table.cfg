SPECIFICATION ApiSpec

CONSTANTS
    Null = Null
    MaxNumber = 4
    Limit = 2
    Filters = {Null, "SAFE"}

INVARIANT GapsCoverHoles
INVARIANT WalkSeesStoredRows
PROPERTY UpdatesNeverDemote
