CONSTANTS
    f1 = f1
    f2 = f2
    f3 = f3
    Facts <- MCFacts
    Values <- MCValues
    Scenes <- MCScenes
    CacheLimit = 2
    LockTimeout = 1
    MaxOps = 3
SPECIFICATION Spec
PROPERTIES
    ForcedReleaseOnlyAfterTimeout
