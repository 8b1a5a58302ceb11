CONSTANTS
    q1 = q1
    o1 = o1
    Facts <- MCFacts
    ObjectiveFacts <- MCObjectiveFacts
    Values <- MCValues
    Scenes <- MCScenes
    AreaScenes <- MCAreaScenes
    CutsceneScene = 999
    TestScene = 123
    DebugConsole = FALSE
    CacheLimit = 2
    LockTimeout = 1
    MaxOps = 4
SPECIFICATION HooksSpec
INVARIANT SceneFactsSynced
