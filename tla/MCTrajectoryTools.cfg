SPECIFICATION FairSpec
CONSTANTS
    t1 = t1
    t2 = t2
    Trajs = {t1, t2}
    Steps = {1, 2}
    Kind <- KindOfStep
    InitBoxes <- SomeDicts
    Bare <- WithoutThought
    Platforms = {"computer", "mobile"}
    MaxSessions = 2
    Basename <- OneName
    workers = 2
    SaveEvery = 1
    FlushEvery = 1
CHECK_DEADLOCK FALSE
INVARIANTS TypeOK AskedBeforeFixed ProgressIsEarned FlushedIsFinal RawIsOriginal
PROPERTIES ImplementsAnnotated SessionsEnd
