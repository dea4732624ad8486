SPECIFICATION FairSpec
CONSTANTS
    Ranks = {r0, r1}
    Rank0 = r0
    Configs <- KeepingTwo
    total_training_steps = 3
    total_step = 4
    MaxRuns = 3
CHECK_DEADLOCK FALSE
INVARIANTS TypeOK TrackedIsComplete SomethingToResume AtMostMaxToKeep FinalIsDurable FirstRunIsSaved
PROPERTIES TrackedIsFrozen ImplementsDurableTraining JobEnds
