SPECIFICATION Spec
CONSTANTS
    Ranks = {r0, r1}
    Rank0 = r0
    Configs <- SavingSeldom
    total_training_steps = 4
    total_step = 3
    MaxRuns = 2
CHECK_DEADLOCK FALSE
INVARIANT FinishedIsSaved
