SPECIFICATION Spec
CONSTANTS
    Ranks = {r0, r1}
    Rank0 = r0
    Configs <- KeepingOne
    total_training_steps = 3
    total_step = 4
    MaxRuns = 2
CHECK_DEADLOCK FALSE
INVARIANT TrackedIsComplete
