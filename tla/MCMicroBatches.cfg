SPECIFICATION FairSpec
CONSTANTS
    Ranks = {r1, r2}
    RowsPerRank = 3
    Lengths = {1, 2, 5}
    max_token_len = 5
    ppo_mini_batch_size = 2
CHECK_DEADLOCK FALSE
INVARIANTS TypeOK WorkIsBalanced EveryRowOnce LogProbsInOrder
PROPERTIES StepEnds
