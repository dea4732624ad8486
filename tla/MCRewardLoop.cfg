SPECIFICATION FairSpec
CONSTANTS
    Second = 2
    BatchSize = 3
    Batches = 2
    Requirements <- Configured
    max_concurrent = 2
    timeout = 1
    Threads = 2
    MaxHung = 1
    ResultKeys = {"score", "acc"}
CHECK_DEADLOCK FALSE
INVARIANTS TypeOK RateKept NoIdleTokens
PROPERTIES NoCallAfterTimeout AllAnswered
