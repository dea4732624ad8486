SPECIFICATION FairSpec
CONSTANTS
    DatasetLen = 2
    BatchSize = 2
    Configs <- EachStrategy
    Rollouts = 1
    MaxDecay = 2
    HistoryKept = 2
    ZeroCap = 1
    MaxStep = 1
    MaxRestarts = 1
INVARIANTS TypeOK QueueHasNoDuplicates RatiosFollowHistory
PROPERTIES ImplementsEpochs FilteredForever SampleReturns NoRowStarves
