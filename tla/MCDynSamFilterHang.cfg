SPECIFICATION FairSpec
CONSTANTS
    DatasetLen = 2
    BatchSize = 1
    Configs <- FilterOnly
    Rollouts = 1
    MaxDecay = 1
    HistoryKept = 3
    ZeroCap = 1
    MaxStep = 0
    MaxRestarts = 0
PROPERTY EverySampleReturns
