SPECIFICATION Spec
CONSTANTS
    MaxLines = 2
    MaxWatches = 1
    MaxTicks = 1
    MaxGen = 0
CHECK_DEADLOCK FALSE
PROPERTIES
    FinishKeepsOthersQuestion
