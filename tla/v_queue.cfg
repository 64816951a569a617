SPECIFICATION FairSpec
CONSTANTS
    Scenarios <- QueueScenario
    MaxConn = 2
    MaxTold = 2
    ReadMax = 2
    Mark = 9
    GoMark = 1
    MaxStops = 0
PROPERTY QueueIsSent
CHECK_DEADLOCK FALSE
