SPECIFICATION FairSpec
CONSTANTS
    Scenarios <- AllScenarios
    MaxConn = 2
    MaxTold = 2
    ReadMax = 2
    Mark = 2
    GoMark = 1
    MaxStops = 1
PROPERTY Arrives
INVARIANTS TypeOK WholeFiles CleanEnd WorkerCleansUp
CHECK_DEADLOCK FALSE
