SPECIFICATION ProgressSpec
CONSTANTS
    None = None
    MaxDial = 1
    MaxWrite = 2
    EmptyWrites <- NoWrite
    Dialers <- OneWay
    Writers <- OneWay
    Readers <- FarSide
    Closers <- AllSides
    Quitters <- FarSide
    Stoppers <- AllSides
    LinkFails = TRUE
    CtxSides <- OneWay
    ControlCap = 1
    DataCap = 1
    AcceptCap = 1
    ReadCap = 1
    WireCap = 1
    PeerWindow = 0
PROPERTIES SessionCloseReturns FailureStopsSessions
CONSTRAINT StopScenarios
CHECK_DEADLOCK FALSE
