SPECIFICATION FairAppSpec
CONSTANTS
    None = None
    MaxDial = 1
    MaxWrite = 2
    EmptyWrites <- SecondWrite
    Dialers <- OneWay
    Writers <- OneWay
    Readers <- AllSides
    Closers <- AllSides
    Quitters <- FarSide
    Stoppers <- NoSide
    LinkFails = FALSE
    CtxSides <- AllSides
    ControlCap = 1
    DataCap = 1
    AcceptCap = 1
    ReadCap = 1
    WireCap = 2
    PeerWindow = 1
INVARIANTS TypeOK StreamConserved
PROPERTIES ImplementsStream CloseReachesMate CallsReturn
CHECK_DEADLOCK FALSE
