SPECIFICATION Spec
CONSTANTS
    None = None
    MaxDial = 2
    MaxWrite = 1
    EmptyWrites <- NoWrite
    Dialers <- OneWay
    Writers <- OneWay
    Readers <- NoSide
    Closers <- OneWay
    Quitters <- NoSide
    Stoppers <- NoSide
    LinkFails = FALSE
    CtxSides <- AllSides
    ControlCap = 1
    DataCap = 1
    AcceptCap = 1
    ReadCap = 1
    WireCap = 1
    PeerWindow = 1
INVARIANTS NoLeak ControlPriority
PROPERTY ImplementsStream
CHECK_DEADLOCK FALSE
