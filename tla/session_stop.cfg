SPECIFICATION Spec
CONSTANTS
    None = None
    MaxDial = 1
    MaxWrite = 1
    EmptyWrites <- NoWrite
    Dialers <- OneWay
    Writers <- OneWay
    Readers <- FarSide
    Closers <- NoSide
    Quitters <- NoSide
    Stoppers <- OneWay
    LinkFails = TRUE
    CtxSides <- NoSide
    ControlCap = 1
    DataCap = 1
    AcceptCap = 1
    ReadCap = 1
    WireCap = 1
    PeerWindow = 1
INVARIANT NoLeak
PROPERTY ImplementsStream
CHECK_DEADLOCK FALSE
