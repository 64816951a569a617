SPECIFICATION Spec
CONSTANTS
    None = None
    MaxDial = 2
    MaxWrite = 1
    EmptyWrites <- NoWrite
    Dialers <- OneWay
    Writers <- AllSides
    Readers <- NoSide
    Closers <- AllSides
    Quitters <- NoSide
    Stoppers <- NoSide
    LinkFails = FALSE
    CtxSides <- AllSides
    ControlCap = 1
    DataCap = 1
    AcceptCap = 2
    ReadCap = 1
    WireCap = 1
    PeerWindow = 1
INVARIANT NoCircularWait
CONSTRAINT OneAfterTheOther
CHECK_DEADLOCK FALSE
