SPECIFICATION FairSpec
CONSTANTS
    MaxWrites <- Exchange
    Window = 1
    Stoppers = {"forward"}
INVARIANTS TypeOK NoGap
PROPERTIES TearsDown Delivered
CHECK_DEADLOCK FALSE
