SPECIFICATION FairSpec
CONSTANTS
    None = None
    h1 = h1
    h2 = h2
    j1 = j1
    j2 = j2
    Client <- TwoJoiners
    Hosts <- OneHost
    Slot = {s1}
    MaxSend = 2
    Expiring <- TwoJoiners
    Pinging <- OneHost
INVARIANT RelayInOrder
PROPERTY TimeoutReleases
CHECK_DEADLOCK FALSE
