SPECIFICATION Spec
CONSTANTS
    None = None
    h1 = h1
    h2 = h2
    j1 = j1
    j2 = j2
    Client <- TwoPairs
    Hosts <- TwoHosts
    Slot = {s1}
    MaxSend = 1
    Expiring <- Nobody
    Pinging <- Nobody
INVARIANTS TypeOK PairingSound ListedHostWaits
CHECK_DEADLOCK FALSE
