SPECIFICATION FairSpec
CONSTANTS
    None = None
    Pairs <- AllPairs
    MaxCand = 2
INVARIANTS TypeOK Authenticated NeverConfused NoCandidateLost
PROPERTY HandshakeEnds
CONSTRAINT FewCandidates
CHECK_DEADLOCK FALSE
