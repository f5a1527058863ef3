CONSTANTS
    Tick = 2
    MaxDelta = 5
    IdleDelta = 3
    IdleMs = 2
    Deltas <- MCDeltas
    Profiles = {std, heavy}
    BootProfile = std
    Peers = {p1, p2}
    MaxDatagrams = 4
    MaxIdleTicks = 2
SPECIFICATION FairSpec
INVARIANTS TypeOK ClocksInOrder ProfileInForce SticksAsked
PROPERTIES ContractSpec MspComesBack
