CONSTANTS
    Clients = {c1, c2}
    Nobody = Nobody
    Size = 3
    MaxSends = 2
SPECIFICATION FairSpec
INVARIANTS OneLiveClient RingIsFifo
PROPERTIES UartSpec RoundEnds ClientAccepted RebootCutsNoReply CorpseDropsNobody
