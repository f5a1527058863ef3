CONSTANTS
    Clients = {c1, c2}
    Nobody = Nobody
    Size = 3
    MaxSends = 1
SPECIFICATION FairSpec
PROPERTY RebootReturns
