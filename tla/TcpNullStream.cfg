CONSTANTS
    Clients = {c1, c2}
    Nobody = Nobody
    Size = 3
    MaxSends = 2
SPECIFICATION Spec
INVARIANT WriteHasStream
