CONSTANTS
    p1 = p1
    p2 = p2
    p3 = p3
    Points = {p1, p2, p3}
    Near <- MCNear
    Surfaces = {ground, gate}
    Subticks = 2
    Speeds <- MCSpeeds
    Slop = 1
    Margin = 1
    Tol = 2
    DMax = 4
    FMax = 9
    Spring = 2
    Damper = 1
    MaxContacts = 2
    Far = 1
SYMMETRY Alike
SPECIFICATION Spec
INVARIANTS WithinTolerance ApproachIsResisted
PROPERTY RestIsStill
