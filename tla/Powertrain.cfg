CONSTANTS
    Motors = {m1, m2}
    Profiles <- MCProfiles
    Default <- MCSmall
    Ambient = 0
    MaxT = 1
    Heat = 1
    Milli = 2
    Sleeps = {1}
    MaxTicks = 3
SYMMETRY MCAlike
SPECIFICATION Spec
INVARIANTS ResetIsFresh NoiseKeepsTime GraceEnds
PROPERTY BurntStaysDead
