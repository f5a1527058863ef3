CONSTANTS
    Slots = 2
    Axes = {2}
    LowAxes = {2}
    Full = 2
    Positions <- MCPositions
    Scale = 12
    MaxPlugs = 2
SPECIFICATION Spec
INVARIANTS OneDescriptor PrefersHandset RestReadsLow
