CONSTANTS
    Tunes = {stock, baked}
    DefaultTune = stock
    Junk = Junk
    Absent = Absent
    MaxFiles = 4
    MaxResets = 3
SPECIFICATION Spec
INVARIANTS ArmedIsPinned ArmedFliesSaved OnlyResetsDangle
PROPERTIES ConfigSpec OnlyRewindUnblocks StartsFlySavedTune
