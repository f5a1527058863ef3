CONSTANTS
    Top = 7
    Values = {boot, later}
    Images <- MCImages
    Sections <- MCSections
    Book <- MCBook
    Ranges <- MCRanges
    MaxExclusions = 3
SPECIFICATION FairSpec
PROPERTIES RewindSpec RestoreIsExact HolesAreKept RestoreEnds
