CONSTANTS
    Motors = {left_prop, right_prop}
    Full = 3
    CrashDamage = 2
    DamagedAt = 1
    CooldownTicks = 4
    KickTicks = 2
    ScriptedLevels = {0, 1}
    MaxContacts = 2
SPECIFICATION Spec
SYMMETRY Symmetry
INVARIANTS KickCountsEachPropOnce CrashGroundsQuad
PROPERTIES OnlyRepairHeals ScrapingIsPaced
