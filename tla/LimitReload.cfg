SPECIFICATION Spec
CONSTANTS
    c1 = c1
    c2 = c2
    c3 = c3
    Calls = {c1, c2, c3}
    RegIds = {1, 2}
    Limits <- ReloadLimits
    RetentionDays = 0
    MaxStarts = 4
    MaxDay = 0
    MaxRestarts = 0
SYMMETRY CallSymmetry
INVARIANTS CountsExact OvershootBounded
