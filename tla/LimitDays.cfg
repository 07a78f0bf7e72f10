SPECIFICATION Spec
CONSTANTS
    c1 = c1
    c2 = c2
    c3 = c3
    Calls = {c1, c2}
    RegIds = {1}
    Limits <- DayLimits
    RetentionDays = 1
    MaxStarts = 4
    MaxDay = 2
    MaxRestarts = 1
SYMMETRY CallSymmetry
INVARIANT NeverOvercharged
