SPECIFICATION FairSpec
CONSTANTS
    c1 = c1
    c2 = c2
    c3 = c3
    Calls = {c1, c2}
    RegIds = {1, 2}
    Limits <- ReloadLimits
    RetentionDays = 0
    MaxStarts = 2
    MaxDay = 1
    MaxRestarts = 1
PROPERTIES CallsFinish RestartKeepsCount
