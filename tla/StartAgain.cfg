SPECIFICATION StSpec
CONSTANTS
    Environments <- MCEnvironments
    FileAt <- MCFileAt
    Presets <- MCPresets
    ServerWrites <- MCServerWrites
    ResourceWrites <- MCResourceWrites
    MaxChanges = 3
INVARIANT StartsAgain
CHECK_DEADLOCK FALSE
