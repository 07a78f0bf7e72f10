SPECIFICATION Spec
CONSTANTS
    c1 = c1
    c2 = c2
    c3 = c3
    s1 = s1
    s2 = s2
    Calls = {c1, c2}
    PoolIds = {1, 2}
    Secrets = {s1, s2}
    Configs <- SwapConfigs
    Cooldowns = {0}
    DEFAULT_COOLDOWN = 1
    Latencies = {0}
    CursorMod = 2
SYMMETRY CallSymmetry
INVARIANTS LeaseBound
PROPERTIES CooldownHolds CoolingKeySkipped CarryKeepsCooldowns
