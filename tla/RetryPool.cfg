SPECIFICATION FairSpec
CONSTANTS
    c1 = c1
    c2 = c2
    s1 = s1
    s2 = s2
    Calls = {c1, c2}
    PoolIds = {1}
    Secrets = {s1, s2}
    Configs <- OneKey
    Cooldowns = {0}
    DEFAULT_COOLDOWN = 1
    Latencies = {0}
    CursorMod = 4
    max_attempts = 2
    Methods = {"GET", "POST"}
INVARIANTS NonIdempotentSentOnce ExhaustedIsHonest LeasesReturned
PROPERTIES KeyPoolSpec LoopEnds
