SPECIFICATION CSpec
CONSTANTS
    s1 = s1
    w1 = w1
    w2 = w2
    k1 = k1
    k2 = k2
    r1 = r1
    r2 = r2
    x1 = x1
    x2 = x2
    Servers = {s1}
    Workers = {w1, w2}
    EncKeys = {k1, k2}
    AUTHORIZATION_TTL = 1
    MaxStates = 2
    MaxRt = 3
    MaxOnow = 1
    MaxRevokes = 1
    MaxCrashes = 1
    Requests = {r1, r2}
    Lifetimes = {0, 1, 3, 99}
    NoLifetime = 99
    MAX_RENEW_MARGIN = 2
    MaxTokens = 3
    MaxTnow = 3
    Refs = {"vlt", "loc"}
    BackendOf <- MCBackendOf
    Resolvers = {x1, x2}
    Ttl = 1
    RemoteRetries = 1
    MaxDelay = 1
    MaxVersions = 2
    MaxSnow = 3
SYMMETRY MCSymmetry
CHECK_DEADLOCK FALSE
INVARIANTS LinkUsedOnce StoredUsable MarginSound StaleBounded TriesBounded
PROPERTIES ExchangedOnce
