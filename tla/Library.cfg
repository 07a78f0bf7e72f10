SPECIFICATION LSpec
CONSTANTS
    m1 = m1
    m2 = m2
    ApiConfigs <- MCApiConfigs
    McpOffers <- MCMcpOffers
    McpServer = "mcp"
    ProxyKeys <- MCKeys
    Overrides = {"o"}
    Filters <- MCFilters
    Searches <- MCSearches
    Searchers = {m1, m2}
    MaxWireName = 5
    MaxCatalog = 2
    Operations <- MCOperations
    Discoveries <- MCDiscoveries
    SchemaGraphs <- MCGraphs
    RefInstances <- MCRefInstances
    Values <- MCValues
    ArgumentOrder <- MCArgumentOrder
    MaxRefDepth = 3
    MaxOperations = 3
    Schemas <- MCSchemas
    Instances <- MCInstances
    TextCap = 200
    StubDepth = 1
    RcKeys = {"ka", "kb"}
    Texts <- MCTexts
    Budgets = {0, 4}
    Batches <- MCBatches
    CallReaders = {m1, m2}
    DEFAULT_BUDGET_BYTES = 4
    CACHE_TTL_SECS = 1
    MAX_CACHE_ENTRIES = 3
    MAX_CACHE_BYTES = 9
    CursorBytes = 1
    StubBytes = 1
    MaxStores = 4
    MaxRcClock = 1
    JsonValues <- MCJsonValues
    MD_MAX_DEPTH = 2
    DefTools = {"t1", "t2"}
    DefMcp = {"t2"}
    DefArgs = {"a0", "a1", "a2"}
    Empty = "a0"
    Debuggers = {m1, m2}
    MaxDebug = 2
    UriChars = {"s", "t", "x", "y", "/", "asterlane://"}
    SfIds <- MCSfIds
    SfChecked <- MCSfChecked
    SfFails <- MCSfFails
    SfOps = {"o1"}
    NamespaceOf <- MCNamespaceOf
    AuthOf <- MCAuthOf
    SfOffers <- MCSfOffers
    SfKeys <- MCSfKeys
    SfClients = {"c1"}
    TgClients = {"c1", "c2", "c3"}
    MaxTargets = 2
    Addresses <- MCAddresses
    EgUrls <- MCEgUrls
    LowerOf <- MCLowerOf
    MAX_REDIRECTS = 2
    Environments <- MCEnvironments
    FileAt <- MCFileAt
    Presets <- MCPresets
    ServerWrites <- MCServerWrites
    ResourceWrites <- MCResourceWrites
    MaxChanges = 3
    UsWriters = {m1, m2}
    UsEvents <- MCUsEvents
    UsTimes = {0, 1, 2, 4, 12}
    SecondTicks = 4
    HourTicks = 4
    DayTicks = 8
    UsFilters <- MCUsFilters
    UsLimits = {1, 2}
    BdRequestIds <- MCRequestIds
    MAX_CLIENT_REQUEST_ID_LEN = 4
    BdArgs <- MCBdArgs
    CaptureMax = 4
    MaxBdCalls = 2
SYMMETRY ActorSymmetry
CHECK_DEADLOCK FALSE
INVARIANTS CatalogExact PublishedFaithful AnswersWhole SurfaceSound EgressGuarded RefusedOnlyForUrl RowsTrue ErrorsReported 
