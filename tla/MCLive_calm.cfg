CONSTANTS
    p1 = p1
    p2 = p2
    p3 = p3
    Peers = {p1, p2, p3}
    t1 = t1
    Index <- Distinct
    SignerIndexes = {0, 1, 2, 3}
    Own = 0
    Tries <- OnceEach
    MaxReady = 2
    Lossy = FALSE
    Drops = FALSE
    Manual = {}
    Parses = TRUE
    None = None
    Tasks <- FourTasks
    Forced = TRUE
    NumSigners = 3
    BootstrapPeers = {b1}
    MaxReconnectAttempts = 2
    MaxStarts = 2
    MaxDials = 1
    NetworkStates <- Networks
    ResourceKeys = {k1}
    MaxEntries = 1
    MaxQueueSize = 1
    MaxRetries = 2
    FlushBatchSize = 1
    MaxFlushes = 1
    a1 = a1
    a2 = a2
    Ads = {a1, a2}
    MaxLeft = 2
    c1 = c1
    c2 = c2
    Calls = {c1, c2}
    AdOf <- AdsOfCalls
    Ttl <- Lives
    AutoRefresh = {c1}
    RefreshInterval = 1
    MaxOperations = 2
    PublishFails = TRUE
    MaxPublications = 1
    NoAd = NoAd
    SignerCalls = {c1}
    MaxRequests = 1
    MayStop = TRUE
    Topics = {"signers", "requests"}
    Profile <- Profiles
    MaxQueries = 1
    Subs = {}
    Criteria <- Nobody
    Fetches = {}
    Dedups = {}
    CacheAge = 1
    QuietLimit = 1
    Parts = {"election", "lock", "join", "bootstrap", "node", "discovery"}
SPECIFICATION FairPartsSpec
INVARIANTS
    ElectionAgrees
    BackupsReachEveryone
    JoinedIsParticipant
    OperationalMeansNode
    StopLeavesNothing
PROPERTIES
    EveryoneJoins
    WaiterProceeds
    LossIsNoticed
    EdgeFlushes
    AdvertisedIsFound
\* Joins and lists of backups are done some time.
CHECK_DEADLOCK FALSE
