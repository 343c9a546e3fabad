CONSTANTS
    p1 = p1
    p2 = p2
    p3 = p3
    p4 = p4
    Peers = {p1, p2, p3, p4}
    Index <- Restarted
    SignerIndexes = {0, 1, 2}
    Own = 0
    Tries <- Once
    MaxReady = 2
    Lossy = TRUE
    Drops = TRUE
    Manual = {p1, p4}
    Parses = TRUE
    None = None
    t1 = t1
    t2 = t2
    Tasks <- FourTasks
    Forced = TRUE
    m1 = m1
    m2 = m2
    m3 = m3
    m4 = m4
    Ids = {m1, m2, m3, m4}
    Stamp <- Stamps
    Streams = {"s"}
    Stream <- OneStream
    Sequence <- Numbers
    MaxAge = 2
    MaxSeen = 2
    ToRemove = 1
    MaxTime = 7
    BootstrapPeers = {b1, b2}
    MaxReconnectAttempts = 1
    MaxStarts = 2
    MaxDials = 1
    NetworkStates <- NothingOrEnough
    ResourceKeys = {k1, k2}
    MaxEntries = 2
    MaxQueueSize = 1
    MaxRetries = 1
    FlushBatchSize = 1
    MaxFlushes = 2
    Protocols = {"musig2", "other"}
    Streaming = {"musig2"}
    NodePeers = {"q", "r"}
    RemotePeers = {"q"}
    r1 = r1
    r2 = r2
    r3 = r3
    Resources = {r1, r2, r3}
    ResourceTypes = {"musig2-session", "other"}
    TypeOf <- Kinds
    Validated = {"musig2-session"}
    Valid = {r1, r3}
    MaxPerPeer = 2
    MaxPerType = 1
    TempBanAt = 1
    BanAt = 2
    u1 = u1
    u2 = u2
    u3 = u3
    u4 = u4
    Msgs = {u1, u2, u3, u4}
    Sender <- Senders
    Defect <- Flaws
    RequireSignatures = TRUE
    MaxInvalid = 2
    NodeLimit = 2
    NodeBatch = 1
    HandlerLimit = 1
    HandlerBatch = 1
    MaxHandling = 1
    a1 = a1
    a2 = a2
    Ads = {a1, a2}
    MaxLeft = 2
    c1 = c1
    c2 = c2
    c3 = c3
    Calls = {c1, c2, c3}
    AdOf <- AdsOfCalls
    Ttl <- Lives
    AutoRefresh = {c1, c2}
    RefreshInterval = 1
    MaxOperations = 2
    PublishFails = TRUE
    MaxPublications = 1
    NoAd = NoAd
    SignerCalls = {c1, c2}
    MaxRequests = 1
    MayStop = TRUE
    s1 = s1
    s2 = s2
    s3 = s3
    Topics = {"signers", "requests"}
    Profile <- Profiles
    MaxQueries = 1
    Subs = {s1, s2, s3}
    Criteria <- Wanted
    Fetches = {s1, s3}
    Dedups = {s1, s3}
    CacheAge = 1
    QuietLimit = 1
    Copies = {1, 2, 3, 4}
    Copy <- Versions
    AdIds = {"a"}
    AdPeers = {"q"}
    MaxAdAge = 1
    KeepFor = 1
    MinReputation = 50
    Weights = {8}
    OperationLimit = 1
    MaxClock = 4
    Parts = {"lock", "join", "replay", "bootstrap", "node", "peers", "ingress",
             "advertiser", "extension", "discoverer", "discovery", "security"}
SPECIFICATION PartsSpec
INVARIANTS
    PeersTypeOK
    LockedMeansHeld
    NoStrandedWaiter
    NoIndexTwice
    AcceptedOnce
    LostPeerIsPursued
    TimersAreOfTrackedPeers
    NodeIsInStep
    RetriesAreLimited
    LimitsHold
    TrackerAgrees
    HandledOnce
    DiscoveryTypeOK
    KeptAlive
    ActiveIsWithdrawable
    NotifiedOnce
    HandlersAreActive
    ListenerMissesNothing
    OnlyNewerPasses
PROPERTIES
    RoomIsMadeByTheOldest
    JoinImplementsMembership
    ReadyIsExplained
    SilentAfterUnsubscribe
\* Locks and joins are done some time.
CHECK_DEADLOCK FALSE
