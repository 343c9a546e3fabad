CONSTANTS
    a1 = a1
    a2 = a2
    Ads = {a1, a2}
    MaxLeft = 2
    c1 = c1
    c2 = c2
    c3 = c3
    Calls = {c1, c2, c3}
    AdOf <- AdsOfCalls
    Ttl <- Lives
    AutoRefresh = {c1, c2}
    RefreshInterval = 1
    MaxOperations = 2
    PublishFails = TRUE
    MaxPublications = 1
    NoAd = NoAd
    SignerCalls = {c1, c2}
    MaxRequests = 1
    MayStop = TRUE
    s1 = s1
    s2 = s2
    s3 = s3
    Topics = {"signers", "requests"}
    Profile <- Profiles
    MaxQueries = 1
    Subs = {s1, s2, s3}
    Criteria <- Wanted
    Fetches = {s1, s3}
    Dedups = {s1, s3}
    CacheAge = 2
    QuietLimit = 1
    Copies = {1, 2, 3, 4}
    Copy <- Versions
    AdIds = {"a"}
    AdPeers = {"q"}
    MaxAdAge = 1
    KeepFor = 1
    MinReputation = 50
    Weights = {8}
    OperationLimit = 1
    MaxClock = 4
    Parts = {"discovery"}
SPECIFICATION FairPartSpec
PROPERTIES
    ActiveStaysDiscoverable
