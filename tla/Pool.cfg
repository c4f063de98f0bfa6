SPECIFICATION FairSpec
CONSTANTS
    NServer = 2
    Weight <- UnevenWeight
    Dist = "ketama"
    AutoEject = TRUE
    FailureLimit = 2
    RetryTimeout = 2
    ServerConnections = 3
    DoPreconnect = TRUE
    MaxAtOnce = 0
    PointsPerServer = 4
    Addition = 0
INVARIANTS BoundedOutage RoutesToLive ContinuumFits GaugeCounts
PROPERTIES ReturnsAfterTimeout EjectedReturns
