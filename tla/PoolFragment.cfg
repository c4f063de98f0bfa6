SPECIFICATION Spec
CONSTANTS
    NServer = 2
    Weight <- EvenWeight
    Dist = "modula"
    AutoEject = TRUE
    FailureLimit = 1
    RetryTimeout = 1
    ServerConnections = 1
    DoPreconnect = FALSE
    MaxAtOnce = 0
    PointsPerServer = 4
    Addition = 10
INVARIANT FragmentTable
