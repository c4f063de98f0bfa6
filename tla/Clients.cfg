SPECIFICATION AnySpec
CONSTANTS
    Slot = {1, 2, 3, 4, 5}
    Listener = 1
    MaxClients = 3
    Gens = 2
    max_nfd = 6
    max_nsconn = 1
    RESERVED_FDS = 3
    OtherFds = 2
    Word = 256
    Aborts = TRUE
    c1 = c1
    c2 = c2
INVARIANTS OwnEvents PoolSound Trusted ServerReady TreeSound ContinuumSound
PROPERTY OwnReplies
CHECK_DEADLOCK FALSE
