SPECIFICATION LiveSpec
CONSTANTS
    Client = {c1}
    SConn = {s1}
    NoConn = NoConn
    MaxReq = 2
    MaxFrag = 2
    ReqKind = {"single", "mget", "local"}
    PoolMayRefuse = FALSE
    HasTimeout = TRUE
    NoticeLogged = FALSE
PROPERTY AllEnds
