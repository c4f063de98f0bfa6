SPECIFICATION Spec
CONSTANTS
    Client = {c1}
    SConn = {s1, s2}
    NoConn = NoConn
    MaxReq = 2
    MaxFrag = 2
    ReqKind = {"mset"}
    PoolMayRefuse = TRUE
    HasTimeout = TRUE
    NoticeLogged = FALSE
INVARIANT VectorDone
