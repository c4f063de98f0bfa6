SPECIFICATION OneKindSpec
CONSTANTS
    Client = {c1}
    SConn = {s1, s2}
    NoConn = NoConn
    MaxReq = 2
    MaxFrag = 2
    ReqKind = {"mget", "mset"}
    PoolMayRefuse = FALSE
    HasTimeout = TRUE
    NoticeLogged = FALSE
SYMMETRY Symmetry
INVARIANTS RightReply MessagesOwned VectorDone
