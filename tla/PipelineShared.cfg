SPECIFICATION Spec
CONSTANTS
    Client = {c1, c2}
    SConn = {s1}
    NoConn = NoConn
    MaxReq = 3
    MaxFrag = 1
    ReqKind = {"single", "noreply"}
    PoolMayRefuse = TRUE
    HasTimeout = TRUE
    NoticeLogged = FALSE
SYMMETRY Symmetry
INVARIANTS ReplyOrder MessagesOwned TimeoutsRight NoLostWakeup
PROPERTY ServiceSpec
