SPECIFICATION AnySpec
CONSTANTS
    c1 = c1
    c2 = c2
    c3 = c3
    c4 = c4
    c5 = c5
    c6 = c6
    NoConn = NoConn
    M = M
    NoPid = NoPid
    Pid = {M, p1, p2, p3, p4}
    core_worker_num = 2
    MaxDeaths = 3
    MaxSignals = 2
    StepsFail = TRUE
    h1 = h1
    h2 = h2
    h3 = h3
SYMMETRY Symmetry
INVARIANTS ShapeRead PoolsRead StartSound Known PageSound 
CHECK_DEADLOCK FALSE
