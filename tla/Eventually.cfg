SPECIFICATION FairSpec
CONSTANTS
    M = M
    p1 = p1
    p2 = p2
    p3 = p3
    NoPid = NoPid
    t1 = t1
    l1 = l1
    l2 = l2
    l3 = l3
    None = None
    Bad = Bad
PROPERTIES AllSent Served CountsArrive Supervised Registered
CHECK_DEADLOCK FALSE
