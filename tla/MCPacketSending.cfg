SPECIFICATION MCSpec
CONSTANTS
    p0 = p0
    p1 = p1
    p2 = p2
    q1 = q1
    q2 = q2
    o1 = o1
    a1 = a1
    a2 = a2
    r1 = r1
    r2 = r2
    s1 = s1
    t1 = t1
    t2 = t2
    Streams = {t1, t2}
    MaxBytes = 2
    StreamWindows = {1, 2}
    ConnWindow = 2
    FrameSizes = {2, 7}
    Header = 3
    BlockedLen = 2
    MaxLosses = 2
INVARIANTS  WithinLimits NothingIsStuck 
     AckIsKept  PathsAgree PairsGetPaths
CHECK_DEADLOCK FALSE
