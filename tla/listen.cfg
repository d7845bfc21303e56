SPECIFICATION FairSpec
CONSTANTS
    s1 = s1
    s2 = s2
    d1 = d1
    d2 = d2
    t1 = t1
    t2 = t2
    Sessions = {s1, s2}
    Tunnels = {t1, t2}
    Device <- Places
    Owned <- First
    MaxGen = 3
    MaxFaults = 2
INVARIANT ReadyIsCurrent
INVARIANT NoTakeover
PROPERTY FailureNoticed
CHECK_DEADLOCK FALSE
