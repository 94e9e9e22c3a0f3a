\* One context and the timer, two rules on a device that may go away; they compete
\* for a quota of one.
CONSTANTS
    d1 = d1
    d2 = d2
    t1 = t1
    t2 = t2
    u1 = u1
    Conns = {c1, c2}
    Cpus = {p1}
    Devs = {d1, d2}
    Tuples = {t1, t2, u1}
    TcpTuples = {t1}
    Sics <- MCSics
    Hotplug = {d1}
    SyncShare = 2
    MaxRx = 1
    None = None
SPECIFICATION FairSpec
PROPERTIES
    TrafficReported
    RemovedIsFreed
    SweptIsReleased
    ImplementsRuleTable
