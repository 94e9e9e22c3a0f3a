\* Two contexts and the timer, two rules that share a reply key.
CONSTANTS
    d1 = d1
    d2 = d2
    t1 = t1
    t2 = t2
    u1 = u1
    Conns = {c1, c2}
    Cpus = {p1, p2}
    Devs = {d1, d2}
    Tuples = {t1, t2, u1}
    TcpTuples = {t1, t2, u1}
    Sics <- MCSics
    Hotplug = {d1}
    SyncShare = 1
    MaxRx = 1
    None = None
SYMMETRY MCSymmetry
SPECIFICATION Spec
INVARIANTS
    TypeOK
    TablesAgree
    UniqueTuples
    ActiveListExact
    UnsyncedIsActive
    SingleOwner
    DevRefsBalanced
    PacketsConserved
