SPECIFICATION FairSpec
CONSTANTS
    p1 = p1
    p2 = p2
    Applies = {a1, a2, a3}
    Scheduled = {s1, s2}
    Suite = {u1}
    Direct = {d1}
    Procs = {p1, p2}
    InP2 = {a3, s2}
    Home <- MCHome
    Nobody = Nobody
INVARIANTS
    TypeOK
    NoOverlapInProcess
    OneBenchMeasures
    CountIsExact
PROPERTIES
    ImplementsMachine
    ApplyLeavesWait
