SPECIFICATION FairSpec
CONSTANTS
    NoUpstream = NoUpstream
    Tasks = {t1, t2}
    Upstreams = {u1}
    Surfaces = {s1, s2}
    Capacity = 2
    Faults = {}
INVARIANTS NoDeadPort NoOrphan
PROPERTIES LifecycleFairSpec Answered StreamConverges
