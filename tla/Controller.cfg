SPECIFICATION Spec
CONSTANTS
    NoUpstream = NoUpstream
    Tasks = {t1, t2}
    Upstreams = {u1, u2}
    Surfaces = {s1, s2}
    Capacity = 2
    Faults = {"apply_leaks", "restore_fails", "external"}
SYMMETRY Symmetry
INVARIANTS IInv StatusTruthful ServedWhileKnown ReplyIsSettled StreamCurrent StreamOrdered
PROPERTY LifecycleSpec
