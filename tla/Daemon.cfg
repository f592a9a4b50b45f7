SPECIFICATION DaemonFairSpec
CONSTANTS
    NoUpstream = NoUpstream
    Main = main
    Tasks = {main, t1, t2}
    Upstreams = {u1}
    Surfaces = {s1, s2}
    Capacity = 1
    Faults = {"external"}
    Signals = {"sigterm"}
    Requests = {"connect", "disconnect", "get_status"}
INVARIANTS ExitCleanUnlessLate ShutdownAlone
PROPERTY ShutdownEnds
