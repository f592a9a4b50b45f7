SPECIFICATION DaemonSpec
CONSTANTS
    NoUpstream = NoUpstream
    Main = main
    Tasks = {main, t1}
    Upstreams = {u1}
    Surfaces = {s1}
    Capacity = 1
    Faults = {}
    Signals = {}
    Requests = {"connect", "disconnect", "get_status", "subscribe"}
INVARIANT GracefulExitRestores
