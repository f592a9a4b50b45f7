SPECIFICATION FairSpec
CONSTANTS
    NoUpstream = NoUpstream
    Other = other
    Gated = v
    Upstreams = {u1, v}
    Jobs = {j1}
    MaxStream = 2
    Troubles = {"other_client", "service_dies"}
INVARIANTS GuiInv SettledViewIsTrue
PROPERTY ConnectingEnds
