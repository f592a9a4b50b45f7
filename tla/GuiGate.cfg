SPECIFICATION Spec
CONSTANTS
    NoUpstream = NoUpstream
    Other = other
    Gated = v
    Upstreams = {u1, u2, v}
    Jobs = {j1, j2}
    MaxStream = 3
    Troubles = {}
SYMMETRY Symmetry
INVARIANT GateHolds
