SPECIFICATION FairSpec
CONSTANTS
    NoUpstream = NoUpstream
    Upstreams = {"Google", "doh.lan"}
    Addresses = {"10.0.0.1"}
    PortNumbers = {"443", "8443"}
    Procs = {p1, p2}
    Runs = {r1}
    Lines <- MCLines
    ExtraCas <- MCExtraCas
    Faults = {"apply_leaks", "restore_fails"}
INVARIANTS RedirectedServed ExitTells
PROPERTIES HoldsItsSocket RunsEnd
