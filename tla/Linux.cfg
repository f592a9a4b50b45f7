SPECIFICATION Spec
CONSTANTS
    Links = {l1, l2}
    NoLink = NoLink
    MaxRoutes = 2
    Texts = {a, b}
    TroubleSets = {
        {},
        {"dns_refused", "no_conf"},
        {"dns_refused", "torn", "backup_torn", "rewrite"},
        {"dns_refused", "route_refused", "revert_fails", "rewrite"},
        {"dns_refused", "revert_fails", "io_fails"},
        {"dns_refused", "backup_torn", "crash"},
        {"dns_refused", "route_refused", "revert_fails", "io_fails", "torn", "crash", "rewrite"},
        {"dns_refused", "route_refused", "io_fails", "crash", "no_conf"}}
INVARIANTS TypeOK Recoverable
PROPERTIES ImplementsContract RestoresPrior RestoreUnpoints
