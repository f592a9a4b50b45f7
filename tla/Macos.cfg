SPECIFICATION Spec
CONSTANTS
    Services = {s1, s2, s3}
    Texts = {a, z}
    Scoped = {z}
    TroubleSets = {
        {},
        {"native_refused", "list_fails", "read_fails"},
        {"native_refused", "list_fails", "read_fails", "key_lost"},
        {"store_fails", "native_refused", "list_fails", "key_lost"},
        {"native_refused", "read_fails", "scoped"},
        {"native_refused", "shell_refused"},
        {"native_refused", "crash"},
        {"store_fails", "native_refused", "list_fails", "read_fails", "shell_refused",
         "restore_refused", "scoped", "key_lost", "crash"}}
INVARIANTS TypeOK SavesPrevious
PROPERTIES ImplementsContract RestoresPrior RestoreUnpoints
