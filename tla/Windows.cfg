SPECIFICATION Spec
CONSTANTS
    Interfaces = {i1, i2, i3}
    Spaced = {i3}
    Unknown = Unknown
    TroubleSets = {
        {},
        {"native_refused", "user"},
        {"native_refused", "netsh_refused"},
        {"native_refused", "clear_refused"},
        {"native_refused", "spaced"},
        {"native_refused", "crash"},
        {"netsh_refused", "clear_refused", "crash"},
        {"native_refused", "netsh_refused", "clear_refused", "spaced", "unplug", "user", "crash"}}
PROPERTIES ImplementsContract RoutesAll RestoreUnpoints
