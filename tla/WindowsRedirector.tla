---- MODULE WindowsRedirector ----
(***************************************************************************)
(* The Windows implementation of the trait DnsRedirector                    *)
(* (redirect/windows.rs): SetInterfaceDnsSettings on every connected        *)
(* interface, or netsh on every one of them when no native call succeeds.   *)
(***************************************************************************)
EXTENDS FiniteSets

CONSTANTS
    Interfaces,
    Spaced,      \* the interfaces whose name has two blanks in a row
    Unknown,     \* a name the system does not know
    TroubleSets  \* the combinations of troubles to consider

\* native_refused: SetInterfaceDnsSettings fails for an interface
\* netsh_refused:  netsh fails to set an interface
\* clear_refused:  clearing an interface fails
\* spaced:         an interface of Spaced is connected
\* unplug:         adapters come and go
\* user:           the user configures an interface
\* crash:          the service is killed between two steps
TroubleKinds ==
    {"native_refused", "netsh_refused", "clear_refused", "spaced", "unplug", "user", "crash"}

ASSUME TroublesAssumption == TroubleSets \subseteq SUBSET TroubleKinds
ASSUME InterfacesAssumption == IsFiniteSet(Interfaces)
ASSUME SpacedAssumption == Spaced \subseteq Interfaces

ASSUME UnknownAssumption == Unknown \notin Interfaces
Names == Interfaces \cup {Unknown}

VARIABLES
    troubles,   \* what may go wrong in this behaviour
    connected,  \* what `netsh interface show interface` lists
    dns,        \* where each interface has its servers from
    applied,    \* WindowsRedirector.applied
    pc,         \* the loop the call in progress is in
    ifaces,     \* the list apply works on
    left,       \* interfaces the loop has not visited
    done        \* interfaces the loop has set

May(trouble) == trouble \in troubles
Without(kinds) == troubles \cap kinds = {}

env == <<connected, troubles>>
call == <<pc, ifaces, left, done>>
vars == <<env, dns, applied, call>>

None == [path |-> "none", names |-> {}]
Native(names) == [path |-> "native", names |-> names]
Netsh(names) == [path |-> "netsh", names |-> names]

TypeOK ==
    /\ troubles \in TroubleSets
    /\ connected \subseteq Interfaces
    /\ dns \in [Interfaces -> {"dhcp", "static", "proxy"}]
    /\ applied \in [path : {"none", "native", "netsh"}, names : SUBSET Interfaces]
    /\ pc \in {"idle", "native", "netsh", "failed", "clear"}
    /\ ifaces \subseteq Names
    /\ left \subseteq Names
    /\ done \subseteq Interfaces

Init ==
    /\ troubles \in TroubleSets
    /\ connected \in SUBSET IF May("spaced") THEN Interfaces ELSE Interfaces \ Spaced
    /\ dns \in [Interfaces -> {"dhcp", "static"}]
    /\ applied = None
    /\ pc = "idle"
    /\ ifaces = {} /\ left = {} /\ done = {}

-----------------------------------------------------------------------------
(* apply: the controller calls it only while nothing is remembered *)

\* The interfaces in state Connected; the words of a name are joined with one blank.
ParseNetshInterfaces(rows) == {IF i \in Spaced THEN Unknown ELSE i : i \in rows}

\* None to point at the proxy is an error, and so is a netsh that cannot be run.
ApplyBegin ==
    /\ pc = "idle"
    /\ applied = None
    /\ ifaces' \in {ParseNetshInterfaces(connected), {}}
    /\ left' = ifaces'
    /\ done' = {}
    /\ pc' = IF ifaces' = {} THEN "failed" ELSE "native"
    /\ UNCHANGED <<env, dns, applied>>

NativeSet(i) ==
    /\ pc = "native"
    /\ i \in left \cap connected
    /\ dns' = [dns EXCEPT ![i] = "proxy"]
    /\ left' = left \ {i}
    /\ done' = done \cup {i}
    /\ UNCHANGED <<env, applied, pc, ifaces>>

\* A warning is logged and the loop goes on.
NativeFails(i) ==
    /\ pc = "native"
    /\ i \in left
    /\ May("native_refused") \/ i \notin connected
    /\ left' = left \ {i}
    /\ UNCHANGED <<env, dns, applied, pc, ifaces, done>>

\* Mutant: Ok after the first interface.
NativeOkEarly ==
    /\ pc = "native"
    /\ done # {}
    /\ applied' = Native(done)
    /\ pc' = "idle"
    /\ UNCHANGED <<env, dns, ifaces, left, done>>

\* Mutant: only one interface is remembered.
NativeOkOne ==
    /\ pc = "native"
    /\ left = {}
    /\ done # {}
    /\ applied' = Native({CHOOSE i \in done : TRUE})
    /\ pc' = "idle"
    /\ UNCHANGED <<env, dns, ifaces, left, done>>

\* One interface is enough for Ok.
NativeOk ==
    /\ pc = "native"
    /\ left = {}
    /\ done # {}
    /\ applied' = Native(done)
    /\ pc' = "idle"
    /\ UNCHANGED <<env, dns, ifaces, left, done>>

Fallback ==
    /\ pc = "native"
    /\ left = {}
    /\ done = {}
    /\ pc' = "netsh"
    /\ left' = ifaces
    /\ UNCHANGED <<env, dns, applied, ifaces, done>>

NetshSet(i) ==
    /\ pc = "netsh"
    /\ i \in left \cap connected
    /\ dns' = [dns EXCEPT ![i] = "proxy"]
    /\ left' = left \ {i}
    /\ done' = done \cup {i}
    /\ UNCHANGED <<env, applied, pc, ifaces>>

\* Mutant: a refusal is logged and the interface is remembered all the same.
NetshFailsGoesOn(i) ==
    /\ pc = "netsh"
    /\ i \in left
    /\ May("netsh_refused") \/ i \notin connected
    /\ left' = left \ {i}
    /\ UNCHANGED <<env, dns, applied, pc, ifaces, done>>

\* `?` leaves apply; the interfaces set before stay set.
NetshFails(i) ==
    /\ pc = "netsh"
    /\ i \in left
    /\ May("netsh_refused") \/ i \notin connected
    /\ pc' = "failed"
    /\ UNCHANGED <<env, dns, applied, ifaces, left, done>>

NetshOk ==
    /\ pc = "netsh"
    /\ left = {}
    /\ applied' = Netsh(ifaces)
    /\ pc' = "idle"
    /\ UNCHANGED <<env, dns, ifaces, left, done>>

ApplyErr ==
    /\ pc = "failed"
    /\ pc' = "idle"
    /\ UNCHANGED <<env, dns, applied, ifaces, left, done>>

-----------------------------------------------------------------------------
(* restore *)

RestoreBegin ==
    /\ pc = "idle"
    /\ left' = applied.names
    /\ applied' = None
    /\ pc' = "clear"
    /\ UNCHANGED <<env, dns, ifaces, done>>

\* Both ways of clearing make the interface take its servers from DHCP.
Clear(i) ==
    /\ pc = "clear"
    /\ i \in left \cap connected
    /\ dns' = [dns EXCEPT ![i] = "dhcp"]
    /\ left' = left \ {i}
    /\ UNCHANGED <<env, applied, pc, ifaces, done>>

ClearFails(i) ==
    /\ pc = "clear"
    /\ i \in left
    /\ May("clear_refused") \/ i \notin connected
    /\ left' = left \ {i}
    /\ UNCHANGED <<env, dns, applied, pc, ifaces, done>>

RestoreOk ==
    /\ pc = "clear"
    /\ left = {}
    /\ pc' = "idle"
    /\ UNCHANGED <<env, dns, applied, ifaces, left, done>>

-----------------------------------------------------------------------------
(* The environment *)

\* An adapter is removed, its settings stay in the registry; or it comes back.
Unplug(i) ==
    /\ May("unplug")
    /\ May("spaced") \/ i \notin Spaced
    /\ connected' = IF i \in connected THEN connected \ {i} ELSE connected \cup {i}
    /\ UNCHANGED <<dns, applied, troubles, call>>

UserSets(i) ==
    /\ May("user")
    /\ dns' = [dns EXCEPT ![i] = "static"]
    /\ UNCHANGED <<env, applied, call>>

Crash ==
    /\ May("crash")
    /\ applied' = None
    /\ pc' = "idle"
    /\ ifaces' = {} /\ left' = {} /\ done' = {}
    /\ UNCHANGED <<env, dns>>

Next ==
    \/ ApplyBegin \/ NativeOk \/ Fallback \/ NetshOk \/ ApplyErr
    \/ RestoreBegin \/ RestoreOk \/ Crash
    \/ \E n \in Names : NativeFails(n) \/ NetshFails(n) \/ ClearFails(n)
    \/ \E i \in Interfaces :
           NativeSet(i) \/ NetshSet(i) \/ Clear(i) \/ Unplug(i) \/ UserSets(i)

Spec == Init /\ [][Next]_vars

-----------------------------------------------------------------------------
(* Properties *)

PointedInterfaces == {i \in Interfaces : dns[i] = "proxy"}

\* Which promise of the trait each trouble breaks; a trouble not named breaks none.
TroublesBreaking ==
    [apply_leaks   |-> {"netsh_refused", "spaced", "unplug"},
     restore_fails |-> {"clear_refused", "unplug"},
     external      |-> {"user"},
     crash         |-> {"crash"}]

BrokenBy(T) == {f \in DOMAIN TroublesBreaking : T \cap TroublesBreaking[f] # {}}

Contract(T) == INSTANCE DnsRedirector WITH
    Surfaces   <- Interfaces,
    Faults     <- BrokenBy(T),
    pointed    <- PointedInterfaces,
    remembered <- applied.names,
    call       <- IF pc = "idle" THEN "none" ELSE IF pc = "clear" THEN "restore" ELSE "apply",
    todo       <- IF pc = "idle" THEN {} ELSE IF pc = "clear" THEN left ELSE done

\* The Windows redirector implements the trait, and each trouble costs it no other
\* promise than the one BrokenBy names: an interface that refuses the native
\* call is neither pointed nor remembered.
ImplementsContract ==
    /\ Contract({})!RedirInit
    /\ [][\A T \in TroubleSets : troubles = T => Contract(T)!RedirNext]_(Contract({})!redirVars)

\* apply returns Ok only with every interface it listed pointed at the proxy
\* ("route all queries to `proxy`", the trait in redirect/mod.rs): always when it
\* went through netsh, and when no interface refused on the native path and every
\* name survived the parser.
RoutesAll ==
    [][Without({"unplug", "user"}) /\ (NetshOk \/ (NativeOk /\ Without({"native_refused", "spaced"})))
           => ifaces \subseteq PointedInterfaces]_vars

\* A restore that returns Ok leaves no interface pointed at the proxy, if no apply
\* before it failed halfway and no interface has left.
RestoreUnpoints ==
    [][RestoreOk /\ Without({"netsh_refused", "clear_refused", "spaced", "unplug", "crash"})
           => PointedInterfaces = {}]_vars

=============================================================================
