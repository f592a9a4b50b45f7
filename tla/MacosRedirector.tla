---- MODULE MacosRedirector ----
(***************************************************************************)
(* The macOS implementation of the trait DnsRedirector (redirect/macos.rs): *)
(* a State:/ key of the SystemConfiguration store for every network         *)
(* service, or, when none can be written, the servers of every service      *)
(* rewritten with networksetup.                                             *)
(***************************************************************************)
EXTENDS FiniteSets

CONSTANTS
    Services,   \* network services
    Texts,      \* server lists a user may configure
    Scoped,     \* those of them whose servers are addresses with a zone (fe80::1%en0)
    TroubleSets \* the combinations of troubles to consider

\* store_fails:     the dynamic store cannot be created, or lists no service
\* native_refused:  the store does not take the key of a service
\* list_fails:      networksetup fails to list the services, or lists none
\* read_fails:      networksetup does not tell the servers of a service
\* shell_refused:   networksetup does not set the servers of a service
\* restore_refused: a key is not removed, or the old servers are not set
\* scoped:          a user has configured addresses with a zone
\* key_lost:        the system drops a State:/ key
\* crash:           the service is killed between two steps
TroubleKinds ==
    {"store_fails", "native_refused", "list_fails", "read_fails", "shell_refused",
     "restore_refused", "scoped", "key_lost", "crash"}

ASSUME TroublesAssumption == TroubleSets \subseteq SUBSET TroubleKinds
ASSUME ServicesAssumption == Services # {}
ASSUME FiniteAssumption == IsFiniteSet(Services)
ASSUME ScopedAssumption == Scoped \subseteq Texts

\* No server configured: networksetup answers with a sentence and is told "Empty".
Empty == "empty"
Proxy == "proxy"
Servers == Texts \cup {Empty, Proxy}
ASSUME TextsAssumption == Texts \cap {Empty, Proxy} = {}

VARIABLES
    troubles, \* what may go wrong in this behaviour
    key,      \* the services with a State:/ key of ours
    dns,      \* the servers in Setup:/ of each service
    applied,  \* MacosRedirector.applied
    pc,       \* the loop the call in progress is in
    left,     \* services the loop has not visited
    done,     \* services the loop has set
    saved,    \* apply_shell: the previous servers of the services in done
    prior     \* history: the servers each service had before ours

May(trouble) == trouble \in troubles
Without(kinds) == troubles \cap kinds = {}

call == <<pc, left, done, saved>>
vars == <<troubles, key, dns, applied, call, prior>>

NoneSaved == [s \in Services |-> Empty]
None == [path |-> "none", names |-> {}, prev |-> NoneSaved]
Native(names) == [path |-> "native", names |-> names, prev |-> NoneSaved]
Shell(names, prev) == [path |-> "shell", names |-> names, prev |-> prev]

TypeOK ==
    /\ troubles \in TroubleSets
    /\ key \subseteq Services
    /\ dns \in [Services -> Servers]
    /\ applied \in [path : {"none", "native", "shell"}, names : SUBSET Services,
                    prev : [Services -> Servers]]
    /\ pc \in {"idle", "native", "list", "shell", "failed", "remove", "set_back"}
    /\ left \subseteq Services
    /\ done \subseteq Services
    /\ saved \in [Services -> Servers]
    /\ prior \in [Services -> Servers \ {Proxy}]

Init ==
    /\ troubles \in TroubleSets
    /\ key = {}
    /\ dns \in [Services -> Servers \ ({Proxy} \cup {x \in Scoped : ~May("scoped")})]
    /\ applied = None
    /\ pc = "idle"
    /\ left = {} /\ done = {}
    /\ saved = NoneSaved
    /\ prior = dns

-----------------------------------------------------------------------------
(* apply: the controller calls it only while nothing is remembered *)

ApplyBegin ==
    /\ pc = "idle"
    /\ applied = None
    /\ prior' = [s \in Services |-> IF dns[s] = Proxy THEN prior[s] ELSE dns[s]]
    /\ done' = {}
    /\ saved' = NoneSaved
    /\ \/ pc' = "native" /\ left' = Services
       \/ May("store_fails") /\ pc' = "list" /\ left' = {}
    /\ UNCHANGED <<troubles, key, dns, applied>>

NativeSet(s) ==
    /\ pc = "native"
    /\ s \in left
    /\ key' = key \cup {s}
    /\ left' = left \ {s}
    /\ done' = done \cup {s}
    /\ UNCHANGED <<troubles, dns, applied, pc, saved, prior>>

\* set_raw returns false; the service is left out and nobody is told.
NativeRefused(s) ==
    /\ pc = "native"
    /\ May("native_refused")
    /\ s \in left
    /\ left' = left \ {s}
    /\ UNCHANGED <<troubles, key, dns, applied, pc, done, saved, prior>>

NativeEnd ==
    /\ pc = "native"
    /\ left = {}
    /\ IF done # {}
       THEN pc' = "idle" /\ applied' = Native(done)
       ELSE pc' = "list" /\ UNCHANGED applied
    /\ UNCHANGED <<troubles, key, dns, left, done, saved, prior>>

\* parse_network_services strips the asterisk of a disabled service and keeps it.
List ==
    /\ pc = "list"
    /\ \/ pc' = "shell" /\ left' = Services
       \/ May("list_fails") /\ pc' = "failed" /\ UNCHANGED left
    /\ UNCHANGED <<troubles, key, dns, applied, done, saved, prior>>

\* Mutant: the servers are read after they have been set.
ShellSetThenRead(s) ==
    /\ pc = "shell"
    /\ s \in left
    /\ saved' = [saved EXCEPT ![s] = Proxy]
    /\ dns' = [dns EXCEPT ![s] = Proxy]
    /\ left' = left \ {s}
    /\ done' = done \cup {s}
    /\ UNCHANGED <<troubles, key, applied, pc, prior>>

\* Only the lines that std parses as an address are servers: the sentence that there
\* are none yields no servers, and so does an address with a zone.
ParseDnsServers(servers) == IF servers \in Scoped THEN Empty ELSE servers

\* current_dns, then -setdnsservers.  A read that fails counts as no servers.
ShellSet(s) ==
    /\ pc = "shell"
    /\ s \in left
    /\ \E servers \in {ParseDnsServers(dns[s])} \cup {e \in {Empty} : May("read_fails")} :
           saved' = [saved EXCEPT ![s] = servers]
    /\ dns' = [dns EXCEPT ![s] = Proxy]
    /\ left' = left \ {s}
    /\ done' = done \cup {s}
    /\ UNCHANGED <<troubles, key, applied, pc, prior>>

\* Mutant: a refusal is logged and the service is saved all the same.
ShellRefusedGoesOn(s) ==
    /\ pc = "shell"
    /\ May("shell_refused")
    /\ s \in left
    /\ left' = left \ {s}
    /\ done' = done \cup {s}
    /\ UNCHANGED <<troubles, key, dns, applied, pc, saved, prior>>

\* `?` leaves apply_shell: the services set before stay set, and saved is dropped.
ShellRefused(s) ==
    /\ pc = "shell"
    /\ May("shell_refused")
    /\ s \in left
    /\ pc' = "failed"
    /\ UNCHANGED <<troubles, key, dns, applied, left, done, saved, prior>>

\* Mutant: the path is recorded under a name restore does not know.
ShellEndUnnamed ==
    /\ pc = "shell"
    /\ left = {}
    /\ applied' = [path |-> "networksetup", names |-> done, prev |-> saved]
    /\ pc' = "idle"
    /\ UNCHANGED <<troubles, key, dns, left, done, saved, prior>>

ShellEnd ==
    /\ pc = "shell"
    /\ left = {}
    /\ applied' = Shell(done, saved)
    /\ pc' = "idle"
    /\ UNCHANGED <<troubles, key, dns, left, done, saved, prior>>

ApplyErr ==
    /\ pc = "failed"
    /\ pc' = "idle"
    /\ done' = {}
    /\ UNCHANGED <<troubles, key, dns, applied, left, saved, prior>>

-----------------------------------------------------------------------------
(* restore: the memory is replaced by None first *)

RestoreBegin ==
    /\ pc = "idle"
    /\ pc' = IF applied.path = "shell" THEN "set_back" ELSE "remove"
    /\ left' = applied.names
    /\ saved' = applied.prev
    /\ applied' = None
    /\ UNCHANGED <<troubles, key, dns, done, prior>>

\* The result of remove is not looked at.
Remove(s) ==
    /\ pc = "remove"
    /\ s \in left
    /\ key' \in {key \ {s}} \cup {k \in {key} : May("restore_refused")}
    /\ left' = left \ {s}
    /\ UNCHANGED <<troubles, dns, applied, pc, done, saved, prior>>

\* The store cannot be created: restore returns Err before the first removal.
RestoreErr ==
    /\ pc = "remove"
    /\ May("store_fails")
    /\ left # {} /\ left = done
    /\ pc' = "idle"
    /\ left' = {} /\ done' = {}
    /\ UNCHANGED <<troubles, key, dns, applied, saved, prior>>

\* Mutant: every service is put back on DHCP.
SetBackEmpty(s) ==
    /\ pc = "set_back"
    /\ s \in left
    /\ dns' = [dns EXCEPT ![s] = Empty]
    /\ left' = left \ {s}
    /\ UNCHANGED <<troubles, key, applied, pc, done, saved, prior>>

\* Mutant: a service without previous servers is left alone.
SetBackSome(s) ==
    /\ pc = "set_back"
    /\ s \in left
    /\ dns' = IF saved[s] = Empty THEN dns ELSE [dns EXCEPT ![s] = saved[s]]
    /\ left' = left \ {s}
    /\ UNCHANGED <<troubles, key, applied, pc, done, saved, prior>>

SetBack(s) ==
    /\ pc = "set_back"
    /\ s \in left
    /\ \/ dns' = [dns EXCEPT ![s] = saved[s]]
       \/ May("restore_refused") /\ UNCHANGED dns
    /\ left' = left \ {s}
    /\ UNCHANGED <<troubles, key, applied, pc, done, saved, prior>>

RestoreOk ==
    /\ pc \in {"remove", "set_back"}
    /\ left = {}
    /\ pc' = "idle"
    /\ done' = {}
    /\ saved' = NoneSaved
    /\ UNCHANGED <<troubles, key, dns, applied, left, prior>>

-----------------------------------------------------------------------------
(* The environment *)

KeyLost(s) ==
    /\ May("key_lost")
    /\ key' = key \ {s}
    /\ UNCHANGED <<troubles, dns, applied, call, prior>>

\* The new process remembers nothing; keys and servers are as they were left.
Crash ==
    /\ May("crash")
    /\ applied' = None
    /\ pc' = "idle"
    /\ left' = {} /\ done' = {}
    /\ saved' = NoneSaved
    /\ UNCHANGED <<troubles, key, dns, prior>>

Next ==
    \/ ApplyBegin \/ NativeEnd \/ List \/ ShellEnd \/ ApplyErr
    \/ RestoreBegin \/ RestoreErr \/ RestoreOk \/ Crash
    \/ \E s \in Services :
           \/ NativeSet(s) \/ NativeRefused(s) \/ ShellSet(s) \/ ShellRefused(s)
           \/ Remove(s) \/ SetBack(s) \/ KeyLost(s)

Spec == Init /\ [][Next]_vars

-----------------------------------------------------------------------------
(* Properties *)

StateKeys(S) == {"state"} \X S
SetupServers(S) == {"setup"} \X S

PointedSurfaces == StateKeys(key) \cup SetupServers({s \in Services : dns[s] = Proxy})

\* Which promise of the trait each trouble breaks; a trouble not named breaks none.
\* An apply cut short, by a service that networksetup does not set or by a kill,
\* makes the next one save our own address, and restore then sets it again.
TroublesBreaking ==
    [apply_leaks   |-> {"shell_refused"},
     restore_fails |-> {"store_fails", "restore_refused", "shell_refused", "crash"},
     external      |-> {"key_lost"},
     crash         |-> {"crash"}]

BrokenBy(T) == {f \in DOMAIN TroublesBreaking : T \cap TroublesBreaking[f] # {}}

Contract(T) == INSTANCE DnsRedirector WITH
    Surfaces   <- StateKeys(Services) \cup SetupServers(Services),
    Faults     <- BrokenBy(T),
    pointed    <- PointedSurfaces,
    remembered <- IF applied.path = "native" THEN StateKeys(applied.names)
                  ELSE SetupServers(applied.names),
    call       <- IF pc = "idle" THEN "none"
                  ELSE IF pc \in {"remove", "set_back"} THEN "restore" ELSE "apply",
    todo       <- CASE pc = "native" -> StateKeys(done)
                    [] pc \in {"shell", "failed"} -> SetupServers(done)
                    [] pc = "remove" -> StateKeys(left)
                    [] pc = "set_back" -> SetupServers(left)
                    [] OTHER -> {}

\* The macOS redirector implements the trait, and each trouble costs it no other
\* promise than the one BrokenBy names: a read that fails, a list that
\* fails or a key that is refused leaves no service pointed and forgotten.
ImplementsContract ==
    /\ Contract({})!RedirInit
    /\ [][\A T \in TroubleSets : troubles = T => Contract(T)!RedirNext]_(Contract({})!redirVars)

\* What loses a setting of the user, or leaves a leftover that the next connect
\* cannot tell from one.
Spoiling == {"read_fails", "shell_refused", "restore_refused", "scoped", "crash"}

\* Applied::Shell holds the "previous DNS servers" of a service: what the user had
\* configured, never what an earlier connect has put there.
SavesPrevious ==
    Without(Spoiling) /\ applied.path = "shell" =>
        \A s \in applied.names : applied.prev[s] = prior[s]

\* restore gives every service the servers it had before they were ours ("restore
\* the exact prior state on Disconnect", redirect/mod.rs), on both paths and with
\* disabled services among them.
RestoresPrior == [][RestoreOk /\ Without(Spoiling) => dns = prior]_vars

\* A restore that returns Ok leaves no service pointed at the proxy, if every
\* apply and restore before it could do its work; servers that could not be read or
\* parsed are lost, and the service falls back to DHCP.
RestoreUnpoints ==
    [][RestoreOk /\ Without({"store_fails", "shell_refused", "restore_refused", "crash"})
           => PointedSurfaces = {}]_vars

=============================================================================
