---- MODULE DnsRedirector ----
(***************************************************************************)
(* What the trait DnsRedirector promises its caller (redirect/mod.rs), and  *)
(* the ways in which the three implementations may fall short of it.        *)
(*                                                                          *)
(* A surface is one place where the operating system keeps a resolver       *)
(* address: a systemd-resolved link or /etc/resolv.conf on Linux, a network *)
(* service on macOS, an interface on Windows.  A surface is pointed when it *)
(* sends queries to the local proxy.                                        *)
(*                                                                          *)
(* A call of apply or restore is not atomic: it visits one surface at a     *)
(* time, and the operating system is seen between two visits.               *)
(***************************************************************************)
CONSTANTS
    Surfaces,   \* places where the system keeps a resolver address
    Faults      \* the departures from the promise that may happen

\* apply_leaks:   apply returns without remembering a surface it has pointed
\* restore_fails: restore forgets a surface and leaves it pointed
\* external:      another program rewrites a surface
\* crash:         the process ends and its memory with it
FaultKinds == {"apply_leaks", "restore_fails", "external", "crash"}

ASSUME FaultsAssumption == Faults \subseteq FaultKinds

VARIABLES
    pointed,     \* surfaces that send queries to the local proxy
    remembered,  \* surfaces the implementation will restore
    call,        \* the call in progress
    todo         \* in apply: surfaces pointed so far; in restore: surfaces left

redirVars == <<pointed, remembered, call, todo>>

RedirTypeOK ==
    /\ pointed \subseteq Surfaces
    /\ remembered \subseteq Surfaces
    /\ todo \subseteq Surfaces
    /\ call \in {"none", "apply", "restore"}

RedirInit ==
    /\ pointed = {}
    /\ remembered = {}
    /\ call = "none"
    /\ todo = {}

-----------------------------------------------------------------------------
(* apply *)

BeginApply ==
    /\ call = "none"
    /\ call' = "apply"
    /\ todo' = {}
    /\ UNCHANGED <<pointed, remembered>>

Point(s) ==
    /\ call = "apply"
    /\ s \notin todo
    /\ pointed' = pointed \cup {s}
    /\ todo' = todo \cup {s}
    /\ UNCHANGED <<remembered, call>>

\* apply returns Ok and remembers R: all it has pointed, unless it leaks.
ApplyOk(R) ==
    /\ call = "apply"
    /\ R # {}
    /\ R \subseteq todo
    /\ "apply_leaks" \in Faults \/ R = todo
    /\ remembered' = R
    /\ call' = "none"
    /\ todo' = {}
    /\ UNCHANGED pointed

\* apply returns Err: it has pointed nothing, unless it leaks.
ApplyErr ==
    /\ call = "apply"
    /\ "apply_leaks" \in Faults \/ todo = {}
    /\ call' = "none"
    /\ todo' = {}
    /\ UNCHANGED <<pointed, remembered>>

-----------------------------------------------------------------------------
(* restore: all three implementations clear their memory before any work,   *)
(* so the call cannot be repeated for a surface it failed on.               *)

BeginRestore ==
    /\ call = "none"
    /\ call' = "restore"
    /\ todo' = remembered
    /\ remembered' = {}
    /\ UNCHANGED pointed

Unpoint(s) ==
    /\ call = "restore"
    /\ s \in todo
    /\ pointed' = pointed \ {s}
    /\ todo' = todo \ {s}
    /\ UNCHANGED <<remembered, call>>

Skip(s) ==
    /\ "restore_fails" \in Faults
    /\ call = "restore"
    /\ s \in todo
    /\ todo' = todo \ {s}
    /\ UNCHANGED <<pointed, remembered, call>>

\* Mutant: restore leaves at the first surface it cannot restore.
EndRestoreEarly ==
    /\ call = "restore"
    /\ call' = "none"
    /\ todo' = {}
    /\ UNCHANGED <<pointed, remembered>>

\* restore returns when it has visited every surface, or gives up before.
EndRestore ==
    /\ call = "restore"
    /\ "restore_fails" \in Faults \/ todo = {}
    /\ call' = "none"
    /\ todo' = {}
    /\ UNCHANGED <<pointed, remembered>>

-----------------------------------------------------------------------------
(* The environment *)

External(s) ==
    /\ "external" \in Faults
    /\ pointed' = pointed \ {s}
    /\ UNCHANGED <<remembered, call, todo>>

Forget ==
    /\ "crash" \in Faults
    /\ remembered' = {}
    /\ call' = "none"
    /\ todo' = {}
    /\ UNCHANGED pointed

RedirNext ==
    \/ BeginApply
    \/ \E R \in SUBSET Surfaces : ApplyOk(R)
    \/ ApplyErr
    \/ BeginRestore
    \/ EndRestore
    \/ Forget
    \/ \E s \in Surfaces : Point(s) \/ Unpoint(s) \/ Skip(s) \/ External(s)

RedirSpec == RedirInit /\ [][RedirNext]_redirVars

=============================================================================
