---- MODULE LinuxRedirector ----
(***************************************************************************)
(* The Linux implementation of the trait DnsRedirector (redirect/linux.rs): *)
(* systemd-resolved over D-Bus for the default-route link, or, when that    *)
(* fails, a rewrite of /etc/resolv.conf with a backup beside it.            *)
(*                                                                          *)
(* Every D-Bus call and every file operation is a step of its own, may fail *)
(* where troubles lets it, and may be the last one before a crash.          *)
(***************************************************************************)
EXTENDS Naturals, FiniteSetsExt

CONSTANTS
    Links,      \* network links known to systemd-resolved
    NoLink,     \* no link
    MaxRoutes,  \* bound on the lines of /proc/net/route
    Texts,      \* contents an administrator may give /etc/resolv.conf
    TroubleSets \* the combinations of troubles to consider

\* dns_refused:   SetLinkDNS fails (LinkBusy: the link is managed by networkd)
\* route_refused: SetLinkDefaultRoute fails after SetLinkDNS succeeded
\* revert_fails:  RevertLink fails
\* io_fails:      a file operation fails without effect
\* torn:          the write of resolv.conf, or the copy that restores it, stops halfway
\* backup_torn:   the copy that makes the backup stops halfway
\* crash:         the service is killed between two steps
\* rewrite:       another program rewrites /etc/resolv.conf
\* no_conf:       the system starts without /etc/resolv.conf, or with a dangling link
TroubleKinds ==
    {"dns_refused", "route_refused", "revert_fails", "io_fails", "torn", "backup_torn",
     "crash", "rewrite", "no_conf"}

\* The text voidns writes, a file cut short, and no file.
Ours == "# voidns managed"
Torn == "torn"
NoText == "no text"

ASSUME TroublesAssumption == TroubleSets \subseteq SUBSET TroubleKinds
ASSUME NoLinkAssumption == NoLink \notin Links
ASSUME TextsAssumption == Texts \cap {Ours, Torn, NoText} = {}
ASSUME LinksAssumption == "resolv.conf" \notin Links
ASSUME MaxRoutesAssumption == MaxRoutes \in Nat

VARIABLES
    troubles,  \* what may go wrong in this behaviour
    linkDns,   \* who answers on each link: "own" servers or the "proxy"
    kind,      \* what /etc/resolv.conf is: "file", "symlink" or "absent"
    conf,      \* what reading /etc/resolv.conf yields
    backup,    \* what reading /etc/resolv.conf.voidns.bak yields
    active,    \* LinuxRedirector.active
    ifindex,   \* the link apply_resolved works on, or restore has to revert
    pc,        \* the next step of the call in progress
    touched,   \* history: surfaces pointed by the apply in progress
    prior      \* history: what /etc/resolv.conf held before the last connect overwrote it

May(trouble) == trouble \in troubles
Without(kinds) == troubles \cap kinds = {}

disk == <<kind, conf, backup>>
vars == <<troubles, linkDns, disk, active, ifindex, pc, touched, prior>>

Idle == [path |-> "idle", link |-> NoLink]
Resolved(l) == [path |-> "resolved", link |-> l]
ResolvConf == [path |-> "resolv_conf", link |-> NoLink]

ApplySteps == {"set_dns", "set_route", "backup", "unlink", "write", "remember", "failed"}
RestoreSteps == {"revert", "copy_back", "remove_backup", "restored", "restore_failed"}

TypeOK ==
    /\ troubles \in TroubleSets
    /\ linkDns \in [Links -> {"own", "proxy"}]
    /\ kind \in {"file", "symlink", "absent"}
    /\ {conf, backup} \subseteq Texts \cup {Ours, Torn, NoText}
    /\ active \in {Idle, ResolvConf} \cup {Resolved(l) : l \in Links}
    /\ ifindex \in Links \cup {NoLink}
    /\ pc \in ApplySteps \cup RestoreSteps \cup {"idle"}
    /\ touched \subseteq Links \cup {"resolv.conf"}
    /\ prior \subseteq Texts \cup {Torn, NoText}

Init ==
    /\ troubles \in TroubleSets
    /\ linkDns = [l \in Links |-> "own"]
    /\ \/ kind \in {"file", "symlink"} /\ conf \in Texts
       \/ May("no_conf") /\ kind \in {"symlink", "absent"} /\ conf = NoText
    /\ backup = NoText
    /\ active = Idle
    /\ ifindex = NoLink
    /\ pc = "idle"
    /\ touched = {}
    /\ prior = {conf}

-----------------------------------------------------------------------------
(* apply *)

\* /proc/net/route below its header, as the kernel writes it: a line names a link
\* and tells whether the destination is zero, the default.
RouteTables == UNION {[1..n -> [iface : Links, default : BOOLEAN]] : n \in 0..MaxRoutes}

\* The first default line decides.
DefaultLines(table) == {n \in DOMAIN table : table[n].default}
ParseDefaultRouteIface(table) ==
    IF DefaultLines(table) = {} THEN NoLink ELSE table[Min(DefaultLines(table))].iface

\* resolved_active and apply_resolved up to the first D-Bus call.  What they read,
\* the stub-resolv.conf of systemd-resolved and the routes, may be another at every
\* call, and a link may be gone before its index is asked for.  The controller calls
\* apply only while nothing is remembered (ConnectInv of Controller).
ApplyBegin ==
    /\ pc = "idle"
    /\ active = Idle
    /\ touched' = {}
    /\ prior' = IF conf = Ours THEN prior ELSE {conf}
    /\ \/ pc' = "backup" /\ ifindex' = NoLink
       \/ /\ \E table \in RouteTables : ifindex' = ParseDefaultRouteIface(table)
          /\ ifindex' \in Links
          /\ pc' = "set_dns"
    /\ UNCHANGED <<troubles, linkDns, disk, active>>

SetLinkDns ==
    /\ pc = "set_dns"
    /\ linkDns' = [linkDns EXCEPT ![ifindex] = "proxy"]
    /\ touched' = {ifindex}
    /\ pc' = "set_route"
    /\ UNCHANGED <<troubles, disk, active, ifindex, prior>>

\* Either D-Bus call failing sends apply to the resolv.conf fallback; what the
\* first one did stays, and ifindex is gone.
BusFails ==
    /\ \/ pc = "set_dns" /\ May("dns_refused")
       \/ pc = "set_route" /\ May("route_refused")
    /\ pc' = "backup"
    /\ ifindex' = NoLink
    /\ UNCHANGED <<troubles, linkDns, disk, active, touched, prior>>

SetLinkDefaultRoute ==
    /\ pc = "set_route"
    /\ active' = Resolved(ifindex)
    /\ ifindex' = NoLink
    /\ pc' = "idle"
    /\ touched' = {}
    /\ UNCHANGED <<troubles, linkDns, disk, prior>>

\* Mutant: a backup is made on every connect.
BackupAlways ==
    /\ pc = "backup"
    /\ pc' = "unlink"
    /\ backup' = IF conf # NoText THEN conf ELSE backup
    /\ UNCHANGED <<troubles, linkDns, kind, conf, active, ifindex, touched, prior>>

\* No backup is made over an earlier one, nor of a file that is not there.
Backup ==
    /\ pc = "backup"
    /\ pc' = "unlink"
    /\ backup' = IF conf # NoText /\ backup = NoText THEN conf ELSE backup
    /\ UNCHANGED <<troubles, linkDns, kind, conf, active, ifindex, touched, prior>>

\* fs::copy creates the backup, then fills it.  What it leaves when it fails, or is killed,
\* is a backup like any other to the next connect.
BackupTorn ==
    /\ pc = "backup"
    /\ May("backup_torn")
    /\ conf # NoText /\ backup = NoText
    /\ backup' = Torn
    /\ pc' = "failed"
    /\ UNCHANGED <<troubles, linkDns, kind, conf, active, ifindex, touched, prior>>

Unlink ==
    /\ pc = "unlink"
    /\ pc' = "write"
    /\ IF kind = "symlink"
       THEN kind' = "absent" /\ conf' = NoText
       ELSE UNCHANGED <<kind, conf>>
    /\ UNCHANGED <<troubles, linkDns, backup, active, ifindex, touched, prior>>

WriteConf ==
    /\ pc = "write"
    /\ kind' = "file"
    /\ conf' = Ours
    /\ touched' = touched \cup {"resolv.conf"}
    /\ pc' = "remember"
    /\ UNCHANGED <<troubles, linkDns, backup, active, ifindex, prior>>

\* fs::write truncates the file before it fills it.
WriteTorn ==
    /\ pc = "write"
    /\ May("torn")
    /\ kind' = "file"
    /\ conf' = Torn
    /\ pc' = "failed"
    /\ UNCHANGED <<troubles, linkDns, backup, active, ifindex, touched, prior>>

\* The backup cannot be created, the link not removed, or the file not opened.
FileFails ==
    /\ \/ pc = "backup" /\ conf # NoText /\ backup = NoText
       \/ pc = "unlink" /\ kind = "symlink"
       \/ pc = "write"
    /\ May("io_fails")
    /\ pc' = "failed"
    /\ UNCHANGED <<troubles, linkDns, disk, active, ifindex, touched, prior>>

\* Mutant: the fallback is remembered as a link.
RememberLink ==
    /\ pc = "remember"
    /\ active' = Resolved(ifindex)
    /\ pc' = "idle"
    /\ touched' = {}
    /\ UNCHANGED <<troubles, linkDns, disk, ifindex, prior>>

Remember ==
    /\ pc = "remember"
    /\ active' = ResolvConf
    /\ pc' = "idle"
    /\ touched' = {}
    /\ UNCHANGED <<troubles, linkDns, disk, ifindex, prior>>

\* Mutant: resolv.conf is remembered before the rewrite has succeeded.
ApplyErrRemembers ==
    /\ pc = "failed"
    /\ active' = ResolvConf
    /\ pc' = "idle"
    /\ touched' = {}
    /\ UNCHANGED <<troubles, linkDns, disk, ifindex, prior>>

ApplyErr ==
    /\ pc = "failed"
    /\ pc' = "idle"
    /\ touched' = {}
    /\ UNCHANGED <<troubles, linkDns, disk, active, ifindex, prior>>

-----------------------------------------------------------------------------
(* restore *)

\* The memory is cleared before anything is restored.
RestoreBegin ==
    /\ pc = "idle"
    /\ active' = Idle
    /\ ifindex' = active.link
    /\ pc' = CASE active.path = "idle" -> "restored"
               [] active.path = "resolved" -> "revert"
               [] active.path = "resolv_conf" -> "copy_back"
    /\ UNCHANGED <<troubles, linkDns, disk, touched, prior>>

\* Mutant: the link of the default route is reverted, not the one remembered.
RevertGateway ==
    /\ pc = "revert"
    /\ \E l \in Links : linkDns' = [linkDns EXCEPT ![l] = "own"]
    /\ ifindex' = NoLink
    /\ pc' = "restored"
    /\ UNCHANGED <<troubles, disk, active, touched, prior>>

RevertLink ==
    /\ pc = "revert"
    /\ linkDns' = [linkDns EXCEPT ![ifindex] = "own"]
    /\ ifindex' = NoLink
    /\ pc' = "restored"
    /\ UNCHANGED <<troubles, disk, active, touched, prior>>

\* resolvconf_restore; without a backup it does nothing and returns Ok.
CopyBack ==
    /\ pc = "copy_back"
    /\ IF backup = NoText
       THEN pc' = "restored" /\ UNCHANGED <<kind, conf>>
       ELSE /\ pc' = "remove_backup"
            /\ conf' = backup
            /\ kind' = IF kind = "absent" THEN "file" ELSE kind
    /\ UNCHANGED <<troubles, linkDns, backup, active, ifindex, touched, prior>>

CopyTorn ==
    /\ pc = "copy_back"
    /\ May("torn")
    /\ backup # NoText
    /\ conf' = Torn
    /\ kind' = IF kind = "absent" THEN "file" ELSE kind
    /\ pc' = "restore_failed"
    /\ UNCHANGED <<troubles, linkDns, backup, active, ifindex, touched, prior>>

\* RevertLink is refused, or the copy cannot start.
RestoreFails ==
    /\ \/ pc = "revert" /\ May("revert_fails")
       \/ pc = "copy_back" /\ May("io_fails") /\ backup # NoText
    /\ ifindex' = NoLink
    /\ pc' = "restore_failed"
    /\ UNCHANGED <<troubles, linkDns, disk, active, touched, prior>>

RestoreErr ==
    /\ pc = "restore_failed"
    /\ pc' = "idle"
    /\ UNCHANGED <<troubles, linkDns, disk, active, ifindex, touched, prior>>

\* Mutant: the backup is kept for the next connect.
KeepBackup ==
    /\ pc = "remove_backup"
    /\ pc' = "restored"
    /\ UNCHANGED <<troubles, linkDns, disk, active, ifindex, touched, prior>>

\* The error of remove_file is dropped.
RemoveBackup ==
    /\ pc = "remove_backup"
    /\ \/ backup' = NoText
       \/ May("io_fails") /\ backup' = backup
    /\ pc' = "restored"
    /\ UNCHANGED <<troubles, linkDns, kind, conf, active, ifindex, touched, prior>>

RestoreOk ==
    /\ pc = "restored"
    /\ pc' = "idle"
    /\ UNCHANGED <<troubles, linkDns, disk, active, ifindex, touched, prior>>

-----------------------------------------------------------------------------
(* The environment *)

Rewrite(text) ==
    /\ May("rewrite")
    /\ kind' = "file"
    /\ conf' = text
    /\ prior' = IF pc \in ApplySteps THEN prior \cup {text} ELSE prior
    /\ UNCHANGED <<troubles, linkDns, backup, active, ifindex, pc, touched>>

\* A new process starts with an idle redirector; links and files are as left.
Crash ==
    /\ May("crash")
    /\ active' = Idle
    /\ ifindex' = NoLink
    /\ pc' = "idle"
    /\ touched' = {}
    /\ UNCHANGED <<troubles, linkDns, disk, prior>>

Next ==
    \/ ApplyBegin \/ SetLinkDns \/ BusFails \/ SetLinkDefaultRoute
    \/ Backup \/ BackupTorn \/ Unlink \/ WriteConf \/ WriteTorn \/ FileFails
    \/ Remember \/ ApplyErr
    \/ RestoreBegin \/ RevertLink \/ CopyBack \/ CopyTorn \/ RestoreFails
    \/ RemoveBackup \/ RestoreErr \/ RestoreOk
    \/ Crash
    \/ \E text \in Texts : Rewrite(text)

Spec == Init /\ [][Next]_vars

-----------------------------------------------------------------------------
(* Properties *)

ConfSurface == "resolv.conf"

PointedSurfaces ==
    {l \in Links : linkDns[l] = "proxy"} \cup {c \in {ConfSurface} : conf = Ours}

\* Which promise of the trait each trouble breaks; a trouble not named breaks none.
TroublesBreaking ==
    [apply_leaks   |-> {"route_refused"},
     restore_fails |-> {"revert_fails", "io_fails", "no_conf"},
     external      |-> {"rewrite", "torn"},
     crash         |-> {"crash"}]

BrokenBy(T) == {f \in DOMAIN TroublesBreaking : T \cap TroublesBreaking[f] # {}}

Contract(T) == INSTANCE DnsRedirector WITH
    Surfaces   <- Links \cup {ConfSurface},
    Faults     <- BrokenBy(T),
    pointed    <- PointedSurfaces,
    remembered <- CASE active.path = "idle" -> {}
                    [] active.path = "resolved" -> {active.link}
                    [] active.path = "resolv_conf" -> {ConfSurface},
    call       <- IF pc \in ApplySteps THEN "apply"
                  ELSE IF pc \in RestoreSteps THEN "restore" ELSE "none",
    todo       <- CASE pc = "revert" -> {ifindex}
                    [] pc = "copy_back" -> {ConfSurface}
                    [] OTHER -> touched

\* The Linux redirector implements the trait, and each trouble costs it no other
\* promise than the one BrokenBy names: a link refused by networkd costs
\* nothing, because the fallback takes over before anything is pointed.
\* One combination is left out: a connect without a resolv.conf has nothing to restore,
\* the next one backs up our own text, and its restore writes that over what others
\* have put there in between.
ImplementsContract ==
    /\ Contract({})!RedirInit
    /\ [][\A T \in TroubleSets : troubles = T => Contract(T)!RedirNext]_(Contract({})!redirVars)

\* Restoring resolv.conf gives it a text it had after the connect began and before
\* the connect overwrote it, whether or not others rewrite the file and whatever
\* happens on D-Bus; a file operation that fails halfway, a kill or a missing file
\* may leave a backup of another time, or of half a file.
RestoresPrior ==
    [][CopyBack /\ Without({"io_fails", "torn", "backup_torn", "crash", "no_conf"})
           => conf' \in prior]_vars

\* A restore that returns Ok leaves no link and no file pointed at the proxy, the
\* default route having moved or not, if no apply or restore before it was cut short.
RestoreUnpoints ==
    [][RestoreOk /\ Without({"route_refused", "revert_fails", "io_fails", "crash", "no_conf"})
           => PointedSurfaces = {}]_vars

\* A whole text of an administrator is kept, in resolv.conf or in the backup, however often
\* the service is killed, halfway through the write of resolv.conf or the copy that restores
\* it too, restarted and connected again: there was a file to begin with, and the copy that
\* makes the backup was not cut short.  One that was is taken for a backup by the next
\* connect, which overwrites the only whole text; but a backup is never a copy of ours.
Recoverable ==
    Without({"no_conf"}) =>
        /\ Without({"backup_torn"}) => conf \in Texts \/ backup \in Texts
        /\ conf \in {Ours, NoText} => backup \in Texts \cup {Torn}

\* redirect/mod.rs, first lines: "restore the exact prior state on Disconnect".
ExactPriorState == [][CopyBack => conf' \in prior]_vars

=============================================================================
