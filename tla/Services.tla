---- MODULE Services ----
(***************************************************************************)
(* The processes around the controller: services that come and go on one    *)
(* machine (voidns-service/src/main.rs, ipc::serve) and the command line     *)
(* (voidns-cli, and the control mode of voidns-service) whose exit code      *)
(* scripts rely on.                                                         *)
(*                                                                          *)
(* They share the socket file, port 53 and the settings of the system.  The *)
(* file is a name: a service creates it, and whoever removes it or ends     *)
(* removes it by name, whosever it is.  A call of the controller is one step *)
(* here; Controller and Daemon have its interleavings.  The redirector is    *)
(* as in DnsRedirector: it may leave something pointed, and nobody is told.  *)
(***************************************************************************)
EXTENDS VoidnsProto, UpstreamSel

CONSTANTS
    Procs,       \* processes of voidns-service, each may be started again
    Runs,        \* invocations of the command line
    Lines,       \* what is typed: sequences of words
    ExtraCas,    \* what a service may find for its extra certificate authorities
    Faults       \* how a redirector may fall short of its promise, as in DnsRedirector

Nobody == "nobody"
NoCa   == ExtraCa(FALSE, "none")
Stale  == "stale"
Orphan == "orphan"

ASSUME ProcsAssumption == {Nobody, Stale, Orphan} \cap Procs = {}
ASSUME FaultsAssumption == Faults \subseteq {"apply_leaks", "restore_fails"}

Invalid == CommandOf("invalid", NoSel)
Help    == CommandOf("help", NoSel)

\* dispatch of voidns-cli.
ParseLine(words) ==
    IF words = <<>> \/ Head(words) \in {"-h", "--help", "help"} THEN Help
    ELSE CASE Head(words) = "disconnect" -> CommandOf("disconnect", NoSel)
           [] Head(words) = "status"     -> CommandOf("get_status", NoSel)
           [] Head(words) = "ping"       -> CommandOf("ping", NoSel)
           [] Head(words) = "connect" /\ ParseUpstream(Tail(words)) # NoSel
                  -> CommandOf("connect", ParseUpstream(Tail(words)))
           [] OTHER -> Invalid

Commands == {ParseLine(words) : words \in Lines}

\* The labels of what is typed are the upstreams of a status.
ASSUME LinesAssumption ==
    \A cmd \in Commands : cmd.cmd = "connect" => Label(cmd.upstream) \in Upstreams

VARIABLES
    phase,       \* life of each process
    ca,          \* what each process was given
    path,        \* the process behind the socket file, Stale, or Nobody if there is no file
    status,      \* Controller: the status of each process
    redirected,  \* the process the system is redirected to, Orphan if none will undo it
    foreign,     \* whether another program holds port 53
    run,         \* the command lines
    rival,       \* history: the last service was started while another was alive
    leftover,    \* history: something may be pointed for good, as an apply or a restore has
                 \* left it, or one was killed, or has connected after its last disconnect
    alone        \* history: the run that nothing has happened beside

procVars == <<phase, ca, path, rival>>
netVars == <<status, redirected, foreign, leftover>>
vars == <<procVars, netVars, run, alone>>

Dead == {"off", "failed"}
Alive(p) == phase[p] \notin Dead

\* was: whether the service was connected when the run was answered.
RunOf(at, cmd, to, reply, was, exit) ==
    [at |-> at, cmd |-> cmd, to |-> to, reply |-> reply, was |-> was, exit |-> exit]

NoRun == RunOf("idle", CommandOf("none", NoSel), Nobody, NoEvent, FALSE, "none")

TypeOK ==
    /\ phase \in [Procs -> Dead \cup {"ready", "prepared", "serving", "stopping", "leaving"}]
    /\ ca \in [Procs -> ExtraCas \cup {NoCa}]
    /\ path \in Procs \cup {Stale, Nobody}
    /\ status \in [Procs -> Statuses]
    /\ redirected \in Procs \cup {Orphan, Nobody}
    /\ foreign \in BOOLEAN
    /\ run \in [Runs ->
                  [at : {"idle", "called", "sent", "answered", "done"},
                   cmd : Commands \cup {CommandOf("none", NoSel)},
                   to : Procs \cup {Nobody},
                   reply : Events,
                   was : BOOLEAN,
                   exit : {"none", "success", "failure"}]]
    /\ rival \in BOOLEAN /\ leftover \in BOOLEAN
    /\ alone \in SUBSET Runs

Init ==
    /\ phase = [p \in Procs |-> "off"]
    /\ ca = [p \in Procs |-> NoCa]
    /\ path \in {Nobody, Stale}
    /\ status = [p \in Procs |-> Disconnected]
    /\ redirected = Nobody
    /\ foreign = FALSE
    /\ run = [r \in Runs |-> NoRun]
    /\ rival = FALSE /\ leftover = FALSE
    /\ alone = {}

\* Something happens that no run has asked for.
Disturb == alone' = {}

-----------------------------------------------------------------------------
(* The life of a service *)

\* run_daemon, up to serve: a new Controller, and Ready is reported before there is
\* a socket.  So is a service started by `voidns-service` with a misspelt command.
Start(p) ==
    /\ ~Alive(p)
    /\ phase' = [phase EXCEPT ![p] = "ready"]
    /\ \E c \in ExtraCas : ca' = [ca EXCEPT ![p] = c]
    /\ status' = [status EXCEPT ![p] = Disconnected]
    /\ rival' = \E q \in Procs : Alive(q)
    /\ Disturb
    /\ UNCHANGED <<path, redirected, foreign, leftover, run>>

\* Mutant: what lies at the path is left there.
PrepareNothing(p) ==
    /\ phase[p] = "ready"
    /\ phase' = [phase EXCEPT ![p] = "prepared"]
    /\ Disturb
    /\ UNCHANGED <<ca, path, rival, netVars, run>>

\* prepare_unix_path removes the file, stale or not.
Prepare(p) ==
    /\ phase[p] = "ready"
    /\ phase' = [phase EXCEPT ![p] = "prepared"]
    /\ path' = Nobody
    /\ Disturb
    /\ UNCHANGED <<ca, rival, netVars, run>>

\* The process is no more: so are its sockets, and its connections are closed.
Ends(p, next) ==
    /\ phase' = [phase EXCEPT ![p] = next]
    /\ ca' = [ca EXCEPT ![p] = NoCa]
    /\ status' = [status EXCEPT ![p] = Disconnected]
    /\ run' = [r \in Runs |->
                  IF run[r].at = "sent" /\ run[r].to = p THEN [run[r] EXCEPT !.to = Nobody]
                  ELSE run[r]]
    /\ Disturb
    /\ UNCHANGED <<rival, foreign>>

\* create_tokio binds the name.  When it is taken run_daemon returns the error, by `?`
\* and without the disconnect of a shutdown.
Listen(p) ==
    /\ phase[p] = "prepared"
    /\ \/ /\ path = Nobody
          /\ path' = p
          /\ phase' = [phase EXCEPT ![p] = "serving"]
          /\ Disturb
          /\ UNCHANGED <<ca, rival, netVars, run>>
       \/ /\ path # Nobody
          /\ Ends(p, "failed")
          /\ UNCHANGED <<path, redirected, leftover>>

\* The other branch of the select!: serve is dropped, and its listener removes the
\* file by its name.
Shutdown(p) ==
    /\ phase[p] \in {"ready", "serving"}
    /\ path' = IF phase[p] = "serving" THEN Nobody ELSE path
    /\ phase' = [phase EXCEPT ![p] = "stopping"]
    /\ Disturb
    /\ UNCHANGED <<ca, rival, netVars, run>>

\* Controller::disconnect.  The error of restore is dropped: the status is Disconnected
\* whatever is still pointed.  So may be what an apply, a restore or a killed service has
\* left: what was redirected over it is restored to it (SavesPrevious of MacosRedirector).
Disconnect(p) ==
    /\ status' = [status EXCEPT ![p] = Disconnected]
    /\ UNCHANGED foreign
    /\ \/ redirected # p /\ UNCHANGED <<redirected, leftover>>
       \/ redirected = p /\ redirected' = Nobody /\ leftover' = FALSE
       \/ /\ redirected = p /\ redirected' = Orphan
          /\ leftover \/ "restore_fails" \in Faults
          /\ leftover' = TRUE

\* Mutant: the shutdown branch only returns.
StopAtOnce(p) ==
    /\ phase[p] = "stopping"
    /\ phase' = [phase EXCEPT ![p] = "leaving"]
    /\ Disturb
    /\ UNCHANGED <<ca, path, rival, netVars, run>>

StopDisconnect(p) ==
    /\ phase[p] = "stopping"
    /\ Disconnect(p)
    /\ phase' = [phase EXCEPT ![p] = "leaving"]
    /\ Disturb
    /\ UNCHANGED <<ca, path, rival, run>>

\* A redirection does not end with the process that has made it.
Orphaned(p) == redirected' = IF redirected = p THEN Orphan ELSE redirected

Exit(p) ==
    /\ phase[p] = "leaving"
    /\ Ends(p, "off")
    /\ Orphaned(p)
    /\ UNCHANGED <<path, leftover>>

\* SIGTERM or worse, also in the middle of a connect.
Kill(p) ==
    /\ Alive(p)
    /\ Ends(p, "off")
    /\ path' = IF path = p THEN Stale ELSE path
    /\ \/ Orphaned(p)
       \/ /\ \E r \in Runs : run[r].at = "sent" /\ run[r].to = p /\ run[r].cmd.cmd = "connect"
          /\ \A q \in Procs \ {p} : status[q].state # "connected"
          /\ redirected' = Orphan
    /\ leftover' = (leftover \/ redirected' = Orphan)

-----------------------------------------------------------------------------
(* The command line *)

\* The reply has been read, and is not looked at again.
Done(r, exit) ==
    run' = [run EXCEPT ![r].at = "done", ![r].exit = exit, ![r].reply = NoEvent]

InProgress(r) == run[r].at \in {"called", "sent", "answered"}

\* A line that is not a command is not sent.
Invoke(r, words) ==
    /\ ~InProgress(r)
    /\ LET cmd == ParseLine(words)
           at == IF cmd \in {Help, Invalid} THEN "done" ELSE "called"
           exit == CASE cmd = Help -> "success" [] cmd = Invalid -> "failure" [] OTHER -> "none"
       IN run' = [run EXCEPT ![r] = RunOf(at, cmd, Nobody, NoEvent, FALSE, exit)]
    /\ alone' = IF \E k \in Runs \ {r} : InProgress(k) THEN {} ELSE {r}
    /\ UNCHANGED <<procVars, netVars>>

\* one_shot: connect to the endpoint, and write.
Reach(r) ==
    /\ run[r].at = "called"
    /\ path \in Procs
    /\ run' = [run EXCEPT ![r].at = "sent", ![r].to = path]
    /\ UNCHANGED <<procVars, netVars, alone>>

\* Mutant: only a stale file is an error, a missing one is waited for.
UnreachableWaits(r) ==
    /\ run[r].at = "called"
    /\ path = Stale
    /\ Done(r, "failure")
    /\ UNCHANGED <<procVars, netVars, alone>>

Unreachable(r) ==
    /\ run[r].at = "called"
    /\ path \notin Procs
    /\ Done(r, "failure")
    /\ UNCHANGED <<procVars, netVars, alone>>

\* The service has gone: the connection is closed without a reply.
Unanswered(r) ==
    /\ run[r].at = "sent"
    /\ run[r].to = Nobody
    /\ Done(r, "failure")
    /\ UNCHANGED <<procVars, netVars, alone>>

Reply(r, event) ==
    run' = [run EXCEPT ![r].at = "answered", ![r].reply = event,
                       ![r].was = status[run[r].to].state = "connected"]

PortIsFree(p) ==
    ~foreign /\ \A q \in Procs \ {p} : status[q].state # "connected"

\* apply points something and does not remember it.
Leak == "apply_leaks" \in Faults /\ leftover' = TRUE

\* Controller::connect: idempotent, or start and redirect; an error is a status.  An apply
\* that fails may have pointed something at the proxy, which is stopped.  A process that
\* has made its last disconnect may still be asked to connect.
Connect(p, sel) ==
    /\ UNCHANGED foreign
    /\ IF status[p].state = "connected" THEN UNCHANGED <<status, redirected, leftover>>
       ELSE \/ /\ Forwards(sel, ca[p]) /\ PortIsFree(p)
               /\ status' = [status EXCEPT ![p] = Connected(Label(sel))]
               /\ redirected' = p
               /\ Leak \/ leftover' = (leftover \/ phase[p] = "leaving")
            \/ /\ ~(Forwards(sel, ca[p]) /\ PortIsFree(p))
               /\ status' = [status EXCEPT ![p] = ErrorStatus("proxy")]
               /\ UNCHANGED <<redirected, leftover>>
            \/ /\ Forwards(sel, ca[p]) /\ PortIsFree(p)
               /\ status' = [status EXCEPT ![p] = ErrorStatus("redirect")]
               /\ (Leak /\ redirected' = Orphan) \/ UNCHANGED <<redirected, leftover>>

\* dispatch of the service, which serves its connections until it exits.
Serve(r) ==
    /\ run[r].at = "sent"
    /\ run[r].to # Nobody
    /\ LET p == run[r].to
           cmd == run[r].cmd
       IN \/ /\ cmd.cmd = "connect"
             /\ Connect(p, cmd.upstream)
             /\ Reply(r, status'[p])
          \/ /\ cmd.cmd = "disconnect"
             /\ Disconnect(p)
             /\ Reply(r, status'[p])
          \/ /\ cmd.cmd = "get_status"
             /\ Reply(r, status[p])
             /\ UNCHANGED netVars
          \/ /\ cmd.cmd = "ping"
             /\ Reply(r, Pong)
             /\ UNCHANGED netVars
    /\ alone' = alone \cap {r}
    /\ UNCHANGED procVars

\* Mutant: any reply will do.
FinishHappy(r) ==
    /\ run[r].at = "answered"
    /\ Done(r, "success")
    /\ UNCHANGED <<procVars, netVars, alone>>

\* run of voidns-cli, ctl of voidns-service: the reply becomes an exit code.
Finish(r) ==
    /\ run[r].at = "answered"
    /\ LET state == run[r].reply.state
           bad == state = "error" \/ (run[r].cmd.cmd = "connect" /\ state # "connected")
       IN Done(r, IF bad THEN "failure" ELSE "success")
    /\ UNCHANGED <<procVars, netVars, alone>>

-----------------------------------------------------------------------------
\* Another program takes port 53, or gives it back.
Foreign ==
    /\ \A p \in Procs : status[p].state # "connected"
    /\ foreign' = ~foreign
    /\ Disturb
    /\ UNCHANGED <<procVars, status, redirected, leftover, run>>

RunStep(r) ==
    Reach(r) \/ Unreachable(r) \/ Unanswered(r) \/ Serve(r) \/ Finish(r)

ProcStep(p) == Prepare(p) \/ Listen(p) \/ StopDisconnect(p) \/ Exit(p)

Next ==
    \/ \E p \in Procs : Start(p) \/ ProcStep(p) \/ Shutdown(p) \/ Kill(p)
    \/ \E r \in Runs : RunStep(r) \/ \E words \in Lines : Invoke(r, words)
    \/ Foreign

Spec == Init /\ [][Next]_vars

\* What can run is run; nobody has to type, to start a service or to stop it.
FairSpec ==
    /\ Spec
    /\ \A p \in Procs : WF_vars(ProcStep(p))
    /\ \A r \in Runs : WF_vars(RunStep(r))

-----------------------------------------------------------------------------
(* Properties *)

\* However services are started over each other, stopped and killed, the system is
\* redirected to a live one that serves; to none only if one was killed or has taken a
\* connect after its last disconnect, or if a redirector has failed to undo what it did:
\* no other end of run_daemon, by its listener failing or otherwise, leaves a redirection.
RedirectedServed ==
    /\ redirected \in Procs => Alive(redirected) /\ status[redirected].state = "connected"
    /\ redirected = Orphan => leftover

\* A service that was started alone gets its socket, whatever a killed one has left
\* at the path, and keeps it while it serves; a second one may take it or fail.
HoldsItsSocket == [][\A p \in Procs :
    /\ phase[p] = "prepared" /\ phase'[p] = "failed" => rival
    /\ phase'[p] = "serving" => path' = p \/ rival']_vars

\* What an exit code tells a script that is the only one at work: after a connect with
\* success the system is redirected to a live service with the upstream it has named, or
\* one that was in use already, however the redirector has failed before; after a
\* disconnect with success it is redirected to none, unless a rival or a killed service
\* still has it, or a redirector has left it: its failure shows in no exit code.
ExitTells ==
    \A r \in alone : run[r].exit = "success" =>
        /\ run[r].cmd.cmd = "connect" =>
               /\ redirected = run[r].to
               /\ run[r].was \/ status[run[r].to].upstream = Label(run[r].cmd.upstream)
        /\ run[r].cmd.cmd = "disconnect" =>
               redirected = Nobody \/ rival \/ leftover

\* Every command line ends, also when its service is stopped or killed under it.
RunsEnd == \A r \in Runs : InProgress(r) ~> ~InProgress(r)

=============================================================================
