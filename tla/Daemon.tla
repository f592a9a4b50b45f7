---- MODULE Daemon ----
(***************************************************************************)
(* The service process around the controller (voidns-service/src/main.rs,   *)
(* ipc::serve): connections are accepted until shutdown, the main task then *)
(* disconnects, and the runtime is dropped with whatever still runs on it.  *)
(*                                                                          *)
(* The main task is one more task of Controller: it queues for the mutex    *)
(* like a connection handler, and issues a single disconnect.               *)
(***************************************************************************)
EXTENDS Controller

CONSTANTS
    Main,       \* the task that runs run_daemon
    Requests,   \* the commands that connections send
    Signals     \* unhandled ends of the process: "sigterm", "kill"

ASSUME MainAssumption == Main \in Tasks
ASSUME RequestsAssumption == Requests \subseteq {c.cmd : c \in LockedCommands}
ASSUME SignalsAssumption == Signals \subseteq {"sigterm", "kill"}

VARIABLES
    phase,   \* life of the process
    ending,  \* how the process ended last
    conns,   \* tasks that serve an open connection
    late,      \* history: a connect has begun after the disconnect of shutdown
    inherited  \* history: the surfaces that were pointed when the process started

daemonVars == <<vars, phase, ending, conns, late, inherited>>

Handlers == Tasks \ {Main}

Phases == {"serving", "draining", "exiting", "down"}

DaemonTypeOK ==
    /\ phase \in Phases
    /\ ending \in {"none", "graceful"} \cup Signals
    /\ conns \subseteq Handlers
    /\ late \in BOOLEAN
    /\ inherited \subseteq Surfaces

DaemonInit ==
    /\ Init
    /\ phase = "serving"
    /\ ending = "none"
    /\ conns = {}
    /\ late = FALSE
    /\ inherited = {}

\* Steps of Controller::connect and disconnect that never suspend: a task that is
\* in the middle of them when the runtime is dropped goes on to its next await.
Polling == {"start", "bind_tcp", "apply", "restore"}

ShutdownDone == phase = "draining" /\ pc[Main] = "reply"

-----------------------------------------------------------------------------
(* Connections *)

Accept(t) ==
    /\ phase = "serving"
    /\ t \in Handlers \ conns
    /\ conns' = conns \cup {t}
    /\ UNCHANGED <<vars, phase, ending, late, inherited>>

\* An open connection is served until the runtime is dropped: also after serve,
\* which accepts new ones, has been cancelled by the shutdown.
Serve(t) ==
    /\ phase \in {"serving", "draining"}
    /\ t \in conns
    /\ \/ Close(t) /\ conns' = conns \ {t}
       \/ Ping(t) /\ UNCHANGED conns
       \/ (\E c \in LockedCommands : c.cmd \in Requests /\ Request(t, c)) /\ UNCHANGED conns
       \/ Progress(t) /\ UNCHANGED conns
       \/ Forward(t) /\ UNCHANGED conns
    /\ late' = (late \/ (ShutdownDone /\ pc'[t] = "start"))
    /\ UNCHANGED <<phase, ending, inherited>>

-----------------------------------------------------------------------------
(* Shutdown *)

\* Ctrl-C in the foreground, or Stop from the service control manager.
Shutdown ==
    /\ phase = "serving"
    /\ phase' = "draining"
    /\ Request(Main, CommandOf("disconnect", NoUpstream))
    /\ UNCHANGED <<ending, conns, late, inherited>>

Disconnecting ==
    /\ phase = "draining"
    /\ DisconnectStep(Main)
    /\ UNCHANGED <<phase, ending, conns, late, inherited>>

\* Mutant: main returns without waiting for the mutex.
RunReturnsAtOnce ==
    /\ phase = "draining"
    /\ pc[Main] \in {"lock", "reply"}
    /\ phase' = "exiting"
    /\ UNCHANGED <<vars, ending, conns, late, inherited>>

\* run_daemon returns, block_on returns, and the runtime starts to shut down: no
\* task is polled again.
RunReturns ==
    /\ ShutdownDone
    /\ phase' = "exiting"
    /\ UNCHANGED <<vars, ending, conns, late, inherited>>

LastPoll(t) ==
    /\ phase = "exiting"
    /\ t \in conns
    /\ pc[t] \in Polling
    /\ Progress(t)
    /\ UNCHANGED <<phase, ending, conns, late, inherited>>

\* All that the process holds is gone; what it has pointed stays pointed.
Vanish ==
    /\ status' = Disconnected
    /\ proxy' = NoUpstream
    /\ sockets' = {} /\ lingering' = {}
    /\ remembered' = {} /\ call' = "none" /\ todo' = {}
    /\ lockq' = <<>>
    /\ pc' = [t \in Tasks |-> "idle"]
    /\ req' = [t \in Tasks |-> NoCommand]
    /\ subs' = {}
    /\ rx' = [t \in Tasks |-> <<>>]
    /\ out' = [t \in Tasks |-> NoEvent]
    /\ seen' = [t \in Tasks |-> NoEvent]
    /\ conns' = {}
    /\ UNCHANGED pointed

\* Mutant: the process waits for its clients to close their connections.
ExitWhenClosed ==
    /\ phase = "exiting"
    /\ conns = {}
    /\ phase' = "down"
    /\ ending' = "graceful"
    /\ Vanish
    /\ UNCHANGED <<late, inherited>>

\* Every task has come to an await, and is dropped there.
Exit ==
    /\ phase = "exiting"
    /\ \A t \in conns : pc[t] \notin Polling
    /\ phase' = "down"
    /\ ending' = "graceful"
    /\ Vanish
    /\ UNCHANGED <<late, inherited>>

\* main.rs waits for ctrl_c only: SIGTERM ends the process as SIGKILL does.
Die(signal) ==
    /\ phase # "down"
    /\ phase' = "down"
    /\ ending' = signal
    /\ Vanish
    /\ UNCHANGED <<late, inherited>>

Restart ==
    /\ phase = "down"
    /\ phase' = "serving"
    /\ ending' = "none"
    /\ late' = FALSE
    /\ inherited' = pointed
    /\ UNCHANGED <<vars, conns>>

-----------------------------------------------------------------------------
Environment ==
    /\ phase # "down"
    /\ Released \/ Rewritten
    /\ UNCHANGED <<phase, ending, conns, late, inherited>>

DaemonNext ==
    \/ \E t \in Handlers : Accept(t) \/ Serve(t) \/ LastPoll(t)
    \/ Shutdown \/ Disconnecting \/ RunReturns \/ Exit \/ Restart
    \/ \E signal \in Signals : Die(signal)
    \/ Environment

DaemonSpec == DaemonInit /\ [][DaemonNext]_daemonVars

\* The runtime polls what can run; main goes on when it can.
DaemonFairSpec ==
    /\ DaemonSpec
    /\ WF_daemonVars(Disconnecting)
    /\ WF_daemonVars(RunReturns)
    /\ WF_daemonVars(Exit)
    /\ \A t \in Handlers :
           /\ WF_daemonVars(Serve(t) /\ Progress(t))
           /\ WF_daemonVars(LastPoll(t))

-----------------------------------------------------------------------------
(* Properties *)

\* A graceful exit leaves nothing redirected that this process has redirected,
\* whatever was in progress or queued when shutdown came, unless an open connection
\* starts a connect between the disconnect of the shutdown and the drop of the
\* runtime.
ExitCleanUnlessLate ==
    Faithful /\ phase = "down" /\ ending = "graceful" /\ ~late => pointed \subseteq inherited

\* While the main task runs its disconnect no handler is inside a call, so the
\* disconnect finds a truthful status and not half of a connect.
ShutdownAlone ==
    pc[Main] \in Critical => \A t \in Handlers : pc[t] \notin Critical

\* Shutdown ends, even with connections that keep sending commands.
ShutdownEnds == phase = "draining" ~> phase = "down"

\* main.rs, run_daemon: "serve until `shutdown` resolves ..., then restore DNS".
GracefulExitRestores ==
    phase = "down" /\ ending = "graceful" => pointed = {}

-----------------------------------------------------------------------------
(* The inductive invariant *)

\* Where the main task is in each phase.
MainInv ==
    /\ phase = "serving" => pc[Main] = "idle"
    /\ phase = "draining" => pc[Main] \in {"lock", "restore", "stop", "reply"}
    /\ phase = "exiting" => pc[Main] = "reply"

InConnect(t) == pc[t] \in {"start", "bind_tcp", "apply", "unwind"}

\* What the disconnect of the shutdown has cleaned up stays so until a connect begins.
CleanInv ==
    (ShutdownDone \/ phase = "exiting") /\ ~late =>
        /\ remembered = {} /\ todo = {}
        /\ \A t \in Tasks : ~InConnect(t)

\* A process that has ended has left surfaces pointed and nothing else.
DaemonInv ==
    /\ DaemonTypeOK
    /\ phase # "down" => ServiceInv(inherited) /\ MainInv /\ CleanInv
    /\ phase = "down" => ServiceInv(pointed) /\ (\A t \in Tasks : pc[t] = "idle")
    /\ ExitCleanUnlessLate

=============================================================================
