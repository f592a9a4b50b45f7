---- MODULE Controller ----
(***************************************************************************)
(* The service's Controller (controller.rs) with the tasks that drive it:   *)
(* one task per IPC connection (handle_conn and dispatch in ipc.rs), the    *)
(* tokio Mutex around the controller, the DoH proxy's sockets (proxy.rs)    *)
(* and the status broadcast.                                                *)
(*                                                                          *)
(* A task takes one step between two points where another task, the         *)
(* operating system or a client can see or change something: a socket, a    *)
(* surface of the DnsRedirector, the status, a connection.                  *)
(***************************************************************************)
EXTENDS DnsRedirector, VoidnsProto, Sequences, Naturals, FiniteSets

CONSTANTS
    Tasks,      \* connection handlers
    Capacity    \* length of the broadcast channel (16 in the code)

ASSUME CapacityAssumption == Capacity \in Nat \ {0}

\* A machine has finitely many interfaces and files.
ASSUME SurfacesAssumption == IsFiniteSet(Surfaces)

VARIABLES
    status,     \* Controller.status
    proxy,      \* Controller.proxy: the upstream it forwards to, or NoUpstream
    sockets,    \* sockets bound by a proxy that is starting, running or stopping
    lingering,  \* sockets of a failed start that the runtime has not closed yet
    lockq,      \* the mutex: its holder, then the waiters in order of arrival
    pc,         \* what each task is doing
    req,        \* the command each task is working on
    subs,       \* the tasks with a subscription
    rx,         \* the broadcast receiver of each task
    out,        \* the reply each task has computed and not yet written
    seen        \* the last status written to each subscriber

hostVars == <<proxy, sockets, lingering>>
ipcVars  == <<subs, rx, out, seen>>
vars == <<redirVars, status, hostVars, lockq, pc, req, ipcVars>>

Protocols == {"udp", "tcp"}

\* The pc values at which a task is inside Controller::connect or disconnect.
Critical == {"start", "bind_tcp", "apply", "unwind", "restore", "stop"}

NoCommand == CommandOf("none", NoUpstream)

TypeOK ==
    /\ RedirTypeOK
    /\ status \in Statuses
    /\ proxy \in Upstreams \cup {NoUpstream}
    /\ sockets \subseteq Protocols
    /\ lingering \subseteq {"udp"}
    /\ lockq \in Seq(Tasks)
    /\ pc \in [Tasks -> Critical \cup {"idle", "lock", "reply"}]
    /\ req \in [Tasks -> LockedCommands \cup {NoCommand}]
    /\ subs \subseteq Tasks
    /\ rx \in [Tasks -> Seq(Statuses)]
    /\ out \in [Tasks -> Events]
    /\ seen \in [Tasks -> Events]

Init ==
    /\ RedirInit
    /\ status = Disconnected
    /\ proxy = NoUpstream
    /\ sockets = {}
    /\ lingering = {}
    /\ lockq = <<>>
    /\ pc = [t \in Tasks |-> "idle"]
    /\ req = [t \in Tasks |-> NoCommand]
    /\ subs = {}
    /\ rx = [t \in Tasks |-> <<>>]
    /\ out = [t \in Tasks |-> NoEvent]
    /\ seen = [t \in Tasks |-> NoEvent]

-----------------------------------------------------------------------------
(* The mutex, the broadcast and the reply *)

Holds(t) == lockq # <<>> /\ Head(lockq) = t

\* Mutant: a full receiver drops the new status instead of its oldest.
DeliverDropsNewest(q, s) == IF Len(q) < Capacity THEN Append(q, s) ELSE q

\* A full receiver loses its oldest status (RecvError::Lagged, ignored by recv_opt).
Deliver(q, s) == Append(IF Len(q) < Capacity THEN q ELSE Tail(q), s)

\* Controller::set: store the status and send it to every receiver.
Set(s) ==
    /\ status' = s
    /\ rx' = [t \in Tasks |-> IF t \in subs THEN Deliver(rx[t], s) ELSE rx[t]]

Goto(t, label) == pc' = [pc EXCEPT ![t] = label]

\* The call on the controller returns: the guard is dropped, the reply is ready.
Return(t, event) ==
    /\ lockq' = Tail(lockq)
    /\ out' = [out EXCEPT ![t] = event]
    /\ req' = [req EXCEPT ![t] = NoCommand]
    /\ Goto(t, "reply")

-----------------------------------------------------------------------------
(* What clients do *)

\* Mutant: a mutex that lets a new task overtake one that has not yet run.
RequestBarging(t, c) ==
    /\ pc[t] = "idle"
    /\ req' = [req EXCEPT ![t] = c]
    /\ lockq' = IF lockq # <<>> /\ pc[Head(lockq)] = "lock"
                THEN <<t>> \o lockq ELSE Append(lockq, t)
    /\ Goto(t, "lock")
    /\ UNCHANGED <<redirVars, status, hostVars, ipcVars>>

Request(t, c) ==
    /\ pc[t] = "idle"
    /\ req' = [req EXCEPT ![t] = c]
    /\ lockq' = Append(lockq, t)
    /\ Goto(t, "lock")
    /\ UNCHANGED <<redirVars, status, hostVars, ipcVars>>

Ping(t) ==
    /\ pc[t] = "idle"
    /\ out' = [out EXCEPT ![t] = Pong]
    /\ Goto(t, "reply")
    /\ UNCHANGED <<redirVars, status, hostVars, lockq, req, subs, rx, seen>>

\* The peer has gone; the handler notices when it next reads or writes.
Close(t) ==
    /\ pc[t] \in {"idle", "reply"}
    /\ Goto(t, "idle")
    /\ subs' = subs \ {t}
    /\ rx' = [rx EXCEPT ![t] = <<>>]
    /\ out' = [out EXCEPT ![t] = NoEvent]
    /\ seen' = [seen EXCEPT ![t] = NoEvent]
    /\ UNCHANGED <<redirVars, status, hostVars, lockq, req>>

-----------------------------------------------------------------------------
(* dispatch, once the mutex is held *)

\* Mutant: the controller is shared without the mutex.
TurnUnlocked(t, cmd) == pc[t] = "lock" /\ req[t].cmd = cmd

Turn(t, cmd) ==
    /\ pc[t] = "lock"
    /\ Holds(t)
    /\ req[t].cmd = cmd

\* Mutant: the status is read without waiting for the call in progress.
GetStatusUnlocked(t) ==
    /\ pc[t] = "lock"
    /\ req[t].cmd = "get_status"
    /\ lockq' = SelectSeq(lockq, LAMBDA u : u # t)
    /\ out' = [out EXCEPT ![t] = status]
    /\ req' = [req EXCEPT ![t] = NoCommand]
    /\ Goto(t, "reply")
    /\ UNCHANGED <<redirVars, status, hostVars, subs, rx, seen>>

GetStatus(t) ==
    /\ Turn(t, "get_status")
    /\ Return(t, status)
    /\ UNCHANGED <<redirVars, status, hostVars, subs, rx, seen>>

Subscribe(t) ==
    /\ Turn(t, "subscribe")
    /\ subs' = subs \cup {t}
    /\ rx' = [rx EXCEPT ![t] = <<>>]
    /\ Return(t, status)
    /\ UNCHANGED <<redirVars, status, hostVars, seen>>

(* Controller::connect *)

ConnectAlready(t) ==
    /\ Turn(t, "connect")
    /\ status.state \in {"connected", "connecting"}
    /\ Return(t, status)
    /\ UNCHANGED <<redirVars, status, hostVars, subs, rx, seen>>

\* Mutant: a second connect is let through while connected.
ConnectBeginTwice(t) ==
    /\ Turn(t, "connect")
    /\ status.state # "connecting"
    /\ Set(Connecting(req[t].upstream))
    /\ Goto(t, "start")
    /\ UNCHANGED <<redirVars, hostVars, lockq, req, subs, out, seen>>

\* Mutant: Connecting is stored and not broadcast.
ConnectBeginSilent(t) ==
    /\ Turn(t, "connect")
    /\ status.state \notin {"connected", "connecting"}
    /\ status' = Connecting(req[t].upstream)
    /\ Goto(t, "start")
    /\ UNCHANGED <<redirVars, hostVars, lockq, req, ipcVars>>

ConnectBegin(t) ==
    /\ Turn(t, "connect")
    /\ status.state \notin {"connected", "connecting"}
    /\ Set(Connecting(req[t].upstream))
    /\ Goto(t, "start")
    /\ UNCHANGED <<redirVars, hostVars, lockq, req, subs, out, seen>>

\* DohProxy::start fails before a socket is bound: an invalid custom upstream,
\* a TLS configuration that cannot be built, or UDP :53 taken by someone else.
StartFails(t) ==
    /\ pc[t] = "start"
    /\ Set(ErrorStatus("proxy"))
    /\ Return(t, status')
    /\ UNCHANGED <<redirVars, hostVars, subs, seen>>

BindUdp(t) ==
    /\ pc[t] = "start"
    /\ "udp" \notin lingering
    /\ sockets' = sockets \cup {"udp"}
    /\ Goto(t, "bind_tcp")
    /\ UNCHANGED <<redirVars, status, proxy, lingering, lockq, req, ipcVars>>

\* The server is dropped with its UDP socket registered: the task that owns the
\* socket is aborted, and closes it later.
BindTcpFails(t) ==
    /\ pc[t] = "bind_tcp"
    /\ lingering' = lingering \cup sockets
    /\ sockets' = {}
    /\ Set(ErrorStatus("proxy"))
    /\ Return(t, status')
    /\ UNCHANGED <<redirVars, proxy, subs, seen>>

\* Mutant: connect goes on with a server that has no TCP listener.
BindTcpSkipped(t) ==
    /\ pc[t] = "bind_tcp"
    /\ BeginApply
    /\ Goto(t, "apply")
    /\ UNCHANGED <<status, hostVars, lockq, req, ipcVars>>

\* The proxy is up; connect calls redirector.apply.
BindTcp(t) ==
    /\ pc[t] = "bind_tcp"
    /\ sockets' = sockets \cup {"tcp"}
    /\ BeginApply
    /\ Goto(t, "apply")
    /\ UNCHANGED <<status, proxy, lingering, lockq, req, ipcVars>>

ApplyPoint(t) ==
    /\ pc[t] = "apply"
    /\ \E s \in Surfaces : Point(s)
    /\ UNCHANGED <<status, hostVars, lockq, pc, req, ipcVars>>

\* apply returned Ok: flush, store the proxy, announce Connected, return.
ConnectFinish(t) ==
    /\ pc[t] = "apply"
    /\ \E R \in SUBSET todo : ApplyOk(R)
    /\ proxy' = req[t].upstream
    /\ Set(Connected(req[t].upstream))
    /\ Return(t, status')
    /\ UNCHANGED <<sockets, lingering, subs, seen>>

ApplyFails(t) ==
    /\ pc[t] = "apply"
    /\ ApplyErr
    /\ Goto(t, "unwind")
    /\ UNCHANGED <<status, hostVars, lockq, req, ipcVars>>

\* Mutant: the error of a failed apply is returned and never becomes the status.
UnwindSilent(t) ==
    /\ pc[t] = "unwind"
    /\ sockets' = {}
    /\ Return(t, ErrorStatus("redirect"))
    /\ UNCHANGED <<redirVars, status, proxy, lingering, subs, rx, seen>>

\* proxy.stop().await has finished after a failed apply.
Unwind(t) ==
    /\ pc[t] = "unwind"
    /\ sockets' = {}
    /\ Set(ErrorStatus("redirect"))
    /\ Return(t, status')
    /\ UNCHANGED <<redirVars, proxy, lingering, subs, seen>>

(* Controller::disconnect *)

\* Mutant: the proxy is stopped before DNS is restored.
DisconnectBeginStops(t) ==
    /\ Turn(t, "disconnect")
    /\ sockets' = {}
    /\ BeginRestore
    /\ Goto(t, "restore")
    /\ UNCHANGED <<status, proxy, lingering, lockq, req, ipcVars>>

DisconnectBegin(t) ==
    /\ Turn(t, "disconnect")
    /\ BeginRestore
    /\ Goto(t, "restore")
    /\ UNCHANGED <<status, hostVars, lockq, req, ipcVars>>

RestoreOne(t) ==
    /\ pc[t] = "restore"
    /\ \E s \in todo : Unpoint(s) \/ Skip(s)
    /\ UNCHANGED <<status, hostVars, lockq, pc, req, ipcVars>>

\* restore has returned; its error, if any, is dropped.
RestoreEnd(t) ==
    /\ pc[t] = "restore"
    /\ EndRestore
    /\ Goto(t, "stop")
    /\ UNCHANGED <<status, hostVars, lockq, req, ipcVars>>

\* Mutant: the proxy is stopped and not taken.
DisconnectFinishKeeps(t) ==
    /\ pc[t] = "stop"
    /\ sockets' = IF proxy = NoUpstream THEN sockets ELSE {}
    /\ Set(Disconnected)
    /\ Return(t, status')
    /\ UNCHANGED <<redirVars, proxy, lingering, subs, seen>>

\* proxy.take() and, if there was one, stop().await; then flush and announce.
DisconnectFinish(t) ==
    /\ pc[t] = "stop"
    /\ proxy' = NoUpstream
    /\ sockets' = IF proxy = NoUpstream THEN sockets ELSE {}
    /\ Set(Disconnected)
    /\ Return(t, status')
    /\ UNCHANGED <<redirVars, lingering, subs, seen>>

-----------------------------------------------------------------------------
(* The rest of handle_conn *)

WriteReply(t) ==
    /\ pc[t] = "reply"
    /\ seen' = IF t \in subs /\ out[t] # Pong THEN [seen EXCEPT ![t] = out[t]] ELSE seen
    /\ out' = [out EXCEPT ![t] = NoEvent]
    /\ Goto(t, "idle")
    /\ UNCHANGED <<redirVars, status, hostVars, lockq, req, subs, rx>>

\* Mutant: what arrived while a command was dispatched is dropped after one update.
ForwardDrops(t) ==
    /\ pc[t] = "idle"
    /\ t \in subs
    /\ rx[t] # <<>>
    /\ seen' = [seen EXCEPT ![t] = Head(rx[t])]
    /\ rx' = [rx EXCEPT ![t] = <<>>]
    /\ UNCHANGED <<redirVars, status, hostVars, lockq, pc, req, subs, out>>

\* The update branch of the select!: only while no command is dispatched.
Forward(t) ==
    /\ pc[t] = "idle"
    /\ t \in subs
    /\ rx[t] # <<>>
    /\ seen' = [seen EXCEPT ![t] = Head(rx[t])]
    /\ rx' = [rx EXCEPT ![t] = Tail(rx[t])]
    /\ UNCHANGED <<redirVars, status, hostVars, lockq, pc, req, subs, out>>

\* The runtime drops the aborted server task.
Released ==
    /\ lingering # {}
    /\ lingering' = {}
    /\ UNCHANGED <<redirVars, status, proxy, sockets, lockq, pc, req, ipcVars>>

Rewritten ==
    /\ \E s \in Surfaces : External(s)
    /\ UNCHANGED <<status, hostVars, lockq, pc, req, ipcVars>>

-----------------------------------------------------------------------------
Client(t) == Ping(t) \/ Close(t) \/ \E c \in LockedCommands : Request(t, c)

ConnectStep(t) ==
    \/ ConnectAlready(t) \/ ConnectBegin(t)
    \/ StartFails(t) \/ BindUdp(t) \/ BindTcpFails(t) \/ BindTcp(t)
    \/ ApplyPoint(t) \/ ConnectFinish(t) \/ ApplyFails(t) \/ Unwind(t)

DisconnectStep(t) ==
    DisconnectBegin(t) \/ RestoreOne(t) \/ RestoreEnd(t) \/ DisconnectFinish(t)

\* The steps a handler takes without waiting for its client.
Progress(t) ==
    \/ GetStatus(t) \/ Subscribe(t) \/ WriteReply(t)
    \/ ConnectStep(t)
    \/ DisconnectStep(t)

Next ==
    \/ \E t \in Tasks : Client(t) \/ Progress(t) \/ Forward(t)
    \/ Released
    \/ Rewritten

Spec == Init /\ [][Next]_vars

\* tokio polls every task that can run, and a client reads what it is sent; nothing
\* obliges a client to send another command.  select! polls its branches in random
\* order, so a client that never stops sending pings cannot keep a ready receiver
\* from being forwarded: strong fairness.
FairSpec ==
    /\ Spec
    /\ WF_vars(Released)
    /\ \A t \in Tasks : WF_vars(Progress(t)) /\ SF_vars(Forward(t))

-----------------------------------------------------------------------------
(* Properties *)

Lifecycle == INSTANCE ConnLifecycle

\* What the status of the service does is what ConnLifecycle allows: a connect
\* starts from rest, ends in Connected with the upstream it was started with or
\* in an error, and is not cut short by a disconnect of another connection.
LifecycleSpec == Lifecycle!Spec

\* The same with the promise that a connect ends.
LifecycleFairSpec == Lifecycle!FairSpec

InCall == \E t \in Tasks : pc[t] \in Critical

\* Between calls on the controller the status tells the truth: it is never
\* Connecting; it is Connected exactly when a proxy to that upstream is stored
\* and a redirect is remembered, and then both sockets are bound; otherwise
\* none is.
StatusTruthful ==
    ~InCall =>
        /\ status.state # "connecting"
        /\ proxy = status.upstream
        /\ (status.state = "connected") <=> (remembered # {})
        /\ sockets = IF status.state = "connected" THEN Protocols ELSE {}

\* Whatever the redirector does: the proxy answers on both sockets as long as
\* the redirector knows of a surface it has pointed and not yet restored.
ServedWhileKnown == remembered \cup todo # {} => sockets = Protocols

\* The redirector keeps the promise of its trait.
Faithful == Faults \cap {"apply_leaks", "restore_fails", "crash"} = {}

\* With a faithful redirector the system is never pointed at a dead :53: not
\* while a connect or a disconnect is half done, not after either has failed
\* (the comment in Controller::disconnect gives this as the reason for its order).
NoDeadPort == Faithful => (pointed # {} => sockets = Protocols)

\* With a faithful redirector nothing is left behind: every pointed surface is
\* one that the redirector remembers or that the call in progress works on.
NoOrphan == Faithful => pointed \subseteq remembered \cup todo

\* A reply is never a passing state: GetStatus and Subscribe wait for a connect
\* in progress, so a client that asks is told its outcome.
ReplyIsSettled ==
    \A t \in Tasks : pc[t] = "reply" => out[t].state # "connecting"

LastSent(t) ==
    IF rx[t] # <<>> THEN rx[t][Len(rx[t])]
    ELSE IF pc[t] = "reply" /\ out[t] # Pong THEN out[t]
    ELSE seen[t]

\* The last status a subscriber has been sent or is going to be sent is the
\* current one: nothing is lost between the snapshot Subscribe returns and the
\* stream, nor by a receiver that overflows while its handler is busy.
StreamCurrent == \A t \in subs : LastSent(t) = status

Follows(a, b) ==
    \/ b.state = "connecting" /\ a.state \in {"disconnected", "error"}
    \/ b.state = "connected" /\ a = Connecting(b.upstream)
    \/ b.state = "error" /\ a.state = "connecting"
    \/ b.state = "disconnected" /\ a.state # "connecting"

Unbroken(q) == \A i \in 1 .. Len(q) - 1 : Follows(q[i], q[i + 1])

\* What waits in a receiver is an unbroken stretch of the status history: an
\* overflow drops statuses from its old end only.
StreamOrdered == \A t \in subs : Unbroken(rx[t])

\* Every command is answered: the mutex is fair, and no call waits for another.
Answered == \A t \in Tasks : pc[t] = "lock" ~> pc[t] = "reply"

\* When commands stop, every subscriber comes to know the status.
StreamConverges ==
    \A t \in Tasks : <>[](lockq = <<>> /\ t \in subs) => <>[](seen[t] = status)

-----------------------------------------------------------------------------
(* The inductive invariant: what each point of a call relies on *)

MutexInv == \A t \in Tasks : pc[t] \in Critical => Holds(t)

ConnectInv(t) ==
    pc[t] \in {"start", "bind_tcp", "apply", "unwind"} =>
        /\ req[t].cmd = "connect"
        /\ status = Connecting(req[t].upstream)
        /\ proxy = NoUpstream
        /\ remembered = {}
        /\ pc[t] = "start" => sockets = {}
        /\ pc[t] = "bind_tcp" => sockets = {"udp"}
        /\ pc[t] \in {"apply", "unwind"} => sockets = Protocols
        /\ IF pc[t] = "apply" THEN call = "apply" ELSE call = "none" /\ todo = {}

DisconnectInv(t) ==
    pc[t] \in {"restore", "stop"} =>
        /\ status.state # "connecting"
        /\ remembered = {}
        /\ IF proxy = NoUpstream THEN sockets = {} /\ todo = {} ELSE sockets = Protocols
        /\ IF pc[t] = "restore" THEN call = "restore" ELSE call = "none" /\ todo = {}

QuietInv == ~InCall => call = "none" /\ todo = {}

\* NoOrphan of a process that found the surfaces "left" pointed when it started.
NoOrphanBut(left) == Faithful => pointed \subseteq remembered \cup todo \cup left

ServiceInv(left) ==
    /\ TypeOK
    /\ MutexInv
    /\ \A t \in Tasks : ConnectInv(t) /\ DisconnectInv(t)
    /\ QuietInv
    /\ StatusTruthful
    /\ NoOrphanBut(left)

\* The queue of the mutex holds each task that waits or is inside a call, once, and
\* nobody else: no waiter is lost, and no answered task is left at the head.
QueueInv ==
    /\ \A i, j \in 1 .. Len(lockq) : lockq[i] = lockq[j] => i = j
    /\ \A t \in Tasks :
           pc[t] \in Critical \cup {"lock"} <=> \E i \in 1 .. Len(lockq) : lockq[i] = t
    /\ \A t \in Tasks : pc[t] = "lock" => req[t] \in LockedCommands

IInv == ServiceInv({}) /\ QueueInv

=============================================================================
