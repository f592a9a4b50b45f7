---- MODULE DaemonProofs ----
(***************************************************************************)
(* Proofs about Daemon, for every set of connections, requests, surfaces    *)
(* and signals: the disconnect of the shutdown runs alone, a graceful exit  *)
(* leaves nothing pointed unless a connect came after it, and what          *)
(* Controller promises holds through shutdowns, kills and restarts.         *)
(*                                                                          *)
(* The steps of a connection keep ServiceInv(left) by TaskStep, where left  *)
(* are the surfaces that an earlier process has left pointed.               *)
(***************************************************************************)
EXTENDS Daemon, ControllerProofs

\* The steps of one task.
Step(t) == Client(t) \/ Progress(t) \/ Forward(t)

-----------------------------------------------------------------------------
(* Where a step leads *)

\* A task moves by its own steps only.
LEMMA OthersStay ==
    ASSUME TypeOK, NEW t \in Tasks, Step(t)
    PROVE  \A u \in Tasks \ {t} : pc'[u] = pc[u]
<1> USE DEF TypeOK, Goto
<1>1. CASE Client(t)
  BY <1>1 DEF Client, Request, Ping, Close
<1>2. CASE GetStatus(t) \/ Subscribe(t) \/ WriteReply(t) \/ Forward(t)
  BY <1>2 DEF GetStatus, Subscribe, WriteReply, Forward, Return
<1>3. CASE ConnectStep(t)
  BY <1>3 DEF ConnectStep, ConnectAlready, ConnectBegin, StartFails, BindUdp, BindTcpFails,
     BindTcp, ApplyPoint, ConnectFinish, ApplyFails, Unwind, Return
<1>4. CASE DisconnectStep(t)
  BY <1>4 DEF DisconnectStep, DisconnectBegin, RestoreOne, RestoreEnd, DisconnectFinish, Return
<1> QED
  BY <1>1, <1>2, <1>3, <1>4 DEF Step, Progress

\* With nothing remembered and no connect in progress, only a new connect can point.
LEMMA CleanStep ==
    ASSUME TypeOK, NEW t \in Tasks, Step(t),
           remembered = {}, todo = {}, ~InConnect(t), pc'[t] # "start"
    PROVE  remembered' = {} /\ todo' = {} /\ ~InConnect(t)'
<1> USE DEF TypeOK, Goto, redirVars, InConnect
<1>1. CASE Client(t)
  BY <1>1 DEF Client, Request, Ping, Close
<1>2. CASE GetStatus(t) \/ Subscribe(t) \/ WriteReply(t) \/ Forward(t)
  BY <1>2 DEF GetStatus, Subscribe, WriteReply, Forward, Return
<1>3. CASE ConnectStep(t)
  <2>1. ConnectAlready(t) \/ ConnectBegin(t)
    BY <1>3 DEF ConnectStep, StartFails, BindUdp, BindTcpFails, BindTcp, ApplyPoint,
       ConnectFinish, ApplyFails, Unwind
  <2>2. ConnectAlready(t)
    BY <2>1 DEF ConnectBegin
  <2> QED
    BY <2>2 DEF ConnectAlready, Return
<1>4. CASE DisconnectStep(t)
  BY <1>4 DEF DisconnectStep, DisconnectBegin, BeginRestore, RestoreOne, Unpoint, Skip,
     RestoreEnd, EndRestore, DisconnectFinish, Return
<1> QED
  BY <1>1, <1>2, <1>3, <1>4 DEF Step, Progress

\* A task that the dropped runtime lets run to its next await begins no connect.
LEMMA PollingBeginsNothing ==
    ASSUME TypeOK, NEW t \in Tasks, pc[t] \in Polling, Progress(t)
    PROVE  pc'[t] # "start"
BY DEF TypeOK, Polling, Progress, GetStatus, Subscribe, WriteReply, ConnectStep, ConnectAlready,
   ConnectBegin, StartFails, BindUdp, BindTcpFails, BindTcp, ApplyPoint, ConnectFinish,
   ApplyFails, Unwind, DisconnectStep, DisconnectBegin, RestoreOne, RestoreEnd,
   DisconnectFinish, Turn, Return, Goto

-----------------------------------------------------------------------------
(* Steps of a process that runs *)

\* What is left of DaemonInv to show for a step of a running process.
LEMMA RunningStep ==
    ASSUME DaemonInv, phase # "down", DaemonTypeOK', phase' # "down", inherited' = inherited,
           \A left : ServiceInv(left) => ServiceInv(left)', MainInv', CleanInv'
    PROVE  DaemonInv'
<1>1. PICK left : left = inherited
  OBVIOUS
<1>2. ServiceInv(left)
  BY <1>1 DEF DaemonInv
<1>3. ServiceInv(left)'
  BY <1>2
<1>4. inherited' = left
  BY <1>1
<1>5. ServiceInv(inherited)'
  BY <1>3, <1>4 DEF ServiceInv, NoOrphanBut
<1> QED
  BY <1>5 DEF DaemonInv, ExitCleanUnlessLate

\* A step of a connection, in any phase in which it is served.
LEMMA ConnectionStepDaemon ==
    ASSUME DaemonInv, NEW t \in Handlers, phase # "down", Step(t), phase' = phase,
           inherited' = inherited, DaemonTypeOK',
           ~late' => ~late /\ (ShutdownDone \/ phase = "exiting" => pc'[t] # "start")
    PROVE  DaemonInv'
<1>1. t \in Tasks /\ t # Main /\ TypeOK /\ MainInv /\ CleanInv
  BY DEF DaemonInv, ServiceInv, Handlers
<1>2. \A u \in Tasks \ {t} : pc'[u] = pc[u]
  BY <1>1, OthersStay
<1>3. pc'[Main] = pc[Main]
  BY <1>1, <1>2, MainAssumption
<1>4. MainInv'
  BY <1>1, <1>3 DEF MainInv
<1>5. CleanInv'
  <2> SUFFICES ASSUME (ShutdownDone \/ phase = "exiting")', ~late'
               PROVE  remembered' = {} /\ todo' = {} /\ \A u \in Tasks : ~InConnect(u)'
    BY DEF CleanInv
  <2>1. ShutdownDone \/ phase = "exiting"
    BY <1>3 DEF ShutdownDone
  <2>2. remembered = {} /\ todo = {} /\ \A u \in Tasks : ~InConnect(u)
    BY <1>1, <2>1 DEF CleanInv
  <2>3. remembered' = {} /\ todo' = {} /\ ~InConnect(t)'
    BY <1>1, <2>1, <2>2, CleanStep
  <2> QED
    BY <1>2, <2>2, <2>3 DEF InConnect
<1>6. \A left : ServiceInv(left) => ServiceInv(left)'
  BY <1>1, TaskStep DEF Step
<1> QED
  BY <1>4, <1>5, <1>6, RunningStep

LEMMA ServeStep ==
    ASSUME DaemonInv, NEW t \in Handlers, Serve(t)
    PROVE  DaemonInv'
<1>1. Step(t)
  BY DEF Serve, Step, Client
<1>2. DaemonTypeOK'
  BY DEF DaemonInv, DaemonTypeOK, Serve
<1> QED
  BY <1>1, <1>2, ConnectionStepDaemon DEF Serve, ShutdownDone

LEMMA LastPollStep ==
    ASSUME DaemonInv, NEW t \in Handlers, LastPoll(t)
    PROVE  DaemonInv'
<1>1. Step(t) /\ t \in Tasks /\ TypeOK
  BY DEF LastPoll, Step, Handlers, DaemonInv, ServiceInv
<1>2. pc'[t] # "start"
  BY <1>1, PollingBeginsNothing DEF LastPoll
<1>3. DaemonTypeOK'
  BY DEF DaemonInv, DaemonTypeOK, LastPoll
<1> QED
  BY <1>1, <1>2, <1>3, ConnectionStepDaemon DEF LastPoll

\* Accept, RunReturns and a stuttering step leave the controller alone.
LEMMA StillStep ==
    ASSUME DaemonInv, phase # "down",
           (\E t \in Handlers : Accept(t)) \/ RunReturns \/ UNCHANGED daemonVars
    PROVE  DaemonInv'
<1> USE DEF Accept, RunReturns, daemonVars
<1>1. UNCHANGED vars /\ UNCHANGED <<late, inherited>>
  OBVIOUS
<1>2. UNCHANGED <<pc, remembered, todo>>
  BY <1>1 DEF vars, redirVars
<1>3. DaemonTypeOK' /\ phase' # "down"
  BY DEF DaemonInv, DaemonTypeOK, Phases
<1>4. MainInv'
  BY <1>2 DEF DaemonInv, MainInv, ShutdownDone
<1>5. CleanInv'
  BY <1>1, <1>2 DEF DaemonInv, CleanInv, ShutdownDone, InConnect
<1>6. \A left : ServiceInv(left) => ServiceInv(left)'
  BY <1>1, StutterStep
<1> QED
  BY <1>1, <1>3, <1>4, <1>5, <1>6, RunningStep

\* Another program, or the runtime closing a socket.
LEMMA EnvironmentStepDaemon ==
    ASSUME DaemonInv, Environment
    PROVE  DaemonInv'
<1>1. UNCHANGED <<pc, remembered, todo, phase, ending, conns, late, inherited>>
  BY DEF Environment, Released, Rewritten, External, redirVars
<1>2. DaemonTypeOK' /\ MainInv' /\ CleanInv'
  BY <1>1 DEF DaemonInv, DaemonTypeOK, MainInv, CleanInv, ShutdownDone, InConnect, Environment
<1>3. \A left : ServiceInv(left) => ServiceInv(left)'
  BY EnvironmentStep DEF Environment
<1> QED
  BY <1>1, <1>2, <1>3, RunningStep DEF Environment

\* Shutdown queues the disconnect behind the call in progress.
LEMMA ShutdownStep ==
    ASSUME DaemonInv, Shutdown
    PROVE  DaemonInv'
<1> DEFINE c == CommandOf("disconnect", NoUpstream)
<1>1. c \in LockedCommands /\ Request(Main, c)
  BY DEF Shutdown, LockedCommands
<1>2. TypeOK
  BY DEF DaemonInv, ServiceInv, Shutdown
<1>3. pc'[Main] = "lock"
  BY <1>1, <1>2, MainAssumption DEF Request, Goto, TypeOK
<1>4. DaemonTypeOK' /\ MainInv' /\ CleanInv'
  BY <1>3 DEF DaemonInv, DaemonTypeOK, MainInv, CleanInv, ShutdownDone, Phases, Shutdown
<1>5. \A left : ServiceInv(left) => ServiceInv(left)'
  BY <1>1, MainAssumption, RequestStep
<1> QED
  BY <1>4, <1>5, RunningStep DEF Shutdown

\* The disconnect of the shutdown ends alone, with nothing remembered.
LEMMA DisconnectingStep ==
    ASSUME DaemonInv, Disconnecting
    PROVE  DaemonInv'
<1>1. /\ TypeOK /\ MutexInv /\ DisconnectInv(Main) /\ MainInv
      /\ phase = "draining" /\ phase' = phase
  BY MainAssumption DEF DaemonInv, ServiceInv, Disconnecting
<1>2. /\ pc'[Main] \in {"restore", "stop", "reply"}
      /\ pc'[Main] = "reply" => DisconnectFinish(Main)
  BY <1>1, MainAssumption DEF TypeOK, Disconnecting, DisconnectStep, DisconnectBegin, RestoreOne,
     RestoreEnd, DisconnectFinish, Return, Goto
<1>3. MainInv'
  BY <1>1, <1>2 DEF MainInv
<1>4. CleanInv'
  <2> SUFFICES ASSUME pc'[Main] = "reply"
               PROVE  remembered' = {} /\ todo' = {} /\ \A u \in Tasks : ~InConnect(u)'
    BY <1>1 DEF CleanInv, ShutdownDone
  <2>1. DisconnectFinish(Main) /\ pc[Main] = "stop"
    BY <1>2 DEF DisconnectFinish
  <2>2. remembered' = {} /\ todo' = {}
    BY <1>1, <2>1 DEF DisconnectInv, DisconnectFinish, redirVars
  <2>3. \A u \in Tasks \ {Main} : pc[u] \notin Critical
    BY <1>1, <2>1, MainAssumption, Alone DEF MutexInv, Critical
  <2>4. \A u \in Tasks \ {Main} : pc'[u] = pc[u]
    BY <1>1, <2>1, MainAssumption, OthersStay DEF Step, Progress, DisconnectStep
  <2> QED
    BY <2>2, <2>3, <2>4 DEF InConnect, Critical
<1>5. \A left : ServiceInv(left) => ServiceInv(left)'
  BY MainAssumption, TaskStep DEF Disconnecting, Progress
<1>6. DaemonTypeOK'
  BY DEF DaemonInv, DaemonTypeOK, Disconnecting
<1> QED
  BY <1>1, <1>3, <1>4, <1>5, <1>6, RunningStep DEF Disconnecting

-----------------------------------------------------------------------------
(* The end of a process and the start of the next *)

LEMMA VanishStep ==
    ASSUME DaemonInv, phase # "down", Vanish
    PROVE  ServiceInv(pointed)' /\ (\A t \in Tasks : pc'[t] = "idle")
<1>1. TypeOK
  BY DEF DaemonInv, ServiceInv
<1>2. TypeOK'
  BY <1>1, StatusFacts, EmptySeq DEF Vanish, TypeOK, RedirTypeOK
<1>3. \A t \in Tasks : pc'[t] = "idle"
  BY DEF Vanish
<1>4. ~InCall'
  BY <1>3 DEF InCall, Critical
<1>5. MutexInv' /\ \A t \in Tasks : ConnectInv(t)' /\ DisconnectInv(t)'
  BY <1>3 DEF MutexInv, ConnectInv, DisconnectInv, Critical
<1>6. QuietInv' /\ StatusTruthful' /\ NoOrphanBut(pointed)'
  BY <1>4 DEF QuietInv, StatusTruthful, NoOrphanBut, Vanish, Disconnected, StatusOf
<1> QED
  BY <1>2, <1>3, <1>5, <1>6 DEF ServiceInv

LEMMA EndStep ==
    ASSUME DaemonInv, Exit \/ \E signal \in Signals : Die(signal)
    PROVE  DaemonInv'
<1>1. /\ phase # "down" /\ phase' = "down" /\ Vanish /\ UNCHANGED <<late, inherited>>
      /\ pointed' = pointed /\ conns' = {} /\ ending' \in {"graceful"} \cup Signals
      /\ ending' = "graceful" => phase = "exiting"
  BY SignalsAssumption DEF Exit, Die, Vanish
<1>2. DaemonTypeOK'
  BY <1>1 DEF DaemonInv, DaemonTypeOK, Phases
<1>3. ExitCleanUnlessLate'
  <2> SUFFICES ASSUME Faithful, ending' = "graceful", ~late' PROVE pointed' \subseteq inherited'
    BY DEF ExitCleanUnlessLate
  <2>1. remembered = {} /\ todo = {}
    BY <1>1 DEF DaemonInv, CleanInv
  <2> QED
    BY <1>1, <2>1 DEF DaemonInv, ServiceInv, NoOrphanBut
<1> QED
  BY <1>1, <1>2, <1>3, VanishStep DEF DaemonInv

LEMMA RestartStep ==
    ASSUME DaemonInv, Restart
    PROVE  DaemonInv'
<1>1. phase = "down" /\ phase' = "serving" /\ inherited' = pointed /\ UNCHANGED <<vars, conns>>
  BY DEF Restart
<1>2. PICK left : left = pointed
  OBVIOUS
<1>3. ServiceInv(left)'
  BY <1>1, <1>2, StutterStep DEF DaemonInv
<1>4. ServiceInv(inherited)'
  BY <1>1, <1>2, <1>3 DEF ServiceInv, NoOrphanBut
<1>5. pc' = pc /\ pc[Main] = "idle" /\ pointed \subseteq Surfaces
  BY <1>1, MainAssumption DEF DaemonInv, ServiceInv, TypeOK, RedirTypeOK, vars
<1>6. DaemonTypeOK' /\ MainInv' /\ CleanInv'
  BY <1>1, <1>5 DEF DaemonInv, DaemonTypeOK, MainInv, CleanInv, ShutdownDone, Restart, Phases
<1> QED
  BY <1>1, <1>4, <1>6 DEF DaemonInv, ExitCleanUnlessLate

\* A process that is down does not stir.
LEMMA DownStutters ==
    ASSUME DaemonInv, phase = "down", UNCHANGED daemonVars
    PROVE  DaemonInv'
<1>1. PICK left : left = pointed
  OBVIOUS
<1>2. UNCHANGED vars /\ pointed' = pointed /\ pc' = pc
  BY DEF daemonVars, vars, redirVars
<1>3. ServiceInv(left)'
  BY <1>1, <1>2, StutterStep DEF DaemonInv
<1>4. ServiceInv(pointed)'
  BY <1>1, <1>2, <1>3 DEF ServiceInv, NoOrphanBut
<1> QED
  BY <1>2, <1>4 DEF DaemonInv, DaemonTypeOK, ExitCleanUnlessLate, daemonVars

-----------------------------------------------------------------------------
(* What clients see of a process that is started, shut down and killed *)

\* Every step is one of a task, of the environment, of nobody, or the end.
LEMMA DaemonMoves ==
    ASSUME [DaemonNext]_daemonVars
    PROVE  \/ phase # "down" /\ \E t \in Tasks : Step(t)
           \/ phase # "down" /\ (Released \/ Rewritten)
           \/ UNCHANGED vars
           \/ Vanish /\ phase' = "down"
<1>1. ASSUME NEW t \in Handlers, Serve(t) \/ LastPoll(t)
      PROVE  phase # "down" /\ Step(t) /\ t \in Tasks
  BY <1>1 DEF Serve, LastPoll, Step, Client, Handlers
<1>2. Shutdown \/ Disconnecting => phase # "down" /\ Step(Main)
  BY DEF Shutdown, Disconnecting, Step, Client, Progress, LockedCommands
<1>3. (\E t \in Handlers : Accept(t)) \/ RunReturns \/ Restart \/ UNCHANGED daemonVars
        => UNCHANGED vars
  BY DEF Accept, RunReturns, Restart, daemonVars
<1>4. Exit \/ (\E signal \in Signals : Die(signal)) => Vanish /\ phase' = "down"
  BY DEF Exit, Die
<1>5. Environment => phase # "down" /\ (Released \/ Rewritten)
  BY DEF Environment
<1> QED
  BY <1>1, <1>2, <1>3, <1>4, <1>5, MainAssumption DEF DaemonNext

\* What StreamInv says of the connections.
Streams == ReplyIsSettled /\ StreamCurrent /\ StreamOrdered

LEMMA QueueStep ==
    ASSUME DaemonInv, QueueInv, [DaemonNext]_daemonVars
    PROVE  QueueInv'
<1>1. PICK left : left = inherited
  OBVIOUS
<1>2. phase # "down" => ServiceInv(left)
  BY <1>1 DEF DaemonInv
<1>3. ASSUME phase # "down", NEW t \in Tasks, Step(t)
      PROVE  QueueInv'
  BY <1>2, <1>3, TaskQueueStep DEF Step
<1>4. CASE Vanish
  BY <1>4, EmptySeq DEF Vanish, QueueInv, Critical
<1> QED
  BY <1>3, <1>4, DaemonMoves, QuietQueueStep

LEMMA StreamsStep ==
    ASSUME DaemonInv, Streams, [DaemonNext]_daemonVars
    PROVE  Streams'
<1> USE DEF Streams
<1>1. PICK left : left = inherited
  OBVIOUS
<1>2. phase # "down" => StreamInv(left)
  BY <1>1 DEF DaemonInv, StreamInv
<1>3. ASSUME phase # "down", NEW t \in Tasks, Step(t)
      PROVE  Streams'
  BY <1>2, <1>3, TaskStreamStep DEF Step, StreamInv
<1>4. ASSUME phase # "down", Released \/ Rewritten
      PROVE  Streams'
  BY <1>2, <1>4, EnvironmentStreamStep DEF StreamInv
<1>5. CASE UNCHANGED vars
  BY <1>5 DEF vars, ipcVars, ReplyIsSettled, StreamCurrent, StreamOrdered, LastSent
<1>6. CASE Vanish
  BY <1>6 DEF Vanish, ReplyIsSettled, StreamCurrent, StreamOrdered
<1> QED
  BY <1>3, <1>4, <1>5, <1>6, DaemonMoves

-----------------------------------------------------------------------------
(* The theorems *)

LEMMA InitDaemonInv == DaemonInit => DaemonInv
<1> SUFFICES ASSUME DaemonInit PROVE DaemonInv
  OBVIOUS
<1>1. ServiceInv(inherited)
  <2>1. PICK left : left = inherited
    OBVIOUS
  <2>2. ServiceInv(left)
    BY InitServiceInv DEF DaemonInit
  <2> QED
    BY <2>1, <2>2
<1>2. pc[Main] = "idle"
  BY MainAssumption DEF DaemonInit, Init
<1> QED
  BY <1>1, <1>2 DEF DaemonInit, DaemonInv, DaemonTypeOK, Phases, MainInv, CleanInv,
     ShutdownDone, ExitCleanUnlessLate

LEMMA NextDaemonInv == DaemonInv /\ [DaemonNext]_daemonVars => DaemonInv'
<1> SUFFICES ASSUME DaemonInv, [DaemonNext]_daemonVars PROVE DaemonInv'
  OBVIOUS
<1>1. ASSUME NEW t \in Handlers, Accept(t) \/ Serve(t) \/ LastPoll(t)
      PROVE  DaemonInv'
  BY <1>1, StillStep, ServeStep, LastPollStep DEF Accept
<1>2. CASE Shutdown \/ Disconnecting
  BY <1>2, ShutdownStep, DisconnectingStep
<1>3. CASE RunReturns
  BY <1>3, StillStep DEF RunReturns, ShutdownDone
<1>4. CASE Exit \/ (\E signal \in Signals : Die(signal)) \/ Restart
  BY <1>4, EndStep, RestartStep
<1>5. CASE Environment
  BY <1>5, EnvironmentStepDaemon
<1>6. CASE UNCHANGED daemonVars
  BY <1>6, StillStep, DownStutters
<1> QED
  BY <1>1, <1>2, <1>3, <1>4, <1>5, <1>6 DEF DaemonNext

\* DaemonInv is an inductive invariant of the service process.
THEOREM DaemonInvariance == DaemonSpec => []DaemonInv
  BY InitDaemonInv, NextDaemonInv, PTL DEF DaemonSpec

\* Every variable of the process keeps its type.
THEOREM DaemonTypes == DaemonSpec => []DaemonTypeOK
<1>1. DaemonInv => DaemonTypeOK
  BY DEF DaemonInv
<1> QED
  BY <1>1, DaemonInvariance, PTL

\* The disconnect of the shutdown never runs beside a call of a connection, with any
\* number of connections.
THEOREM ShutdownIsAlone == DaemonSpec => []ShutdownAlone
<1>1. DaemonInv => ShutdownAlone
  <2> SUFFICES ASSUME DaemonInv, pc[Main] \in Critical, NEW t \in Handlers
               PROVE  pc[t] \notin Critical
    BY DEF ShutdownAlone
  <2>1. MutexInv
    BY MainAssumption DEF DaemonInv, ServiceInv
  <2> QED
    BY <2>1, MainAssumption, Alone DEF MutexInv, Handlers
<1> QED
  BY <1>1, DaemonInvariance, PTL

\* With a faithful redirector a graceful exit leaves nothing pointed that this process
\* has pointed, unless a connect began after the disconnect of the shutdown.
THEOREM ExitIsClean == DaemonSpec => []ExitCleanUnlessLate
<1>1. DaemonInv => ExitCleanUnlessLate
  BY DEF DaemonInv
<1> QED
  BY <1>1, DaemonInvariance, PTL

\* The connections of a process that is shut down, killed and started again, with
\* whatever they send beside the disconnect of the main task: a subscriber's last
\* status is the present one, its stream has no gap, and no reply is a passing state.
THEOREM DaemonStreams == DaemonSpec => [](ReplyIsSettled /\ StreamCurrent /\ StreamOrdered)
<1>1. DaemonInit => Streams
  BY DEF DaemonInit, Init, Streams, ReplyIsSettled, StreamCurrent, StreamOrdered
<1>2. DaemonInv /\ Streams /\ [DaemonNext]_daemonVars => Streams'
  BY StreamsStep
<1>3. Streams <=> ReplyIsSettled /\ StreamCurrent /\ StreamOrdered
  BY DEF Streams
<1> QED
  BY <1>1, <1>2, <1>3, DaemonInvariance, PTL DEF DaemonSpec

\* The lifecycle holds as long as the process lives: a shutdown does not cut a connect
\* short, only the end of the process does.
THEOREM LifecycleWhileAlive ==
    DaemonSpec => [][phase' # "down" => [Lifecycle!Next]_status]_daemonVars
<1>1. ASSUME DaemonInv, [DaemonNext]_daemonVars
      PROVE  phase' # "down" => [Lifecycle!Next]_status
  <2>1. PICK left : left = inherited
    OBVIOUS
  <2>2. phase # "down" => ServiceInv(left)
    BY <1>1, <2>1 DEF DaemonInv
  <2>3. ASSUME phase # "down", NEW t \in Tasks, Step(t)
        PROVE  [Lifecycle!Next]_status
    BY <2>2, <2>3, TaskLifecycleStep DEF Step
  <2>4. Released \/ Rewritten \/ UNCHANGED vars => status' = status
    BY DEF Released, Rewritten, vars
  <2> QED
    BY <1>1, <2>3, <2>4, DaemonMoves
<1> QED
  BY <1>1, DaemonInvariance, PTL DEF DaemonSpec

\* Truth and service in a process that is not the first: what it has pointed itself is
\* served as long as it lives, through a shutdown too.  What an earlier one has left
\* pointed is not, until a connect points it again.
ServesItsOwn ==
    phase # "down" =>
        /\ StatusTruthful
        /\ ServedWhileKnown
        /\ Faithful /\ ~(pointed \subseteq inherited) => sockets = Protocols

\* After any number of restarts a process says what is, serves what its redirector knows
\* and, with a faithful redirector, whatever it has pointed.
THEOREM ProcessServesItsOwn == DaemonSpec => []ServesItsOwn
<1>1. DaemonInv => ServesItsOwn
  <2> SUFFICES ASSUME DaemonInv, phase # "down"
               PROVE  /\ StatusTruthful /\ ServedWhileKnown
                      /\ Faithful /\ ~(pointed \subseteq inherited) => sockets = Protocols
    BY DEF ServesItsOwn
  <2>1. PICK left : left = inherited
    OBVIOUS
  <2>2. ServiceInv(left)
    BY <2>1 DEF DaemonInv
  <2>3. ServedWhileKnown /\ StatusTruthful
    BY <2>2, KnownIsServed DEF ServiceInv
  <2>4. Faithful /\ ~(pointed \subseteq inherited) => remembered \cup todo # {}
    BY <2>1, <2>2 DEF ServiceInv, NoOrphanBut
  <2> QED
    BY <2>3, <2>4 DEF ServedWhileKnown
<1> QED
  BY <1>1, DaemonInvariance, PTL

\* What is safety in ShutdownEnds: in every phase of the process nobody who waits for the
\* controller is lost, the main task included, and the head of the queue can go on.
THEOREM NobodyIsStuckInDaemon == DaemonSpec => [](QueueInv /\ (phase # "down" => HeadCanMove))
<1>1. DaemonInit => QueueInv
  BY InitIInv DEF DaemonInit, IInv
<1>2. DaemonInv /\ QueueInv /\ [DaemonNext]_daemonVars => QueueInv'
  BY QueueStep
<1>3. DaemonInv /\ QueueInv => (phase # "down" => HeadCanMove)
  <2> SUFFICES ASSUME DaemonInv, QueueInv, phase # "down" PROVE HeadCanMove
    OBVIOUS
  <2>1. PICK left : left = inherited
    OBVIOUS
  <2>2. ServiceInv(left)
    BY <2>1 DEF DaemonInv
  <2> QED
    BY <2>2, HeadIsReady
<1> QED
  BY <1>1, <1>2, <1>3, DaemonInvariance, PTL DEF DaemonSpec

=============================================================================
