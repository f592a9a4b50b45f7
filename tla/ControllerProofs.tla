---- MODULE ControllerProofs ----
(***************************************************************************)
(* Proofs about Controller, for every set of tasks, upstreams and surfaces, *)
(* every capacity of the broadcast and every set of faults: first what a    *)
(* call leaves behind, then that calls end in the order in which they came, *)
(* then what clients see: replies, the order and the completeness of the    *)
(* status stream, and the abstract ConnLifecycle.                           *)
(***************************************************************************)
EXTENDS Controller, SequenceTheorems, FiniteSetTheorems, TLAPS

-----------------------------------------------------------------------------
(* The operators the steps are made of *)

\* The statuses a call announces are statuses, and name their state.
LEMMA StatusFacts ==
    /\ Disconnected \in Statuses
    /\ \A u \in Upstreams : Connecting(u) \in Statuses /\ Connected(u) \in Statuses
    /\ \A e \in ErrorCauses : ErrorStatus(e) \in Statuses
    /\ \A s \in Statuses :
           /\ s.state = "connected" <=> s.upstream # NoUpstream /\ s.state # "connecting"
           /\ s.state \in {"connecting", "connected"} => s.upstream \in Upstreams
           /\ s.state \in {"disconnected", "error"} => s.upstream = NoUpstream
           /\ s.state \in {"disconnected", "connecting", "connected", "error"}
           /\ s \in Events
           /\ s # Pong
    /\ NoEvent \in Events
    /\ Pong \in Events
<1> USE DEF Disconnected, Connecting, Connected, ErrorStatus, StatusOf
<1>1. Disconnected \in Statuses
  BY DEF Statuses
<1>2. \A u \in Upstreams : Connecting(u) \in Statuses /\ Connected(u) \in Statuses
  BY DEF Statuses
<1>3. \A e \in ErrorCauses : ErrorStatus(e) \in Statuses
  BY DEF Statuses
<1>4. ASSUME NEW s \in Statuses
      PROVE  /\ s.state = "connected" <=> s.upstream # NoUpstream /\ s.state # "connecting"
             /\ s.state \in {"connecting", "connected"} => s.upstream \in Upstreams
             /\ s.state \in {"disconnected", "error"} => s.upstream = NoUpstream
             /\ s.state \in {"disconnected", "connecting", "connected", "error"}
             /\ s \in Events
             /\ s # Pong
  <2>1. CASE s = Disconnected
    BY <2>1 DEF Events, Pong
  <2>2. CASE \E u \in Upstreams : s = Connecting(u)
    BY <2>2, NoUpstreamAssumption DEF Events, Pong
  <2>3. CASE \E u \in Upstreams : s = Connected(u)
    BY <2>3, NoUpstreamAssumption DEF Events, Pong
  <2>4. CASE \E e \in ErrorCauses : s = ErrorStatus(e)
    BY <2>4 DEF Events, Pong
  <2> QED
    BY <2>1, <2>2, <2>3, <2>4 DEF Statuses
<1>5. NoEvent \in Events /\ Pong \in Events
  BY DEF Events
<1> QED
  BY <1>1, <1>2, <1>3, <1>4, <1>5

\* Deliver returns a receiver that ends in the status delivered.
LEMMA DeliverFacts ==
    ASSUME NEW q \in Seq(Statuses), NEW s \in Statuses
    PROVE  /\ Deliver(q, s) \in Seq(Statuses)
           /\ Deliver(q, s) # <<>>
           /\ Deliver(q, s)[Len(Deliver(q, s))] = s
<1> DEFINE kept == IF Len(q) < Capacity THEN q ELSE Tail(q)
<1>1. kept \in Seq(Statuses)
  BY CapacityAssumption
<1>2. Deliver(q, s) = Append(kept, s)
  BY DEF Deliver
<1> HIDE DEF kept
<1> QED
  BY <1>1, <1>2, AppendProperties

\* Set keeps the types of the status and of the receivers.
LEMMA SetTypes ==
    ASSUME TypeOK, NEW s \in Statuses, Set(s)
    PROVE  status' \in Statuses /\ rx' \in [Tasks -> Seq(Statuses)]
BY DeliverFacts DEF Set, TypeOK

\* Return keeps the types of what it changes.
LEMMA ReturnTypes ==
    ASSUME TypeOK, NEW t \in Tasks, Holds(t), NEW e \in Events, Return(t, e)
    PROVE  /\ lockq' \in Seq(Tasks)
           /\ out' \in [Tasks -> Events]
           /\ req' \in [Tasks -> LockedCommands \cup {NoCommand}]
           /\ pc' \in [Tasks -> Critical \cup {"idle", "lock", "reply"}]
           /\ pc' = [pc EXCEPT ![t] = "reply"]
<1>1. lockq \in Seq(Tasks) /\ lockq # <<>>
  BY DEF TypeOK, Holds
<1>2. Tail(lockq) \in Seq(Tasks)
  BY <1>1
<1> QED
  BY <1>2 DEF Return, TypeOK, Goto

\* The command a task works on carries an upstream exactly when it is a connect.
LEMMA CommandFacts ==
    ASSUME TypeOK, NEW t \in Tasks, req[t].cmd = "connect"
    PROVE  req[t].upstream \in Upstreams
<1> DEFINE c == req[t]
<1>1. c \in LockedCommands \cup {NoCommand}
  BY DEF TypeOK
<1>2. c.cmd = "connect"
  OBVIOUS
<1> HIDE DEF c
<1>3. \E u \in Upstreams : c = CommandOf("connect", u)
  BY <1>1, <1>2 DEF LockedCommands, NoCommand, CommandOf
<1>4. c.upstream \in Upstreams
  BY <1>3 DEF CommandOf
<1> QED
  BY <1>4 DEF c

\* While t holds the mutex no other task is inside a call.
LEMMA Alone ==
    ASSUME MutexInv, NEW t \in Tasks, Holds(t), NEW u \in Tasks, u # t
    PROVE  pc[u] \notin Critical
BY DEF MutexInv, Holds

-----------------------------------------------------------------------------
(* Two shapes of step cover all the actions of a task *)

\* A step outside calls: it changes neither the status nor what is redirected,
\* and it moves no task into or out of a call.
LEMMA OutsideStep ==
    ASSUME NEW left, ServiceInv(left), TypeOK', MutexInv',
           UNCHANGED <<redirVars, status, proxy, sockets>>,
           \A u \in Tasks : pc[u] \in Critical \/ pc'[u] \in Critical
               => pc'[u] = pc[u] /\ req'[u] = req[u]
    PROVE  ServiceInv(left)'
<1> USE DEF redirVars
<1>1. \A u \in Tasks : ConnectInv(u)' /\ DisconnectInv(u)'
  BY DEF ServiceInv, ConnectInv, DisconnectInv, Critical
<1>2. InCall' <=> InCall
  BY DEF InCall
<1>3. QuietInv' /\ StatusTruthful'
  BY <1>2 DEF ServiceInv, QuietInv, StatusTruthful
<1>4. NoOrphanBut(left)'
  BY DEF ServiceInv, NoOrphanBut
<1> QED
  BY <1>1, <1>3, <1>4 DEF ServiceInv

\* A step of the task that holds the mutex: no other task is inside a call.
LEMMA HolderStep ==
    ASSUME NEW left, ServiceInv(left), NEW t \in Tasks, Holds(t), TypeOK', NoOrphanBut(left)',
           \A u \in Tasks \ {t} : pc'[u] = pc[u],
           pc'[t] \in Critical => Holds(t)' /\ ConnectInv(t)' /\ DisconnectInv(t)',
           pc'[t] \notin Critical =>
               /\ call' = "none" /\ todo' = {}
               /\ status'.state # "connecting"
               /\ proxy' = status'.upstream
               /\ (status'.state = "connected") <=> (remembered' # {})
               /\ sockets' = IF status'.state = "connected" THEN Protocols ELSE {}
    PROVE  ServiceInv(left)'
<1>1. \A u \in Tasks \ {t} : pc'[u] \notin Critical
  BY Alone DEF ServiceInv
<1>2. MutexInv'
  BY <1>1 DEF MutexInv
<1>3. \A u \in Tasks : ConnectInv(u)' /\ DisconnectInv(u)'
  <2>1. \A u \in Tasks : pc'[u] \notin Critical => ConnectInv(u)' /\ DisconnectInv(u)'
    BY DEF ConnectInv, DisconnectInv, Critical
  <2> QED
    BY <1>1, <2>1
<1>4. InCall' <=> pc'[t] \in Critical
  BY <1>1 DEF InCall
<1>5. QuietInv' /\ StatusTruthful'
  BY <1>4 DEF QuietInv, StatusTruthful
<1> QED
  BY <1>2, <1>3, <1>5 DEF ServiceInv

\* When a task gets its turn no call is in progress.
LEMMA TurnIsQuiet ==
    ASSUME NEW left, ServiceInv(left), NEW t \in Tasks, NEW c, Turn(t, c)
    PROVE  ~InCall
BY Alone DEF ServiceInv, InCall, Turn, Critical

-----------------------------------------------------------------------------
(* Steps outside calls *)

LEMMA RequestStep ==
    ASSUME NEW left, ServiceInv(left), NEW t \in Tasks, NEW c \in LockedCommands, Request(t, c)
    PROVE  ServiceInv(left)'
<1> USE DEF redirVars, hostVars, ipcVars
<1>1. lockq \in Seq(Tasks)
  BY DEF ServiceInv, TypeOK
<1>2. lockq' \in Seq(Tasks) /\ lockq' # <<>> /\ (lockq # <<>> => Head(lockq') = Head(lockq))
  BY <1>1, AppendProperties DEF Request
<1>3. \A u \in Tasks : Holds(u) => Holds(u)'
  BY <1>2 DEF Holds
<1>4. TypeOK'
  BY <1>2 DEF ServiceInv, Request, TypeOK, RedirTypeOK, Goto
<1>5. \A u \in Tasks : pc[u] \in Critical \/ pc'[u] \in Critical
               => pc'[u] = pc[u] /\ req'[u] = req[u]
  BY DEF ServiceInv, TypeOK, Request, Goto, Critical
<1>6. MutexInv'
  BY <1>3, <1>5 DEF ServiceInv, MutexInv
<1> QED
  BY <1>4, <1>5, <1>6, OutsideStep DEF Request

\* Ping, WriteReply, Forward and Close do not touch the mutex.
LEMMA ConnectionStep ==
    ASSUME NEW left, ServiceInv(left), NEW t \in Tasks, Ping(t) \/ WriteReply(t) \/ Forward(t) \/ Close(t)
    PROVE  ServiceInv(left)'
<1> USE StatusFacts DEF redirVars, hostVars, ipcVars
<1>1. \A q \in Seq(Statuses) : q # <<>> => Head(q) \in Events /\ Tail(q) \in Seq(Statuses)
  OBVIOUS
<1>2. TypeOK'
  <2> USE DEF ServiceInv, TypeOK, RedirTypeOK, Goto
  <2>1. CASE Ping(t)
    BY <2>1 DEF Ping
  <2>2. CASE WriteReply(t)
    BY <2>2 DEF WriteReply
  <2>3. CASE Forward(t)
    BY <2>3, <1>1 DEF Forward
  <2>4. CASE Close(t)
    BY <2>4, EmptySeq DEF Close
  <2> QED
    BY <2>1, <2>2, <2>3, <2>4
<1>3. \A u \in Tasks : pc[u] \in Critical \/ pc'[u] \in Critical
               => pc'[u] = pc[u] /\ req'[u] = req[u]
  BY DEF ServiceInv, TypeOK, Ping, WriteReply, Forward, Close, Goto, Critical
<1>4. UNCHANGED <<redirVars, status, proxy, sockets, lockq>>
  BY DEF Ping, WriteReply, Forward, Close
<1>5. MutexInv'
  BY <1>3, <1>4 DEF ServiceInv, MutexInv, Holds
<1> QED
  BY <1>2, <1>3, <1>4, <1>5, OutsideStep

\* GetStatus, Subscribe and a Connect that finds the service connected return
\* at once.
LEMMA AnswerStep ==
    ASSUME NEW left, ServiceInv(left), NEW t \in Tasks, GetStatus(t) \/ Subscribe(t) \/ ConnectAlready(t)
    PROVE  ServiceInv(left)'
<1> USE DEF redirVars, hostVars, ipcVars
<1>1. Holds(t) /\ Return(t, status) /\ ~InCall
  BY TurnIsQuiet DEF GetStatus, Subscribe, ConnectAlready, Turn
<1>2. /\ UNCHANGED <<redirVars, status, hostVars>>
      /\ subs' \subseteq Tasks /\ rx' \in [Tasks -> Seq(Statuses)] /\ UNCHANGED seen
  <2>1. rx \in [Tasks -> Seq(Statuses)] /\ subs \subseteq Tasks /\ <<>> \in Seq(Statuses)
    BY EmptySeq DEF ServiceInv, TypeOK
  <2>2. CASE GetStatus(t) \/ ConnectAlready(t)
    BY <2>1, <2>2 DEF GetStatus, ConnectAlready
  <2>3. CASE Subscribe(t)
    BY <2>1, <2>3 DEF Subscribe
  <2> QED
    BY <2>2, <2>3
<1>3. status \in Events
  BY StatusFacts DEF ServiceInv, TypeOK
<1>4. TypeOK' /\ pc' = [pc EXCEPT ![t] = "reply"]
  BY <1>1, <1>2, <1>3, ReturnTypes DEF ServiceInv, TypeOK, RedirTypeOK
<1>5. NoOrphanBut(left)'
  BY <1>2 DEF ServiceInv, NoOrphanBut
<1>6. pc'[t] \notin Critical /\ \A u \in Tasks \ {t} : pc'[u] = pc[u]
  BY <1>4 DEF ServiceInv, TypeOK, Critical
<1> QED
  BY <1>1, <1>2, <1>4, <1>5, <1>6, HolderStep DEF ServiceInv, QuietInv, StatusTruthful

-----------------------------------------------------------------------------
(* Steps of Controller::connect *)

LEMMA ConnectBeginStep ==
    ASSUME NEW left, ServiceInv(left), NEW t \in Tasks, ConnectBegin(t)
    PROVE  ServiceInv(left)'
<1> USE DEF redirVars, hostVars
<1>1. Holds(t) /\ ~InCall /\ req[t].upstream \in Upstreams /\ req[t].cmd = "connect"
  BY TurnIsQuiet, CommandFacts DEF ServiceInv, ConnectBegin, Turn
<1> DEFINE s == Connecting(req[t].upstream)
<1>2. s \in Statuses /\ Set(s)
  BY <1>1, StatusFacts DEF ConnectBegin
<1>3. status' = s
  BY <1>2 DEF Set
<1>4. status' \in Statuses /\ rx' \in [Tasks -> Seq(Statuses)]
  BY <1>2, SetTypes DEF ServiceInv
<1>5. /\ UNCHANGED <<pointed, remembered, call, todo, proxy, sockets, lingering>>
      /\ UNCHANGED <<lockq, req, subs, out, seen>>
      /\ pc' = [pc EXCEPT ![t] = "start"]
  BY DEF ConnectBegin, Goto
<1>6. TypeOK'
  BY <1>4, <1>5 DEF ServiceInv, TypeOK, RedirTypeOK, Critical
<1>7. pc'[t] = "start" /\ \A u \in Tasks \ {t} : pc'[u] = pc[u]
  BY <1>5 DEF ServiceInv, TypeOK
<1>8. Holds(t)'
  BY <1>1, <1>5 DEF Holds
<1>9. /\ proxy = NoUpstream /\ remembered = {} /\ sockets = {}
      /\ call = "none" /\ todo = {}
  <2>1. status \in Statuses /\ status.state \notin {"connecting", "connected"}
    BY DEF ServiceInv, TypeOK, ConnectBegin
  <2>2. status.upstream = NoUpstream
    BY <2>1, StatusFacts
  <2> QED
    BY <1>1, <2>1, <2>2 DEF ServiceInv, StatusTruthful, QuietInv
<1>10. ConnectInv(t)' /\ DisconnectInv(t)'
  BY <1>1, <1>3, <1>5, <1>7, <1>9 DEF ConnectInv, DisconnectInv
<1>11. NoOrphanBut(left)'
  BY <1>5 DEF ServiceInv, NoOrphanBut
<1> QED
  BY <1>1, <1>6, <1>7, <1>8, <1>10, <1>11, HolderStep DEF Critical

\* The three ways in which a connect ends in an error: nothing is redirected or
\* remembered, and no socket of the proxy is left bound.
LEMMA ConnectErrorStep ==
    ASSUME NEW left, ServiceInv(left), NEW t \in Tasks, StartFails(t) \/ BindTcpFails(t) \/ Unwind(t)
    PROVE  ServiceInv(left)'
<1> USE DEF redirVars, hostVars
<1>1. PICK e \in ErrorCauses : Set(ErrorStatus(e)) /\ Return(t, ErrorStatus(e))
  BY DEF StartFails, BindTcpFails, Unwind, Set, ErrorCauses
<1>2. pc[t] \in {"start", "bind_tcp", "unwind"} /\ pc[t] \in Critical
  BY DEF StartFails, BindTcpFails, Unwind, Critical
<1>3. Holds(t)
  BY <1>2 DEF ServiceInv, MutexInv
<1>4. /\ proxy = NoUpstream /\ remembered = {} /\ call = "none" /\ todo = {}
      /\ pc[t] = "start" => sockets = {}
      /\ pc[t] = "bind_tcp" => sockets = {"udp"}
  BY <1>2 DEF ServiceInv, ConnectInv
<1>5. UNCHANGED <<pointed, remembered, call, todo, proxy, subs, seen>>
  BY DEF StartFails, BindTcpFails, Unwind
<1>6. sockets' = {} /\ lingering' \subseteq {"udp"}
  BY <1>4 DEF ServiceInv, TypeOK, StartFails, BindTcpFails, Unwind
<1>7. ErrorStatus(e) \in Statuses /\ ErrorStatus(e) \in Events
  BY StatusFacts
<1>8. status' \in Statuses /\ rx' \in [Tasks -> Seq(Statuses)] /\ status' = ErrorStatus(e)
  BY <1>1, <1>7, SetTypes DEF ServiceInv, Set
<1>9. TypeOK' /\ pc' = [pc EXCEPT ![t] = "reply"]
  BY <1>1, <1>3, <1>5, <1>6, <1>7, <1>8, ReturnTypes DEF ServiceInv, TypeOK, RedirTypeOK
<1>10. pc'[t] = "reply" /\ \A u \in Tasks \ {t} : pc'[u] = pc[u]
  BY <1>9 DEF ServiceInv, TypeOK
<1>11. status'.state = "error" /\ status'.upstream = NoUpstream
  BY <1>8 DEF ErrorStatus, StatusOf
<1>12. NoOrphanBut(left)'
  BY <1>5 DEF ServiceInv, NoOrphanBut
<1> QED
  BY <1>3, <1>4, <1>5, <1>6, <1>9, <1>10, <1>11, <1>12, HolderStep DEF Critical

\* What is common to the steps inside a connect.
LEMMA InsideConnect ==
    ASSUME NEW left, ServiceInv(left), NEW t \in Tasks, pc[t] \in {"start", "bind_tcp", "apply", "unwind"}
    PROVE  /\ Holds(t)
           /\ req[t].cmd = "connect" /\ req[t].upstream \in Upstreams
           /\ status = Connecting(req[t].upstream)
           /\ proxy = NoUpstream /\ remembered = {}
BY CommandFacts DEF ServiceInv, MutexInv, Critical, ConnectInv

\* A step inside a connect that goes on, to pc[t] = l.
LEMMA ConnectGoesOn ==
    ASSUME NEW left, ServiceInv(left), NEW t \in Tasks, pc[t] \in {"start", "bind_tcp", "apply"},
           NEW l \in {"bind_tcp", "apply", "unwind"}, pc' = [pc EXCEPT ![t] = l],
           UNCHANGED <<remembered, status, proxy, lingering, lockq, req, ipcVars>>,
           sockets' = (IF l = "bind_tcp" THEN {"udp"} ELSE Protocols),
           RedirTypeOK', NoOrphanBut(left)',
           IF l = "apply" THEN call' = "apply" ELSE call' = "none" /\ todo' = {}
    PROVE  ServiceInv(left)'
<1> USE DEF ipcVars
<1>1. pc'[t] = l /\ \A u \in Tasks \ {t} : pc'[u] = pc[u]
  BY DEF ServiceInv, TypeOK
<1>2. Holds(t)'
  BY InsideConnect DEF Holds
<1>3. ConnectInv(t)' /\ DisconnectInv(t)'
  BY <1>1, InsideConnect DEF ConnectInv, DisconnectInv
<1>4. TypeOK'
  BY DEF ServiceInv, TypeOK, Critical, Protocols
<1> QED
  BY <1>1, <1>2, <1>3, <1>4, InsideConnect, HolderStep DEF Critical

LEMMA BindStep ==
    ASSUME NEW left, ServiceInv(left), NEW t \in Tasks, BindUdp(t) \/ BindTcp(t)
    PROVE  ServiceInv(left)'
<1> USE DEF redirVars
<1>1. CASE BindUdp(t)
  <2>1. sockets = {} /\ call = "none" /\ todo = {} /\ pc[t] = "start"
    BY <1>1 DEF ServiceInv, ConnectInv, BindUdp
  <2>2. NoOrphanBut(left)' /\ RedirTypeOK'
    BY <1>1 DEF ServiceInv, TypeOK, BindUdp, NoOrphanBut, RedirTypeOK
  <2> QED
    BY <1>1, <2>1, <2>2, ConnectGoesOn DEF BindUdp, Goto
<1>2. CASE BindTcp(t)
  <2>1. sockets = {"udp"} /\ call = "none" /\ todo = {} /\ pc[t] = "bind_tcp"
    BY <1>2 DEF ServiceInv, ConnectInv, BindTcp
  <2>2. NoOrphanBut(left)' /\ RedirTypeOK'
    BY <1>2, <2>1 DEF ServiceInv, TypeOK, BindTcp, BeginApply, NoOrphanBut, RedirTypeOK
  <2>3. sockets' = Protocols
    BY <1>2, <2>1 DEF BindTcp, Protocols
  <2> QED
    BY <1>2, <2>1, <2>2, <2>3, ConnectGoesOn DEF BindTcp, BeginApply, Goto
<1> QED
  BY <1>1, <1>2

LEMMA ApplyStep ==
    ASSUME NEW left, ServiceInv(left), NEW t \in Tasks, ApplyPoint(t) \/ ApplyFails(t)
    PROVE  ServiceInv(left)'
<1> USE DEF hostVars
<1>1. pc[t] = "apply" /\ sockets = Protocols /\ call = "apply" /\ remembered = {}
  BY DEF ServiceInv, ConnectInv, ApplyPoint, ApplyFails
<1>2. CASE ApplyPoint(t)
  <2>1. PICK s \in Surfaces : Point(s)
    BY <1>2 DEF ApplyPoint
  <2>2. NoOrphanBut(left)' /\ RedirTypeOK'
    BY <2>1 DEF ServiceInv, TypeOK, Point, NoOrphanBut, RedirTypeOK
  <2>3. pc' = [pc EXCEPT ![t] = "apply"]
    BY <1>1, <1>2 DEF ServiceInv, TypeOK, ApplyPoint
  <2> QED
    BY <1>1, <1>2, <2>1, <2>2, <2>3, ConnectGoesOn DEF ApplyPoint, Point
<1>3. CASE ApplyFails(t)
  <2>1. NoOrphanBut(left)' /\ RedirTypeOK'
    BY <1>1, <1>3 DEF ServiceInv, TypeOK, ApplyFails, ApplyErr, NoOrphanBut, Faithful, RedirTypeOK
  <2> QED
    BY <1>1, <1>3, <2>1, ConnectGoesOn DEF ApplyFails, ApplyErr, Goto
<1> QED
  BY <1>2, <1>3

\* The redirect is in place and remembered when Connected is announced.
LEMMA ConnectFinishStep ==
    ASSUME NEW left, ServiceInv(left), NEW t \in Tasks, ConnectFinish(t)
    PROVE  ServiceInv(left)'
<1>1. pc[t] = "apply" /\ sockets = Protocols
  BY DEF ServiceInv, ConnectInv, ConnectFinish
<1> DEFINE s == Connected(req[t].upstream)
<1>2. s \in Statuses /\ s \in Events /\ Set(s) /\ Return(t, s)
  BY <1>1, InsideConnect, StatusFacts DEF ConnectFinish, Set
<1>3. status' = s /\ status' \in Statuses /\ rx' \in [Tasks -> Seq(Statuses)]
  BY <1>2, SetTypes DEF ServiceInv, Set
<1>4. PICK R \in SUBSET todo : ApplyOk(R)
  BY DEF ConnectFinish
<1>5. /\ remembered' = R /\ R # {} /\ call' = "none" /\ todo' = {} /\ pointed' = pointed
      /\ Faithful => R = todo
  BY <1>4 DEF ApplyOk, Faithful
<1>6. NoOrphanBut(left)'
  BY <1>1, <1>5, InsideConnect DEF ServiceInv, NoOrphanBut
<1>7. RedirTypeOK'
  BY <1>5 DEF ServiceInv, TypeOK, RedirTypeOK
<1>8. TypeOK' /\ pc' = [pc EXCEPT ![t] = "reply"]
  BY <1>1, <1>2, <1>3, <1>7, InsideConnect, ReturnTypes DEF ServiceInv, TypeOK, ConnectFinish
<1>9. pc'[t] = "reply" /\ \A u \in Tasks \ {t} : pc'[u] = pc[u]
  BY <1>8 DEF ServiceInv, TypeOK
<1>10. status'.state = "connected" /\ status'.upstream = proxy' /\ sockets' = Protocols
  BY <1>1, <1>3 DEF Connected, StatusOf, ConnectFinish
<1> QED
  BY <1>1, <1>5, <1>6, <1>8, <1>9, <1>10, InsideConnect, HolderStep DEF Critical

-----------------------------------------------------------------------------
(* Steps of Controller::disconnect *)

\* A disconnect starts from a truthful status, so a proxy is stored whenever
\* there is something to restore.
LEMMA DisconnectBeginStep ==
    ASSUME NEW left, ServiceInv(left), NEW t \in Tasks, DisconnectBegin(t)
    PROVE  ServiceInv(left)'
<1> USE DEF redirVars, hostVars, ipcVars
<1>1. Holds(t) /\ ~InCall
  BY TurnIsQuiet DEF DisconnectBegin, Turn
<1>2. /\ call' = "restore" /\ todo' = remembered /\ remembered' = {} /\ pointed' = pointed
      /\ UNCHANGED <<status, proxy, sockets, lingering, lockq, req, subs, rx, out, seen>>
      /\ pc' = [pc EXCEPT ![t] = "restore"]
  BY DEF DisconnectBegin, BeginRestore, Goto
<1>3. TypeOK'
  BY <1>2 DEF ServiceInv, TypeOK, RedirTypeOK, Critical
<1>4. NoOrphanBut(left)'
  BY <1>1, <1>2 DEF ServiceInv, QuietInv, NoOrphanBut
<1>5. pc'[t] = "restore" /\ \A u \in Tasks \ {t} : pc'[u] = pc[u]
  BY <1>2 DEF ServiceInv, TypeOK
<1>6. /\ status.state # "connecting"
      /\ IF proxy = NoUpstream THEN sockets = {} /\ remembered = {} ELSE sockets = Protocols
  <2>1. /\ status \in Statuses /\ status.state # "connecting" /\ proxy = status.upstream
        /\ (status.state = "connected") <=> (remembered # {})
        /\ sockets = IF status.state = "connected" THEN Protocols ELSE {}
    BY <1>1 DEF ServiceInv, TypeOK, StatusTruthful
  <2>2. (status.state = "connected") <=> (status.upstream # NoUpstream)
    BY <2>1, StatusFacts
  <2> QED
    BY <2>1, <2>2
<1>7. ConnectInv(t)' /\ DisconnectInv(t)'
  BY <1>2, <1>5, <1>6 DEF ConnectInv, DisconnectInv
<1>8. Holds(t)'
  BY <1>1, <1>2 DEF Holds
<1> QED
  BY <1>1, <1>3, <1>4, <1>5, <1>7, <1>8, HolderStep DEF Critical

LEMMA RestoreStep ==
    ASSUME NEW left, ServiceInv(left), NEW t \in Tasks, RestoreOne(t) \/ RestoreEnd(t)
    PROVE  ServiceInv(left)'
<1> USE DEF redirVars, hostVars, ipcVars
<1>1. pc[t] = "restore" /\ Holds(t) /\ DisconnectInv(t)
  BY DEF ServiceInv, MutexInv, Critical, RestoreOne, RestoreEnd
<1>2. UNCHANGED <<remembered, status, proxy, sockets, lingering, lockq, req, subs, rx, out, seen>>
  BY DEF RestoreOne, RestoreEnd, Unpoint, Skip, EndRestore
<1>3. /\ todo' \subseteq todo /\ pointed' \subseteq pointed
      /\ Faithful => pointed' \subseteq pointed \ (todo \ todo')
  BY DEF RestoreOne, RestoreEnd, Unpoint, Skip, EndRestore, Faithful
<1>4. NoOrphanBut(left)'
  BY <1>2, <1>3 DEF ServiceInv, NoOrphanBut
<1>5. CASE RestoreOne(t)
  <2>1. pc' = pc /\ call' = call
    BY <1>5 DEF RestoreOne, Unpoint, Skip
  <2>2. TypeOK'
    BY <1>2, <1>3, <2>1 DEF ServiceInv, TypeOK, RedirTypeOK
  <2>3. ConnectInv(t)' /\ DisconnectInv(t)' /\ Holds(t)'
    BY <1>1, <1>2, <1>3, <2>1 DEF ConnectInv, DisconnectInv, Holds
  <2> QED
    BY <1>1, <1>4, <2>1, <2>2, <2>3, HolderStep DEF Critical
<1>6. CASE RestoreEnd(t)
  <2>1. pc' = [pc EXCEPT ![t] = "stop"] /\ call' = "none" /\ todo' = {}
    BY <1>6 DEF RestoreEnd, EndRestore, Goto
  <2>2. pc'[t] = "stop" /\ \A u \in Tasks \ {t} : pc'[u] = pc[u]
    BY <2>1 DEF ServiceInv, TypeOK
  <2>3. TypeOK'
    BY <1>2, <1>3, <2>1 DEF ServiceInv, TypeOK, RedirTypeOK, Critical
  <2>4. ConnectInv(t)' /\ DisconnectInv(t)' /\ Holds(t)'
    BY <1>1, <1>2, <2>1, <2>2 DEF ConnectInv, DisconnectInv, Holds
  <2> QED
    BY <1>1, <1>4, <2>2, <2>3, <2>4, HolderStep DEF Critical
<1> QED
  BY <1>5, <1>6

LEMMA DisconnectFinishStep ==
    ASSUME NEW left, ServiceInv(left), NEW t \in Tasks, DisconnectFinish(t)
    PROVE  ServiceInv(left)'
<1> USE DEF redirVars
<1>1. pc[t] = "stop" /\ Holds(t)
  BY DEF ServiceInv, MutexInv, Critical, DisconnectFinish
<1>2. /\ remembered = {} /\ call = "none" /\ todo = {}
      /\ IF proxy = NoUpstream THEN sockets = {} ELSE sockets = Protocols
  BY <1>1 DEF ServiceInv, DisconnectInv
<1>3. Disconnected \in Statuses /\ Disconnected \in Events
      /\ Set(Disconnected) /\ Return(t, Disconnected)
  BY StatusFacts DEF DisconnectFinish, Set
<1>4. status' = Disconnected /\ status' \in Statuses /\ rx' \in [Tasks -> Seq(Statuses)]
  BY <1>3, SetTypes DEF ServiceInv, Set
<1>5. /\ UNCHANGED <<pointed, remembered, call, todo, lingering, subs, seen>>
      /\ proxy' = NoUpstream /\ sockets' = {}
  BY <1>2 DEF DisconnectFinish
<1>6. TypeOK' /\ pc' = [pc EXCEPT ![t] = "reply"]
  BY <1>1, <1>3, <1>4, <1>5, ReturnTypes DEF ServiceInv, TypeOK, RedirTypeOK
<1>7. pc'[t] = "reply" /\ \A u \in Tasks \ {t} : pc'[u] = pc[u]
  BY <1>6 DEF ServiceInv, TypeOK
<1>8. status'.state = "disconnected" /\ status'.upstream = NoUpstream
  BY <1>4 DEF Disconnected, StatusOf
<1>9. NoOrphanBut(left)'
  BY <1>5 DEF ServiceInv, NoOrphanBut
<1> QED
  BY <1>1, <1>2, <1>5, <1>6, <1>7, <1>8, <1>9, HolderStep DEF Critical

-----------------------------------------------------------------------------
(* Steps of the environment *)

LEMMA EnvironmentStep ==
    ASSUME NEW left, ServiceInv(left), Released \/ Rewritten
    PROVE  ServiceInv(left)'
<1> USE DEF redirVars, ipcVars, hostVars
<1>1. /\ UNCHANGED <<remembered, call, todo, status, proxy, sockets, lockq, pc, req>>
      /\ UNCHANGED <<subs, rx, out, seen>>
      /\ pointed' \subseteq pointed /\ lingering' \subseteq lingering
  BY DEF Released, Rewritten, External
<1>2. TypeOK' /\ NoOrphanBut(left)'
  BY <1>1 DEF ServiceInv, TypeOK, RedirTypeOK, NoOrphanBut
<1>3. InCall' <=> InCall
  BY <1>1 DEF InCall
<1>4. MutexInv' /\ QuietInv' /\ StatusTruthful'
  BY <1>1, <1>3 DEF ServiceInv, MutexInv, Holds, QuietInv, StatusTruthful
<1>5. \A u \in Tasks : ConnectInv(u)' /\ DisconnectInv(u)'
  BY <1>1 DEF ServiceInv, ConnectInv, DisconnectInv
<1> QED
  BY <1>2, <1>4, <1>5 DEF ServiceInv

-----------------------------------------------------------------------------
(* Any step of a connection or of its surroundings *)

LEMMA InitServiceInv == ASSUME NEW left, Init PROVE ServiceInv(left)
<1>1. TypeOK
  BY StatusFacts, EmptySeq DEF Init, RedirInit, TypeOK, RedirTypeOK
<1>2. ~InCall
  BY DEF Init, InCall, Critical
<1> QED
  BY <1>1, <1>2 DEF Init, RedirInit, ServiceInv, MutexInv, ConnectInv, DisconnectInv, InCall,
     QuietInv, StatusTruthful, NoOrphanBut, Disconnected, StatusOf

\* Whatever a connection does, and whatever surfaces the process has found pointed.
LEMMA TaskStep ==
    ASSUME NEW left, ServiceInv(left), NEW t \in Tasks, Client(t) \/ Progress(t) \/ Forward(t)
    PROVE  ServiceInv(left)'
<1>1. CASE \E c \in LockedCommands : Request(t, c)
  BY <1>1, RequestStep
<1>2. CASE Ping(t) \/ WriteReply(t) \/ Forward(t) \/ Close(t)
  BY <1>2, ConnectionStep
<1>3. CASE GetStatus(t) \/ Subscribe(t) \/ ConnectAlready(t)
  BY <1>3, AnswerStep
<1>4. CASE ConnectStep(t)
  BY <1>4, AnswerStep, ConnectBeginStep, ConnectErrorStep, BindStep, ApplyStep,
     ConnectFinishStep DEF ConnectStep
<1>5. CASE DisconnectStep(t)
  BY <1>5, DisconnectBeginStep, RestoreStep, DisconnectFinishStep DEF DisconnectStep
<1> QED
  BY <1>1, <1>2, <1>3, <1>4, <1>5 DEF Client, Progress

LEMMA StutterStep ==
    ASSUME NEW left, ServiceInv(left), UNCHANGED vars
    PROVE  ServiceInv(left)'
<1>1. UNCHANGED <<redirVars, status, proxy, sockets, lockq, pc, req>>
  BY DEF vars, hostVars
<1>2. TypeOK' /\ MutexInv'
  BY <1>1 DEF ServiceInv, TypeOK, RedirTypeOK, MutexInv, Holds, vars, redirVars, hostVars, ipcVars
<1> QED
  BY <1>1, <1>2, OutsideStep

-----------------------------------------------------------------------------
(* The queue of the mutex, and how long its head stays there *)

\* At most how many steps of its own a task has before it leaves the mutex.
StepsLeft(t) ==
    CASE pc[t] = "lock"     -> Cardinality(Surfaces) + 5
      [] pc[t] = "start"    -> Cardinality(Surfaces) + 4
      [] pc[t] = "bind_tcp" -> Cardinality(Surfaces) + 3
      [] pc[t] = "apply"    -> Cardinality(Surfaces \ todo) + 2
      [] pc[t] = "restore"  -> Cardinality(todo) + 2
      [] OTHER              -> 1

\* What a turn on the mutex consists of.
Returns(t) ==
    /\ lockq' = Tail(lockq) /\ \A u \in Tasks \ {t} : req'[u] = req[u]
    /\ pc' = [pc EXCEPT ![t] = "reply"]

GoesOn(t) ==
    /\ lockq' = lockq /\ req' = req
    /\ \E l \in Critical : pc' = [pc EXCEPT ![t] = l]
    /\ StepsLeft(t)' < StepsLeft(t)

\* The sizes of what is left to do.
LEMMA Sizes ==
    ASSUME NEW S \in SUBSET Surfaces, NEW s \in Surfaces
    PROVE  /\ Cardinality(S) \in Nat
           /\ Cardinality(S) <= Cardinality(Surfaces) /\ Cardinality(Surfaces) \in Nat
           /\ s \in S => Cardinality(S \ {s}) < Cardinality(S)
           /\ Cardinality(Surfaces \ S) \in Nat
           /\ s \notin S => Cardinality(Surfaces \ (S \cup {s})) < Cardinality(Surfaces \ S)
<1>1. IsFiniteSet(S) /\ Cardinality(S) <= Cardinality(Surfaces)
  BY SurfacesAssumption, FS_Subset
<1>2. IsFiniteSet(Surfaces \ S)
  BY SurfacesAssumption, FS_Subset
<1>3. Cardinality(S) \in Nat /\ Cardinality(Surfaces) \in Nat /\ Cardinality(Surfaces \ S) \in Nat
  BY <1>1, <1>2, SurfacesAssumption, FS_CardinalityType
<1>4. s \in S => Cardinality(S \ {s}) = Cardinality(S) - 1
  BY <1>1, FS_RemoveElement
<1>5. Surfaces \ (S \cup {s}) = (Surfaces \ S) \ {s}
  OBVIOUS
<1>6. s \notin S => Cardinality((Surfaces \ S) \ {s}) = Cardinality(Surfaces \ S) - 1
  BY <1>2, FS_RemoveElement
<1> QED
  BY <1>1, <1>3, <1>4, <1>5, <1>6

\* A step of a call ends it or brings its end nearer.
LEMMA HolderMoves ==
    ASSUME NEW left, ServiceInv(left), NEW t \in Tasks,
           GetStatus(t) \/ Subscribe(t) \/ ConnectStep(t) \/ DisconnectStep(t)
    PROVE  Holds(t) /\ (Returns(t) \/ GoesOn(t))
<1> USE DEF Goto
<1>1. /\ pc \in [Tasks -> Critical \cup {"idle", "lock", "reply"}]
      /\ todo \in SUBSET Surfaces /\ remembered \in SUBSET Surfaces /\ MutexInv
  BY DEF ServiceInv, TypeOK, RedirTypeOK
<1>2. Holds(t)
  BY <1>1 DEF MutexInv, Critical, GetStatus, Subscribe, ConnectStep, DisconnectStep, Turn,
     ConnectAlready, ConnectBegin, StartFails, BindUdp, BindTcpFails, BindTcp, ApplyPoint,
     ConnectFinish, ApplyFails, Unwind, DisconnectBegin, RestoreOne, RestoreEnd, DisconnectFinish
<1>3. CASE GetStatus(t) \/ Subscribe(t) \/ ConnectAlready(t) \/ StartFails(t) \/ BindTcpFails(t)
           \/ ConnectFinish(t) \/ Unwind(t) \/ DisconnectFinish(t)
  <2>1. req \in [Tasks -> LockedCommands \cup {NoCommand}]
    BY DEF ServiceInv, TypeOK
  <2> QED
    BY <1>2, <1>3, <2>1 DEF GetStatus, Subscribe, ConnectAlready, StartFails, BindTcpFails,
       ConnectFinish, Unwind, DisconnectFinish, Return, Returns
<1>4. \A S \in SUBSET Surfaces : Cardinality(S) \in Nat /\ Cardinality(S) <= Cardinality(Surfaces)
  BY SurfacesAssumption, FS_Subset, FS_CardinalityType
<1>5. Cardinality(Surfaces) \in Nat
  BY <1>4
<1>6. CASE ConnectBegin(t) \/ BindUdp(t)
  <2>1. lockq' = lockq /\ req' = req
    BY <1>6 DEF ConnectBegin, BindUdp
  <2>2. \/ pc[t] = "lock" /\ pc' = [pc EXCEPT ![t] = "start"]
        \/ pc[t] = "start" /\ pc' = [pc EXCEPT ![t] = "bind_tcp"]
    BY <1>6 DEF ConnectBegin, BindUdp, Turn
  <2>3. \/ StepsLeft(t) = Cardinality(Surfaces) + 5 /\ StepsLeft(t)' = Cardinality(Surfaces) + 4
        \/ StepsLeft(t) = Cardinality(Surfaces) + 4 /\ StepsLeft(t)' = Cardinality(Surfaces) + 3
    BY <1>1, <2>2 DEF StepsLeft
  <2> QED
    BY <1>2, <1>5, <2>1, <2>2, <2>3 DEF GoesOn, Critical
<1>7. CASE BindTcp(t)
  <2>1. /\ lockq' = lockq /\ req' = req /\ pc[t] = "bind_tcp" /\ pc' = [pc EXCEPT ![t] = "apply"]
        /\ todo' = {}
    BY <1>7 DEF BindTcp, BeginApply
  <2>2. Surfaces \ todo' = Surfaces
    BY <2>1
  <2>3. StepsLeft(t) = Cardinality(Surfaces) + 3 /\ StepsLeft(t)' = Cardinality(Surfaces) + 2
    BY <1>1, <2>1, <2>2 DEF StepsLeft
  <2> QED
    BY <1>2, <1>5, <2>1, <2>3 DEF GoesOn, Critical
<1>8. CASE ApplyPoint(t)
  <2>1. PICK s \in Surfaces : Point(s)
    BY <1>8 DEF ApplyPoint
  <2>2. /\ lockq' = lockq /\ req' = req /\ pc[t] = "apply" /\ pc' = [pc EXCEPT ![t] = "apply"]
        /\ s \notin todo /\ todo' = todo \cup {s}
    BY <1>1, <1>8, <2>1 DEF ApplyPoint, Point
  <2>3. /\ Cardinality(Surfaces \ todo') < Cardinality(Surfaces \ todo)
    BY <1>1, <2>2, Sizes
  <2>4. StepsLeft(t) = Cardinality(Surfaces \ todo) + 2
    BY <2>2 DEF StepsLeft
  <2>5. StepsLeft(t)' = Cardinality(Surfaces \ todo') + 2
    BY <1>1, <2>2 DEF StepsLeft
  <2>6. Cardinality(Surfaces \ todo') \in Nat /\ Cardinality(Surfaces \ todo) \in Nat
    BY <1>4
  <2>7. StepsLeft(t)' < StepsLeft(t)
    BY <2>3, <2>4, <2>5, <2>6
  <2> QED
    BY <1>2, <2>2, <2>7 DEF GoesOn, Critical
<1>9. CASE ApplyFails(t) \/ RestoreEnd(t)
  <2>1. /\ lockq' = lockq /\ req' = req
        /\ \/ pc[t] = "apply" /\ pc' = [pc EXCEPT ![t] = "unwind"]
           \/ pc[t] = "restore" /\ pc' = [pc EXCEPT ![t] = "stop"]
    BY <1>9 DEF ApplyFails, RestoreEnd
  <2>2. Cardinality(Surfaces \ todo) \in Nat /\ Cardinality(todo) \in Nat
    BY <1>1, <1>4
  <2>3. StepsLeft(t)' = 1
    BY <1>1, <2>1 DEF StepsLeft
  <2>4. StepsLeft(t) \in {Cardinality(Surfaces \ todo) + 2, Cardinality(todo) + 2}
    BY <1>1, <2>1 DEF StepsLeft
  <2>5. StepsLeft(t)' < StepsLeft(t)
    BY <2>2, <2>3, <2>4
  <2> QED
    BY <1>2, <2>1, <2>5 DEF GoesOn, Critical
<1>10. CASE DisconnectBegin(t)
  <2>1. /\ lockq' = lockq /\ req' = req /\ pc[t] = "lock" /\ pc' = [pc EXCEPT ![t] = "restore"]
        /\ todo' = remembered
    BY <1>10 DEF DisconnectBegin, BeginRestore, Turn
  <2>2. StepsLeft(t) = Cardinality(Surfaces) + 5 /\ StepsLeft(t)' = Cardinality(remembered) + 2
    BY <1>1, <2>1 DEF StepsLeft
  <2>3. Cardinality(remembered) \in Nat /\ Cardinality(remembered) <= Cardinality(Surfaces)
    BY <1>1, <1>4
  <2>4. StepsLeft(t)' < StepsLeft(t)
    BY <1>5, <2>2, <2>3
  <2> QED
    BY <1>2, <2>1, <2>4 DEF GoesOn, Critical
<1>11. CASE RestoreOne(t)
  <2>1. PICK s \in todo : Unpoint(s) \/ Skip(s)
    BY <1>11 DEF RestoreOne
  <2>2. /\ lockq' = lockq /\ req' = req /\ pc[t] = "restore" /\ pc' = [pc EXCEPT ![t] = "restore"]
        /\ s \in todo /\ todo' = todo \ {s}
    BY <1>1, <1>11, <2>1 DEF RestoreOne, Unpoint, Skip
  <2>3. Cardinality(todo') < Cardinality(todo)
    BY <1>1, <2>2, Sizes
  <2>4. StepsLeft(t) = Cardinality(todo) + 2 /\ StepsLeft(t)' = Cardinality(todo') + 2
    BY <1>1, <2>2 DEF StepsLeft
  <2>5. todo' \in SUBSET Surfaces
    BY <1>1, <2>2
  <2>6. Cardinality(todo') \in Nat /\ Cardinality(todo) \in Nat
    BY <1>1, <1>4, <2>5
  <2>7. StepsLeft(t)' < StepsLeft(t)
    BY <2>3, <2>4, <2>6
  <2> QED
    BY <1>2, <2>2, <2>7 DEF GoesOn, Critical
<1> QED
  BY <1>2, <1>3, <1>6, <1>7, <1>8, <1>9, <1>10, <1>11 DEF ConnectStep, DisconnectStep

\* Tasks by their place in the queue.
Queued(t) == \E i \in 1 .. Len(lockq) : lockq[i] = t

\* What a queue is to TLAPS.
LEMMA QueueShape ==
    ASSUME TypeOK
    PROVE  /\ Len(lockq) \in Nat /\ \A i \in 1 .. Len(lockq) : lockq[i] \in Tasks
           /\ lockq # <<>> <=> 1 \in 1 .. Len(lockq)
           /\ lockq # <<>> =>
                  /\ Head(lockq) = lockq[1] /\ Len(Tail(lockq)) = Len(lockq) - 1
                  /\ \A i \in 1 .. Len(lockq) - 1 : Tail(lockq)[i] = lockq[i + 1]
<1>1. lockq \in Seq(Tasks)
  BY DEF TypeOK
<1> QED
  BY <1>1

\* The head of the queue leaves.
LEMMA QueueReturns ==
    ASSUME TypeOK, QueueInv, NEW t \in Tasks, Holds(t), Returns(t)
    PROVE  QueueInv'
<1> USE QueueShape DEF QueueInv, Holds
<1>1. /\ lockq # <<>> /\ lockq[1] = t /\ Len(lockq') = Len(lockq) - 1
      /\ \A i \in 1 .. Len(lockq') : lockq'[i] = lockq[i + 1]
  BY DEF Returns
<1>2. pc \in [Tasks -> Critical \cup {"idle", "lock", "reply"}]
  BY DEF TypeOK
<1>3. pc'[t] = "reply" /\ \A u \in Tasks \ {t} : pc'[u] = pc[u] /\ req'[u] = req[u]
  BY <1>2 DEF Returns
<1>4. \A i, j \in 1 .. Len(lockq') : lockq'[i] = lockq'[j] => i = j
  <2> SUFFICES ASSUME NEW i \in 1 .. Len(lockq'), NEW j \in 1 .. Len(lockq'), lockq'[i] = lockq'[j]
               PROVE  i = j
    OBVIOUS
  <2>1. i + 1 \in 1 .. Len(lockq) /\ j + 1 \in 1 .. Len(lockq) /\ lockq[i + 1] = lockq[j + 1]
    BY <1>1
  <2> QED
    BY <2>1
<1>5. ~Queued(t)'
  BY <1>1 DEF Queued
<1>6. ASSUME NEW u \in Tasks, u # t
      PROVE  Queued(u)' <=> Queued(u)
  <2>1. ASSUME NEW i \in 1 .. Len(lockq), lockq[i] = u
        PROVE  i - 1 \in 1 .. Len(lockq') /\ lockq'[i - 1] = u
    BY <1>1, <1>6, <2>1
  <2>2. ASSUME NEW i \in 1 .. Len(lockq'), lockq'[i] = u
        PROVE  i + 1 \in 1 .. Len(lockq) /\ lockq[i + 1] = u
    BY <1>1, <2>2
  <2> QED
    BY <2>1, <2>2 DEF Queued
<1>7. \A u \in Tasks : pc'[u] \in Critical \cup {"lock"} <=> Queued(u)'
  BY <1>3, <1>5, <1>6 DEF Queued, Critical
<1> QED
  BY <1>3, <1>4, <1>7 DEF Queued

\* A task joins at the end.
LEMMA QueueJoins ==
    ASSUME TypeOK, QueueInv, NEW t \in Tasks, NEW c \in LockedCommands, Request(t, c)
    PROVE  QueueInv'
<1> USE QueueShape DEF QueueInv
<1>1. /\ Len(lockq') = Len(lockq) + 1 /\ lockq'[Len(lockq) + 1] = t
      /\ \A i \in 1 .. Len(lockq) : lockq'[i] = lockq[i]
  BY AppendProperties DEF TypeOK, Request
<1>2. /\ pc[t] = "idle" /\ pc'[t] = "lock" /\ req'[t] = c
      /\ \A u \in Tasks \ {t} : pc'[u] = pc[u] /\ req'[u] = req[u]
  BY DEF TypeOK, Request, Goto
<1>3. \A i \in 1 .. Len(lockq) : lockq[i] # t
  BY <1>2 DEF Critical
<1>4. \A i, j \in 1 .. Len(lockq') : lockq'[i] = lockq'[j] => i = j
  <2> SUFFICES ASSUME NEW i \in 1 .. Len(lockq'), NEW j \in 1 .. Len(lockq'), lockq'[i] = lockq'[j]
               PROVE  i = j
    OBVIOUS
  <2>1. (i = Len(lockq) + 1 \/ i \in 1 .. Len(lockq)) /\ (j = Len(lockq) + 1 \/ j \in 1 .. Len(lockq))
    BY <1>1
  <2> QED
    BY <1>1, <1>3, <2>1
<1>5. Queued(t)'
  BY <1>1 DEF Queued
<1>6. ASSUME NEW u \in Tasks, u # t
      PROVE  Queued(u)' <=> Queued(u)
  <2>1. ASSUME NEW i \in 1 .. Len(lockq), lockq[i] = u
        PROVE  i \in 1 .. Len(lockq') /\ lockq'[i] = u
    BY <1>1, <2>1
  <2>2. ASSUME NEW i \in 1 .. Len(lockq'), lockq'[i] = u
        PROVE  i \in 1 .. Len(lockq) /\ lockq[i] = u
    BY <1>1, <1>6, <2>2
  <2> QED
    BY <2>1, <2>2 DEF Queued
<1>7. \A u \in Tasks : pc'[u] \in Critical \cup {"lock"} <=> Queued(u)'
  BY <1>2, <1>5, <1>6 DEF Queued
<1> QED
  BY <1>2, <1>4, <1>7 DEF Queued

\* Nobody joins or leaves.
LEMMA QueueStays ==
    ASSUME QueueInv, lockq' = lockq,
           \A u \in Tasks :
               /\ pc'[u] \in Critical \cup {"lock"} <=> pc[u] \in Critical \cup {"lock"}
               /\ pc'[u] = "lock" => pc[u] = "lock" /\ req'[u] = req[u]
    PROVE  QueueInv'
BY DEF QueueInv

\* Ping, Close, WriteReply and Forward.
LEMMA QueueIgnores ==
    ASSUME TypeOK, NEW t \in Tasks, Ping(t) \/ Close(t) \/ WriteReply(t) \/ Forward(t)
    PROVE  /\ lockq' = lockq /\ req' = req /\ todo' = todo
           /\ pc[t] \in {"idle", "reply"} /\ pc'[t] \in {"idle", "reply"}
           /\ \A u \in Tasks \ {t} : pc'[u] = pc[u]
BY DEF TypeOK, Ping, Close, WriteReply, Forward, Goto, redirVars

LEMMA TaskQueueStep ==
    ASSUME NEW left, ServiceInv(left), QueueInv, NEW t \in Tasks,
           Client(t) \/ Progress(t) \/ Forward(t)
    PROVE  QueueInv'
<1>1. TypeOK
  BY DEF ServiceInv
<1>2. CASE \E c \in LockedCommands : Request(t, c)
  BY <1>1, <1>2, QueueJoins
<1>3. CASE Ping(t) \/ Close(t) \/ WriteReply(t) \/ Forward(t)
  BY <1>1, <1>3, QueueIgnores, QueueStays DEF Critical
<1>4. CASE GetStatus(t) \/ Subscribe(t) \/ ConnectStep(t) \/ DisconnectStep(t)
  <2>1. Holds(t) /\ (Returns(t) \/ GoesOn(t))
    BY <1>4, HolderMoves
  <2>2. CASE Returns(t)
    BY <1>1, <2>1, <2>2, QueueReturns
  <2>3. CASE GoesOn(t)
    <3>1. pc[t] \in Critical \cup {"lock"}
      BY <1>1, <2>1, QueueShape DEF QueueInv, Holds
    <3>2. /\ lockq' = lockq /\ req' = req /\ pc'[t] \in Critical
          /\ \A u \in Tasks \ {t} : pc'[u] = pc[u]
      BY <1>1, <2>3 DEF GoesOn, TypeOK
    <3> QED
      BY <3>1, <3>2, QueueStays DEF Critical
  <2> QED
    BY <2>1, <2>2, <2>3
<1> QED
  BY <1>2, <1>3, <1>4 DEF Client, Progress

LEMMA QuietQueueStep ==
    ASSUME QueueInv, Released \/ Rewritten \/ UNCHANGED vars
    PROVE  QueueInv'
<1>1. lockq' = lockq /\ pc' = pc /\ req' = req
  BY DEF Released, Rewritten, vars
<1> QED
  BY <1>1, QueueStays

-----------------------------------------------------------------------------
(* Theorems: what calls leave behind, and that they end *)

LEMMA InitIInv == Init => IInv
<1>1. Init => QueueInv
  BY EmptySeq DEF Init, QueueInv, Critical
<1> QED
  BY <1>1, InitServiceInv DEF IInv

LEMMA NextIInv == IInv /\ [Next]_vars => IInv'
BY TaskStep, EnvironmentStep, StutterStep, TaskQueueStep, QuietQueueStep DEF IInv, Next

\* IInv is an inductive invariant of the controller and its connection tasks.
THEOREM Invariance == Spec => []IInv
  BY InitIInv, NextIInv, PTL DEF Spec

\* What the head of the queue waits for: nothing.  These are the guards of its next step,
\* and a bound on how many steps it has; a call of the redirector never meets another.
HeadCanMove ==
    lockq # <<>> =>
        LET t == Head(lockq) IN
        /\ pc[t] \in Critical \cup {"lock"}
        /\ pc[t] = "lock" => req[t] \in LockedCommands
        /\ pc[t] \in {"lock", "start", "bind_tcp"} => call = "none"
        /\ pc[t] = "apply" => call = "apply"
        /\ pc[t] = "restore" => call = "restore"
        /\ StepsLeft(t) \in 1 .. Cardinality(Surfaces) + 5

\* A step of the head sends it off or brings it nearer to its end; no other step sets it
\* back or overtakes a waiter.
HeadGoesOn ==
    IF \E t \in Tasks : Holds(t) /\ Progress(t)
    THEN \/ lockq' = Tail(lockq)
         \/ lockq' = lockq /\ StepsLeft(Head(lockq))' < StepsLeft(Head(lockq))
    ELSE /\ lockq' = lockq \/ \E t \in Tasks : lockq' = Append(lockq, t)
         /\ lockq # <<>> => /\ Head(lockq') = Head(lockq)
                            /\ StepsLeft(Head(lockq))' = StepsLeft(Head(lockq))

LEMMA HeadIsReady == ASSUME NEW left, ServiceInv(left), QueueInv PROVE HeadCanMove
<1> SUFFICES ASSUME lockq # <<>>, NEW t, t = Head(lockq)
             PROVE  /\ pc[t] \in Critical \cup {"lock"}
                    /\ pc[t] = "lock" => req[t] \in LockedCommands
                    /\ pc[t] \in {"lock", "start", "bind_tcp"} => call = "none"
                    /\ pc[t] = "apply" => call = "apply"
                    /\ pc[t] = "restore" => call = "restore"
                    /\ StepsLeft(t) \in 1 .. Cardinality(Surfaces) + 5
  BY DEF HeadCanMove
<1>1. TypeOK /\ MutexInv /\ QueueInv /\ QuietInv
  BY DEF ServiceInv
<1>2. t \in Tasks /\ Holds(t) /\ pc[t] \in Critical \cup {"lock"}
  BY <1>1, QueueShape DEF Holds, QueueInv
<1>3. pc[t] = "lock" => req[t] \in LockedCommands
  BY <1>1, <1>2 DEF QueueInv
<1>4. pc[t] = "lock" => call = "none"
  BY <1>1, <1>2, Alone DEF QuietInv, InCall, Critical
<1>5. /\ pc[t] \in {"start", "bind_tcp"} => call = "none"
      /\ pc[t] = "apply" => call = "apply"
      /\ pc[t] = "restore" => call = "restore"
  BY <1>2 DEF ServiceInv, ConnectInv, DisconnectInv
<1>6. StepsLeft(t) \in 1 .. Cardinality(Surfaces) + 5
  <2>1. todo \in SUBSET Surfaces /\ Surfaces \ todo \in SUBSET Surfaces /\ Surfaces \in SUBSET Surfaces
    BY <1>1 DEF TypeOK, RedirTypeOK
  <2>2. \A S \in SUBSET Surfaces : Cardinality(S) \in Nat /\ Cardinality(S) <= Cardinality(Surfaces)
    BY SurfacesAssumption, FS_Subset, FS_CardinalityType
  <2>3. /\ Cardinality(todo) \in Nat /\ Cardinality(todo) <= Cardinality(Surfaces)
        /\ Cardinality(Surfaces \ todo) \in Nat
        /\ Cardinality(Surfaces \ todo) <= Cardinality(Surfaces)
        /\ Cardinality(Surfaces) \in Nat
    BY <2>1, <2>2
  <2>4. StepsLeft(t) \in {Cardinality(Surfaces) + 5, Cardinality(Surfaces) + 4,
           Cardinality(Surfaces) + 3, Cardinality(Surfaces \ todo) + 2, Cardinality(todo) + 2, 1}
    BY DEF StepsLeft
  <2> QED
    BY <2>3, <2>4
<1> QED
  BY <1>2, <1>3, <1>4, <1>5, <1>6

\* Nobody who waits for the controller is lost, and whoever holds it can go on: each task
\* that waits stands in the queue once, and the head is in no state without a next step.
THEOREM NobodyIsStuck == Spec => [](QueueInv /\ HeadCanMove)
<1>1. IInv => QueueInv /\ HeadCanMove
  BY HeadIsReady DEF IInv
<1> QED
  BY <1>1, Invariance, PTL

\* What is safety in Answered: calls end after at most so many steps, in the order in
\* which they came, whatever other connections, programs and the runtime do meanwhile.
THEOREM CallsEndInOrder == Spec => [][HeadGoesOn]_vars
<1>1. ASSUME IInv, Next
      PROVE  HeadGoesOn
  <2>1. TypeOK /\ MutexInv /\ QueueInv
    BY <1>1 DEF IInv, ServiceInv
  <2>2. CASE \E t \in Tasks : Holds(t) /\ Progress(t)
    <3>1. PICK t \in Tasks : Holds(t) /\ Progress(t)
      BY <2>2
    <3>2. pc[t] \in Critical \cup {"lock"} /\ t = Head(lockq)
      BY <2>1, <3>1, QueueShape DEF Holds, QueueInv
    <3>3. GetStatus(t) \/ Subscribe(t) \/ ConnectStep(t) \/ DisconnectStep(t)
      BY <3>1, <3>2 DEF Progress, WriteReply, Critical
    <3>4. Returns(t) \/ GoesOn(t)
      BY <1>1, <3>3, HolderMoves DEF IInv
    <3>5. lockq' = lockq => StepsLeft(Head(lockq))' = StepsLeft(t)'
      BY <3>2
    <3> QED
      BY <2>2, <3>2, <3>4, <3>5 DEF HeadGoesOn, Returns, GoesOn
  <2>3. CASE ~\E t \in Tasks : Holds(t) /\ Progress(t)
    <3> DEFINE h == Head(lockq)
    <3>1. lockq # <<>> => h \in Tasks /\ pc[h] \in Critical \cup {"lock"}
      BY <2>1, QueueShape DEF QueueInv
    <3>2. SUFFICES /\ lockq' = lockq \/ \E t \in Tasks : lockq' = Append(lockq, t)
                   /\ lockq # <<>> => Head(lockq') = h /\ pc'[h] = pc[h]
                   /\ todo' = todo
      BY <2>3 DEF HeadGoesOn, StepsLeft
    <3>3. ASSUME NEW t \in Tasks, NEW c \in LockedCommands, Request(t, c)
          PROVE  /\ lockq' = Append(lockq, t) /\ todo' = todo
                 /\ lockq # <<>> => Head(lockq') = h /\ pc'[h] = pc[h]
      BY <2>1, <3>1, <3>3, AppendProperties DEF Request, redirVars, TypeOK, Goto, Critical
    <3>4. ASSUME NEW t \in Tasks, Ping(t) \/ Close(t) \/ WriteReply(t) \/ Forward(t)
          PROVE  /\ lockq' = lockq /\ todo' = todo
                 /\ lockq # <<>> => Head(lockq') = h /\ pc'[h] = pc[h]
      BY <2>1, <3>1, <3>4, QueueIgnores DEF Critical
    <3>5. Released \/ Rewritten => lockq' = lockq /\ todo' = todo /\ pc' = pc
      BY DEF Released, Rewritten, External, redirVars
    <3>6. ASSUME NEW t \in Tasks, GetStatus(t) \/ Subscribe(t) \/ ConnectStep(t) \/ DisconnectStep(t)
          PROVE  FALSE
      BY <1>1, <2>3, <3>6, HolderMoves DEF IInv, Progress
    <3> QED
      BY <1>1, <3>3, <3>4, <3>5, <3>6 DEF Next, Client, Progress
  <2> QED
    BY <2>2, <2>3
<1>2. IInv /\ [Next]_vars => [HeadGoesOn]_vars
  BY <1>1
<1> QED
  BY <1>2, Invariance, PTL DEF Spec

\* Every variable keeps its type.
THEOREM TypeCorrectness == Spec => []TypeOK
<1>1. IInv => TypeOK
  BY DEF IInv, ServiceInv
<1> QED
  BY <1>1, Invariance, PTL

\* Between calls the status is truthful about proxy, sockets and redirect, with
\* any number of tasks and any faults of the redirector.
THEOREM StatusIsTruthful == Spec => []StatusTruthful
<1>1. IInv => StatusTruthful
  BY DEF IInv, ServiceInv
<1> QED
  BY <1>1, Invariance, PTL

\* The sockets stay bound as long as a surface is remembered or in work.
LEMMA KnownIsServed == ASSUME NEW left, ServiceInv(left) PROVE ServedWhileKnown
<1> SUFFICES ASSUME remembered \cup todo # {} PROVE sockets = Protocols
  BY DEF ServedWhileKnown
<1>1. CASE InCall
  <2>1. PICK t \in Tasks : pc[t] \in Critical
    BY <1>1 DEF InCall
  <2>2. ConnectInv(t) /\ DisconnectInv(t)
    BY DEF ServiceInv
  <2> QED
    BY <2>1, <2>2 DEF ConnectInv, DisconnectInv, Critical
<1>2. CASE ~InCall
  BY <1>2 DEF ServiceInv, QuietInv, StatusTruthful
<1> QED
  BY <1>1, <1>2

\* Whatever the redirector does, the proxy answers for the surfaces it knows of.
THEOREM ServedWhileKnownHolds == Spec => []ServedWhileKnown
<1>1. IInv => ServedWhileKnown
  BY KnownIsServed DEF IInv
<1> QED
  BY <1>1, Invariance, PTL

\* A faithful redirector leaves no surface behind.
THEOREM NoOrphanHolds == Spec => []NoOrphan
<1>1. IInv => NoOrphan
  BY DEF IInv, ServiceInv, NoOrphanBut, NoOrphan
<1> QED
  BY <1>1, Invariance, PTL

\* With a faithful redirector the system never points at a dead :53.
THEOREM NoDeadPortHolds == Spec => []NoDeadPort
<1>1. IInv => NoDeadPort
  <2>1. IInv => ServedWhileKnown /\ NoOrphan
    BY KnownIsServed DEF IInv, ServiceInv, NoOrphanBut, NoOrphan
  <2> QED
    BY <2>1 DEF NoOrphan, NoDeadPort, ServedWhileKnown
<1> QED
  BY <1>1, Invariance, PTL

-----------------------------------------------------------------------------
(* Steps that announce a status and steps that do not *)

Announces(t) ==
    \/ ConnectBegin(t) \/ StartFails(t) \/ BindTcpFails(t) \/ Unwind(t)
    \/ ConnectFinish(t) \/ DisconnectFinish(t)

\* A step of one connection that announces nothing and shows on no other.
Silent(t) ==
    /\ status' = status
    /\ subs' \ {t} = subs \ {t}
    /\ \A u \in Tasks \ {t} :
           pc'[u] = pc[u] /\ rx'[u] = rx[u] /\ out'[u] = out[u] /\ seen'[u] = seen[u]

\* A status is announced only when ConnLifecycle lets it follow the one before.
LEMMA Announcement ==
    ASSUME NEW left, ServiceInv(left), NEW t \in Tasks, Announces(t)
    PROVE  /\ \E s \in Statuses : Set(s) /\ Follows(status, s)
           /\ Lifecycle!Next
           /\ subs' = subs
           /\ pc'[t] = "reply" => out'[t] = status' /\ status'.state # "connecting"
           /\ \A u \in Tasks \ {t} : pc'[u] = pc[u] /\ out'[u] = out[u]
<1> USE DEF Follows, Connecting, Connected, ErrorStatus, Disconnected, StatusOf
<1>0. pc \in [Tasks -> Critical \cup {"idle", "lock", "reply"}] /\ out \in [Tasks -> Events]
      /\ status \in Statuses
  BY DEF ServiceInv, TypeOK
<1>1. CASE ConnectBegin(t)
  <2>1. req[t].upstream \in Upstreams /\ status.state \in {"disconnected", "error"}
    BY <1>0, <1>1, CommandFacts, StatusFacts DEF ServiceInv, ConnectBegin, Turn
  <2>2. Set(Connecting(req[t].upstream)) /\ Connecting(req[t].upstream) \in Statuses
    BY <1>1, <2>1, StatusFacts DEF ConnectBegin
  <2>3. Lifecycle!Begin(req[t].upstream)
    BY <2>1, <2>2 DEF Set, Lifecycle!Begin, Lifecycle!Connecting, Lifecycle!StatusOf
  <2> QED
    BY <1>0, <1>1, <2>1, <2>2, <2>3 DEF ConnectBegin, Goto, Lifecycle!Next
<1>2. CASE StartFails(t) \/ BindTcpFails(t) \/ Unwind(t)
  <2>1. PICK e \in ErrorCauses : Set(ErrorStatus(e)) /\ Return(t, status')
    BY <1>2 DEF StartFails, BindTcpFails, Unwind, ErrorCauses
  <2>2. status.state = "connecting" /\ subs' = subs
    BY <1>2, InsideConnect DEF StartFails, BindTcpFails, Unwind
  <2>3. Lifecycle!Fail(e) /\ e \in Lifecycle!ErrorCauses
    BY <2>1, <2>2 DEF Set, Lifecycle!Fail, Lifecycle!ErrorStatus, Lifecycle!StatusOf,
       Lifecycle!ErrorCauses, ErrorCauses
  <2> QED
    BY <1>0, <2>1, <2>2, <2>3, StatusFacts DEF Set, Return, Goto, Lifecycle!Next
<1>3. CASE ConnectFinish(t)
  <2>1. /\ status = Connecting(req[t].upstream) /\ req[t].upstream \in Upstreams
        /\ Set(Connected(req[t].upstream)) /\ Return(t, status') /\ subs' = subs
    BY <1>3, InsideConnect DEF ConnectFinish
  <2>2. Lifecycle!Succeed
    BY <2>1 DEF Set, Lifecycle!Succeed, Lifecycle!Connected, Lifecycle!StatusOf
  <2> QED
    BY <1>0, <2>1, <2>2, StatusFacts DEF Set, Return, Goto, Lifecycle!Next
<1>4. CASE DisconnectFinish(t)
  <2>1. /\ status.state # "connecting"
        /\ Set(Disconnected) /\ Return(t, status') /\ subs' = subs
    BY <1>4 DEF ServiceInv, DisconnectInv, DisconnectFinish
  <2>2. Lifecycle!Drop
    BY <2>1 DEF Set, Lifecycle!Drop, Lifecycle!Disconnected, Lifecycle!StatusOf
  <2> QED
    BY <1>0, <2>1, <2>2, StatusFacts DEF Set, Return, Goto, Lifecycle!Next
<1> QED
  BY <1>1, <1>2, <1>3, <1>4 DEF Announces

\* The steps that announce nothing.
Quietly(t) ==
    \/ (\E c \in LockedCommands : Request(t, c)) \/ Ping(t) \/ Close(t) \/ WriteReply(t)
    \/ Forward(t) \/ GetStatus(t) \/ Subscribe(t) \/ ConnectAlready(t)
    \/ BindUdp(t) \/ BindTcp(t) \/ ApplyPoint(t) \/ ApplyFails(t)
    \/ DisconnectBegin(t) \/ RestoreOne(t) \/ RestoreEnd(t)

LEMMA QuietOrAnnounces ==
    ASSUME NEW t \in Tasks, Client(t) \/ Progress(t) \/ Forward(t)
    PROVE  Announces(t) \/ Quietly(t)
BY DEF Client, Progress, ConnectStep, DisconnectStep, Announces, Quietly

\* Taking the head of a receiver leaves its last status last and no gap.
LEMMA TailFacts ==
    ASSUME NEW q \in Seq(Statuses), q # <<>>
    PROVE  /\ Tail(q) = <<>> => Head(q) = q[Len(q)]
           /\ Tail(q) # <<>> => Tail(q)[Len(Tail(q))] = q[Len(q)]
           /\ Unbroken(q) => Unbroken(Tail(q))
<1>1. Len(q) \in Nat \ {0} /\ Len(Tail(q)) = Len(q) - 1 /\ Head(q) = q[1]
      /\ \A i \in 1 .. Len(q) - 1 : Tail(q)[i] = q[i + 1]
  OBVIOUS
<1>2. Tail(q) = <<>> => Len(q) = 1
  BY <1>1
<1>3. Tail(q) # <<>> => Len(q) > 1
  BY <1>1
<1> QED
  BY <1>1, <1>2, <1>3 DEF Unbroken

\* A delivery leaves no gap if the status may follow the last one.
LEMMA DeliverUnbroken ==
    ASSUME NEW q \in Seq(Statuses), NEW s \in Statuses, Unbroken(q),
           q # <<>> => Follows(q[Len(q)], s)
    PROVE  Unbroken(Deliver(q, s))
<1> DEFINE kept == IF Len(q) < Capacity THEN q ELSE Tail(q)
<1>1. kept \in Seq(Statuses) /\ Unbroken(kept) /\ (kept # <<>> => Follows(kept[Len(kept)], s))
  BY CapacityAssumption, TailFacts
<1>2. Deliver(q, s) = Append(kept, s)
  BY DEF Deliver
<1> HIDE DEF kept
<1>3. /\ Len(Append(kept, s)) = Len(kept) + 1 /\ Append(kept, s)[Len(kept) + 1] = s
      /\ \A i \in 1 .. Len(kept) : Append(kept, s)[i] = kept[i]
      /\ Len(kept) \in Nat
  BY <1>1, AppendProperties
<1>4. ASSUME NEW i \in 1 .. Len(kept)
      PROVE  Follows(Append(kept, s)[i], Append(kept, s)[i + 1])
  <2>1. CASE i = Len(kept)
    BY <1>1, <1>3, <2>1
  <2>2. CASE i < Len(kept)
    BY <1>1, <1>3, <2>2 DEF Unbroken
  <2> QED
    BY <1>3, <2>1, <2>2
<1> QED
  BY <1>2, <1>3, <1>4 DEF Unbroken

-----------------------------------------------------------------------------
(* The invariant of replies and streams *)

StreamInv(left) == ServiceInv(left) /\ ReplyIsSettled /\ StreamCurrent /\ StreamOrdered

\* What a quiet step must show for the task that takes it.
LEMMA SilentStep ==
    ASSUME NEW left, StreamInv(left), ServiceInv(left)', NEW t \in Tasks, Silent(t),
           pc'[t] = "reply" => out'[t].state # "connecting",
           t \in subs' => LastSent(t)' = status' /\ Unbroken(rx'[t])
    PROVE  StreamInv(left)'
<1>1. ReplyIsSettled'
  BY DEF StreamInv, ReplyIsSettled, Silent
<1>2. ASSUME NEW u \in subs', u # t
      PROVE  LastSent(u)' = status' /\ Unbroken(rx'[u])
  <2>1. u \in Tasks /\ u \in subs
    BY <1>2 DEF ServiceInv, TypeOK, Silent
  <2>2. rx'[u] = rx[u] /\ pc'[u] = pc[u] /\ out'[u] = out[u] /\ seen'[u] = seen[u] /\ status' = status
    BY <1>2, <2>1 DEF Silent
  <2> QED
    BY <2>1, <2>2 DEF StreamInv, StreamCurrent, StreamOrdered, LastSent
<1>3. StreamCurrent' /\ StreamOrdered'
  BY <1>2 DEF StreamCurrent, StreamOrdered
<1> QED
  BY <1>1, <1>3 DEF StreamInv

\* An announcement reaches every subscriber.
LEMMA AnnounceStep ==
    ASSUME NEW left, StreamInv(left), ServiceInv(left)', NEW t \in Tasks, Announces(t)
    PROVE  StreamInv(left)'
<1>1. PICK s \in Statuses : Set(s) /\ Follows(status, s)
  BY Announcement DEF StreamInv
<1>2. /\ subs' = subs
      /\ pc'[t] = "reply" => out'[t] = status' /\ status'.state # "connecting"
      /\ \A u \in Tasks \ {t} : pc'[u] = pc[u] /\ out'[u] = out[u]
  BY Announcement DEF StreamInv
<1>3. ReplyIsSettled'
  BY <1>2 DEF StreamInv, ReplyIsSettled
<1>4. ASSUME NEW u \in subs'
      PROVE  LastSent(u)' = status' /\ Unbroken(rx'[u])
  <2>1. u \in subs /\ u \in Tasks /\ rx[u] \in Seq(Statuses)
    BY <1>2 DEF StreamInv, ServiceInv, TypeOK
  <2>2. rx'[u] = Deliver(rx[u], s) /\ status' = s
    BY <1>1, <2>1 DEF Set
  <2>3. rx[u] # <<>> => rx[u][Len(rx[u])] = status
    BY <2>1 DEF StreamInv, StreamCurrent, LastSent
  <2>4. Unbroken(rx'[u])
    BY <1>1, <2>1, <2>2, <2>3, DeliverUnbroken DEF StreamInv, StreamOrdered
  <2> QED
    BY <2>1, <2>2, <2>4, DeliverFacts DEF LastSent
<1>5. StreamCurrent' /\ StreamOrdered'
  BY <1>4 DEF StreamCurrent, StreamOrdered
<1> QED
  BY <1>3, <1>5 DEF StreamInv

-----------------------------------------------------------------------------
(* The quiet steps, by what they change *)

LEMMA StreamTypes ==
    ASSUME NEW left, StreamInv(left)
    PROVE  /\ pc \in [Tasks -> Critical \cup {"idle", "lock", "reply"}]
           /\ rx \in [Tasks -> Seq(Statuses)]
           /\ out \in [Tasks -> Events] /\ seen \in [Tasks -> Events]
           /\ subs \subseteq Tasks /\ status \in Statuses
BY DEF StreamInv, ServiceInv, TypeOK

\* Steps on the way to a reply: nothing is written or received.
LEMMA WorkingStep ==
    ASSUME NEW left, StreamInv(left), ServiceInv(left)', NEW t \in Tasks,
           \/ (\E c \in LockedCommands : Request(t, c))
           \/ BindUdp(t) \/ BindTcp(t) \/ ApplyPoint(t) \/ ApplyFails(t)
           \/ DisconnectBegin(t) \/ RestoreOne(t) \/ RestoreEnd(t)
    PROVE  StreamInv(left)'
<1>1. UNCHANGED <<status, subs, rx, out, seen>>
  BY DEF Request, BindUdp, BindTcp, ApplyPoint, ApplyFails, DisconnectBegin, RestoreOne,
     RestoreEnd, ipcVars
<1>2. \/ pc' = pc
      \/ \E l \in {"lock", "bind_tcp", "apply", "unwind", "restore", "stop"} :
             pc' = [pc EXCEPT ![t] = l]
  BY DEF Request, BindUdp, BindTcp, ApplyPoint, ApplyFails, DisconnectBegin, RestoreOne,
     RestoreEnd, Goto
<1>3. pc[t] # "reply"
  BY DEF Request, BindUdp, BindTcp, ApplyPoint, ApplyFails, DisconnectBegin, RestoreOne,
     RestoreEnd, Turn
<1>4. pc'[t] # "reply" /\ \A u \in Tasks \ {t} : pc'[u] = pc[u]
  BY <1>2, <1>3, StreamTypes
<1>5. Silent(t)
  BY <1>1, <1>4 DEF Silent
<1>6. t \in subs' => LastSent(t)' = status' /\ Unbroken(rx'[t])
  BY <1>1, <1>3, <1>4 DEF StreamInv, StreamCurrent, StreamOrdered, LastSent
<1> QED
  BY <1>4, <1>5, <1>6, SilentStep

\* The replies to GetStatus, Subscribe and a Connect that has nothing to do carry
\* the status, which is settled while the mutex is held.
LEMMA RepliedStep ==
    ASSUME NEW left, StreamInv(left), ServiceInv(left)', NEW t \in Tasks,
           GetStatus(t) \/ Subscribe(t) \/ ConnectAlready(t)
    PROVE  StreamInv(left)'
<1>1. status.state # "connecting"
  <2>1. ~InCall
    BY TurnIsQuiet DEF StreamInv, IInv, GetStatus, Subscribe, ConnectAlready
  <2> QED
    BY <2>1 DEF StreamInv, ServiceInv, StatusTruthful
<1>2. Return(t, status) /\ status' = status /\ seen' = seen
  BY DEF GetStatus, Subscribe, ConnectAlready
<1>3. /\ pc' = [pc EXCEPT ![t] = "reply"] /\ out' = [out EXCEPT ![t] = status]
      /\ pc'[t] = "reply" /\ out'[t] = status
      /\ \A u \in Tasks \ {t} : pc'[u] = pc[u] /\ out'[u] = out[u]
  BY <1>2, StreamTypes DEF Return, Goto
<1>4. status # Pong
  BY StreamTypes, StatusFacts
<1>5. CASE GetStatus(t) \/ ConnectAlready(t)
  <2>1. rx' = rx /\ subs' = subs /\ pc[t] = "lock"
    BY <1>5 DEF GetStatus, ConnectAlready, Turn
  <2>2. t \in subs' => LastSent(t)' = status' /\ Unbroken(rx'[t])
    BY <1>2, <1>3, <1>4, <2>1 DEF StreamInv, StreamCurrent, StreamOrdered, LastSent
  <2>3. Silent(t)
    BY <1>2, <1>3, <2>1 DEF Silent
  <2> QED
    BY <1>1, <1>3, <2>2, <2>3, SilentStep
<1>6. CASE Subscribe(t)
  <2>1. rx' = [rx EXCEPT ![t] = <<>>] /\ subs' = subs \cup {t}
    BY <1>6 DEF Subscribe
  <2>2. rx'[t] = <<>> /\ \A u \in Tasks \ {t} : rx'[u] = rx[u]
    BY <2>1, StreamTypes
  <2>3. LastSent(t)' = status'
    BY <1>2, <1>3, <1>4, <2>2 DEF LastSent
  <2>4. Unbroken(rx'[t])
    BY <2>2 DEF Unbroken
  <2>5. Silent(t)
    BY <1>2, <1>3, <2>1, <2>2 DEF Silent
  <2> QED
    BY <1>1, <1>3, <2>3, <2>4, <2>5, SilentStep
<1> QED
  BY <1>5, <1>6

\* What is written to the connection, and its end.
LEMMA WrittenStep ==
    ASSUME NEW left, StreamInv(left), ServiceInv(left)', NEW t \in Tasks,
           Ping(t) \/ WriteReply(t) \/ Forward(t) \/ Close(t)
    PROVE  StreamInv(left)'
<1> USE StreamTypes
<1>1. CASE Ping(t)
  <2>1. /\ pc[t] = "idle" /\ pc' = [pc EXCEPT ![t] = "reply"] /\ out' = [out EXCEPT ![t] = Pong]
        /\ UNCHANGED <<status, subs, rx, seen>>
    BY <1>1 DEF Ping, Goto
  <2>2. Silent(t) /\ out'[t] = Pong /\ Pong.state # "connecting"
    BY <2>1 DEF Silent, Pong, StatusOf
  <2>3. t \in subs' => LastSent(t)' = status' /\ Unbroken(rx'[t])
    BY <2>1, <2>2 DEF StreamInv, StreamCurrent, StreamOrdered, LastSent
  <2> QED
    BY <2>2, <2>3, SilentStep
<1>2. CASE WriteReply(t)
  <2>1. /\ pc[t] = "reply" /\ pc' = [pc EXCEPT ![t] = "idle"] /\ out' = [out EXCEPT ![t] = NoEvent]
        /\ seen' = IF t \in subs /\ out[t] # Pong THEN [seen EXCEPT ![t] = out[t]] ELSE seen
        /\ UNCHANGED <<status, subs, rx>>
    BY <1>2 DEF WriteReply, Goto
  <2>2. Silent(t) /\ pc'[t] = "idle"
    BY <2>1 DEF Silent
  <2>3. t \in subs' => LastSent(t)' = status' /\ Unbroken(rx'[t])
    BY <2>1, <2>2 DEF StreamInv, StreamCurrent, StreamOrdered, LastSent
  <2> QED
    BY <2>2, <2>3, SilentStep
<1>3. CASE Forward(t)
  <2>1. /\ pc[t] = "idle" /\ pc' = pc /\ t \in subs /\ rx[t] # <<>>
        /\ seen' = [seen EXCEPT ![t] = Head(rx[t])] /\ rx' = [rx EXCEPT ![t] = Tail(rx[t])]
        /\ UNCHANGED <<status, subs, out>>
    BY <1>3 DEF Forward
  <2>2. Silent(t)
    BY <2>1 DEF Silent
  <2>3. rx[t][Len(rx[t])] = status
    BY <2>1 DEF StreamInv, StreamCurrent, LastSent
  <2>4. rx'[t] = Tail(rx[t]) /\ seen'[t] = Head(rx[t]) /\ pc'[t] = "idle"
    BY <2>1
  <2>5. LastSent(t)' = status'
    BY <2>1, <2>3, <2>4, TailFacts DEF LastSent
  <2>6. Unbroken(rx'[t])
    BY <2>1, <2>4, TailFacts DEF StreamInv, StreamOrdered
  <2> QED
    BY <2>2, <2>4, <2>5, <2>6, SilentStep
<1>4. CASE Close(t)
  <2>1. /\ pc' = [pc EXCEPT ![t] = "idle"] /\ t \notin subs' /\ status' = status
        /\ subs' = subs \ {t} /\ rx' = [rx EXCEPT ![t] = <<>>]
        /\ out' = [out EXCEPT ![t] = NoEvent] /\ seen' = [seen EXCEPT ![t] = NoEvent]
    BY <1>4 DEF Close, Goto
  <2>2. Silent(t) /\ pc'[t] = "idle"
    BY <2>1 DEF Silent
  <2> QED
    BY <2>1, <2>2, SilentStep
<1> QED
  BY <1>1, <1>2, <1>3, <1>4

LEMMA QuietStep ==
    ASSUME NEW left, StreamInv(left), ServiceInv(left)', NEW t \in Tasks, Quietly(t)
    PROVE  StreamInv(left)'
BY WorkingStep, RepliedStep, WrittenStep DEF Quietly

-----------------------------------------------------------------------------
(* Theorems: what clients see *)

\* Whatever a connection does.
LEMMA TaskStreamStep ==
    ASSUME NEW left, StreamInv(left), NEW t \in Tasks, Client(t) \/ Progress(t) \/ Forward(t)
    PROVE  StreamInv(left)'
<1>1. ServiceInv(left)'
  BY TaskStep DEF StreamInv
<1> QED
  BY <1>1, QuietOrAnnounces, AnnounceStep, QuietStep

\* What no connection does shows on no connection.
LEMMA StreamStays ==
    ASSUME NEW left, StreamInv(left), ServiceInv(left)',
           UNCHANGED <<status, pc, subs, rx, out, seen>>
    PROVE  StreamInv(left)'
BY DEF StreamInv, ReplyIsSettled, StreamCurrent, StreamOrdered, LastSent

\* Another program changes a surface, or the runtime closes a socket.
LEMMA EnvironmentStreamStep ==
    ASSUME NEW left, StreamInv(left), Released \/ Rewritten
    PROVE  StreamInv(left)'
<1>1. ServiceInv(left)'
  BY EnvironmentStep DEF StreamInv
<1>2. UNCHANGED <<status, pc, subs, rx, out, seen>>
  BY DEF Released, Rewritten, ipcVars
<1> QED
  BY <1>1, <1>2, StreamStays

LEMMA NextStreamInv == StreamInv({}) /\ [Next]_vars => StreamInv({})'
<1>1. StreamInv({}) /\ Next => StreamInv({})'
  BY TaskStreamStep, EnvironmentStreamStep DEF Next
<1>2. StreamInv({}) /\ UNCHANGED vars => StreamInv({})'
  BY StutterStep, StreamStays DEF StreamInv, vars, ipcVars
<1> QED
  BY <1>1, <1>2

LEMMA InitStreamInv == ASSUME NEW left, Init PROVE StreamInv(left)
BY InitServiceInv DEF Init, StreamInv, ReplyIsSettled, StreamCurrent, StreamOrdered

THEOREM StreamInvariance == Spec => []StreamInv({})
<1>1. Init => StreamInv({})
  BY InitStreamInv
<1> QED
  BY <1>1, NextStreamInv, PTL DEF Spec

\* No client is ever told Connecting in reply to a command.
THEOREM RepliesAreSettled == Spec => []ReplyIsSettled
<1>1. StreamInv({}) => ReplyIsSettled
  BY DEF StreamInv
<1> QED
  BY <1>1, StreamInvariance, PTL

\* Subscribers do not miss the current status, whatever the capacity of the
\* broadcast, the number of subscribers and the commands they send.
THEOREM StreamsAreCurrent == Spec => []StreamCurrent
<1>1. StreamInv({}) => StreamCurrent
  BY DEF StreamInv
<1> QED
  BY <1>1, StreamInvariance, PTL

\* A receiver holds an unbroken stretch of the status history.
THEOREM StreamsAreOrdered == Spec => []StreamOrdered
<1>1. StreamInv({}) => StreamOrdered
  BY DEF StreamInv
<1> QED
  BY <1>1, StreamInvariance, PTL

\* A step of a connection changes the status as ConnLifecycle allows, or not at all.
LEMMA TaskLifecycleStep ==
    ASSUME NEW left, ServiceInv(left), NEW t \in Tasks, Client(t) \/ Progress(t) \/ Forward(t)
    PROVE  [Lifecycle!Next]_status
<1>1. Quietly(t) => status' = status
  BY DEF Quietly, Request, Ping, Close, WriteReply, Forward, GetStatus, Subscribe,
     ConnectAlready, BindUdp, BindTcp, ApplyPoint, ApplyFails, DisconnectBegin, RestoreOne,
     RestoreEnd
<1> QED
  BY <1>1, QuietOrAnnounces, Announcement

LEMMA NextImplementsLifecycle == IInv /\ [Next]_vars => [Lifecycle!Next]_status
<1>1. Released \/ Rewritten \/ UNCHANGED vars => status' = status
  BY DEF Released, Rewritten, vars
<1> QED
  BY <1>1, TaskLifecycleStep DEF IInv, Next

\* The controller implements the connection lifecycle: its status, seen alone,
\* behaves as ConnLifecycle says.
THEOREM ImplementsLifecycle == Spec => LifecycleSpec
<1>1. Init => Lifecycle!Init
  BY DEF Init, Lifecycle!Init, Disconnected, StatusOf, Lifecycle!Disconnected, Lifecycle!StatusOf
<1> QED
  BY <1>1, Invariance, NextImplementsLifecycle, PTL DEF Spec, LifecycleSpec, Lifecycle!Spec

=============================================================================
