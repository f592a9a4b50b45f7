---- MODULE ServicesProofs ----
(***************************************************************************)
(* Proofs about Services, for any number of processes and command lines:    *)
(* whom the system is redirected to, who holds the socket file, and what an *)
(* exit code tells.                                                         *)
(***************************************************************************)
EXTENDS Services, TLAPS

\* TypeOK, with its truth values apart from the rest.
FlagsOK == foreign \in BOOLEAN /\ rival \in BOOLEAN /\ leftover \in BOOLEAN

Phases == Dead \cup {"ready", "prepared", "serving", "stopping", "leaving"}

RunSet ==
    [at : {"idle", "called", "sent", "answered", "done"},
     cmd : Commands \cup {CommandOf("none", NoSel)},
     to : Procs \cup {Nobody},
     reply : Events,
     was : BOOLEAN,
     exit : {"none", "success", "failure"}]

DataOK ==
    /\ phase \in [Procs -> Phases]
    /\ ca \in [Procs -> ExtraCas \cup {NoCa}]
    /\ path \in Procs \cup {Stale, Nobody}
    /\ status \in [Procs -> Statuses]
    /\ redirected \in Procs \cup {Orphan, Nobody}
    /\ alone \in SUBSET Runs

RunsOK == run \in [Runs -> RunSet]

Serving(p) == phase[p] \in {"serving", "stopping", "leaving"}
InUse(p) == status[p].state = "connected"

\* The redirection belongs to the one service that is connected; one that is connected
\* while it leaves has taken a connect after its last disconnect.
RedirectionInv ==
    /\ \A p \in Procs : InUse(p) => redirected = p /\ Serving(p)
    /\ redirected \in Procs => InUse(redirected)
    /\ redirected = Orphan => leftover
    /\ \A p \in Procs : InUse(p) /\ phase[p] = "leaving" => leftover

\* The socket file leads to a service that serves; without a rival there is no other
\* service that could have removed it or put it there.
SocketInv ==
    /\ path \in Procs => phase[path] = "serving"
    /\ ~rival => \A p \in Procs :
           /\ \A q \in Procs : Alive(p) /\ Alive(q) => p = q
           /\ phase[p] = "prepared" => path = Nobody
           /\ phase[p] = "serving" => path = p

\* What a run is told, between the answer and the next that happens.
Told(r) ==
    /\ run[r].cmd.cmd = "connect"
           /\ (run[r].exit = "success" \/ (run[r].at = "answered" /\ run[r].reply.state = "connected"))
       => /\ redirected = run[r].to
          /\ run[r].was \/ status[run[r].to].upstream = Label(run[r].cmd.upstream)
    /\ run[r].cmd.cmd = "disconnect" /\ (run[r].exit = "success" \/ run[r].at = "answered")
       => redirected = Nobody \/ rival \/ leftover

RunInv ==
    /\ \A r \in Runs :
           /\ run[r].at = "sent" /\ run[r].to # Nobody => Serving(run[r].to)
           /\ run[r].exit # "none" => run[r].at = "done"
           /\ run[r].at = "answered" => run[r].to \in Procs
    /\ \A r \in alone : Told(r)

ServicesInv == TypeOK /\ RedirectionInv /\ SocketInv /\ RunInv

-----------------------------------------------------------------------------
USE ProcsAssumption DEF ProcsAssumption

LEMMA TypeParts == (TypeOK <=> FlagsOK /\ DataOK /\ RunsOK) /\ (TypeOK' <=> FlagsOK' /\ DataOK' /\ RunsOK')
  BY DEF TypeOK, FlagsOK, DataOK, RunsOK, Phases, RunSet

\* The statuses that a service may take, and what they say.
LEMMA StatusFacts ==
  /\ Disconnected \in Statuses /\ Disconnected.state # "connected"
  /\ \A e \in ErrorCauses : ErrorStatus(e) \in Statuses /\ ErrorStatus(e).state # "connected"
  /\ \A u \in Upstreams : Connected(u) \in Statuses
  /\ \A u : Connected(u).state = "connected" /\ Connected(u).upstream = u
  BY DEF Statuses, Disconnected, ErrorStatus, Connected, StatusOf

LEMMA EventFacts == Statuses \subseteq Events /\ Pong \in Events /\ NoEvent \in Events /\ Pong.state # "connected"
  BY DEF Events, Pong, StatusOf

LEMMA ServicesInit == Init => ServicesInv
  <1> SUFFICES ASSUME Init PROVE ServicesInv
    OBVIOUS
  <1>1. FlagsOK
    BY DEF Init, FlagsOK
  <1>2. DataOK
    BY StatusFacts DEF Init, DataOK, Phases, Dead, Nobody, Stale
  <1>3. RunsOK
    <2>1. NoRun \in RunSet
      BY EventFacts DEF NoRun, RunOf, RunSet
    <2>2. QED
      BY <2>1 DEF Init, RunsOK
  <1>4. RedirectionInv
    BY StatusFacts DEF Init, RedirectionInv, InUse, Nobody, Orphan
  <1>5. SocketInv
    BY DEF Init, SocketInv, Alive, Dead, Nobody, Stale
  <1>6. RunInv
    BY DEF Init, RunInv, NoRun, RunOf
  <1>7. QED
    BY <1>1, <1>2, <1>3, <1>4, <1>5, <1>6, TypeParts DEF ServicesInv

-----------------------------------------------------------------------------
(* The steps of a command line that change nothing of the services *)

\* A connect that succeeds shows an upstream that a status may name.
LEMMA ConnectLabel ==
  ASSUME NEW cmd \in Commands \cup {CommandOf("none", NoSel)}, cmd.cmd = "connect"
  PROVE  Label(cmd.upstream) \in Upstreams
  <1>1. cmd # CommandOf("none", NoSel)
    BY DEF CommandOf
  <1>2. QED
    BY <1>1, LinesAssumption DEF LinesAssumption

LEMMA ClientStep ==
  ASSUME ServicesInv, NEW r \in Runs,
         \/ Reach(r) \/ Unreachable(r) \/ Unanswered(r) \/ Finish(r)
         \/ \E words \in Lines : Invoke(r, words)
  PROVE  ServicesInv'
  <1> USE DEF ServicesInv
  <1>0. UNCHANGED <<procVars, netVars>> /\ (UNCHANGED alone \/ alone' \in SUBSET Runs)
    BY DEF Reach, Unreachable, Unanswered, Finish, Invoke
  <1>1. FlagsOK' /\ DataOK'
    BY <1>0, TypeParts DEF FlagsOK, DataOK, procVars, netVars
  <1>2. RedirectionInv' /\ SocketInv'
    BY <1>0 DEF RedirectionInv, SocketInv, InUse, Serving, Alive, procVars, netVars
  <1>3. RunsOK /\ run \in [Runs -> RunSet]
    BY TypeParts DEF RunsOK
  <1>4. CASE Reach(r)
    <2>1. run' = [run EXCEPT ![r] = [run[r] EXCEPT !.at = "sent", !.to = path]] /\ path \in Procs /\ UNCHANGED alone
          /\ run[r].at = "called"
      BY <1>4 DEF Reach
    <2>2. RunsOK'
      BY <1>3, <2>1 DEF RunsOK, RunSet
    <2>3. RunInv'
      BY <1>0, <1>3, <2>1 DEF RunInv, RunSet, Told, SocketInv, Serving, procVars, netVars
    <2>4. QED
      BY <1>1, <1>2, <2>2, <2>3, TypeParts
  <1>5. CASE Unreachable(r) \/ Unanswered(r)
    <2>1. /\ run' = [run EXCEPT ![r] = [run[r] EXCEPT !.at = "done", !.exit = "failure", !.reply = NoEvent]]
          /\ UNCHANGED alone
      BY <1>5 DEF Unreachable, Unanswered, Done
    <2>2. RunsOK'
      BY <1>3, <2>1, EventFacts DEF RunsOK, RunSet
    <2>3. RunInv'
      BY <1>0, <1>3, <2>1 DEF RunInv, RunSet, Told, Serving, procVars, netVars
    <2>4. QED
      BY <1>1, <1>2, <2>2, <2>3, TypeParts
  <1>6. CASE Finish(r)
    <2>1. PICK exit \in {"success", "failure"} :
            /\ run' = [run EXCEPT ![r] = [run[r] EXCEPT !.at = "done", !.exit = exit, !.reply = NoEvent]]
            /\ run[r].cmd.cmd = "connect" /\ exit = "success" => run[r].reply.state = "connected"
            /\ run[r].at = "answered"
            /\ UNCHANGED alone
      BY <1>6 DEF Finish, Done
    <2>2. RunsOK'
      BY <1>3, <2>1, EventFacts DEF RunsOK, RunSet
    <2>3. RunInv'
      BY <1>0, <1>3, <2>1 DEF RunInv, RunSet, Told, Serving, procVars, netVars
    <2>4. QED
      BY <1>1, <1>2, <2>2, <2>3, TypeParts
  <1>7. CASE \E words \in Lines : Invoke(r, words)
    <2>1. PICK words \in Lines : Invoke(r, words)
      BY <1>7
    <2> DEFINE cmd == ParseLine(words)
               at == IF cmd \in {Help, Invalid} THEN "done" ELSE "called"
               exit == CASE cmd = Help -> "success" [] cmd = Invalid -> "failure" [] OTHER -> "none"
    <2>2. /\ run' = [run EXCEPT ![r] = RunOf(at, cmd, Nobody, NoEvent, FALSE, exit)]
          /\ alone' \in {{}, {r}}
      BY <2>1 DEF Invoke
    <2>a. /\ at \in {"done", "called"} /\ exit \in {"none", "success", "failure"}
          /\ exit # "none" => at = "done" /\ cmd \in {Help, Invalid}
      BY Zenon DEF Help, Invalid
    <2>b. cmd \in Commands
      BY DEF Commands
    <2> HIDE DEF cmd, at, exit
    <2>3. RunOf(at, cmd, Nobody, NoEvent, FALSE, exit) \in RunSet
      BY EventFacts, <2>a, <2>b DEF RunOf, RunSet, Commands
    <2>4. RunsOK'
      BY <1>3, <2>2, <2>3 DEF RunsOK
    <2>5. RunInv'
      BY <1>0, <1>3, <2>2, <2>a DEF RunInv, RunOf, Told, Serving, Help, Invalid, CommandOf, procVars, netVars
    <2>6. QED
      BY <1>1, <1>2, <2>4, <2>5, TypeParts
  <1>8. QED
    BY <1>4, <1>5, <1>6, <1>7

-----------------------------------------------------------------------------
(* The life of a service *)

\* Steps of a service that neither end it nor reach the settings of the system.
LEMMA LifeStep ==
  ASSUME ServicesInv, NEW p \in Procs,
         Start(p) \/ Prepare(p) \/ (Listen(p) /\ path = Nobody) \/ Shutdown(p)
  PROVE  ServicesInv'
  <1> USE DEF ServicesInv
  <1>0. FlagsOK /\ DataOK /\ RunsOK
    BY TypeParts
  <1>a. Nobody \notin Procs /\ Stale \notin Procs
    OBVIOUS
  <1>1. CASE Start(p)
    <2>0. /\ phase' = [phase EXCEPT ![p] = "ready"] /\ ~Alive(p)
          /\ status' = [status EXCEPT ![p] = Disconnected]
          /\ rival' = \E q \in Procs : Alive(q)
          /\ alone' = {}
          /\ UNCHANGED <<path, redirected, foreign, leftover, run>>
      BY <1>1 DEF Start, Disturb
    <2>1. FlagsOK'
      BY <1>0, <2>0 DEF FlagsOK
    <2>2. DataOK'
      <3>1. ca' \in [Procs -> ExtraCas \cup {NoCa}]
        BY <1>0, <1>1 DEF Start, DataOK
      <3>2. QED
        BY <1>0, <2>0, <3>1, StatusFacts DEF DataOK, Phases
    <2>3. RunsOK'
      BY <1>0, <2>0 DEF RunsOK
    <2>4. RedirectionInv'
      BY <1>0, <2>0, StatusFacts DEF RedirectionInv, InUse, Serving, Alive, Dead, DataOK
    <2>5. SocketInv'
      BY <1>0, <2>0 DEF SocketInv, Alive, Dead, DataOK
    <2>6. RunInv'
      BY <1>0, <2>0 DEF RunInv, Serving, Alive, Dead, DataOK
    <2>7. QED
      BY <2>1, <2>2, <2>3, <2>4, <2>5, <2>6, TypeParts
  <1>2. CASE Prepare(p) \/ (Listen(p) /\ path = Nobody) \/ Shutdown(p)
    <2>0. /\ \/ phase[p] = "ready" /\ phase' = [phase EXCEPT ![p] = "prepared"] /\ path' = Nobody
             \/ phase[p] = "prepared" /\ phase' = [phase EXCEPT ![p] = "serving"] /\ path' = p
             \/ /\ phase[p] \in {"ready", "serving"} /\ phase' = [phase EXCEPT ![p] = "stopping"]
                /\ path' = IF phase[p] = "serving" THEN Nobody ELSE path
          /\ alone' = {}
          /\ UNCHANGED <<ca, rival, netVars, run>>
      BY <1>2 DEF Prepare, Listen, Shutdown, Disturb
    <2>1. FlagsOK'
      BY <1>0, <2>0 DEF FlagsOK, netVars
    <2>2. DataOK'
      BY <1>0, <2>0 DEF DataOK, Phases, netVars
    <2>3. RunsOK'
      BY <1>0, <2>0 DEF RunsOK
    <2>4. RedirectionInv'
      BY <1>0, <2>0 DEF RedirectionInv, InUse, Serving, DataOK, netVars
    <2>5. SocketInv'
      BY <1>0, <1>a, <2>0 DEF SocketInv, Alive, Dead, DataOK, netVars
    <2>6. RunInv'
      BY <1>0, <2>0 DEF RunInv, Serving, DataOK, RunsOK, RunSet, netVars
    <2>7. QED
      BY <2>1, <2>2, <2>3, <2>4, <2>5, <2>6, TypeParts
  <1>3. QED
    BY <1>1, <1>2

\* Controller::disconnect, for a shutdown or for a command.
LEMMA DisconnectFacts ==
  ASSUME ServicesInv, NEW p \in Procs, Disconnect(p)
  PROVE  /\ status' = [status EXCEPT ![p] = Disconnected]
         /\ redirected' \in Procs \cup {Orphan, Nobody} /\ leftover' \in BOOLEAN
         /\ ~InUse(p)'
         /\ redirected = p => redirected' \in {Orphan, Nobody}
         /\ redirected # p => redirected' = redirected
         /\ redirected' = Orphan => leftover'
         /\ \A q \in Procs \ {p} : InUse(q)' => UNCHANGED <<redirected, leftover>>
         /\ UNCHANGED foreign
  <1>1. FlagsOK /\ DataOK /\ RedirectionInv
    BY TypeParts DEF ServicesInv
  <1>2. status' = [status EXCEPT ![p] = Disconnected] /\ UNCHANGED foreign
    BY DEF Disconnect
  <1>3. ~InUse(p)'
    BY <1>1, <1>2, StatusFacts DEF InUse, DataOK
  <1>4. \A q \in Procs \ {p} : InUse(q)' => InUse(q)
    BY <1>1, <1>2 DEF InUse, DataOK
  <1>5. CASE redirected = p
    <2>1. (redirected' = Nobody /\ leftover' = FALSE) \/ (redirected' = Orphan /\ leftover' = TRUE)
      BY <1>5 DEF Disconnect
    <2>2. \A q \in Procs \ {p} : ~InUse(q)'
      BY <1>1, <1>4, <1>5 DEF RedirectionInv
    <2>3. leftover' \in BOOLEAN /\ redirected' \in {Orphan, Nobody}
      BY <1>1, <2>1 DEF FlagsOK
    <2>4. redirected' = Orphan => leftover'
      BY <2>1 DEF Orphan, Nobody
    <2>5. QED
      BY <1>2, <1>3, <1>5, <2>2, <2>3, <2>4
  <1>6. CASE redirected # p
    <2>1. UNCHANGED <<redirected, leftover>>
      BY <1>6 DEF Disconnect
    <2>2. QED
      BY <1>1, <1>2, <1>3, <1>4, <1>6, <2>1 DEF RedirectionInv, FlagsOK, DataOK
  <1>7. QED
    BY <1>5, <1>6

LEMMA StopStep ==
  ASSUME ServicesInv, NEW p \in Procs, StopDisconnect(p)
  PROVE  ServicesInv'
  <1> USE DEF ServicesInv
  <1>0. FlagsOK /\ DataOK /\ RunsOK
    BY TypeParts
  <1>1. /\ phase[p] = "stopping" /\ phase' = [phase EXCEPT ![p] = "leaving"]
        /\ alone' = {} /\ UNCHANGED <<ca, path, rival, run>>
        /\ Disconnect(p)
    BY DEF StopDisconnect, Disturb
  <1>2. FlagsOK'
    BY <1>0, <1>1, DisconnectFacts DEF FlagsOK
  <1>3. DataOK'
    BY <1>0, <1>1, DisconnectFacts, StatusFacts DEF DataOK, Phases
  <1>4. RunsOK'
    BY <1>0, <1>1 DEF RunsOK
  <1>5. RedirectionInv'
    <2>1. \A q \in Procs \ {p} : InUse(q)' = InUse(q)
      BY <1>0, <1>1, DisconnectFacts DEF InUse, DataOK
    <2>2. QED
      BY <1>0, <1>1, <2>1, DisconnectFacts DEF RedirectionInv, Serving, DataOK
  <1>6. SocketInv'
    BY <1>0, <1>1 DEF SocketInv, Alive, Dead, DataOK
  <1>7. RunInv'
    BY <1>0, <1>1 DEF RunInv, Serving, DataOK
  <1>8. QED
    BY <1>2, <1>3, <1>4, <1>5, <1>6, <1>7, TypeParts

\* The three ways in which a process ends: its listener cannot be created, it exits, it
\* is killed.
LEMMA EndStep ==
  ASSUME ServicesInv, NEW p \in Procs,
         (Listen(p) /\ path # Nobody) \/ Exit(p) \/ Kill(p)
  PROVE  ServicesInv'
  <1> USE DEF ServicesInv
  <1>0. FlagsOK /\ DataOK /\ RunsOK
    BY TypeParts
  <1>1. PICK next \in Dead : Ends(p, next)
    BY DEF Listen, Exit, Kill, Dead
  <1>2. /\ phase' = [phase EXCEPT ![p] = next]
        /\ ca' = [ca EXCEPT ![p] = NoCa]
        /\ status' = [status EXCEPT ![p] = Disconnected]
        /\ alone' = {}
        /\ UNCHANGED <<rival, foreign>>
    BY <1>1 DEF Ends, Disturb
  <1>3. /\ run' \in [Runs -> RunSet]
        /\ \A r \in Runs :
              /\ run'[r].to # run[r].to => run'[r].to = Nobody /\ run'[r].at = "sent"
              /\ run'[r].at = "sent" => run'[r].to # p
              /\ run'[r].exit = run[r].exit /\ run'[r].at = run[r].at
    <2>1. run' = [r \in Runs |-> IF run[r].at = "sent" /\ run[r].to = p
                                 THEN [run[r] EXCEPT !.to = Nobody] ELSE run[r]]
      BY <1>1 DEF Ends
    <2>2. QED
      BY <1>0, <2>1 DEF RunsOK, RunSet
  <1>4. /\ redirected' \in Procs \cup {Orphan, Nobody} /\ leftover' \in BOOLEAN
        /\ redirected' = Orphan => leftover'
        /\ redirected' # p
        /\ \A q \in Procs \ {p} : InUse(q) \/ redirected' = q => redirected' = redirected
        /\ leftover => leftover'
    <2>1. CASE Listen(p) /\ path # Nobody
      <3>1. phase[p] = "prepared" /\ UNCHANGED <<redirected, leftover>>
        BY <2>1 DEF Listen
      <3>2. redirected # p
        BY <3>1 DEF RedirectionInv, Serving
      <3>3. QED
        BY <1>0, <3>1, <3>2 DEF RedirectionInv, DataOK, FlagsOK
    <2>2. CASE Exit(p)
      <3>1. phase[p] = "leaving" /\ UNCHANGED leftover /\ redirected' = IF redirected = p THEN Orphan ELSE redirected
        BY <2>2 DEF Exit, Orphaned
      <3>2. QED
        BY <1>0, <3>1 DEF RedirectionInv, DataOK, FlagsOK
    <2>3. CASE Kill(p)
      <3>1. leftover' = (leftover \/ redirected' = Orphan)
        BY <2>3 DEF Kill
      <3>2. \/ redirected' = IF redirected = p THEN Orphan ELSE redirected
            \/ redirected' = Orphan /\ \A q \in Procs \ {p} : ~InUse(q)
        BY <2>3 DEF Kill, Orphaned, InUse
      <3>3. QED
        BY <1>0, <3>1, <3>2 DEF RedirectionInv, DataOK, FlagsOK
    <2>4. QED
      BY <2>1, <2>2, <2>3
  <1>5. /\ path' \in Procs \cup {Stale, Nobody}
        /\ path' # p \/ phase[p] = "prepared"
        /\ path' = path \/ (path = p /\ path' = Stale)
    BY <1>0 DEF Listen, Exit, Kill, DataOK, SocketInv
  <1>6. FlagsOK' /\ DataOK' /\ RunsOK'
    BY <1>0, <1>2, <1>3, <1>4, <1>5, StatusFacts DEF FlagsOK, DataOK, RunsOK, Phases
  <1>7. RedirectionInv'
    <2>1. /\ \A q \in Procs \ {p} : InUse(q)' = InUse(q) /\ phase'[q] = phase[q]
          /\ ~InUse(p)'
      BY <1>0, <1>2, StatusFacts DEF InUse, DataOK
    <2>2. QED
      BY <1>0, <1>2, <1>4, <2>1 DEF RedirectionInv, Serving, DataOK
  <1>8. SocketInv'
    <2>1. path = p => phase[p] = "serving"
      BY DEF SocketInv
    <2>2. QED
      BY <1>0, <1>2, <1>5, <2>1 DEF SocketInv, Alive, Dead, DataOK
  <1>9. RunInv'
    BY <1>0, <1>2, <1>3 DEF RunInv, Serving, DataOK, RunsOK, RunSet
  <1>10. QED
    BY <1>6, <1>7, <1>8, <1>9, TypeParts

-----------------------------------------------------------------------------
(* A service serves a command *)

\* Controller::connect, as far as the redirection goes.
LEMMA ConnectFacts ==
  ASSUME ServicesInv, NEW p \in Procs, Serving(p),
         NEW sel, Label(sel) \in Upstreams, Connect(p, sel)
  PROVE  /\ status' \in [Procs -> Statuses]
         /\ redirected' \in Procs \cup {Orphan, Nobody} /\ leftover' \in BOOLEAN
         /\ UNCHANGED foreign
         /\ \A q \in Procs : InUse(q)' => redirected' = q /\ Serving(q)
         /\ redirected' \in Procs => InUse(redirected)'
         /\ redirected' = Orphan => leftover'
         /\ \A q \in Procs : InUse(q)' /\ phase[q] = "leaving" => leftover'
         /\ InUse(p)' => redirected' = p /\ (InUse(p) \/ status'[p].upstream = Label(sel))
  <1>1. FlagsOK /\ DataOK /\ RedirectionInv
    BY TypeParts DEF ServicesInv
  <1>2. UNCHANGED foreign
    BY DEF Connect
  <1>3. CASE InUse(p)
    <2>1. UNCHANGED <<status, redirected, leftover>>
      BY <1>3 DEF Connect, InUse
    <2>2. \A q \in Procs : InUse(q)' = InUse(q)
      BY <2>1 DEF InUse
    <2>3. leftover \in BOOLEAN
      BY <1>1 DEF FlagsOK
    <2>4. QED
      BY <1>1, <1>2, <1>3, <2>1, <2>2, <2>3 DEF RedirectionInv, DataOK
  <1>4. CASE /\ ~InUse(p)
             /\ PortIsFree(p)
             /\ status' = [status EXCEPT ![p] = Connected(Label(sel))]
             /\ redirected' = p
             /\ leftover' = TRUE \/ leftover' = (leftover \/ phase[p] = "leaving")
    <2>1. status' \in [Procs -> Statuses] /\ InUse(p)' /\ status'[p].upstream = Label(sel)
      BY <1>1, <1>4, StatusFacts DEF DataOK, InUse
    <2>2. \A q \in Procs \ {p} : ~InUse(q)'
      BY <1>1, <1>4 DEF PortIsFree, InUse, DataOK
    <2>3. leftover' \in BOOLEAN /\ (phase[p] = "leaving" => leftover')
      BY <1>1, <1>4 DEF FlagsOK
    <2>4. QED
      BY <1>2, <1>4, <2>1, <2>2, <2>3
  <1>5. CASE /\ ~InUse(p)
             /\ \E e \in ErrorCauses : status' = [status EXCEPT ![p] = ErrorStatus(e)]
             /\ \/ PortIsFree(p) /\ redirected' = Orphan /\ leftover' = TRUE
                \/ UNCHANGED <<redirected, leftover>>
    <2>1. status' \in [Procs -> Statuses] /\ ~InUse(p)'
      BY <1>1, <1>5, StatusFacts DEF DataOK, InUse
    <2>2. \A q \in Procs \ {p} : InUse(q)' = InUse(q)
      BY <1>1, <1>5 DEF DataOK, InUse
    <2>3. leftover' \in BOOLEAN
      BY <1>1, <1>5 DEF FlagsOK
    <2>4. redirected # p
      BY <1>5 DEF RedirectionInv, ServicesInv
    <2>5. CASE PortIsFree(p) /\ redirected' = Orphan /\ leftover' = TRUE
      <3>1. \A q \in Procs : ~InUse(q)'
        BY <2>1, <2>2, <2>5 DEF PortIsFree, InUse
      <3>2. QED
        BY <1>2, <2>1, <2>5, <3>1
    <2>6. CASE UNCHANGED <<redirected, leftover>>
      BY <1>1, <1>2, <2>1, <2>2, <2>3, <2>4, <2>6 DEF RedirectionInv, DataOK
    <2>7. QED
      BY <1>5, <2>5, <2>6
  <1>6. QED
    <2>1. CASE InUse(p)
      BY <1>3, <2>1
    <2>2. CASE ~InUse(p)
      BY <1>4, <1>5, <2>2 DEF Connect, InUse, ErrorCauses, Leak
    <2>3. QED
      BY <2>1, <2>2

\* What a served command leaves behind, whichever it is.
Served(r, p, cmd, event) ==
    /\ event \in Events
    /\ run' = [run EXCEPT ![r] = [run[r] EXCEPT !.at = "answered", !.reply = event,
                                              !.was = InUse(p)]]
    /\ status' \in [Procs -> Statuses]
    /\ redirected' \in Procs \cup {Orphan, Nobody}
    /\ leftover' \in BOOLEAN /\ foreign' \in BOOLEAN
    /\ \A q \in Procs : InUse(q)' => redirected' = q /\ Serving(q)
    /\ redirected' \in Procs => InUse(redirected)'
    /\ redirected' = Orphan => leftover'
    /\ \A q \in Procs : InUse(q)' /\ phase[q] = "leaving" => leftover'
    /\ cmd.cmd = "connect" /\ event.state = "connected"
       => redirected' = p /\ (InUse(p) \/ status'[p].upstream = Label(cmd.upstream))
    /\ cmd.cmd = "disconnect" => redirected' = Nobody \/ rival \/ leftover'

LEMMA ServedFacts ==
  ASSUME ServicesInv, NEW r \in Runs, Serve(r)
  PROVE  /\ run[r].at = "sent" /\ run[r].to \in Procs /\ Serving(run[r].to)
         /\ run[r].exit = "none"
         /\ \E event : Served(r, run[r].to, run[r].cmd, event)
  <1>0. FlagsOK /\ DataOK /\ RunsOK /\ RedirectionInv /\ SocketInv
    BY TypeParts DEF ServicesInv
  <1>1. PICK p \in Procs, cmd \in Commands \cup {CommandOf("none", NoSel)} :
          /\ p = run[r].to /\ cmd = run[r].cmd
          /\ run[r].at = "sent" /\ Serving(p) /\ run[r].exit = "none"
    BY <1>0 DEF Serve, RunsOK, RunSet, RunInv, ServicesInv
  <1>2. foreign \in BOOLEAN /\ leftover \in BOOLEAN
    BY <1>0 DEF FlagsOK
  <1>a. \A event : Reply(r, event) =>
          run' = [run EXCEPT ![r] = [run[r] EXCEPT !.at = "answered", !.reply = event,
                                                    !.was = InUse(p)]]
    BY <1>1 DEF Reply, InUse
  <1>3. ASSUME cmd.cmd = "connect", Connect(p, cmd.upstream), Reply(r, status'[p])
        PROVE  Served(r, p, cmd, status'[p])
    <2>1. Label(cmd.upstream) \in Upstreams
      BY <1>1, <1>3, ConnectLabel
    <2>2. status' \in [Procs -> Statuses]
      BY <1>1, <1>3, <2>1, ConnectFacts
    <2>3. status'[p] \in Events
      BY <1>1, <2>2, EventFacts
    <2>4. status'[p].state = "connected" => InUse(p)'
      BY DEF InUse
    <2>5. QED
      BY <1>1, <1>2, <1>3, <1>a, <2>1, <2>2, <2>3, <2>4, ConnectFacts DEF Served
  <1>4. ASSUME cmd.cmd = "disconnect", Disconnect(p), Reply(r, status'[p])
        PROVE  Served(r, p, cmd, status'[p])
    <2>1. status' \in [Procs -> Statuses] /\ status'[p] \in Events /\ ~InUse(p)'
      BY <1>0, <1>1, <1>4, DisconnectFacts, StatusFacts, EventFacts DEF DataOK
    <2>2. \A q \in Procs \ {p} : InUse(q)' = InUse(q)
      BY <1>0, <1>1, <1>4, DisconnectFacts DEF InUse, DataOK
    <2>3. redirected' = Nobody \/ rival \/ leftover'
      <3>1. CASE redirected \in Procs \ {p}
        <4>1. Alive(redirected) /\ Alive(p)
          BY <1>0, <1>1, <3>1 DEF RedirectionInv, Serving, Alive, Dead
        <4>2. QED
          BY <1>0, <1>1, <3>1, <4>1 DEF SocketInv
      <3>2. CASE redirected \in {p, Orphan, Nobody}
        BY <1>1, <1>4, <3>2, DisconnectFacts
      <3>3. QED
        BY <1>0, <3>1, <3>2 DEF DataOK
    <2>4. /\ \A q \in Procs : InUse(q)' => redirected' = q /\ Serving(q)
          /\ redirected' \in Procs => InUse(redirected)'
          /\ \A q \in Procs : InUse(q)' /\ phase[q] = "leaving" => leftover'
      BY <1>0, <1>1, <1>4, <2>1, <2>2, DisconnectFacts DEF RedirectionInv
    <2>5. QED
      BY <1>1, <1>2, <1>4, <1>a, <2>1, <2>3, <2>4, DisconnectFacts DEF Served
  <1>5. ASSUME cmd.cmd \notin {"connect", "disconnect"}, NEW event \in {status[p], Pong},
               Reply(r, event), UNCHANGED netVars
        PROVE  Served(r, p, cmd, event)
    <2>1. event \in Events /\ status' \in [Procs -> Statuses]
      BY <1>0, <1>1, <1>5, EventFacts DEF DataOK, netVars
    <2>2. \A q : InUse(q)' = InUse(q)
      BY <1>5 DEF InUse, netVars
    <2>3. QED
      BY <1>0, <1>2, <1>5, <1>a, <2>1, <2>2 DEF Served, RedirectionInv, DataOK, netVars
  <1>6. \/ cmd.cmd = "connect" /\ Connect(p, cmd.upstream) /\ Reply(r, status'[p])
        \/ cmd.cmd = "disconnect" /\ Disconnect(p) /\ Reply(r, status'[p])
        \/ /\ cmd.cmd \notin {"connect", "disconnect"}
           /\ Reply(r, status[p]) \/ Reply(r, Pong)
           /\ UNCHANGED netVars
    BY <1>1 DEF Serve
  <1>7. \E event : Served(r, p, cmd, event)
    BY <1>3, <1>4, <1>5, <1>6
  <1>8. QED
    BY <1>1, <1>7

LEMMA ServeStep ==
  ASSUME ServicesInv, NEW r \in Runs, Serve(r)
  PROVE  ServicesInv'
  <1> USE DEF ServicesInv
  <1>0. FlagsOK /\ DataOK /\ RunsOK
    BY TypeParts
  <1>0a. PICK p \in Procs :
           /\ p = run[r].to
           /\ run[r].at = "sent" /\ Serving(p) /\ run[r].exit = "none"
    BY ServedFacts
  <1>0b. PICK cmd : cmd = run[r].cmd
    OBVIOUS
  <1>1. /\ p = run[r].to /\ cmd = run[r].cmd
        /\ run[r].at = "sent" /\ Serving(p) /\ run[r].exit = "none"
    BY <1>0a, <1>0b
  <1>2. PICK event : Served(r, p, cmd, event)
    BY <1>1, ServedFacts
  <1>3. alone' = alone \cap {r} /\ UNCHANGED procVars
    BY DEF Serve
  <1>4. FlagsOK' /\ DataOK'
    BY <1>0, <1>2, <1>3 DEF FlagsOK, DataOK, Served, procVars
  <1>5. RunsOK'
    <2>1. InUse(p) \in BOOLEAN
      BY DEF InUse
    <2>2. QED
      BY <1>0, <1>2, <2>1 DEF RunsOK, RunSet, Served
  <1>6. RedirectionInv'
    BY <1>2, <1>3 DEF RedirectionInv, Served, Serving, procVars
  <1>7. SocketInv'
    BY <1>3 DEF SocketInv, Alive, procVars
  <1>8. RunInv'
    <2>1. /\ run'[r].at = "answered" /\ run'[r].to = p /\ run'[r].cmd = cmd
          /\ run'[r].reply = event /\ run'[r].was = InUse(p) /\ run'[r].exit = "none"
          /\ \A k \in Runs \ {r} : run'[k] = run[k]
      BY <1>0, <1>1, <1>2 DEF RunsOK, RunSet, Served
    <2>2. Told(r)'
      BY <1>2, <1>3, <2>1 DEF Told, Served, procVars
    <2>3. \A k \in Runs :
             /\ run'[k].at = "sent" /\ run'[k].to # Nobody => Serving(run[k].to)'
             /\ run'[k].exit # "none" => run'[k].at = "done"
             /\ run'[k].at = "answered" => run'[k].to \in Procs
      BY <1>1, <1>3, <2>1 DEF RunInv, Serving, procVars
    <2>4. QED
      BY <1>3, <2>2, <2>3 DEF RunInv
  <1>9. QED
    BY <1>4, <1>5, <1>6, <1>7, <1>8, TypeParts

-----------------------------------------------------------------------------
LEMMA ForeignStep ==
  ASSUME ServicesInv, Foreign
  PROVE  ServicesInv'
  <1> USE DEF ServicesInv
  <1>1. alone' = {} /\ UNCHANGED <<procVars, status, redirected, leftover, run>>
    BY DEF Foreign, Disturb
  <1>2. FlagsOK' /\ DataOK' /\ RunsOK'
    <2>1. foreign' \in BOOLEAN
      BY TypeParts DEF Foreign, FlagsOK
    <2>2. QED
      BY <1>1, <2>1, TypeParts DEF FlagsOK, DataOK, RunsOK, procVars
  <1>3. RedirectionInv' /\ SocketInv' /\ RunInv'
    BY <1>1 DEF RedirectionInv, SocketInv, RunInv, InUse, Serving, Alive, procVars
  <1>4. QED
    BY <1>2, <1>3, TypeParts

LEMMA Inductive == ServicesInv /\ [Next]_vars => ServicesInv'
  <1> SUFFICES ASSUME ServicesInv, [Next]_vars PROVE ServicesInv'
    OBVIOUS
  <1>1. CASE UNCHANGED vars
    <2>1. FlagsOK' /\ DataOK' /\ RunsOK'
      BY <1>1, TypeParts DEF ServicesInv, FlagsOK, DataOK, RunsOK, vars, procVars, netVars
    <2>2. RedirectionInv' /\ SocketInv' /\ RunInv'
      BY <1>1 DEF ServicesInv, RedirectionInv, SocketInv, RunInv, Told, InUse, Serving, Alive,
                  vars, procVars, netVars
    <2>3. QED
      BY <2>1, <2>2, TypeParts DEF ServicesInv
  <1>2. ASSUME NEW p \in Procs, Start(p) \/ ProcStep(p) \/ Shutdown(p) \/ Kill(p)
        PROVE  ServicesInv'
    BY <1>2, LifeStep, StopStep, EndStep DEF ProcStep
  <1>3. ASSUME NEW r \in Runs, RunStep(r) \/ \E words \in Lines : Invoke(r, words)
        PROVE  ServicesInv'
    BY <1>3, ClientStep, ServeStep DEF RunStep
  <1>4. QED
    BY <1>1, <1>2, <1>3, ForeignStep DEF Next

\* The inductive invariant of the services and of the command lines.
THEOREM ServicesInvariant == Spec => []ServicesInv
  BY ServicesInit, Inductive, PTL DEF Spec

\* The variables have their types.
THEOREM TypeCorrect == Spec => []TypeOK
  BY ServicesInvariant, PTL DEF ServicesInv

\* Services that are started over each other, stopped and killed leave the system
\* redirected to a live one that serves, XX
THEOREM RedirectionIsServed == Spec => []RedirectedServed
  <1>1. ServicesInv => RedirectedServed
    <2> SUFFICES ASSUME ServicesInv PROVE RedirectedServed
      OBVIOUS
    <2>1. redirected \in Procs => InUse(redirected) /\ Serving(redirected)
      BY DEF ServicesInv, RedirectionInv
    <2>2. QED
      BY <2>1 DEF RedirectedServed, ServicesInv, RedirectionInv, InUse, Serving, Alive, Dead
  <1>2. QED
    BY <1>1, ServicesInvariant, PTL

\* A service that was started alone gets its socket and keeps it while it serves.
THEOREM SocketIsHeld == Spec => HoldsItsSocket
  <1>1. ServicesInv /\ [Next]_vars => [\A p \in Procs :
            /\ phase[p] = "prepared" /\ phase'[p] = "failed" => rival
            /\ phase'[p] = "serving" => path' = p \/ rival']_vars
    <2> SUFFICES ASSUME ServicesInv, [Next]_vars, NEW p \in Procs
                 PROVE  /\ phase[p] = "prepared" /\ phase'[p] = "failed" => rival
                        /\ phase'[p] = "serving" => path' = p \/ rival'
      OBVIOUS
    <2>1. phase'[p] = "serving" => path' = p \/ rival'
      BY Inductive DEF ServicesInv, SocketInv
    <2>2. ASSUME phase[p] = "prepared", phase'[p] = "failed" PROVE rival
      <3>1. FlagsOK /\ DataOK
        BY TypeParts DEF ServicesInv
      <3>2. PICK q \in Procs : Start(q) \/ ProcStep(q) \/ Shutdown(q) \/ Kill(q)
        <4>1. UNCHANGED phase => FALSE
          BY <2>2
        <4>2. \A r \in Runs : RunStep(r) => UNCHANGED phase
          BY DEF RunStep, Reach, Unreachable, Unanswered, Serve, Finish, procVars
        <4>3. \A r \in Runs, words \in Lines : Invoke(r, words) => UNCHANGED phase
          BY DEF Invoke, procVars
        <4>4. Foreign => UNCHANGED phase
          BY DEF Foreign, procVars
        <4>5. UNCHANGED vars => UNCHANGED phase
          BY DEF vars, procVars
        <4>6. QED
          BY <4>1, <4>2, <4>3, <4>4, <4>5 DEF Next
      <3>3. PICK next : phase' = [phase EXCEPT ![q] = next] /\ (next = "failed" => Listen(q) /\ path # Nobody)
        BY <3>2 DEF Start, ProcStep, Prepare, Listen, StopDisconnect, Exit, Shutdown, Kill, Ends
      <3>4. q = p /\ path # Nobody
        BY <2>2, <3>1, <3>3 DEF DataOK
      <3>5. QED
        BY <2>2, <3>1, <3>4 DEF ServicesInv, SocketInv, FlagsOK
    <2>3. QED
      BY <2>1, <2>2
  <1>2. QED
    BY <1>1, ServicesInvariant, PTL DEF HoldsItsSocket, Spec

\* A script that is the only one at work can rely on the exit code of a connect, whatever
\* the redirector has done; on that of a disconnect as far as the redirector did not fail.
THEOREM ExitCodesTell == Spec => []ExitTells
  <1>1. ServicesInv => ExitTells
    BY DEF ServicesInv, RunInv, Told, ExitTells
  <1>2. QED
    BY <1>1, ServicesInvariant, PTL

-----------------------------------------------------------------------------
(* What a label tells of an upstream *)

\* A connect is sent only with a named upstream, or a custom one with each word in its
\* field and a port that parses (parse_upstream); further words are ignored.
THEOREM WordsToUpstream ==
  ASSUME NEW words \in Seq(STRING), ParseLine(words).cmd = "connect"
  PROVE  LET sel == ParseLine(words).upstream IN
         \/ \E kind \in Named : words[2] = kind /\ sel = NamedSel(kind)
         \/ /\ sel = Sel("custom", words[3], words[4], words[5], words[6])
            /\ words[2] = "custom" /\ words[6] \in PortNumbers
  <1> DEFINE rest == Tail(words)
  <1>1. ParseLine(words) = CommandOf("connect", ParseUpstream(rest)) /\ ParseUpstream(rest) # NoSel
        /\ words # <<>>
    BY DEF ParseLine, CommandOf, Help, Invalid
  <1>2. ParseLine(words).upstream = ParseUpstream(rest)
    BY <1>1 DEF CommandOf
  <1>3. /\ rest \in Seq(STRING) /\ Len(rest) = Len(words) - 1
        /\ \A i \in 1 .. Len(rest) : rest[i] = words[i + 1]
    BY <1>1
  <1> HIDE DEF rest
  <1>4. CASE rest # <<>> /\ Head(rest) \in Named
    <2>1. Head(rest) = words[2] /\ ParseUpstream(rest) = NamedSel(Head(rest))
      BY <1>3, <1>4 DEF ParseUpstream
    <2>2. QED
      BY <1>2, <1>4, <2>1
  <1>5. CASE ~(rest # <<>> /\ Head(rest) \in Named)
    <2>1. /\ Len(rest) >= 5 /\ rest[1] = "custom" /\ rest[5] \in PortNumbers
          /\ ParseUpstream(rest) = Sel("custom", rest[2], rest[3], rest[4], rest[5])
      BY <1>1, <1>5 DEF ParseUpstream
    <2>2. rest[1] = words[2] /\ rest[2] = words[3] /\ rest[3] = words[4] /\ rest[4] = words[5]
          /\ rest[5] = words[6]
      BY <1>3, <2>1
    <2>3. QED
      BY <1>2, <2>1, <2>2
  <1>6. QED
    BY <1>4, <1>5

\* The status of a service names its upstream by a label.  Two selections of the same label
\* are one, unless one of them is a custom upstream: then it is a matter of hostnames.
THEOREM LabelTells ==
  ASSUME NEW a, NEW b, a.kind \in Named, b.kind \in Named \cup {"custom"},
         a = NamedSel(a.kind), b.kind \in Named => b = NamedSel(b.kind),
         Label(a) = Label(b)
  PROVE  a = b \/ b.hostname = Label(a)
  <1>1. CASE b.kind = "custom"
    BY <1>1 DEF Label
  <1>2. CASE b.kind \in Named
    <2>1. a.kind = b.kind
      BY <1>2 DEF Label, Named
    <2>2. QED
      BY <1>2, <2>1
  <1>3. QED
    BY <1>1, <1>2

=============================================================================
