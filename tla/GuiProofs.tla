---- MODULE GuiProofs ----
(***************************************************************************)
(* Proofs about Gui, for any number of async functions in progress, any     *)
(* providers, any number of events on their way and any set of troubles:    *)
(* that a page left alone ends where the service stands.                    *)
(***************************************************************************)
EXTENDS Gui, SequenceTheorems, TLAPS

\* What TypeOK says of each part of the state; the truth values are apart.
Doings == {"nothing", "onMount", "realConnect", "realDisconnect", "reconnectFor", "other"}

Calls ==
    [at : {"idle", "sent", "queued", "answered", "failed"},
     doing : Doings,
     cmd : LockedCommands \cup {CommandOf("none", NoUpstream)},
     reply : Events]

FlagsOK ==
    /\ token \in BOOLEAN /\ ticking \in BOOLEAN
    /\ up \in BOOLEAN /\ subscribed \in BOOLEAN /\ muddled \in BOOLEAN

PageOK == view \in {"disconnected", "connecting", "connected", "error"} /\ providerId \in Upstreams

JobOK == job \in [Callers -> Calls]

ServiceOK == waiting \in Seq(Callers) /\ svc \in Statuses

StreamOK == stream \in Seq(Statuses) /\ Len(stream) <= MaxStream

-----------------------------------------------------------------------------
USE TroublesAssumption, GatedAssumption, OtherAssumption, StreamAssumption, NoUpstreamAssumption
    DEF TroublesAssumption, GatedAssumption, OtherAssumption, StreamAssumption,
        NoUpstreamAssumption

LEMMA TypeParts ==
    /\ TypeOK <=> FlagsOK /\ PageOK /\ JobOK /\ ServiceOK /\ StreamOK
    /\ TypeOK' <=> FlagsOK' /\ PageOK' /\ JobOK' /\ ServiceOK' /\ StreamOK'
  BY DEF TypeOK, FlagsOK, PageOK, JobOK, ServiceOK, StreamOK, Calls, Doings

\* The statuses, and what their states say.
LEMMA StatusFacts ==
    /\ Disconnected \in Statuses /\ Disconnected.state = "disconnected"
    /\ \A u \in Upstreams :
          /\ Connecting(u) \in Statuses /\ Connecting(u).state = "connecting"
          /\ Connected(u) \in Statuses /\ Connected(u).state = "connected"
    /\ \A e \in ErrorCauses : ErrorStatus(e) \in Statuses /\ ErrorStatus(e).state = "error"
    /\ \A s \in Statuses :
          /\ s.state \in {"disconnected", "connecting", "connected", "error"}
          /\ s.state = "connecting" => s.upstream \in Upstreams
          /\ s \in Events
    /\ NoEvent \in Events
  <1> USE DEF Disconnected, Connecting, Connected, ErrorStatus, StatusOf
  <1>1. Disconnected \in Statuses /\ Disconnected.state = "disconnected"
    BY DEF Statuses
  <1>2. \A u \in Upstreams :
          /\ Connecting(u) \in Statuses /\ Connecting(u).state = "connecting"
          /\ Connected(u) \in Statuses /\ Connected(u).state = "connected"
    BY DEF Statuses
  <1>3. \A e \in ErrorCauses : ErrorStatus(e) \in Statuses /\ ErrorStatus(e).state = "error"
    BY DEF Statuses
  <1>4. ASSUME NEW s \in Statuses
        PROVE  /\ s.state \in {"disconnected", "connecting", "connected", "error"}
               /\ s.state = "connecting" => s.upstream \in Upstreams
    <2>1. CASE s = Disconnected
      BY <2>1
    <2>2. CASE \E u \in Upstreams : s = Connecting(u) \/ s = Connected(u)
      BY <2>2
    <2>3. CASE \E e \in ErrorCauses : s = ErrorStatus(e)
      BY <2>3
    <2>4. QED
      BY <2>1, <2>2, <2>3 DEF Statuses
  <1>5. NoEvent \in Events /\ \A s \in Statuses : s \in Events
    BY DEF Events
  <1>6. QED
    BY <1>1, <1>2, <1>3, <1>4, <1>5

\* The commands of the page and of the other client.
LEMMA CommandFacts ==
    /\ DisconnectCmd \in LockedCommands /\ DisconnectCmd.cmd = "disconnect"
    /\ GetStatusCmd \in LockedCommands /\ GetStatusCmd.cmd = "get_status"
    /\ \A u \in Upstreams :
          /\ ConnectTo(u) \in LockedCommands
          /\ ConnectTo(u).cmd = "connect" /\ ConnectTo(u).upstream = u
    /\ \A c \in LockedCommands \cup {CommandOf("none", NoUpstream)} :
          /\ c.cmd = "disconnect" => c = DisconnectCmd
          /\ c.cmd = "connect" => c.upstream \in Upstreams
  <1> USE DEF CommandOf, DisconnectCmd, GetStatusCmd, ConnectTo
  <1>1. /\ DisconnectCmd \in LockedCommands /\ DisconnectCmd.cmd = "disconnect"
        /\ GetStatusCmd \in LockedCommands /\ GetStatusCmd.cmd = "get_status"
    BY DEF LockedCommands
  <1>2. \A u \in Upstreams :
          /\ ConnectTo(u) \in LockedCommands
          /\ ConnectTo(u).cmd = "connect" /\ ConnectTo(u).upstream = u
    BY DEF LockedCommands
  <1>3. ASSUME NEW c \in LockedCommands \cup {CommandOf("none", NoUpstream)}
        PROVE  /\ c.cmd = "disconnect" => c = DisconnectCmd
               /\ c.cmd = "connect" => c.upstream \in Upstreams
    <2>1. CASE c \in {CommandOf(n, NoUpstream) : n \in {"get_status", "subscribe", "disconnect"}}
      BY <2>1
    <2>2. CASE c \in {CommandOf("connect", u) : u \in Upstreams}
      BY <2>2
    <2>3. CASE c = CommandOf("none", NoUpstream)
      BY <2>3
    <2>4. QED
      BY <2>1, <2>2, <2>3 DEF LockedCommands
  <1>4. QED
    BY <1>1, <1>2, <1>3

\* The calls a function may await.
LEMMA CallFacts ==
    /\ NoCall \in Calls /\ NoCall.at = "idle" /\ NoCall.cmd.cmd = "none"
    /\ \A doing \in Doings, cmd \in LockedCommands :
          /\ Sent(doing, cmd) \in Calls
          /\ Sent(doing, cmd).at = "sent" /\ Sent(doing, cmd).cmd = cmd
          /\ Sent(doing, cmd).doing = doing
          /\ Sent(doing, cmd) # NoCall
  <1>1. NoCall \in Calls /\ NoCall.at = "idle" /\ NoCall.cmd.cmd = "none"
    BY StatusFacts DEF NoCall, CallOf, Calls, Doings, CommandOf
  <1>2. ASSUME NEW doing \in Doings, NEW cmd \in LockedCommands
        PROVE  /\ Sent(doing, cmd) \in Calls
               /\ Sent(doing, cmd).at = "sent" /\ Sent(doing, cmd).cmd = cmd
               /\ Sent(doing, cmd).doing = doing
    BY StatusFacts DEF Sent, CallOf, Calls
  <1>3. QED
    BY <1>1, <1>2

LEMMA JobSet ==
    ASSUME JobOK, NEW j \in Callers, NEW c \in Calls, job' = [job EXCEPT ![j] = c]
    PROVE  JobOK' /\ job'[j] = c /\ \A k \in Callers \ {j} : job'[k] = job[k]
  BY DEF JobOK

\* Whoever is at the mutex has a call that is queued.
LEMMA AtMutex ==
    ASSUME GuiInv, waiting # <<>>
    PROVE  /\ Head(waiting) \in Callers /\ Head(waiting) = waiting[1] /\ 1 \in 1..Len(waiting)
           /\ job[Head(waiting)].at = "queued" /\ job[Head(waiting)] # NoCall
           /\ job[Head(waiting)] \in Calls
  <1>1. Head(waiting) \in Callers /\ Head(waiting) = waiting[1] /\ 1 \in 1..Len(waiting)
    BY DEF GuiInv, TypeOK
  <1>2. job[Head(waiting)].at = "queued"
    BY <1>1 DEF GuiInv, QueueInv
  <1>3. QED
    BY <1>1, <1>2, CallFacts, TypeParts DEF GuiInv, JobOK

\* The queue and the answers survive a change of a call that is not queued.
LEMMA NotQueued ==
    ASSUME GuiInv, NEW j \in Callers, NEW c \in Calls, job' = [job EXCEPT ![j] = c],
           job[j].at # "queued", waiting' = waiting, svc' = svc, c.at # "answered",
           j \in Jobs /\ c.cmd = ConnectTo(Gated) => token \/ c.doing = "reconnectFor",
           token => token'
    PROVE  JobOK' /\ QueueInv' /\ AnswerInv' /\ GateInv'
  <1>0. JobOK /\ waiting \in Seq(Callers)
    BY TypeParts DEF GuiInv, ServiceOK
  <1>1. JobOK' /\ job'[j] = c /\ \A k \in Callers \ {j} : job'[k] = job[k]
    BY <1>0, JobSet
  <1>2. \A i \in 1..Len(waiting) : waiting[i] \in Callers \ {j}
    BY <1>0 DEF GuiInv, QueueInv
  <1>3. QueueInv'
    <2>1. waiting # <<>> => job'[Head(waiting)] = job[Head(waiting)]
      BY <1>1, <1>2, AtMutex
    <2>2. QED
      BY <1>1, <1>2, <2>1 DEF GuiInv, QueueInv, Asked
  <1>4. AnswerInv'
    BY <1>1 DEF GuiInv, AnswerInv
  <1>5. GateInv'
    BY <1>1 DEF GuiInv, GateInv, Callers
  <1>6. QED
    BY <1>1, <1>3, <1>4, <1>5

\* App.svelte, applyStatus.
LEMMA ApplyFacts ==
    ASSUME FlagsOK, NEW s \in Statuses, ApplyStatus(s)
    PROVE  /\ view' = s.state
           /\ view' \in {"disconnected", "connecting", "connected", "error"}
           /\ ticking' \in BOOLEAN
           /\ ticking' => view' \in {"connected", "connecting"}
           /\ view' = "connected" /\ ~ticking' => view = "connected" /\ ~ticking
  <1>1. view' = s.state /\ s.state \in {"disconnected", "connecting", "connected", "error"}
    BY StatusFacts DEF ApplyStatus
  <1>2. CASE s.state = "connected"
    <2>1. ticking' = (ticking \/ view # "connected")
      BY <1>2 DEF ApplyStatus
    <2>2. QED
      BY <1>1, <1>2, <2>1
  <1>3. CASE s.state = "connecting"
    <2>1. ticking' = ticking
      BY <1>3 DEF ApplyStatus
    <2>2. QED
      BY <1>1, <1>3, <2>1 DEF FlagsOK
  <1>4. CASE s.state \in {"disconnected", "error"}
    <2>1. ticking' = FALSE
      BY <1>4 DEF ApplyStatus
    <2>2. QED
      BY <1>1, <1>4, <2>1
  <1>5. QED
    BY <1>1, <1>2, <1>3, <1>4

-----------------------------------------------------------------------------
(* The initial states *)

LEMMA GuiInit == Init => GuiInv
  <1> SUFFICES ASSUME Init PROVE GuiInv
    OBVIOUS
  <1>1. PICK j \in Jobs :
          job = [k \in Callers |-> IF k = j THEN Sent("onMount", GetStatusCmd) ELSE NoCall]
    BY DEF Init
  <1>2. /\ JobOK
        /\ job[j] = Sent("onMount", GetStatusCmd) /\ job[j] # NoCall
        /\ job[j].at = "sent" /\ job[j].cmd = GetStatusCmd
        /\ \A k \in Callers \ {j} : job[k] = NoCall
    BY <1>1, CallFacts, CommandFacts DEF JobOK, Callers, Doings
  <1>3. FlagsOK
    BY DEF Init, FlagsOK, May
  <1>4. PageOK /\ ServiceOK /\ StreamOK
    <2>1. <<>> \in Seq(Callers) /\ <<>> \in Seq(Statuses) /\ Len(<<>>) = 0
      OBVIOUS
    <2>2. QED
      BY <2>1 DEF Init, PageOK, ServiceOK, StreamOK
  <1>5. QueueInv /\ AnswerInv /\ GateInv
    BY <1>2, CallFacts, CommandFacts DEF Init, QueueInv, AnswerInv, GateInv, Callers
  <1>6. AloneInv /\ LastWordInv /\ ClockInv
    <2>1. view = "disconnected" /\ ticking = FALSE /\ stream = <<>>
      BY DEF Init
    <2>2. j \in Callers /\ Other \in Callers /\ j # Other
      BY DEF Callers
    <2>3. AloneInv
      BY <1>2, <2>1, <2>2, CallFacts DEF AloneInv
    <2>4. LastWordInv /\ ClockInv
      BY <1>2, <2>1, <2>2, CallFacts DEF LastWordInv, ClockInv
    <2>5. QED
      BY <2>3, <2>4
  <1>7. QED
    BY <1>2, <1>3, <1>4, <1>5, <1>6, TypeParts DEF GuiInv

-----------------------------------------------------------------------------
(* The page *)

\* A call that is made alone is the only one, finds no event on its way and stops the
\* clock; only a disconnect leaves the page showing a connection.
LEMMA CallStep ==
    ASSUME GuiInv, NEW j \in Jobs, NEW doing \in Doings, NEW cmd \in LockedCommands,
           Call(j, doing, cmd), ticking' = FALSE, view' \in {view, "connecting"},
           view' = "connected" => cmd = DisconnectCmd,
           cmd = ConnectTo(Gated) => token \/ doing = "reconnectFor",
           providerId' \in Upstreams,
           UNCHANGED <<token, serviceVars, subscribed, stream>>
    PROVE  GuiInv'
  <1> USE DEF serviceVars
  <1>0. j \in Callers /\ j # Other /\ Other \in Callers
    BY DEF Callers
  <1>1. /\ job[j] = NoCall /\ job' = [job EXCEPT ![j] = Sent(doing, cmd)]
        /\ muddled' = ~Quiet
    BY DEF Call
  <1>2. /\ Sent(doing, cmd) \in Calls /\ Sent(doing, cmd).at = "sent" /\ Sent(doing, cmd) # NoCall
        /\ Sent(doing, cmd).cmd = cmd /\ Sent(doing, cmd).doing = doing
        /\ NoCall.at = "idle"
    BY CallFacts
  <1>3. JobOK' /\ QueueInv' /\ AnswerInv' /\ GateInv'
    <2>1. job[j].at # "queued" /\ Sent(doing, cmd).at # "answered"
      BY <1>1, <1>2
    <2>2. QED
      BY <1>0, <1>1, <1>2, <2>1, NotQueued
  <1>4. FlagsOK'
    BY <1>1, TypeParts DEF GuiInv, FlagsOK
  <1>5. PageOK' /\ ServiceOK' /\ StreamOK'
    BY TypeParts DEF GuiInv, PageOK, ServiceOK, StreamOK
  <1>6. ASSUME ~muddled' PROVE AloneInv' /\ LastWordInv' /\ ClockInv'
    <2>1. stream = <<>> /\ \A k \in Callers : job[k] = NoCall
      BY <1>1, <1>6 DEF Quiet
    <2>2. /\ job'[j] = Sent(doing, cmd)
          /\ \A k \in Callers \ {j} : job'[k] = NoCall
      BY <1>0, <1>1, <1>2, <2>1, JobSet, TypeParts DEF GuiInv
    <2>3. AloneInv'
      BY <1>0, <1>2, <2>1, <2>2 DEF AloneInv
    <2>4. LastWordInv'
      BY <1>0, <1>2, <2>1, <2>2 DEF LastWordInv
    <2>5. ClockInv'
      BY <1>0, <1>2, <2>2 DEF ClockInv
    <2>6. QED
      BY <2>3, <2>4, <2>5
  <1>7. QED
    BY <1>3, <1>4, <1>5, <1>6, TypeParts DEF GuiInv

\* The page overwrites its status by itself: nothing more is promised.
LEMMA OverwriteStep ==
    ASSUME GuiInv, muddled' = TRUE, token' \in {token, TRUE}, ticking' \in {ticking, FALSE},
           view' \in {view, "error", "disconnected"}, providerId' \in Upstreams,
           UNCHANGED <<job, serviceVars, subscribed, stream>>
    PROVE  GuiInv'
  <1> USE DEF serviceVars
  <1>1. FlagsOK'
    BY TypeParts DEF GuiInv, FlagsOK
  <1>2. PageOK' /\ JobOK' /\ ServiceOK' /\ StreamOK'
    BY TypeParts DEF GuiInv, PageOK, JobOK, ServiceOK, StreamOK
  <1>3. QueueInv' /\ AnswerInv'
    BY DEF GuiInv, QueueInv, Asked, AnswerInv
  <1>4. GateInv'
    <2>1. token => token'
      OBVIOUS
    <2>2. QED
      BY <2>1 DEF GuiInv, GateInv
  <1>5. QED
    BY <1>1, <1>2, <1>3, <1>4, TypeParts DEF GuiInv

\* Nothing that the invariant speaks of changes but the selected provider.
LEMMA IdleStep ==
    ASSUME GuiInv, providerId' \in Upstreams,
           UNCHANGED <<view, token, ticking, job, serviceVars, subscribed, stream, muddled>>
    PROVE  GuiInv'
  <1> USE DEF serviceVars
  <1>1. TypeOK'
    BY DEF GuiInv, TypeOK
  <1>2. QueueInv' /\ AnswerInv' /\ GateInv'
    BY DEF GuiInv, QueueInv, Asked, AnswerInv, GateInv
  <1>3. muddled \/ (AloneInv' /\ LastWordInv' /\ ClockInv')
    BY DEF GuiInv, AloneInv, LastWordInv, ClockInv
  <1>4. QED
    BY <1>1, <1>2, <1>3 DEF GuiInv

LEMMA UserStep ==
    ASSUME GuiInv,
           \/ \E j \in Jobs : Toggle(j) \/ \E id \in Upstreams : SelectProvider(j, id)
           \/ ActivateToken
    PROVE  GuiInv'
  <1>0. providerId \in Upstreams /\ view \in {"disconnected", "connecting", "connected", "error"}
    BY TypeParts DEF GuiInv, PageOK
  <1>1. ASSUME NEW j \in Jobs, Toggle(j) PROVE GuiInv'
    <2>1. CASE ShowGate
      BY <1>0, <1>1, <2>1, OverwriteStep DEF Toggle, ShowGate
    <2>2. CASE RealConnect(j) /\ (providerId # Gated \/ token)
      <3>1. ConnectTo(providerId) = ConnectTo(Gated) => token
        BY <1>0, <2>2, CommandFacts
      <3>2. ConnectTo(providerId) \in LockedCommands /\ "realConnect" \in Doings
        BY <1>0, CommandFacts DEF Doings
      <3>3. QED
        BY <1>0, <1>1, <2>2, <3>1, <3>2, CallStep DEF Toggle, RealConnect
    <2>3. CASE RealDisconnect(j)
      <3>1. DisconnectCmd \in LockedCommands /\ "realDisconnect" \in Doings
            /\ DisconnectCmd # ConnectTo(Gated)
        BY CommandFacts DEF Doings
      <3>2. QED
        BY <1>0, <1>1, <2>3, <3>1, CallStep DEF Toggle, RealDisconnect
    <2>4. QED
      BY <1>1, <2>1, <2>2, <2>3 DEF Toggle
  <1>2. ASSUME NEW j \in Jobs, NEW id \in Upstreams, SelectProvider(j, id) PROVE GuiInv'
    <2>1. CASE ShowGate
      BY <1>2, <2>1, OverwriteStep DEF SelectProvider, ShowGate
    <2>2. CASE Call(j, "reconnectFor", DisconnectCmd) /\ ticking' = FALSE /\ view' = view
      <3>1. DisconnectCmd \in LockedCommands /\ "reconnectFor" \in Doings
            /\ DisconnectCmd # ConnectTo(Gated)
        BY CommandFacts DEF Doings
      <3>2. QED
        BY <1>2, <2>2, <3>1, CallStep DEF SelectProvider
    <2>3. CASE UNCHANGED <<view, ticking, job, muddled>>
      BY <1>2, <2>3, IdleStep DEF SelectProvider
    <2>4. QED
      BY <1>2, <2>1, <2>2, <2>3 DEF SelectProvider
  <1>3. ASSUME ActivateToken PROVE GuiInv'
    BY <1>3, OverwriteStep DEF ActivateToken
  <1>4. QED
    BY <1>1, <1>2, <1>3

\* The reply is where the service stands, and the last of the events still to come
\* says the same.
LEMMA ReplyStep ==
    ASSUME GuiInv, NEW j \in Jobs, HandleReply(j)
    PROVE  GuiInv'
  <1>0. j \in Callers /\ Other \in Callers /\ FlagsOK /\ JobOK
    BY TypeParts DEF GuiInv, Callers
  <1>1. /\ job[j].at = "answered" /\ job[j].reply \in Statuses
        /\ job' = [job EXCEPT ![j] = NoCall]
        /\ ApplyStatus(job[j].reply)
        /\ UNCHANGED <<providerId, token, waiting, svc, up, subscribed, stream, muddled>>
    BY <1>0 DEF HandleReply, Finish, GuiInv, AnswerInv, serviceVars
  <1>2. NoCall \in Calls /\ NoCall.at = "idle" /\ NoCall.cmd.cmd = "none"
    BY CallFacts
  <1>3. JobOK' /\ QueueInv' /\ AnswerInv' /\ GateInv'
    <2>1. NoCall.cmd # ConnectTo(Gated) /\ NoCall.at # "answered" /\ job[j].at # "queued"
      BY <1>1, <1>2, CommandFacts
    <2>2. QED
      BY <1>0, <1>1, <1>2, <2>1, NotQueued
  <1>4. FlagsOK' /\ PageOK'
    BY <1>0, <1>1, ApplyFacts, TypeParts DEF FlagsOK, PageOK, GuiInv
  <1>5. ServiceOK' /\ StreamOK'
    BY <1>1, TypeParts DEF GuiInv, ServiceOK, StreamOK
  <1>6. ASSUME ~muddled PROVE AloneInv' /\ LastWordInv' /\ ClockInv'
    <2>1. AloneInv /\ LastWordInv /\ ClockInv
      BY <1>6 DEF GuiInv
    <2>2. \A k \in Callers : job'[k] = NoCall
      <3>1. job'[j] = NoCall /\ \A k \in Callers \ {j} : job'[k] = job[k]
        BY <1>0, <1>1, <1>2, JobSet
      <3>2. job[j] # NoCall
        BY <1>1, <1>2
      <3>3. QED
        BY <1>0, <2>1, <3>1, <3>2 DEF AloneInv
    <2>3. AloneInv'
      BY <1>0, <1>1, <1>2, <2>1, <2>2 DEF AloneInv
    <2>4. LastWordInv'
      <3>1. view' = svc.state
        BY <1>0, <1>1, <2>1, ApplyFacts DEF LastWordInv
      <3>2. QED
        BY <1>1, <1>2, <2>1, <2>2, <3>1 DEF LastWordInv
    <2>5. ClockInv'
      <3>1. ticking' => view' \in {"connected", "connecting"}
        BY <1>0, <1>1, ApplyFacts
      <3>2. ~(view' = "connected" /\ ~ticking')
        <4> SUFFICES ASSUME view' = "connected", ~ticking' PROVE FALSE
          OBVIOUS
        <4>1. view = "connected" /\ ~ticking /\ job[j].reply.state = "connected"
          BY <1>0, <1>1, ApplyFacts
        <4>2. PICK k \in Callers : job[k].cmd = DisconnectCmd
          BY <2>1, <4>1 DEF ClockInv
        <4>3. k = j
          BY <1>0, <1>1, <1>2, <2>1, <4>2, CommandFacts DEF AloneInv
        <4>4. QED
          BY <1>0, <1>1, <4>1, <4>2, <4>3, CommandFacts, StatusFacts DEF GuiInv, AnswerInv
      <3>3. QED
        BY <3>1, <3>2 DEF ClockInv
    <2>6. QED
      BY <2>3, <2>4, <2>5
  <1>7. QED
    BY <1>1, <1>3, <1>4, <1>5, <1>6, TypeParts DEF GuiInv

\* A page left alone has no call that failed.
LEMMA FailureStep ==
    ASSUME GuiInv, NEW j \in Jobs, HandleFailure(j)
    PROVE  GuiInv'
  <1>0. j \in Callers /\ job[j].at = "failed" /\ job' = [job EXCEPT ![j] = NoCall]
        /\ UNCHANGED <<providerId, token, ticking, waiting, svc, up, subscribed, stream, muddled>>
    BY DEF HandleFailure, Finish, serviceVars, Callers
  <1>1. NoCall \in Calls /\ NoCall.at = "idle" /\ NoCall.cmd.cmd = "none"
    BY CallFacts
  <1>2. JobOK' /\ QueueInv' /\ AnswerInv' /\ GateInv'
    <2>1. NoCall.cmd # ConnectTo(Gated) /\ NoCall.at # "answered" /\ job[j].at # "queued"
      BY <1>0, <1>1, CommandFacts
    <2>2. QED
      BY <1>0, <1>1, <2>1, NotQueued
  <1>3. FlagsOK'
    BY <1>0, TypeParts DEF FlagsOK, GuiInv
  <1>4. PageOK'
    BY <1>0, TypeParts DEF HandleFailure, PageOK, GuiInv
  <1>5. ServiceOK' /\ StreamOK'
    BY <1>0, TypeParts DEF GuiInv, ServiceOK, StreamOK
  <1>6. muddled
    BY <1>0 DEF GuiInv, AloneInv
  <1>7. QED
    BY <1>0, <1>2, <1>3, <1>4, <1>5, <1>6, TypeParts DEF GuiInv

LEMMA ReconnectStep ==
    ASSUME GuiInv, NEW j \in Jobs, ReconnectNow(j)
    PROVE  GuiInv'
  <1> DEFINE c == Sent("reconnectFor", ConnectTo(providerId))
  <1>0. /\ j \in Callers /\ Other \in Callers /\ j # Other
        /\ job[j].at \in {"answered", "failed"}
        /\ job' = [job EXCEPT ![j] = c] /\ view' = "connecting"
        /\ UNCHANGED <<providerId, token, ticking, waiting, svc, up, subscribed, stream, muddled>>
    BY DEF ReconnectNow, serviceVars, Callers
  <1>1. c \in Calls /\ c.at = "sent" /\ c # NoCall /\ c.doing = "reconnectFor" /\ NoCall.at = "idle"
    BY TypeParts, CallFacts, CommandFacts DEF GuiInv, PageOK, Doings
  <1> HIDE DEF c
  <1>2. JobOK' /\ QueueInv' /\ AnswerInv' /\ GateInv'
    <2>1. c.at # "answered" /\ job[j].at # "queued"
      BY <1>0, <1>1
    <2>2. QED
      BY <1>0, <1>1, <2>1, NotQueued
  <1>3. FlagsOK'
    BY <1>0, TypeParts DEF FlagsOK, GuiInv
  <1>4. PageOK'
    BY <1>0, TypeParts DEF PageOK, GuiInv
  <1>5. ServiceOK' /\ StreamOK'
    BY <1>0, TypeParts DEF GuiInv, ServiceOK, StreamOK
  <1>6. ASSUME ~muddled PROVE AloneInv' /\ LastWordInv' /\ ClockInv'
    <2>1. AloneInv /\ LastWordInv /\ ClockInv
      BY <1>6 DEF GuiInv
    <2>2. job'[j] = c /\ \A k \in Callers \ {j} : job'[k] = NoCall
      <3>1. job'[j] = c /\ \A k \in Callers \ {j} : job'[k] = job[k]
        BY <1>0, <1>1, JobSet, TypeParts DEF GuiInv
      <3>2. job[j] # NoCall
        BY <1>0, <1>1
      <3>3. QED
        BY <1>0, <2>1, <3>1, <3>2 DEF AloneInv
    <2>3. AloneInv'
      BY <1>0, <1>1, <2>1, <2>2 DEF AloneInv
    <2>4. LastWordInv'
      BY <1>0, <1>1, <2>1, <2>2 DEF LastWordInv
    <2>5. ClockInv'
      BY <1>0 DEF ClockInv
    <2>6. QED
      BY <2>3, <2>4, <2>5
  <1>7. QED
    BY <1>0, <1>2, <1>3, <1>4, <1>5, <1>6, TypeParts DEF GuiInv

\* The last event is where the service stands.
LEMMA EventStep ==
    ASSUME GuiInv, HandleEvent
    PROVE  GuiInv'
  <1>0. FlagsOK /\ stream \in Seq(Statuses) /\ Len(stream) \in Nat /\ Len(stream) <= MaxStream
    BY TypeParts DEF GuiInv, StreamOK
  <1>1. /\ stream # <<>> /\ stream' = Tail(stream) /\ ApplyStatus(Head(stream))
        /\ UNCHANGED <<providerId, token, job, waiting, svc, up, subscribed, muddled>>
    BY DEF HandleEvent, serviceVars
  <1>2. /\ Head(stream) \in Statuses /\ Head(stream) = stream[1]
        /\ stream' \in Seq(Statuses) /\ Len(stream') = Len(stream) - 1
        /\ stream' # <<>> => stream'[Len(stream')] = stream[Len(stream)]
        /\ stream' = <<>> => Len(stream) = 1
    <2>1. Head(stream) \in Statuses /\ Head(stream) = stream[1]
      BY <1>0, <1>1
    <2>2. /\ stream' \in Seq(Statuses) /\ Len(stream') = Len(stream) - 1
          /\ \A i \in 1..Len(stream') : stream'[i] = stream[i + 1]
      BY <1>0, <1>1
    <2>3. stream' # <<>> => Len(stream') \in 1..Len(stream')
      BY <2>2
    <2>4. stream' = <<>> => Len(stream') = 0
      OBVIOUS
    <2>5. QED
      BY <1>0, <2>1, <2>2, <2>3, <2>4
  <1>3. FlagsOK' /\ PageOK'
    BY <1>0, <1>1, <1>2, ApplyFacts, TypeParts DEF FlagsOK, PageOK, GuiInv
  <1>4. JobOK' /\ ServiceOK' /\ StreamOK'
    BY <1>0, <1>1, <1>2, TypeParts DEF GuiInv, JobOK, ServiceOK, StreamOK
  <1>5. QueueInv' /\ AnswerInv' /\ GateInv'
    BY <1>1 DEF GuiInv, QueueInv, Asked, AnswerInv, GateInv
  <1>6. ASSUME ~muddled PROVE AloneInv' /\ LastWordInv' /\ ClockInv'
    <2>1. AloneInv /\ LastWordInv /\ ClockInv
      BY <1>6 DEF GuiInv
    <2>2. AloneInv'
      BY <1>1, <2>1 DEF AloneInv
    <2>3. LastWordInv'
      BY <1>0, <1>1, <1>2, <2>1, ApplyFacts DEF LastWordInv
    <2>4. ClockInv'
      BY <1>0, <1>1, <1>2, <2>1, ApplyFacts DEF ClockInv
    <2>5. QED
      BY <2>2, <2>3, <2>4
  <1>7. QED
    BY <1>1, <1>3, <1>4, <1>5, <1>6, TypeParts DEF GuiInv

-----------------------------------------------------------------------------
(* A connection for each call *)

\* A call that arrives is the last at the mutex.
LEMMA ArriveStep ==
    ASSUME GuiInv, NEW j \in Callers, Arrive(j)
    PROVE  GuiInv'
  <1> DEFINE c == [job[j] EXCEPT !.at = "queued"]
  <1>0. JobOK /\ waiting \in Seq(Callers) /\ job[j] \in Calls /\ Other \in Callers
    BY TypeParts DEF GuiInv, ServiceOK, JobOK, Callers
  <1>1. /\ job[j].at = "sent" /\ job' = [job EXCEPT ![j] = c] /\ waiting' = Append(waiting, j)
        /\ UNCHANGED <<view, providerId, token, ticking, svc, up, subscribed, stream, muddled>>
    BY DEF Arrive, pageVars
  <1>2. /\ c \in Calls /\ c.at = "queued" /\ c.cmd = job[j].cmd /\ c.doing = job[j].doing
        /\ c # NoCall /\ job[j] # NoCall
    BY <1>0, <1>1, CallFacts DEF Calls
  <1> HIDE DEF c
  <1>3. JobOK' /\ job'[j] = c /\ \A k \in Callers \ {j} : job'[k] = job[k]
    BY <1>0, <1>1, <1>2, JobSet
  <1>4. /\ waiting' \in Seq(Callers) /\ Len(waiting') = Len(waiting) + 1
        /\ waiting'[Len(waiting) + 1] = j
        /\ \A i \in 1..Len(waiting) : waiting'[i] = waiting[i] /\ waiting[i] \in Callers \ {j}
    BY <1>0, <1>1 DEF GuiInv, QueueInv
  <1>5. QueueInv'
    <2>1. \A i \in 1..Len(waiting') : job'[waiting'[i]].at = "queued"
      BY <1>0, <1>2, <1>3, <1>4 DEF GuiInv, QueueInv
    <2>2. \A i, k \in 1..Len(waiting') : waiting'[i] = waiting'[k] => i = k
      BY <1>0, <1>4 DEF GuiInv, QueueInv
    <2>3. svc'.state = "connecting" => Asked("connect")'
      <3> SUFFICES ASSUME svc.state = "connecting" PROVE Asked("connect")'
        BY <1>1
      <3>1. waiting # <<>> /\ job[Head(waiting)].cmd.cmd = "connect"
        BY DEF GuiInv, QueueInv, Asked
      <3>2. Head(waiting) = waiting[1] /\ 1 \in 1..Len(waiting)
        BY <3>1, AtMutex
      <3>3. waiting' # <<>> /\ Head(waiting') = waiting'[1]
        BY <1>4, <3>2
      <3>4. waiting'[1] = waiting[1] /\ job'[waiting[1]] = job[waiting[1]]
        BY <1>3, <1>4, <3>2
      <3>5. QED
        BY <3>1, <3>2, <3>3, <3>4 DEF Asked
    <2>4. QED
      BY <2>1, <2>2, <2>3 DEF QueueInv
  <1>6. AnswerInv' /\ GateInv'
    BY <1>1, <1>2, <1>3 DEF GuiInv, AnswerInv, GateInv, Callers
  <1>7. FlagsOK' /\ PageOK' /\ ServiceOK' /\ StreamOK'
    BY <1>1, <1>4, TypeParts DEF GuiInv, FlagsOK, PageOK, ServiceOK, StreamOK
  <1>8. ASSUME ~muddled PROVE AloneInv' /\ LastWordInv' /\ ClockInv'
    <2>1. AloneInv /\ LastWordInv /\ ClockInv
      BY <1>8 DEF GuiInv
    <2>2. j # Other
      BY <1>2, <2>1 DEF AloneInv
    <2>3. AloneInv'
      BY <1>0, <1>1, <1>2, <1>3, <2>1, <2>2 DEF AloneInv
    <2>4. LastWordInv'
      BY <1>1, <1>2, <1>3, <2>1 DEF LastWordInv
    <2>5. ClockInv'
      BY <1>1, <1>2, <1>3, <2>1 DEF ClockInv
    <2>6. QED
      BY <2>3, <2>4, <2>5
  <1>9. QED
    BY <1>1, <1>3, <1>5, <1>6, <1>7, <1>8, TypeParts DEF GuiInv

LEMMA UnreachableStep ==
    ASSUME GuiInv, NEW j \in Callers, Unreachable(j)
    PROVE  GuiInv'
  <1> DEFINE c == [job[j] EXCEPT !.at = "failed"]
  <1>0. JobOK /\ job[j] \in Calls
    BY TypeParts DEF GuiInv, JobOK
  <1>1. /\ job[j].at = "sent" /\ job' = [job EXCEPT ![j] = c] /\ muddled' = TRUE
        /\ UNCHANGED <<view, providerId, token, ticking, waiting, svc, up, subscribed, stream>>
    BY DEF Unreachable, pageVars, serviceVars
  <1>2. c \in Calls /\ c.at = "failed" /\ c.cmd = job[j].cmd /\ c.doing = job[j].doing
    BY <1>0 DEF Calls
  <1> HIDE DEF c
  <1>3. JobOK' /\ QueueInv' /\ AnswerInv' /\ GateInv'
    <2>1. job[j].at # "queued" /\ c.at # "answered"
      BY <1>1, <1>2
    <2>2. j \in Jobs /\ c.cmd = ConnectTo(Gated) => token \/ c.doing = "reconnectFor"
      BY <1>2 DEF GuiInv, GateInv
    <2>3. QED
      BY <1>1, <1>2, <2>1, <2>2, NotQueued
  <1>4. FlagsOK' /\ PageOK' /\ ServiceOK' /\ StreamOK'
    BY <1>1, TypeParts DEF GuiInv, FlagsOK, PageOK, ServiceOK, StreamOK
  <1>5. QED
    BY <1>1, <1>3, <1>4, TypeParts DEF GuiInv

-----------------------------------------------------------------------------
(* The service *)

\* ConnLifecycle writes the same statuses.
LEMMA SameStatuses ==
    /\ Service!Disconnected = Disconnected
    /\ \A u : Service!Connecting(u) = Connecting(u) /\ Service!Connected(u) = Connected(u)
    /\ \A e : Service!ErrorStatus(e) = ErrorStatus(e)
  BY DEF Service!Disconnected, Service!Connecting, Service!Connected, Service!ErrorStatus,
        Service!StatusOf, Disconnected, Connecting, Connected, ErrorStatus, StatusOf

\* A change of status is the last of the events, unless nobody has subscribed.
LEMMA AnnounceFacts ==
    ASSUME GuiInv, Announce, svc' \in Statuses
    PROVE  /\ StreamOK'
           /\ ~muddled /\ stream' # <<>> => subscribed /\ stream'[Len(stream')] = svc'
  <1>0. stream \in Seq(Statuses) /\ Len(stream) \in Nat /\ Len(stream) < MaxStream
    BY TypeParts DEF GuiInv, StreamOK, Announce
  <1>1. CASE subscribed
    <2>1. stream' = Append(stream, svc')
      BY <1>1 DEF Announce
    <2>2. /\ stream' \in Seq(Statuses) /\ Len(stream') = Len(stream) + 1
          /\ stream'[Len(stream')] = svc'
      BY <1>0, <2>1
    <2>3. QED
      BY <1>0, <1>1, <2>2 DEF StreamOK
  <1>2. CASE ~subscribed
    BY <1>0, <1>2 DEF Announce, StreamOK, GuiInv, AloneInv
  <1>3. QED
    BY <1>1, <1>2

\* The call at the mutex is answered, with where the service stands from then on.
LEMMA AnswerStep ==
    ASSUME GuiInv, waiting # <<>>, Answer(Head(waiting), svc'),
           svc' \in Statuses, svc'.state # "connecting",
           job[Head(waiting)].cmd.cmd = "disconnect" => svc' = Disconnected,
           StreamOK',
           ~muddled /\ stream' # <<>> => subscribed /\ stream'[Len(stream')] = svc',
           UNCHANGED <<pageVars, up, subscribed, muddled>>
    PROVE  GuiInv'
  <1> USE DEF pageVars
  <1> DEFINE w == Head(waiting)
             c == IF w = Other THEN NoCall ELSE [job[w] EXCEPT !.at = "answered", !.reply = svc']
  <1>0. /\ JobOK /\ waiting \in Seq(Callers) /\ Other \in Callers
        /\ w \in Callers /\ w = waiting[1] /\ 1 \in 1..Len(waiting)
        /\ job[w].at = "queued" /\ job[w] # NoCall /\ job[w] \in Calls
    BY AtMutex, TypeParts DEF GuiInv, ServiceOK, Callers
  <1>1. waiting' = Tail(waiting) /\ job' = [job EXCEPT ![w] = c]
    BY DEF Answer
  <1>2. /\ c \in Calls /\ c.at # "failed"
        /\ w = Other => c = NoCall
        /\ w # Other => c.at = "answered" /\ c.cmd = job[w].cmd /\ c.doing = job[w].doing
        /\ c.at = "answered" => w # Other /\ c.reply = svc'
    BY <1>0, CallFacts, StatusFacts DEF Calls
  <1> HIDE DEF c
  <1>3. JobOK' /\ job'[w] = c /\ \A k \in Callers \ {w} : job'[k] = job[k]
    BY <1>0, <1>1, <1>2, JobSet
  <1>4. /\ waiting' \in Seq(Callers) /\ Len(waiting') = Len(waiting) - 1
        /\ \A i \in 1..Len(waiting') : waiting'[i] = waiting[i + 1]
    BY <1>0, <1>1
  <1>5. \A i \in 1..Len(waiting') : i + 1 \in 1..Len(waiting) /\ waiting[i + 1] \in Callers \ {w}
    BY <1>0, <1>4 DEF GuiInv, QueueInv
  <1>6. QueueInv'
    <2>1. \A i \in 1..Len(waiting') : job'[waiting'[i]].at = "queued"
      BY <1>3, <1>4, <1>5 DEF GuiInv, QueueInv
    <2>2. \A i, k \in 1..Len(waiting') : waiting'[i] = waiting'[k] => i = k
      BY <1>0, <1>4, <1>5 DEF GuiInv, QueueInv
    <2>3. QED
      BY <2>1, <2>2 DEF QueueInv
  <1>7. AnswerInv'
    BY <1>2, <1>3 DEF GuiInv, AnswerInv
  <1>8. GateInv'
    BY <1>0, <1>2, <1>3 DEF GuiInv, GateInv, Callers
  <1>9. FlagsOK' /\ PageOK' /\ ServiceOK'
    BY <1>4, TypeParts DEF GuiInv, FlagsOK, PageOK, ServiceOK
  <1>10. ASSUME ~muddled PROVE AloneInv' /\ LastWordInv' /\ ClockInv'
    <2>1. AloneInv /\ LastWordInv /\ ClockInv
      BY <1>10 DEF GuiInv
    <2>2. w # Other /\ \A k \in Callers \ {w} : job'[k] = NoCall
      BY <1>0, <1>3, <2>1 DEF AloneInv
    <2>3. AloneInv'
      BY <1>0, <1>2, <1>3, <1>10, <2>2, CallFacts DEF AloneInv
    <2>4. LastWordInv'
      <3>1. job'[w] # NoCall
        BY <1>2, <1>3, <2>2, CallFacts
      <3>2. QED
        BY <1>0, <1>2, <1>3, <1>10, <2>2, <3>1, CallFacts DEF LastWordInv
    <2>5. ClockInv'
      BY <1>2, <1>3, <2>1, <2>2 DEF ClockInv
    <2>6. QED
      BY <2>3, <2>4, <2>5
  <1>11. QED
    BY <1>3, <1>6, <1>7, <1>8, <1>9, <1>10, TypeParts DEF GuiInv

LEMMA ServiceBeginStep ==
    ASSUME GuiInv, ServiceConnects
    PROVE  GuiInv'
  <1> USE DEF pageVars
  <1> DEFINE u == job[Head(waiting)].cmd.upstream
  <1>0. /\ waiting # <<>> /\ job[Head(waiting)].cmd.cmd = "connect"
        /\ svc' = Connecting(u) /\ Announce
        /\ UNCHANGED <<view, providerId, token, ticking, job, waiting, up, subscribed, muddled>>
    BY SameStatuses DEF ServiceConnects, Asked, Service!Begin
  <1>1. Head(waiting) \in Callers /\ job[Head(waiting)] # NoCall /\ job[Head(waiting)].at = "queued"
    BY <1>0, AtMutex
  <1>2. svc' \in Statuses
    <2>1. job[Head(waiting)].cmd \in LockedCommands \cup {CommandOf("none", NoUpstream)}
      BY <1>0, AtMutex DEF Calls
    <2>2. u \in Upstreams
      BY <1>0, <2>1, CommandFacts
    <2>3. QED
      BY <1>0, <2>2, StatusFacts
  <1>3. StreamOK' /\ (~muddled /\ stream' # <<>> => subscribed /\ stream'[Len(stream')] = svc')
    BY <1>0, <1>2, AnnounceFacts
  <1>4. FlagsOK' /\ PageOK' /\ JobOK' /\ ServiceOK'
    BY <1>0, <1>2, TypeParts DEF GuiInv, FlagsOK, PageOK, JobOK, ServiceOK
  <1>5. QueueInv' /\ AnswerInv' /\ GateInv'
    BY <1>0 DEF GuiInv, QueueInv, Asked, AnswerInv, GateInv
  <1>6. ASSUME ~muddled PROVE AloneInv' /\ LastWordInv' /\ ClockInv'
    <2>1. AloneInv /\ LastWordInv /\ ClockInv
      BY <1>6 DEF GuiInv
    <2>2. \A k \in Callers : job[k].at # "answered"
      BY <1>1, <2>1, CallFacts DEF AloneInv
    <2>3. AloneInv'
      BY <1>0, <1>3, <1>6, <2>1 DEF AloneInv
    <2>4. LastWordInv'
      BY <1>0, <1>1, <1>3, <1>6, <2>2 DEF LastWordInv
    <2>5. ClockInv'
      BY <1>0, <2>1 DEF ClockInv
    <2>6. QED
      BY <2>3, <2>4, <2>5
  <1>7. QED
    BY <1>0, <1>3, <1>4, <1>5, <1>6, TypeParts DEF GuiInv

LEMMA ServiceAnswersStep ==
    ASSUME GuiInv, ServiceConnected \/ ServiceDisconnects \/ ServiceTells
    PROVE  GuiInv'
  <1>0. svc \in Statuses
    BY TypeParts DEF GuiInv, ServiceOK
  <1>1. CASE ServiceConnected
    <2>1. waiting # <<>> /\ job[Head(waiting)].cmd.cmd = "connect" /\ Announce
          /\ Answer(Head(waiting), svc') /\ UNCHANGED <<pageVars, up, subscribed, muddled>>
      BY <1>1 DEF ServiceConnected, Asked
    <2>2. svc' \in Statuses /\ svc'.state # "connecting"
      BY <1>0, <1>1, StatusFacts, SameStatuses DEF ServiceConnected, Service!Succeed, Service!Fail
    <2>3. QED
      BY <2>1, <2>2, AnnounceFacts, AnswerStep
  <1>2. CASE ServiceDisconnects
    <2>1. waiting # <<>> /\ svc' = Disconnected /\ Announce
          /\ Answer(Head(waiting), svc') /\ UNCHANGED <<pageVars, up, subscribed, muddled>>
      BY <1>2, SameStatuses DEF ServiceDisconnects, Asked, Service!Drop
    <2>2. svc' \in Statuses /\ svc'.state # "connecting"
      BY <2>1, StatusFacts
    <2>3. QED
      BY <2>1, <2>2, AnnounceFacts, AnswerStep
  <1>3. CASE ServiceTells
    <2>1. /\ waiting # <<>> /\ job[Head(waiting)].cmd.cmd \in {"get_status", "connect"}
          /\ Answer(Head(waiting), svc') /\ svc' = svc
          /\ UNCHANGED <<pageVars, up, subscribed, stream, muddled>>
      BY <1>3 DEF ServiceTells, Asked
    <2>2. svc'.state # "connecting"
      BY <1>3, <2>1 DEF ServiceTells, GuiInv, QueueInv, Asked
    <2>3. StreamOK' /\ (~muddled /\ stream' # <<>> => subscribed /\ stream'[Len(stream')] = svc')
      BY <2>1, TypeParts DEF GuiInv, StreamOK, AloneInv, LastWordInv
    <2>4. QED
      BY <1>0, <2>1, <2>2, <2>3, AnswerStep
  <1>4. QED
    BY <1>1, <1>2, <1>3

\* The snapshot that a new subscription begins with is where the service stands.
LEMMA ResubscribeStep ==
    ASSUME GuiInv, Resubscribe
    PROVE  GuiInv'
  <1>0. /\ stream' = Append(stream, svc) /\ Len(stream) < MaxStream /\ subscribed' = TRUE
        /\ UNCHANGED <<view, providerId, token, ticking, job, waiting, svc, up, muddled>>
    BY DEF Resubscribe, pageVars, serviceVars
  <1>1. /\ stream' \in Seq(Statuses) /\ Len(stream') = Len(stream) + 1 /\ Len(stream) \in Nat
        /\ stream' # <<>> /\ stream'[Len(stream')] = svc
    BY <1>0, TypeParts DEF GuiInv, StreamOK, ServiceOK
  <1>2. StreamOK' /\ PageOK' /\ JobOK' /\ ServiceOK'
    BY <1>0, <1>1, TypeParts DEF GuiInv, StreamOK, PageOK, JobOK, ServiceOK
  <1>3. FlagsOK'
    BY <1>0, TypeParts DEF GuiInv, FlagsOK
  <1>4. QueueInv' /\ AnswerInv' /\ GateInv'
    BY <1>0 DEF GuiInv, QueueInv, Asked, AnswerInv, GateInv
  <1>5. ASSUME ~muddled PROVE AloneInv' /\ LastWordInv' /\ ClockInv'
    BY <1>0, <1>1, <1>5 DEF GuiInv, AloneInv, LastWordInv, ClockInv
  <1>6. QED
    BY <1>0, <1>2, <1>3, <1>4, <1>5, TypeParts DEF GuiInv

\* What happens beside the page muddles it, and keeps the rest.
LEMMA TroubleStep ==
    ASSUME GuiInv, ServiceDies \/ ServiceStarts \/ OtherCalls
    PROVE  GuiInv'
  <1> USE DEF pageVars, serviceVars
  <1>0. JobOK /\ muddled' = TRUE /\ UNCHANGED <<view, providerId, token, ticking, stream>>
    BY TypeParts DEF GuiInv, ServiceDies, ServiceStarts, OtherCalls
  <1>1. PageOK' /\ StreamOK'
    BY <1>0, TypeParts DEF GuiInv, PageOK, StreamOK
  <1>2. FlagsOK'
    BY <1>0, TypeParts DEF GuiInv, FlagsOK, ServiceDies, ServiceStarts, OtherCalls
  <1>3. JobOK' /\ ServiceOK' /\ QueueInv' /\ AnswerInv' /\ GateInv'
    <2>1. CASE ServiceDies
      <3> DEFINE gone(k) == IF k = Other THEN NoCall
                            ELSE IF job[k].at = "queued" THEN [job[k] EXCEPT !.at = "failed"]
                            ELSE job[k]
      <3>1. /\ svc' = Disconnected /\ waiting' = <<>>
            /\ job' = [k \in Callers |-> gone(k)]
        BY <2>1 DEF ServiceDies
      <3>2. ASSUME NEW k \in Callers
            PROVE  /\ gone(k) \in Calls
                   /\ gone(k).at = "answered" => gone(k) = job[k]
                   /\ k # Other => gone(k).cmd = job[k].cmd /\ gone(k).doing = job[k].doing
        <4>1. job[k] \in Calls
          BY <1>0 DEF JobOK
        <4>2. QED
          BY <4>1, CallFacts DEF Calls
      <3> HIDE DEF gone
      <3>3. JobOK' /\ \A k \in Callers : job'[k] = gone(k)
        BY <3>1, <3>2 DEF JobOK
      <3>4. ServiceOK' /\ QueueInv'
        <4>1. <<>> \in Seq(Callers) /\ Len(<<>>) = 0
          OBVIOUS
        <4>2. QED
          BY <3>1, <4>1, StatusFacts DEF ServiceOK, QueueInv
      <3>5. AnswerInv'
        BY <3>2, <3>3 DEF GuiInv, AnswerInv
      <3>6. GateInv'
        BY <1>0, <3>2, <3>3 DEF GuiInv, GateInv, Callers
      <3>7. QED
        BY <3>3, <3>4, <3>5, <3>6
    <2>2. CASE ServiceStarts
      BY <1>0, <2>2, TypeParts
      DEF ServiceStarts, GuiInv, JobOK, ServiceOK, QueueInv, Asked, AnswerInv, GateInv
    <2>3. CASE OtherCalls
      <3>1. PICK cmd \in {DisconnectCmd} \cup {ConnectTo(u) : u \in Upstreams} :
              job' = [job EXCEPT ![Other] = Sent("other", cmd)]
        BY <2>3 DEF OtherCalls
      <3>2. cmd \in LockedCommands /\ "other" \in Doings
        BY CommandFacts DEF Doings
      <3>3. /\ Sent("other", cmd) \in Calls /\ Sent("other", cmd).at = "sent"
            /\ Other \in Callers /\ job[Other].at # "queued" /\ Other \notin Jobs
        BY <2>3, <3>2, CallFacts DEF OtherCalls, Callers
      <3>4. JobOK' /\ QueueInv' /\ AnswerInv' /\ GateInv'
        <4>1. waiting' = waiting /\ svc' = svc /\ Sent("other", cmd).at # "answered"
          BY <2>3, <3>3 DEF OtherCalls
        <4>2. token => token'
          BY <1>0
        <4>3. QED
          BY <3>1, <3>3, <4>1, <4>2, NotQueued
      <3>5. ServiceOK'
        BY <2>3, TypeParts DEF OtherCalls, GuiInv, ServiceOK
      <3>6. QED
        BY <3>4, <3>5
    <2>4. QED
      BY <2>1, <2>2, <2>3
  <1>4. QED
    BY <1>0, <1>1, <1>2, <1>3, TypeParts DEF GuiInv

-----------------------------------------------------------------------------
(* The theorems *)

LEMMA GuiNext == GuiInv /\ [Next]_vars => GuiInv'
  <1> SUFFICES ASSUME GuiInv, [Next]_vars PROVE GuiInv'
    OBVIOUS
  <1>1. CASE UNCHANGED vars
    <2>1. UNCHANGED <<view, token, ticking, job, serviceVars, subscribed, stream, muddled>>
          /\ providerId' = providerId
      BY <1>1 DEF vars, pageVars
    <2>2. QED
      BY <2>1, IdleStep, TypeParts DEF GuiInv, PageOK
  <1>2. CASE Next
    BY <1>2, UserStep, ReplyStep, FailureStep, ReconnectStep, EventStep, ArriveStep,
       UnreachableStep, ServiceBeginStep, ServiceAnswersStep, ResubscribeStep, TroubleStep
    DEF Next, ServiceStep
  <1>3. QED
    BY <1>1, <1>2

\* App.svelte with one_shot and subscribe_forever: the inductive invariant holds for any
\* number of functions in progress, providers and events on their way.
THEOREM GuiInvariant == Spec => []GuiInv
  BY GuiInit, GuiNext, PTL DEF Spec

\* applyStatus: a page that was left alone shows where the service stands, with its clock
\* running exactly while connected, in whatever order the reply and the events came.
THEOREM ViewSettles == Spec => []SettledViewIsTrue
  <1>1. GuiInv => SettledViewIsTrue
    <2> SUFFICES ASSUME GuiInv, Quiet, ~muddled
                 PROVE  view = svc.state /\ (ticking <=> view = "connected")
      BY DEF SettledViewIsTrue
    <2>1. /\ waiting = <<>> /\ stream = <<>> /\ \A k \in Callers : job[k] = NoCall
          /\ LastWordInv /\ ClockInv
      BY DEF Quiet, GuiInv
    <2>2. view = svc.state
      BY <2>1 DEF LastWordInv
    <2>3. view # "connecting"
      BY <2>1, <2>2 DEF GuiInv, QueueInv, Asked
    <2>4. \A k \in Callers : job[k].cmd # DisconnectCmd
      BY <2>1, CallFacts, CommandFacts
    <2>5. QED
      BY <2>1, <2>2, <2>3, <2>4 DEF ClockInv
  <1>2. QED
    BY GuiInvariant, <1>1, PTL

\* Every variable of the page keeps its type, and the stream its bound.
THEOREM TypeCorrect == Spec => []TypeOK
  <1>1. GuiInv => TypeOK
    BY DEF GuiInv
  <1>2. QED
    BY GuiInvariant, <1>1, PTL

\* toggle, select and the gate: without a token the gated provider is connected by a
\* reconnect that was already in progress, and by nothing else.
THEOREM GateOpensByReconnect == Spec => []GateInv
  <1>1. GuiInv => GateInv
    BY DEF GuiInv
  <1>2. QED
    BY GuiInvariant, <1>1, PTL

=============================================================================
