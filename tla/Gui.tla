---- MODULE Gui ----
(***************************************************************************)
(* The GUI: the page (gui/src/App.svelte), the commands that carry its      *)
(* calls to the service (gui/src-tauri), and the status events that come    *)
(* back on a connection of their own.                                       *)
(*                                                                          *)
(* Every call is a connection of its own, so calls reach the service in any *)
(* order, and a reply may be handled before or after the events that the    *)
(* same call has caused.  The page is single-threaded: it changes between   *)
(* two awaits in one step, and other handlers run while it awaits.          *)
(*                                                                          *)
(* The service is ConnLifecycle behind a fair mutex, as Controller refines  *)
(* it.  Other is a client beside this page, such as the command line.       *)
(***************************************************************************)
EXTENDS VoidnsProto, Sequences, Naturals

CONSTANTS
    Jobs,        \* async functions of the page that may be in progress at once
    Other,       \* another client of the service
    Gated,       \* the provider that needs a token ("voidns")
    MaxStream,   \* bound on the events not yet handled
    Troubles     \* what may happen beside the page

\* other_client: another client connects and disconnects
\* service_dies: the service ends, and may be started again
ASSUME TroublesAssumption == Troubles \subseteq {"other_client", "service_dies"}
ASSUME GatedAssumption == Gated \in Upstreams
ASSUME OtherAssumption == Other \notin Jobs
ASSUME StreamAssumption == MaxStream \in Nat

May(trouble) == trouble \in Troubles

VARIABLES
    view,        \* App.svelte: status
    providerId,  \* App.svelte: providerId, as the upstream it stands for
    token,       \* App.svelte: whether a token has been entered
    ticking,     \* App.svelte: whether tickTimer runs
    job,         \* the call each async function awaits
    waiting,     \* the calls at the mutex of the service, its holder first
    svc,         \* the status of the service
    up,          \* whether the service runs
    subscribed,  \* whether subscribe_forever has its connection
    stream,      \* status events on their way to the page
    muddled      \* history: the page has acted on its own, or not alone, since it last called

pageVars == <<view, providerId, token, ticking>>
serviceVars == <<waiting, svc, up>>
vars == <<pageVars, job, serviceVars, subscribed, stream, muddled>>

Callers == Jobs \cup {Other}

\* doing: the function that awaits; cmd: what it has asked; reply: what it was told.
CallOf(at, doing, cmd, reply) == [at |-> at, doing |-> doing, cmd |-> cmd, reply |-> reply]

NoCall == CallOf("idle", "nothing", CommandOf("none", NoUpstream), NoEvent)
Sent(doing, cmd) == CallOf("sent", doing, cmd, NoEvent)

ConnectTo(u) == CommandOf("connect", u)
DisconnectCmd == CommandOf("disconnect", NoUpstream)
GetStatusCmd == CommandOf("get_status", NoUpstream)

TypeOK ==
    /\ view \in {"disconnected", "connecting", "connected", "error"}
    /\ providerId \in Upstreams
    /\ token \in BOOLEAN
    /\ ticking \in BOOLEAN
    /\ job \in [Callers ->
                  [at : {"idle", "sent", "queued", "answered", "failed"},
                   doing : {"nothing", "onMount", "realConnect", "realDisconnect",
                            "reconnectFor", "other"},
                   cmd : LockedCommands \cup {CommandOf("none", NoUpstream)},
                   reply : Events]]
    /\ waiting \in Seq(Callers)
    /\ svc \in Statuses
    /\ up \in BOOLEAN
    /\ subscribed \in BOOLEAN
    /\ stream \in Seq(Statuses) /\ Len(stream) <= MaxStream
    /\ muddled \in BOOLEAN

\* The page is mounted on a service in any settled state: it listens, and asks.
Init ==
    /\ view = "disconnected"
    /\ providerId \in Upstreams \ {Gated}
    /\ token = FALSE
    /\ ticking = FALSE
    /\ \E j \in Jobs :
           job = [k \in Callers |-> IF k = j THEN Sent("onMount", GetStatusCmd) ELSE NoCall]
    /\ waiting = <<>>
    /\ up \in {TRUE} \cup {b \in {FALSE} : May("service_dies")}
    /\ svc \in {s \in Statuses : s.state # "connecting"}
    /\ ~up => svc = Disconnected
    /\ subscribed \in BOOLEAN
    /\ subscribed => up
    /\ stream = <<>>
    /\ muddled = FALSE

-----------------------------------------------------------------------------
(* The page *)

\* Nothing is on its way between the page and the service.
Quiet == waiting = <<>> /\ stream = <<>> /\ \A k \in Callers : job[k] = NoCall

\* A call made alone will tell the page where the service stands.
Call(j, doing, cmd) ==
    /\ job[j] = NoCall
    /\ job' = [job EXCEPT ![j] = Sent(doing, cmd)]
    /\ muddled' = ~Quiet

\* Mutant: the clock is started by the first connect only.
ApplyStatusNoClock(s) ==
    /\ view' = s.state
    /\ ticking' = CASE s.state = "connected" -> ticking \/ view = "disconnected"
                    [] s.state = "connecting" -> ticking
                    [] OTHER -> FALSE

\* Mutant: an error status only changes the message.
ApplyStatusIgnoresError(s) ==
    /\ view' = IF s.state = "error" THEN view ELSE s.state
    /\ ticking' = CASE s.state = "connected" -> ticking \/ view # "connected"
                    [] s.state = "connecting" -> ticking
                    [] OTHER -> FALSE

ApplyStatus(s) ==
    /\ view' = s.state
    /\ ticking' = CASE s.state = "connected" -> ticking \/ view # "connected"
                    [] s.state = "connecting" -> ticking
                    [] OTHER -> FALSE

RealConnect(j) ==
    /\ Call(j, "realConnect", ConnectTo(providerId))
    /\ view' = "connecting"
    /\ ticking' = FALSE

RealDisconnect(j) ==
    /\ Call(j, "realDisconnect", DisconnectCmd)
    /\ ticking' = FALSE
    /\ UNCHANGED view

\* The provider needs a token that has not been entered: the gate is shown.
ShowGate ==
    /\ view' = "error"
    /\ ticking' = FALSE
    /\ muddled' = TRUE
    /\ UNCHANGED job

\* Mutant: the button connects without looking for a token.
ToggleUngated(j) ==
    /\ \/ view \in {"disconnected", "error"} /\ RealConnect(j)
       \/ view \in {"connected", "connecting"} /\ RealDisconnect(j)
    /\ UNCHANGED <<providerId, token, serviceVars, subscribed, stream>>

Toggle(j) ==
    /\ \/ /\ view \in {"disconnected", "error"}
          /\ providerId = Gated /\ ~token
          /\ ShowGate
       \/ /\ view \in {"disconnected", "error"}
          /\ providerId # Gated \/ token
          /\ RealConnect(j)
       \/ /\ view \in {"connected", "connecting"}
          /\ RealDisconnect(j)
    /\ UNCHANGED <<providerId, token, serviceVars, subscribed, stream>>

\* The new provider is shown at once; a connection is then torn down and rebuilt.
SelectProvider(j, id) ==
    /\ id # providerId
    /\ providerId' = id
    /\ \/ id = Gated /\ ~token /\ ShowGate
       \/ /\ id # Gated \/ token
          /\ view \in {"connected", "connecting"}
          /\ Call(j, "reconnectFor", DisconnectCmd)
          /\ ticking' = FALSE
          /\ UNCHANGED view
       \/ /\ id # Gated \/ token
          /\ view \in {"disconnected", "error"}
          /\ UNCHANGED <<view, ticking, job, muddled>>
    /\ UNCHANGED <<token, serviceVars, subscribed, stream>>

\* The gate can be opened at any time.  Its provider is selected without a reconnect,
\* and an error is taken back, whatever the service is doing.
ActivateToken ==
    /\ token' = TRUE
    /\ providerId' = Gated
    /\ view' = IF view = "error" THEN "disconnected" ELSE view
    /\ muddled' = TRUE
    /\ UNCHANGED <<ticking, job, serviceVars, subscribed, stream>>

Finish(j) == job' = [job EXCEPT ![j] = NoCall]

HandleReply(j) ==
    /\ job[j].at = "answered"
    /\ job[j].cmd = DisconnectCmd => job[j].doing # "reconnectFor"
    /\ Finish(j)
    /\ ApplyStatus(job[j].reply)
    /\ UNCHANGED <<providerId, token, serviceVars, subscribed, stream, muddled>>

\* The catch clauses; that of onMount leaves everything to the subscription.
HandleFailure(j) ==
    /\ job[j].at = "failed"
    /\ job[j].cmd = DisconnectCmd => job[j].doing # "reconnectFor"
    /\ Finish(j)
    /\ view' = CASE job[j].doing = "onMount" -> view
                 [] job[j].doing = "realDisconnect" -> "disconnected"
                 [] OTHER -> "error"
    /\ UNCHANGED <<providerId, token, ticking, serviceVars, subscribed, stream, muddled>>

\* reconnectFor goes on after its disconnect, answered or failed, with the provider
\* that is selected by now.
ReconnectNow(j) ==
    /\ job[j].doing = "reconnectFor"
    /\ job[j].cmd = DisconnectCmd
    /\ job[j].at \in {"answered", "failed"}
    /\ job' = [job EXCEPT ![j] = Sent("reconnectFor", ConnectTo(providerId))]
    /\ view' = "connecting"
    /\ UNCHANGED <<providerId, token, ticking, serviceVars, subscribed, stream, muddled>>

HandleEvent ==
    /\ stream # <<>>
    /\ stream' = Tail(stream)
    /\ ApplyStatus(Head(stream))
    /\ UNCHANGED <<providerId, token, job, serviceVars, subscribed, muddled>>

-----------------------------------------------------------------------------
(* one_shot: a connection for each call *)

Arrive(j) ==
    /\ job[j].at = "sent"
    /\ up
    /\ job' = [job EXCEPT ![j].at = "queued"]
    /\ waiting' = Append(waiting, j)
    /\ UNCHANGED <<pageVars, svc, up, subscribed, stream, muddled>>

Unreachable(j) ==
    /\ job[j].at = "sent"
    /\ ~up
    /\ job' = [job EXCEPT ![j].at = "failed"]
    /\ muddled' = TRUE
    /\ UNCHANGED <<pageVars, serviceVars, subscribed, stream>>

-----------------------------------------------------------------------------
(* The service *)

Service == INSTANCE ConnLifecycle WITH status <- svc

\* A change of status goes to the subscriber.
Announce ==
    /\ Len(stream) < MaxStream
    /\ stream' = IF subscribed THEN Append(stream, svc') ELSE stream

\* The other client does not tell this page what it was told.
Answer(j, s) ==
    /\ waiting' = Tail(waiting)
    /\ job' = [job EXCEPT ![j] =
                  IF j = Other THEN NoCall ELSE [@ EXCEPT !.at = "answered", !.reply = s]]

Asked(cmd) == waiting # <<>> /\ job[Head(waiting)].cmd.cmd = cmd

ServiceConnects ==
    /\ Asked("connect")
    /\ Service!Begin(job[Head(waiting)].cmd.upstream)
    /\ Announce
    /\ UNCHANGED <<pageVars, job, waiting, up, subscribed, muddled>>

ServiceConnected ==
    /\ Asked("connect")
    /\ Service!Succeed \/ \E e \in ErrorCauses : Service!Fail(e)
    /\ Announce
    /\ Answer(Head(waiting), svc')
    /\ UNCHANGED <<pageVars, up, subscribed, muddled>>

ServiceDisconnects ==
    /\ Asked("disconnect")
    /\ Service!Drop
    /\ Announce
    /\ Answer(Head(waiting), svc')
    /\ UNCHANGED <<pageVars, up, subscribed, muddled>>

\* get_status, and a connect that finds the service connected.
ServiceTells ==
    /\ \/ Asked("get_status")
       \/ Asked("connect") /\ svc.state = "connected"
    /\ Answer(Head(waiting), svc)
    /\ UNCHANGED <<pageVars, svc, up, subscribed, stream, muddled>>

\* subscribe_forever is back: Subscribe is answered with a snapshot.
Resubscribe ==
    /\ up /\ ~subscribed
    /\ svc.state # "connecting"
    /\ Len(stream) < MaxStream
    /\ subscribed' = TRUE
    /\ stream' = Append(stream, svc)
    /\ UNCHANGED <<pageVars, job, serviceVars, muddled>>

ServiceDies ==
    /\ May("service_dies")
    /\ up
    /\ up' = FALSE
    /\ svc' = Disconnected
    /\ waiting' = <<>>
    /\ subscribed' = FALSE
    /\ job' = [k \in Callers |->
                  IF k = Other THEN NoCall
                  ELSE IF job[k].at = "queued" THEN [job[k] EXCEPT !.at = "failed"]
                  ELSE job[k]]
    /\ muddled' = TRUE
    /\ UNCHANGED <<pageVars, stream>>

ServiceStarts ==
    /\ ~up
    /\ up' = TRUE
    /\ muddled' = TRUE
    /\ UNCHANGED <<pageVars, job, waiting, svc, subscribed, stream>>

OtherCalls ==
    /\ May("other_client")
    /\ up
    /\ job[Other] = NoCall
    /\ \E cmd \in {DisconnectCmd} \cup {ConnectTo(u) : u \in Upstreams} :
           job' = [job EXCEPT ![Other] = Sent("other", cmd)]
    /\ muddled' = TRUE
    /\ UNCHANGED <<pageVars, serviceVars, subscribed, stream>>

-----------------------------------------------------------------------------
ServiceStep ==
    ServiceConnects \/ ServiceConnected \/ ServiceDisconnects \/ ServiceTells

Next ==
    \/ \E j \in Jobs :
           \/ Toggle(j) \/ \E id \in Upstreams : SelectProvider(j, id)
           \/ HandleReply(j) \/ HandleFailure(j) \/ ReconnectNow(j)
    \/ \E j \in Callers : Arrive(j) \/ Unreachable(j)
    \/ ActivateToken \/ HandleEvent
    \/ ServiceStep
    \/ Resubscribe \/ ServiceDies \/ ServiceStarts \/ OtherCalls

Spec == Init /\ [][Next]_vars

\* The page runs its handlers, the calls travel, the service answers (Answered of
\* Controller) and the subscription is retried every two seconds; its Subscribe waits
\* its turn at the fair mutex, and gets it however often the status changes.  Nothing
\* makes the user click, and nothing starts a service that is down.
FairSpec ==
    /\ Spec
    /\ WF_vars(ServiceStep) /\ WF_vars(HandleEvent) /\ SF_vars(Resubscribe)
    /\ \A j \in Callers : WF_vars(Arrive(j) \/ Unreachable(j))
    /\ \A j \in Jobs : WF_vars(HandleReply(j) \/ HandleFailure(j) \/ ReconnectNow(j))

-----------------------------------------------------------------------------
(* Properties *)

\* When nothing is on its way, the page shows where the service stands and the
\* clock runs exactly while connected, however reply and events were interleaved:
\* provided calls did not overlap, nobody else used the service, it did not die,
\* and the token gate did not overwrite the status.
SettledViewIsTrue ==
    Quiet /\ ~muddled => view = svc.state /\ (ticking <=> view = "connected")

\* The mutex has each caller once, and only a connect leaves the service in between.
QueueInv ==
    /\ \A i \in 1..Len(waiting) : job[waiting[i]].at = "queued"
    /\ \A i, k \in 1..Len(waiting) : waiting[i] = waiting[k] => i = k
    /\ svc.state = "connecting" => Asked("connect")

\* An answer is a status, and that of a disconnect is that it is done.
AnswerInv ==
    \A k \in Callers : job[k].at = "answered" =>
        /\ job[k].reply \in Statuses
        /\ job[k].cmd.cmd = "disconnect" => job[k].reply = Disconnected

\* A page left alone waits for one call, which does not fail.
AloneInv ==
    /\ \A k, l \in Callers : job[k] # NoCall /\ job[l] # NoCall => k = l
    /\ job[Other] = NoCall
    /\ \A k \in Callers : job[k].at # "failed"
    /\ stream # <<>> => subscribed

\* All that comes last, by either way, is where the service stands.
LastWordInv ==
    /\ stream # <<>> => stream[Len(stream)] = svc
    /\ \A k \in Callers : job[k].at = "answered" => job[k].reply = svc
    /\ stream = <<>> /\ (\A k \in Callers : job[k] = NoCall) => view = svc.state

\* A clock that stands while the page shows a connection belongs to a disconnect.
ClockInv ==
    /\ ticking => view \in {"connected", "connecting"}
    /\ view = "connected" /\ ~ticking => \E k \in Callers : job[k].cmd = DisconnectCmd

\* toggle, select and the gate: only a reconnect, which goes on after its await, may
\* ask for the gated provider without a token.
GateInv ==
    \A j \in Jobs : job[j].cmd = ConnectTo(Gated) => token \/ job[j].doing = "reconnectFor"

\* The inductive invariant: why a page left alone ends where the service stands.
GuiInv ==
    /\ TypeOK /\ QueueInv /\ AnswerInv /\ GateInv
    /\ ~muddled => AloneInv /\ LastWordInv /\ ClockInv

\* The button does not stay in "connecting" on a service that runs.
ConnectingEnds == view = "connecting" ~> (view # "connecting" \/ ~up)

\* gui/README.md: VoidNS is gated by a token in the UI: no connect to it is sent
\* without one.
GateHolds == \A j \in Jobs : job[j].cmd = ConnectTo(Gated) => token

=============================================================================
