---- MODULE VoidnsProto ----
(***************************************************************************)
(* The wire types of the IPC protocol (voidns-proto/src/lib.rs): commands,  *)
(* the status snapshot and the replies.                                     *)
(*                                                                          *)
(* A status keeps the state, the upstream label and which half of a connect *)
(* an error came from ("proxy" or "redirect"; the text itself is left out). *)
(* The field listen is Some exactly when the state is connected and adds    *)
(* nothing to tell apart.                                                   *)
(***************************************************************************)
CONSTANTS
    Upstreams,    \* the upstreams a client may select
    NoUpstream    \* the None of Status.upstream

ASSUME NoUpstreamAssumption == NoUpstream \notin Upstreams

StatusOf(state, upstream, error) ==
    [state |-> state, upstream |-> upstream, error |-> error]

Disconnected   == StatusOf("disconnected", NoUpstream, "none")
Connecting(u)  == StatusOf("connecting", u, "none")
Connected(u)   == StatusOf("connected", u, "none")
ErrorStatus(e) == StatusOf("error", NoUpstream, e)

ErrorCauses == {"proxy", "redirect"}

Statuses ==
    {Disconnected}
        \cup {Connecting(u) : u \in Upstreams}
        \cup {Connected(u) : u \in Upstreams}
        \cup {ErrorStatus(e) : e \in ErrorCauses}

CommandOf(cmd, upstream) == [cmd |-> cmd, upstream |-> upstream]

\* Commands that need the controller; Ping is answered without it.
LockedCommands ==
    {CommandOf(c, NoUpstream) : c \in {"get_status", "subscribe", "disconnect"}}
        \cup {CommandOf("connect", u) : u \in Upstreams}

\* The reply to Ping, and the absence of an event.
Pong    == StatusOf("pong", NoUpstream, "none")
NoEvent == StatusOf("no_event", NoUpstream, "none")

Events == Statuses \cup {Pong, NoEvent}

=============================================================================
