---- MODULE IpcFraming ----
(***************************************************************************)
(* One connection between a client and the service, at the level of bytes   *)
(* (voidns-core/src/ipc.rs, and the same framing in voidns-cli and the GUI  *)
(* shell): a frame is a length and a body, either end may stop after any    *)
(* byte, and the read_msg of the service is a branch of a select! that an   *)
(* update of the status may cancel in the middle of a frame.                *)
(*                                                                          *)
(* A frame is FrameUnits units of bytes.  The client may write several      *)
(* commands without waiting, as handle_conn allows; the clients of the      *)
(* repository write one.  What is called is Controller's matter: here a     *)
(* command is a call or a Subscribe.                                        *)
(***************************************************************************)
EXTENDS Sequences, Naturals, FiniteSets

CONSTANTS
    FrameUnits,    \* units of a frame, its length included
    MaxCommands,   \* bound on the commands of the connection
    Capacity,      \* of the broadcast channel (16 in controller.rs)
    SocketRoom     \* frames the socket holds for a client that does not read

ASSUME FrameAssumption == FrameUnits \in Nat /\ FrameUnits >= 2
ASSUME BoundAssumption == MaxCommands \in Nat
ASSUME RoomAssumption == Capacity \in Nat \ {0} /\ SocketRoom \in Nat \ {0}

VARIABLES
    gone,        \* whether the client has closed its end
    kinds,       \* the commands it has begun to write
    written,     \* units it has written of the last one, 0 when that is complete
    pc,          \* handle_conn: where the handler is
    frames,      \* frames the handler has read to the end
    units,       \* units it has read of the frame after them
    astray,      \* its read_msg begins in the middle of a frame
    taken,       \* the commands it has begun to serve
    subscribed,  \* handle_conn: whether subscription is Some
    rx,          \* updates that the receiver holds
    lagged,      \* whether the receiver has lost some
    back,        \* frames on their way to the client
    answers      \* replies the client has read

clientVars == <<gone, kinds, written>>
readVars == <<frames, units, astray, taken>>
updateVars == <<subscribed, rx, lagged>>
vars == <<clientVars, pc, readVars, updateVars, back, answers>>

Kinds == {"call", "subscribe"}

TypeOK ==
    /\ gone \in BOOLEAN
    /\ kinds \in Seq(Kinds)
    /\ written \in 0..(FrameUnits - 1)
    /\ pc \in {"select", "dispatch", "reply", "update", "closed"}
    /\ frames \in Nat
    /\ units \in 0..(FrameUnits - 1)
    /\ astray \in BOOLEAN
    /\ taken \in Seq(Kinds)
    /\ subscribed \in BOOLEAN
    /\ rx \in 0..Capacity
    /\ lagged \in BOOLEAN
    /\ back \in Seq({"reply", "update"}) /\ Len(back) <= SocketRoom
    /\ answers \in Nat

Init ==
    /\ gone = FALSE /\ kinds = <<>> /\ written = 0
    /\ pc = "select"
    /\ frames = 0 /\ units = 0 /\ astray = FALSE /\ taken = <<>>
    /\ subscribed = FALSE /\ rx = 0 /\ lagged = FALSE
    /\ back = <<>> /\ answers = 0

-----------------------------------------------------------------------------
(* The client *)

\* write_u32 and write_all hand over a part at a time.
BeginCommand(kind) ==
    /\ ~gone
    /\ written = 0
    /\ Len(kinds) < MaxCommands
    /\ kinds' = Append(kinds, kind)
    /\ written' = 1
    /\ UNCHANGED <<gone, pc, readVars, updateVars, back, answers>>

WriteUnit ==
    /\ ~gone
    /\ written > 0
    /\ written' = IF written + 1 = FrameUnits THEN 0 ELSE written + 1
    /\ UNCHANGED <<gone, kinds, pc, readVars, updateVars, back, answers>>

\* A client reads whole frames: nothing cancels its read_msg.
ClientReads ==
    /\ ~gone
    /\ back # <<>>
    /\ back' = Tail(back)
    /\ answers' = IF Head(back) = "reply" THEN answers + 1 ELSE answers
    /\ UNCHANGED <<clientVars, pc, readVars, updateVars>>

\* It may leave after any byte; what it has written stays in the socket.
ClientLeaves ==
    /\ ~gone
    /\ gone' = TRUE
    /\ UNCHANGED <<kinds, written, pc, readVars, updateVars, back, answers>>

\* The commands that have been written to the end.
Complete == IF written > 0 THEN Len(kinds) - 1 ELSE Len(kinds)

-----------------------------------------------------------------------------
(* The service: the branches of the select! in handle_conn *)

\* There are bytes that the handler has not read.
Readable == frames < Complete \/ (frames = Complete /\ units < written)

\* Mutant: a body is taken for complete when a part of it has come.
ReadUnitShort ==
    /\ pc = "select"
    /\ Readable /\ ~astray
    /\ \/ /\ units + 1 < FrameUnits
          /\ units' = units + 1
          /\ UNCHANGED <<pc, frames, taken>>
       \/ /\ units + 1 >= FrameUnits - 1
          /\ frames' = frames + 1 /\ units' = 0
          /\ taken' = Append(taken, kinds[frames + 1])
          /\ pc' = "dispatch"
    /\ UNCHANGED <<clientVars, astray, updateVars, back, answers>>

\* read_msg: the last unit of the frame completes the command.
ReadUnit ==
    /\ pc = "select"
    /\ Readable /\ ~astray
    /\ \/ /\ units + 1 < FrameUnits
          /\ units' = units + 1
          /\ UNCHANGED <<pc, frames, taken>>
       \/ /\ units + 1 = FrameUnits
          /\ frames' = frames + 1 /\ units' = 0
          /\ taken' = Append(taken, kinds[frames + 1])
          /\ pc' = "dispatch"
    /\ UNCHANGED <<clientVars, astray, updateVars, back, answers>>

\* A read that began in the middle of a frame takes text for a length.  It waits for
\* far more bytes than will come, or gets them and fails to parse them, and the
\* connection is closed.
ReadAstray ==
    /\ pc = "select"
    /\ Readable /\ astray
    /\ IF units + 1 < FrameUnits
       THEN units' = units + 1 /\ UNCHANGED frames
       ELSE units' = 0 /\ frames' = frames + 1
    /\ pc' \in {"select", "closed"}
    /\ UNCHANGED <<clientVars, astray, taken, updateVars, back, answers>>

\* Mutant: the end of the stream is noticed before what has come is read.
EofEager ==
    /\ pc = "select"
    /\ gone
    /\ pc' = "closed"
    /\ UNCHANGED <<clientVars, readVars, updateVars, back, answers>>

\* The peer has closed: Ok(None) between two frames or in a length, an error in a
\* body.  The handler returns in every case.
Eof ==
    /\ pc = "select"
    /\ gone /\ ~Readable
    /\ pc' = "closed"
    /\ UNCHANGED <<clientVars, readVars, updateVars, back, answers>>

\* Mutant: Subscribe is answered by the updates that follow it.
DispatchSilent ==
    /\ pc = "dispatch"
    /\ IF taken[Len(taken)] = "subscribe"
       THEN /\ subscribed' = TRUE /\ rx' = 0 /\ lagged' = FALSE
            /\ pc' = "select"
       ELSE UNCHANGED updateVars /\ pc' = "reply"
    /\ UNCHANGED <<clientVars, readVars, back, answers>>

\* dispatch: a Subscribe replaces the receiver by a new one.
Dispatch ==
    /\ pc = "dispatch"
    /\ IF taken[Len(taken)] = "subscribe"
       THEN subscribed' = TRUE /\ rx' = 0 /\ lagged' = FALSE
       ELSE UNCHANGED updateVars
    /\ pc' = "reply"
    /\ UNCHANGED <<clientVars, readVars, back, answers>>

\* write_msg: waits while the socket is full, fails when the client has gone.
WriteMsg(frame, next) ==
    /\ \/ /\ ~gone
          /\ Len(back) < SocketRoom
          /\ back' = Append(back, frame)
          /\ pc' = next
       \/ /\ gone
          /\ pc' = "closed"
          /\ UNCHANGED back
    /\ UNCHANGED <<clientVars, readVars, updateVars, answers>>

\* Mutant: a connection is good for one command.
WriteReplyOnce == pc = "reply" /\ WriteMsg("reply", "closed")

WriteReply == pc = "reply" /\ WriteMsg("reply", "select")

WriteUpdate == pc = "update" /\ WriteMsg("update", "select")

\* Mutant: recv_opt returns None at once without a subscription.
UpdateReadyNone == ~subscribed \/ rx > 0 \/ lagged

\* recv_opt: it never resolves without a subscription.
UpdateReady == rx > 0 \/ lagged

\* recv_opt wins the select!: read_msg is dropped with what it has read of a frame.
\* Lagged is an update that is None: nothing is written, but the read is dropped.
TakeUpdate ==
    /\ pc = "select"
    /\ UpdateReady
    /\ astray' = (astray \/ units > 0)
    /\ IF rx > 0 /\ ~lagged
       THEN rx' = rx - 1 /\ pc' = "update" /\ UNCHANGED lagged
       ELSE lagged' = FALSE /\ UNCHANGED <<rx, pc>>
    /\ UNCHANGED <<clientVars, frames, units, taken, subscribed, back, answers>>

\* The status changes (Controller::set, for any connection).
Announce ==
    /\ subscribed /\ pc # "closed"
    /\ IF rx < Capacity
       THEN rx' = rx + 1 /\ UNCHANGED lagged
       ELSE lagged' = TRUE /\ UNCHANGED rx
    /\ UNCHANGED <<clientVars, pc, readVars, subscribed, back, answers>>

-----------------------------------------------------------------------------
Closed == pc = "closed" /\ gone /\ UNCHANGED vars

Next ==
    \/ \E kind \in Kinds : BeginCommand(kind)
    \/ WriteUnit \/ ClientReads \/ ClientLeaves
    \/ ReadUnit \/ ReadAstray \/ Eof \/ TakeUpdate
    \/ Dispatch \/ WriteReply \/ WriteUpdate
    \/ Announce
    \/ Closed

Spec == Init /\ [][Next]_vars

\* The runtime polls a handler that can go on, a client that stays finishes what it
\* writes and reads what it is sent.  select! polls its branches in random order:
\* updates cannot keep the other branch from being polled first for ever.  Nobody
\* is obliged to send a command, and no status to change.
FairSpec ==
    /\ Spec
    /\ WF_vars(WriteUnit) /\ WF_vars(ClientReads)
    /\ SF_vars(ReadUnit) /\ SF_vars(TakeUpdate)
    /\ WF_vars(ReadAstray) /\ WF_vars(Eof)
    /\ WF_vars(Dispatch) /\ WF_vars(WriteReply) /\ WF_vars(WriteUpdate)

-----------------------------------------------------------------------------
(* Properties *)

\* No command has been begun after a Subscribe before the n-th.
BeforeUpdates(n) == \A i \in 1..(n - 1) : kinds[i] # "subscribe"

\* ipc.rs, "Commands are one-shot connections; status is streamed over a single
\* long-lived Subscribe connection": the reads of the service stay at the boundaries
\* of frames, unless the client goes on to send commands where it has subscribed.
InStep == astray => ~BeforeUpdates(Len(kinds))

\* The dispatcher gets the commands the client has written to the end, in their
\* order, each once, also from a connection that has gone out of step or that the
\* client has left in the middle of a command.
Channel == INSTANCE CommandChannel WITH sent <- SubSeq(kinds, 1, Complete)
ChannelSpec == Channel!Spec

\* The replies among the first i of some frames.
Replies(sent, i) == Cardinality({k \in 1..i : sent[k] = "reply"})

\* An update never reaches a subscriber before the reply to its Subscribe, from which
\* it takes the status it starts with.
SnapshotFirst ==
    \A i \in 1..Len(back) : back[i] = "update" =>
        \E n \in 1..Len(kinds) : kinds[n] = "subscribe" /\ n <= answers + Replies(back, i - 1)

\* A client that stays is answered every command up to its Subscribe, however the
\* bytes arrive and however often the status changes.
Answered ==
    \A n \in 1..MaxCommands :
        (Len(kinds) >= n /\ BeforeUpdates(n)) ~> (answers >= n \/ gone)

\* The first command is served once its last byte is written, even if the client does
\* not wait for the reply: a caller that gives up has not taken its command back.
FirstIsServed == Complete >= 1 ~> Len(taken) >= 1

=============================================================================
