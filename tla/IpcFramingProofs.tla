---- MODULE IpcFramingProofs ----
(***************************************************************************)
(* Proofs about IpcFraming, for every frame length, every number of         *)
(* commands and every capacity: where the reads of the service begin, what  *)
(* the dispatcher is given, and in which order the client is told.          *)
(***************************************************************************)
EXTENDS IpcFraming, SequenceTheorems, FiniteSetTheorems, TLAPS

\* TypeOK, with its truth values apart from the rest.
FlagsOK == gone \in BOOLEAN /\ astray \in BOOLEAN /\ subscribed \in BOOLEAN /\ lagged \in BOOLEAN

DataOK ==
    /\ kinds \in Seq(Kinds) /\ written \in 0..(FrameUnits - 1)
    /\ pc \in {"select", "dispatch", "reply", "update", "closed"}
    /\ frames \in Nat /\ units \in 0..(FrameUnits - 1)
    /\ taken \in Seq(Kinds)
    /\ rx \in 0..Capacity
    /\ back \in Seq({"reply", "update"}) /\ Len(back) <= SocketRoom
    /\ answers \in Nat

\* The service never reads past what the client has written.
ReadBehind ==
    /\ frames < Complete \/ (frames = Complete /\ units <= written)
    /\ written > 0 => Len(kinds) > 0

\* What has been taken is the beginning of what has been begun, and all that has been
\* read as long as the connection is in step.
TakenFirst ==
    /\ Len(taken) <= frames
    /\ ~astray => Len(taken) = frames
    /\ pc = "dispatch" => Len(taken) > 0
    /\ \A i \in 1..Len(taken) : taken[i] = kinds[i]

\* Updates come to a connection that has been served a Subscribe.
UpdatesSubscribed ==
    /\ rx > 0 \/ lagged => subscribed
    /\ subscribed => \E i \in 1..Len(taken) : taken[i] = "subscribe"

FramingInv == TypeOK /\ ReadBehind /\ TakenFirst /\ UpdatesSubscribed /\ InStep

-----------------------------------------------------------------------------
USE FrameAssumption, BoundAssumption, RoomAssumption DEF FrameAssumption, BoundAssumption, RoomAssumption

LEMMA TypeParts == (TypeOK <=> FlagsOK /\ DataOK) /\ (TypeOK' <=> FlagsOK' /\ DataOK')
  BY DEF TypeOK, FlagsOK, DataOK

LEMMA FramingInit == Init => FramingInv
  <1> SUFFICES ASSUME Init PROVE FramingInv
    OBVIOUS
  <1>0. <<>> \in Seq(Kinds) /\ <<>> \in Seq({"reply", "update"}) /\ Len(<<>>) = 0
    OBVIOUS
  <1>1. FlagsOK
    BY DEF Init, FlagsOK
  <1>2. DataOK
    BY <1>0 DEF Init, DataOK
  <1>3. ReadBehind
    BY DEF Init, ReadBehind, Complete
  <1>4. TakenFirst /\ UpdatesSubscribed /\ InStep
    BY DEF Init, TakenFirst, UpdatesSubscribed, InStep
  <1>5. QED
    BY <1>1, <1>2, <1>3, <1>4, TypeParts DEF FramingInv

\* Each conjunct that is about the client's side of the connection.
LEMMA ClientStep ==
  ASSUME FramingInv,
         (\E kind \in Kinds : BeginCommand(kind)) \/ WriteUnit \/ ClientReads \/ ClientLeaves
  PROVE  FramingInv'
  <1> USE DEF FramingInv
  <1>1. ASSUME NEW kind \in Kinds, BeginCommand(kind)
        PROVE  FramingInv'
    <2>1. /\ kinds' = Append(kinds, kind)
          /\ Len(kinds') = Len(kinds) + 1
          /\ \A i \in 1..Len(kinds) : kinds'[i] = kinds[i]
          /\ kinds' \in Seq(Kinds)
      BY <1>1 DEF BeginCommand, TypeOK
    <2>2. TypeOK'
      BY <1>1, <2>1 DEF BeginCommand, TypeOK, readVars, updateVars
    <2>3. ReadBehind'
      BY <1>1, <2>1 DEF BeginCommand, TypeOK, ReadBehind, Complete, readVars
    <2>4. TakenFirst' /\ UpdatesSubscribed'
      <3>1. Len(taken) <= Len(kinds)
        BY DEF TakenFirst, ReadBehind, Complete, TypeOK
      <3>2. QED
        BY <1>1, <2>1, <3>1 DEF BeginCommand, TypeOK, TakenFirst, UpdatesSubscribed,
              readVars, updateVars
    <2>5. InStep'
      BY <1>1, <2>1 DEF BeginCommand, TypeOK, InStep, BeforeUpdates, readVars
    <2>6. QED
      BY <2>2, <2>3, <2>4, <2>5
  <1>2. ASSUME WriteUnit PROVE FramingInv'
    <2>1. TypeOK'
      BY <1>2 DEF WriteUnit, TypeOK, readVars, updateVars
    <2>2. ReadBehind'
      BY <1>2 DEF WriteUnit, TypeOK, ReadBehind, Complete, readVars
    <2>3. TakenFirst' /\ UpdatesSubscribed' /\ InStep'
      BY <1>2 DEF WriteUnit, TakenFirst, UpdatesSubscribed, InStep, BeforeUpdates,
            readVars, updateVars
    <2>4. QED
      BY <2>1, <2>2, <2>3
  <1>3. ASSUME ClientReads \/ ClientLeaves PROVE FramingInv'
    <2>0. /\ back' \in Seq({"reply", "update"}) /\ Len(back') <= SocketRoom
          /\ answers' \in Nat
      <3>1. back \in Seq({"reply", "update"}) /\ Len(back) <= SocketRoom /\ answers \in Nat
        BY DEF TypeOK
      <3>2. CASE ClientLeaves
        BY <3>1, <3>2 DEF ClientLeaves
      <3>3. CASE ClientReads
        <4>1. Tail(back) \in Seq({"reply", "update"}) /\ Len(Tail(back)) = Len(back) - 1
          BY <3>1, <3>3, HeadTailProperties DEF ClientReads
        <4>2. Len(back) \in Nat
          BY <3>1
        <4>3. QED
          BY <3>1, <3>3, <4>1, <4>2 DEF ClientReads
      <3>4. QED
        BY <1>3, <3>2, <3>3
    <2>1. TypeOK'
      BY <1>3, <2>0 DEF ClientReads, ClientLeaves, TypeOK, clientVars, readVars, updateVars
    <2>2. ReadBehind' /\ TakenFirst' /\ UpdatesSubscribed' /\ InStep'
      BY <1>3 DEF ClientReads, ClientLeaves, ReadBehind, Complete, TakenFirst,
            UpdatesSubscribed, InStep, BeforeUpdates, clientVars, readVars, updateVars
    <2>3. QED
      BY <2>1, <2>2
  <1>4. QED
    BY <1>1, <1>2, <1>3

\* The last unit of a frame: it is the next command, and it has been written.
LEMMA FrameEnds ==
  ASSUME FramingInv, Readable, ~astray, units + 1 = FrameUnits
  PROVE  /\ frames = Len(taken)
         /\ frames < Complete /\ Complete <= Len(kinds)
         /\ kinds[frames + 1] \in Kinds
  <1>1. frames < Complete /\ Complete <= Len(kinds)
    BY DEF FramingInv, TypeOK, ReadBehind, Readable, Complete
  <1>2. frames + 1 \in 1..Len(kinds)
    BY <1>1 DEF FramingInv, TypeOK, Complete
  <1>3. kinds[frames + 1] \in Kinds
    BY <1>2 DEF FramingInv, TypeOK
  <1>4. QED
    BY <1>1, <1>3 DEF FramingInv, TakenFirst

LEMMA ReadStep ==
  ASSUME FramingInv, ReadUnit \/ ReadAstray
  PROVE  FramingInv'
  <1> USE DEF FramingInv
  <1>1. CASE ReadUnit /\ units + 1 < FrameUnits
    <2>1. TypeOK' /\ ReadBehind'
      BY <1>1 DEF ReadUnit, Readable, TypeOK, ReadBehind, Complete, clientVars, updateVars
    <2>2. TakenFirst' /\ UpdatesSubscribed' /\ InStep'
      BY <1>1 DEF ReadUnit, TypeOK, TakenFirst, UpdatesSubscribed, InStep, BeforeUpdates,
            clientVars, updateVars
    <2>3. QED
      BY <2>1, <2>2
  <1>2. CASE ReadUnit /\ units + 1 = FrameUnits
    <2>1. /\ frames = Len(taken)
          /\ frames < Complete /\ Complete <= Len(kinds)
          /\ kinds[frames + 1] \in Kinds
      BY <1>2, FrameEnds DEF ReadUnit
    <2>2. /\ taken' = Append(taken, kinds[frames + 1])
          /\ frames' = frames + 1 /\ units' = 0 /\ pc' = "dispatch"
      BY <1>2 DEF ReadUnit, TypeOK
    <2>3. /\ taken' \in Seq(Kinds)
          /\ Len(taken') = Len(taken) + 1
          /\ \A i \in 1..Len(taken) : taken'[i] = taken[i]
          /\ taken'[Len(taken) + 1] = kinds[frames + 1]
      BY <2>1, <2>2 DEF TypeOK
    <2>4. TypeOK' /\ ReadBehind'
      BY <1>2, <2>1, <2>2, <2>3 DEF ReadUnit, TypeOK, ReadBehind, Complete, clientVars, updateVars
    <2>5. TakenFirst' /\ UpdatesSubscribed'
      BY <1>2, <2>1, <2>2, <2>3 DEF ReadUnit, TypeOK, TakenFirst, UpdatesSubscribed,
            clientVars, updateVars
    <2>6. InStep'
      BY <1>2 DEF ReadUnit, InStep, BeforeUpdates, clientVars
    <2>7. QED
      BY <2>4, <2>5, <2>6
  <1>3. CASE ReadAstray
    <2>1. TypeOK' /\ ReadBehind'
      BY <1>3 DEF ReadAstray, Readable, TypeOK, ReadBehind, Complete, clientVars, updateVars
    <2>2. TakenFirst' /\ UpdatesSubscribed' /\ InStep'
      BY <1>3 DEF ReadAstray, TypeOK, TakenFirst, UpdatesSubscribed, InStep, BeforeUpdates,
            clientVars, updateVars
    <2>3. QED
      BY <2>1, <2>2
  <1>4. QED
    BY <1>1, <1>2, <1>3 DEF ReadUnit

\* A read is cut short only after a Subscribe has been served, so what it was reading
\* came after that Subscribe.
LEMMA UpdateStep ==
  ASSUME FramingInv, TakeUpdate \/ Announce
  PROVE  FramingInv'
  <1> USE DEF FramingInv
  <1>1. CASE TakeUpdate
    <2>f. FlagsOK'
      BY <1>1 DEF TakeUpdate, TypeOK, FlagsOK, clientVars
    <2>d. DataOK'
      BY <1>1 DEF TakeUpdate, TypeOK, DataOK, clientVars
    <2>0. TypeOK'
      BY <2>f, <2>d, TypeParts
    <2>1. ReadBehind' /\ UpdatesSubscribed'
      BY <1>1 DEF TakeUpdate, TypeOK, ReadBehind, Complete, UpdatesSubscribed, clientVars
    <2>2. TakenFirst'
      BY <1>1 DEF TakeUpdate, TakenFirst, clientVars
    <2>3. InStep'
      <3>1. CASE units > 0
        <4>1. PICK i \in 1..Len(taken) : taken[i] = "subscribe"
          BY <1>1 DEF TakeUpdate, UpdateReady, UpdatesSubscribed
        <4>2. kinds[i] = "subscribe" /\ i <= frames
          BY <4>1 DEF TakenFirst, TypeOK
        <4>3. frames < Len(kinds)
          BY <3>1 DEF ReadBehind, Complete, TypeOK
        <4>4. i \in 1..(Len(kinds) - 1)
          BY <4>2, <4>3 DEF TypeOK
        <4>5. QED
          BY <1>1, <4>2, <4>4 DEF TakeUpdate, InStep, BeforeUpdates, clientVars
      <3>2. CASE ~(units > 0)
        BY <1>1, <3>2 DEF TakeUpdate, InStep, BeforeUpdates, clientVars
      <3>3. QED
        BY <3>1, <3>2
    <2>4. QED
      BY <2>0, <2>1, <2>2, <2>3
  <1>2. CASE Announce
    <2>f. FlagsOK'
      BY <1>2 DEF Announce, TypeOK, FlagsOK, clientVars, readVars
    <2>d. DataOK'
      BY <1>2 DEF Announce, TypeOK, DataOK, clientVars, readVars
    <2>1. TypeOK'
      BY <2>f, <2>d, TypeParts
    <2>2. ReadBehind' /\ TakenFirst' /\ UpdatesSubscribed' /\ InStep'
      BY <1>2 DEF Announce, ReadBehind, Complete, TakenFirst, UpdatesSubscribed,
            InStep, BeforeUpdates, clientVars, readVars
    <2>3. QED
      BY <2>1, <2>2
  <1>3. QED
    BY <1>1, <1>2

LEMMA ServeStep ==
  ASSUME FramingInv, Eof \/ Dispatch \/ WriteReply \/ WriteUpdate
  PROVE  FramingInv'
  <1> USE DEF FramingInv
  <1>1. CASE Dispatch
    <2>1. Len(taken) \in 1..Len(taken)
      BY <1>1 DEF Dispatch, TakenFirst, TypeOK
    <2>f. FlagsOK'
      BY <1>1 DEF Dispatch, TypeOK, FlagsOK, clientVars, readVars, updateVars
    <2>d. DataOK'
      BY <1>1 DEF Dispatch, TypeOK, DataOK, clientVars, readVars, updateVars
    <2>0. TypeOK'
      BY <2>f, <2>d, TypeParts
    <2>2. ReadBehind' /\ TakenFirst' /\ InStep'
      BY <1>1 DEF Dispatch, ReadBehind, Complete, TakenFirst, InStep, BeforeUpdates,
            clientVars, readVars
    <2>3. UpdatesSubscribed'
      BY <1>1, <2>1 DEF Dispatch, UpdatesSubscribed, TypeOK, readVars, updateVars
    <2>4. QED
      BY <2>0, <2>2, <2>3
  <1>2. CASE Eof \/ WriteReply \/ WriteUpdate
    <2>0. back' \in Seq({"reply", "update"}) /\ Len(back') <= SocketRoom
      <3>1. back \in Seq({"reply", "update"}) /\ Len(back) \in Nat /\ Len(back) <= SocketRoom
        BY DEF TypeOK
      <3>2. ASSUME NEW frame \in {"reply", "update"}, NEW next, WriteMsg(frame, next)
            PROVE  back' \in Seq({"reply", "update"}) /\ Len(back') <= SocketRoom
        <4>1. /\ Append(back, frame) \in Seq({"reply", "update"})
              /\ Len(Append(back, frame)) = Len(back) + 1
          BY <3>1, AppendProperties
        <4>2. QED
          BY <3>1, <3>2, <4>1 DEF WriteMsg
      <3>3. QED
        BY <1>2, <3>1, <3>2 DEF Eof, WriteReply, WriteUpdate
    <2>1. TypeOK'
      BY <1>2, <2>0 DEF Eof, WriteReply, WriteUpdate, WriteMsg, TypeOK, clientVars, readVars, updateVars
    <2>2. ReadBehind' /\ TakenFirst' /\ UpdatesSubscribed' /\ InStep'
      BY <1>2 DEF Eof, WriteReply, WriteUpdate, WriteMsg, ReadBehind, Complete, TakenFirst,
            UpdatesSubscribed, InStep, BeforeUpdates, clientVars, readVars, updateVars
    <2>3. QED
      BY <2>1, <2>2
  <1>3. QED
    BY <1>1, <1>2

LEMMA FramingNext == FramingInv /\ [Next]_vars => FramingInv'
  <1> SUFFICES ASSUME FramingInv, [Next]_vars PROVE FramingInv'
    OBVIOUS
  <1>1. CASE UNCHANGED vars \/ Closed
    <2>1. TypeOK'
      BY <1>1 DEF Closed, vars, clientVars, readVars, updateVars, FramingInv, TypeOK
    <2>2. ReadBehind' /\ TakenFirst' /\ UpdatesSubscribed' /\ InStep'
      BY <1>1 DEF Closed, vars, clientVars, readVars, updateVars, FramingInv, ReadBehind,
            Complete, TakenFirst, UpdatesSubscribed, InStep, BeforeUpdates
    <2>3. QED
      BY <2>1, <2>2 DEF FramingInv
  <1>2. CASE Next /\ ~Closed
    BY <1>2, ClientStep, ReadStep, UpdateStep, ServeStep DEF Next
  <1>3. QED
    BY <1>1, <1>2

\* handle_conn, read_msg: the connection is always in a state the framing knows, and
\* the service never reads what has not been written.
THEOREM FramingInvariant == Spec => []FramingInv
  BY FramingInit, FramingNext, PTL DEF Spec

\* A connection whose client sends nothing after its Subscribe stays in step, for
\* every length of frames and however often updates cancel a read.
THEOREM StaysInStep == Spec => []InStep
  <1>1. FramingInv => InStep
    BY DEF FramingInv
  <1>2. QED
    BY FramingInvariant, <1>1, PTL

\* Every variable of the connection keeps its type; the receiver and the socket stay
\* within their capacity.
THEOREM TypeCorrect == Spec => []TypeOK
  <1>1. FramingInv => TypeOK
    BY DEF FramingInv
  <1>2. QED
    BY FramingInvariant, <1>1, PTL

-----------------------------------------------------------------------------
(* The refinement of CommandChannel *)

Written == SubSeq(kinds, 1, Complete)

LEMMA ChannelInit == Init => Channel!Init
  BY DEF Init, Channel!Init, Complete

LEMMA WrittenIs ==
  ASSUME FramingInv
  PROVE  /\ Written \in Seq(Kinds)
         /\ Len(Written) = Complete
         /\ \A i \in 1..Complete : Written[i] = kinds[i]
  <1>1. Complete \in 0..Len(kinds)
    BY DEF FramingInv, TypeOK, ReadBehind, Complete
  <1>2. QED
    BY <1>1 DEF Written, FramingInv, TypeOK

LEMMA ChannelStep == FramingInv /\ [Next]_vars => [Channel!Next]_<<Written, taken>>
  <1> SUFFICES ASSUME FramingInv, [Next]_vars
               PROVE  Channel!Next \/ UNCHANGED <<Written, taken>>
    OBVIOUS
  <1>1. ASSUME NEW kind \in Kinds, BeginCommand(kind)
        PROVE  UNCHANGED <<Written, taken>>
    <2>1. Complete' = Complete /\ Complete = Len(kinds) /\ kinds \in Seq(Kinds)
      BY <1>1 DEF BeginCommand, Complete, FramingInv, TypeOK
    <2>2. SubSeq(Append(kinds, kind), 1, Len(kinds)) = SubSeq(kinds, 1, Len(kinds))
      BY <2>1
    <2>3. QED
      BY <1>1, <2>1, <2>2 DEF BeginCommand, Written, readVars
  <1>2. CASE WriteUnit /\ written + 1 = FrameUnits
    <2>1. /\ Complete' = Complete + 1 /\ Complete + 1 = Len(kinds)
          /\ kinds' = kinds /\ taken' = taken
      BY <1>2 DEF WriteUnit, Complete, FramingInv, TypeOK, ReadBehind, readVars
    <2>b. kinds \in Seq(Kinds) /\ Len(kinds) \in Nat /\ Len(kinds) > 0
      BY <1>2 DEF WriteUnit, FramingInv, TypeOK, ReadBehind
    <2>c. Complete = Len(kinds) - 1
      BY <1>2 DEF WriteUnit, Complete
    <2>a. Complete \in Nat /\ kinds \in Seq(Kinds) /\ Complete + 1 \in 1..Len(kinds)
      BY <2>b, <2>c
    <2>2. SubSeq(kinds, 1, Complete + 1) = Append(SubSeq(kinds, 1, Complete), kinds[Complete + 1])
      BY <2>1, <2>a
    <2>3. kinds[Complete + 1] \in Kinds
      BY <2>a
    <2>4. Channel!Send(kinds[Complete + 1])
      BY <2>1, <2>2 DEF Channel!Send
    <2>5. QED
      BY <2>3, <2>4 DEF Channel!Next
  <1>3. CASE WriteUnit /\ written + 1 # FrameUnits
    BY <1>3 DEF WriteUnit, Written, Complete, FramingInv, TypeOK, readVars
  <1>4. CASE ReadUnit /\ units + 1 = FrameUnits
    <2>1. /\ frames = Len(taken)
          /\ frames < Complete /\ Complete <= Len(kinds)
      BY <1>4, FrameEnds DEF ReadUnit
    <2>2. taken' = Append(taken, kinds[frames + 1]) /\ Written' = Written
      BY <1>4 DEF ReadUnit, FramingInv, TypeOK, Written, Complete, clientVars
    <2>3. Len(taken) < Len(Written) /\ Written[Len(taken) + 1] = kinds[frames + 1]
      BY <2>1, WrittenIs DEF FramingInv, TypeOK, Complete
    <2>4. Channel!Take
      BY <2>2, <2>3 DEF Channel!Take, Written
    <2>5. QED
      BY <2>4 DEF Channel!Next
  <1>5. CASE \/ ReadUnit /\ units + 1 < FrameUnits
             \/ ReadAstray \/ Eof \/ TakeUpdate \/ Announce \/ Dispatch
             \/ WriteReply \/ WriteUpdate \/ ClientReads \/ ClientLeaves
             \/ Closed \/ UNCHANGED vars
    BY <1>5 DEF ReadUnit, ReadAstray, Eof, TakeUpdate, Announce, Dispatch, WriteReply,
          WriteUpdate, WriteMsg, ClientReads, ClientLeaves, Closed, vars, clientVars, readVars,
          Written, Complete, FramingInv, TypeOK
  <1>6. QED
    BY <1>1, <1>2, <1>3, <1>4, <1>5 DEF Next, ReadUnit

\* Over the bytes of a connection the dispatcher sees a channel of whole commands, in
\* order and without loss, which is what Controller assumes of its connections.
THEOREM ImplementsChannel == Spec => ChannelSpec
  <1>1. Init => Channel!Init
    BY ChannelInit
  <1>2. FramingInv /\ [Next]_vars => [Channel!Next]_<<SubSeq(kinds, 1, Complete), taken>>
    BY ChannelStep DEF Written
  <1>3. QED
    BY <1>1, <1>2, FramingInvariant, PTL DEF Spec, ChannelSpec, Channel!Spec

-----------------------------------------------------------------------------
(* What the client has been told, by the time an update reaches it *)

\* Every command that is served has one reply: read, on its way, or still to be
\* written while the command is in progress.
OneReplyEach ==
    pc # "closed" =>
        answers + Replies(back, Len(back)) =
            IF pc \in {"dispatch", "reply"} THEN Len(taken) - 1 ELSE Len(taken)

SnapshotInv ==
    /\ OneReplyEach
    /\ pc = "update" => subscribed
    /\ SnapshotFirst

Frames == {"reply", "update"}

LEMMA RepliesFinite ==
  ASSUME NEW sent, NEW i \in Nat
  PROVE  /\ IsFiniteSet({k \in 1..i : sent[k] = "reply"})
         /\ Replies(sent, i) \in Nat
  <1>1. IsFiniteSet(1..i)
    BY FS_Interval
  <1>2. IsFiniteSet({k \in 1..i : sent[k] = "reply"})
    BY <1>1, FS_Subset
  <1>3. QED
    BY <1>2, FS_CardinalityType DEF Replies

LEMMA RepliesNone == ASSUME NEW sent PROVE Replies(sent, 0) = 0
  <1>1. {k \in 1..0 : sent[k] = "reply"} = {}
    OBVIOUS
  <1>2. QED
    BY <1>1, FS_EmptySet DEF Replies

\* Frames that begin alike have the same replies there.
LEMMA RepliesSame ==
  ASSUME NEW sent, NEW other, NEW i \in Nat, \A k \in 1..i : sent[k] = other[k]
  PROVE  Replies(sent, i) = Replies(other, i)
  <1>1. {k \in 1..i : sent[k] = "reply"} = {k \in 1..i : other[k] = "reply"}
    OBVIOUS
  <1>2. QED
    BY <1>1 DEF Replies

\* One more frame is one more reply, or none.
LEMMA RepliesNext ==
  ASSUME NEW sent, NEW i \in Nat
  PROVE  Replies(sent, i + 1) = Replies(sent, i) + (IF sent[i + 1] = "reply" THEN 1 ELSE 0)
  <1> DEFINE R == {k \in 1..i : sent[k] = "reply"}
             R1 == {k \in 1..(i + 1) : sent[k] = "reply"}
  <1>1. IsFiniteSet(R) /\ Cardinality(R) \in Nat
    BY RepliesFinite DEF Replies
  <1>2. CASE sent[i + 1] = "reply"
    <2>1. R1 = R \cup {i + 1} /\ i + 1 \notin R
      BY <1>2
    <2>2. Cardinality(R \cup {i + 1}) = Cardinality(R) + 1
      BY <1>1, <2>1, FS_AddElement
    <2>3. QED
      BY <1>2, <2>1, <2>2 DEF Replies
  <1>3. CASE sent[i + 1] # "reply"
    <2>1. R1 = R
      BY <1>3
    <2>2. QED
      BY <1>1, <1>3, <2>1 DEF Replies
  <1>4. QED
    BY <1>2, <1>3

\* Reading the first frame takes its reply, if it is one, from all that follow.
LEMMA RepliesTail ==
  ASSUME NEW sent \in Seq(Frames), NEW i \in Nat, i + 1 <= Len(sent)
  PROVE  Replies(sent, i + 1) =
             Replies(Tail(sent), i) + (IF Head(sent) = "reply" THEN 1 ELSE 0)
  <1> DEFINE R == {k \in 1..i : Tail(sent)[k] = "reply"}
             Up == {k \in 2..(i + 1) : sent[k] = "reply"}
             All == {k \in 1..(i + 1) : sent[k] = "reply"}
             shift == [k \in R |-> k + 1]
  <1>0. /\ sent # <<>> /\ Head(sent) = sent[1]
        /\ \A k \in 1..i : Tail(sent)[k] = sent[k + 1]
    OBVIOUS
  <1>1. IsFiniteSet(R) /\ Cardinality(R) \in Nat
    BY RepliesFinite DEF Replies
  <1>2. ExistsBijection(R, Up)
    <2>1. shift \in [R -> Up]
      BY <1>0
    <2>2. \A a, b \in R : shift[a] = shift[b] => a = b
      OBVIOUS
    <2>3. \A u \in Up : \E a \in R : shift[a] = u
      <3> SUFFICES ASSUME NEW u \in Up PROVE \E a \in R : shift[a] = u
        OBVIOUS
      <3>1. u - 1 \in R
        BY <1>0
      <3>2. shift[u - 1] = u
        BY <3>1
      <3>3. QED
        BY <3>1, <3>2
    <2>4. shift \in Bijection(R, Up)
      BY <2>1, <2>2, <2>3 DEF Bijection, Injection, Surjection, IsInjective
    <2>5. QED
      BY <2>4 DEF ExistsBijection
  <1>3. IsFiniteSet(Up) /\ Cardinality(Up) = Cardinality(R)
    BY <1>1, <1>2, FS_Bijection
  <1>4. CASE Head(sent) = "reply"
    <2>1. All = Up \cup {1} /\ 1 \notin Up
      BY <1>0, <1>4
    <2>2. Cardinality(Up \cup {1}) = Cardinality(Up) + 1
      BY <1>3, <2>1, FS_AddElement
    <2>3. QED
      BY <1>3, <1>4, <2>1, <2>2 DEF Replies
  <1>5. CASE Head(sent) # "reply"
    <2>1. All = Up
      BY <1>0, <1>5
    <2>2. Replies(sent, i + 1) = Cardinality(All) /\ Replies(Tail(sent), i) = Cardinality(R)
      BY DEF Replies
    <2>3. Cardinality(All) = Cardinality(R)
      BY <1>3, <2>1
    <2>4. Replies(sent, i + 1) = Replies(Tail(sent), i) /\ Replies(Tail(sent), i) \in Nat
      BY <2>2, <2>3, RepliesFinite
    <2>5. QED
      BY <1>5, <2>4
  <1>6. QED
    BY <1>4, <1>5

\* What the steps of the connection leave alone.
LEMMA SnapshotKept ==
  ASSUME FramingInv, SnapshotInv,
         back' = back, answers' = answers, Len(taken') = Len(taken),
         pc' = pc \/ pc' \in {"closed"} \/ (pc = "dispatch" /\ pc' = "reply"),
         pc' = "update" => subscribed',
         Len(kinds) <= Len(kinds'), \A n \in 1..Len(kinds) : kinds'[n] = kinds[n]
  PROVE  SnapshotInv'
  <1>1. OneReplyEach'
    BY DEF SnapshotInv, OneReplyEach, Replies
  <1>2. SnapshotFirst'
    <2> SUFFICES ASSUME NEW i \in 1..Len(back), back[i] = "update"
                 PROVE  \E n \in 1..Len(kinds') :
                          kinds'[n] = "subscribe" /\ n <= answers + Replies(back, i - 1)
      BY DEF SnapshotFirst, Replies
    <2>1. PICK n \in 1..Len(kinds) : kinds[n] = "subscribe" /\ n <= answers + Replies(back, i - 1)
      BY DEF SnapshotInv, SnapshotFirst
    <2>2. n \in 1..Len(kinds')
      BY DEF FramingInv, TypeOK
    <2>3. QED
      BY <2>1, <2>2
  <1>3. QED
    BY <1>1, <1>2 DEF SnapshotInv

\* A served Subscribe has been answered when the handler is back at its select!.
LEMMA SubscribeAnswered ==
  ASSUME FramingInv, SnapshotInv, subscribed, pc \in {"select", "update"}
  PROVE  \E n \in 1..Len(kinds) :
             kinds[n] = "subscribe" /\ n <= answers + Replies(back, Len(back))
  <1>1. PICK n \in 1..Len(taken) : taken[n] = "subscribe"
    BY DEF FramingInv, UpdatesSubscribed
  <1>2. kinds[n] = "subscribe" /\ Len(taken) <= Len(kinds)
    BY <1>1 DEF FramingInv, TypeOK, TakenFirst, ReadBehind, Complete
  <1>3. answers + Replies(back, Len(back)) = Len(taken)
    BY DEF SnapshotInv, OneReplyEach
  <1>4. n \in 1..Len(kinds) /\ n <= Len(taken)
    BY <1>1, <1>2 DEF FramingInv, TypeOK
  <1>5. QED
    BY <1>2, <1>3, <1>4

LEMMA SnapshotReads == FramingInv /\ SnapshotInv /\ ClientReads => SnapshotInv'
  <1> SUFFICES ASSUME FramingInv, SnapshotInv, ClientReads PROVE SnapshotInv'
    OBVIOUS
  <1>0. /\ back \in Seq(Frames) /\ back # <<>> /\ answers \in Nat
        /\ back' = Tail(back)
        /\ answers' = IF Head(back) = "reply" THEN answers + 1 ELSE answers
        /\ Len(back') = Len(back) - 1 /\ Len(back) \in Nat \ {0}
        /\ \A i \in 1..Len(back') : back'[i] = back[i + 1]
        /\ pc' = pc /\ taken' = taken /\ kinds' = kinds /\ subscribed' = subscribed
    BY DEF ClientReads, clientVars, readVars, updateVars, FramingInv, TypeOK, Frames
  <1>1. ASSUME NEW i \in Nat, i + 1 <= Len(back)
        PROVE  answers' + Replies(back', i) = answers + Replies(back, i + 1)
    <2>1. Replies(back, i + 1) = Replies(Tail(back), i) + (IF Head(back) = "reply" THEN 1 ELSE 0)
      BY <1>0, <1>1, RepliesTail
    <2>2. Replies(Tail(back), i) \in Nat
      BY RepliesFinite
    <2>3. QED
      BY <1>0, <2>1, <2>2
  <1>2. OneReplyEach'
    <2>1. answers' + Replies(back', Len(back')) = answers + Replies(back, Len(back))
      BY <1>0, <1>1
    <2>2. QED
      BY <1>0, <2>1 DEF SnapshotInv, OneReplyEach
  <1>3. SnapshotFirst'
    <2> SUFFICES ASSUME NEW i \in 1..Len(back'), back'[i] = "update"
                 PROVE  \E n \in 1..Len(kinds) :
                          kinds[n] = "subscribe" /\ n <= answers' + Replies(back', i - 1)
      BY <1>0 DEF SnapshotFirst
    <2>1. i + 1 \in 1..Len(back) /\ back[i + 1] = "update"
      BY <1>0
    <2>2. PICK n \in 1..Len(kinds) : kinds[n] = "subscribe" /\ n <= answers + Replies(back, (i + 1) - 1)
      BY <2>1 DEF SnapshotInv, SnapshotFirst
    <2>3. answers' + Replies(back', i - 1) = answers + Replies(back, i)
      <3>1. i - 1 \in Nat /\ (i - 1) + 1 = i /\ i <= Len(back)
        BY <1>0
      <3>2. QED
        BY <3>1, <1>1
    <2>4. (i + 1) - 1 = i
      OBVIOUS
    <2>5. QED
      BY <2>2, <2>3, <2>4
  <1>4. QED
    BY <1>0, <1>2, <1>3 DEF SnapshotInv

LEMMA SnapshotWrites ==
  ASSUME FramingInv, SnapshotInv, WriteReply \/ WriteUpdate
  PROVE  SnapshotInv'
  <1>1. CASE back' = back
    <2>1. pc' = "closed" /\ answers' = answers /\ taken' = taken /\ kinds' = kinds
      <3>1. Len(Append(back, "reply")) # Len(back) /\ Len(Append(back, "update")) # Len(back)
        BY DEF FramingInv, TypeOK
      <3>2. QED
        BY <1>1, <3>1 DEF WriteReply, WriteUpdate, WriteMsg, clientVars, readVars
    <2>2. QED
      BY <1>1, <2>1, SnapshotKept DEF FramingInv, TypeOK
  <1>2. ASSUME NEW frame \in Frames, back' = Append(back, frame), pc' = "select",
               frame = pc
        PROVE  SnapshotInv'
    <2>0. /\ Len(back) \in Nat /\ answers \in Nat
          /\ Len(back') = Len(back) + 1
          /\ back'[Len(back) + 1] = frame
          /\ \A k \in 1..Len(back) : back'[k] = back[k]
          /\ Len(taken) \in Nat
          /\ answers' = answers /\ taken' = taken /\ kinds' = kinds
      BY <1>2 DEF FramingInv, TypeOK, WriteReply, WriteUpdate, WriteMsg, clientVars, readVars
    <2>1. ASSUME NEW i \in Nat, i <= Len(back)
          PROVE  Replies(back', i) = Replies(back, i)
      BY <2>0, <2>1, RepliesSame
    <2>2. Replies(back', Len(back) + 1) =
              Replies(back, Len(back)) + (IF frame = "reply" THEN 1 ELSE 0)
      <3>1. Replies(back', Len(back) + 1) =
                Replies(back', Len(back)) + (IF back'[Len(back) + 1] = "reply" THEN 1 ELSE 0)
        BY <2>0, RepliesNext
      <3>2. QED
        BY <2>0, <2>1, <3>1
    <2>3. Replies(back, Len(back)) \in Nat
      BY <2>0, RepliesFinite
    <2>4. OneReplyEach'
      <3>1. answers + Replies(back, Len(back)) =
                IF frame = "reply" THEN Len(taken) - 1 ELSE Len(taken)
        BY <1>2 DEF SnapshotInv, OneReplyEach, Frames
      <3>2. answers + Replies(back', Len(back) + 1) = Len(taken)
        BY <2>0, <2>2, <2>3, <3>1
      <3>3. QED
        BY <1>2, <2>0, <3>2 DEF OneReplyEach
    <2>5. SnapshotFirst'
      <3> SUFFICES ASSUME NEW i \in 1..Len(back'), back'[i] = "update"
                   PROVE  \E n \in 1..Len(kinds) :
                            kinds[n] = "subscribe" /\ n <= answers + Replies(back', i - 1)
        BY <2>0 DEF SnapshotFirst
      <3>0. i - 1 \in Nat /\ i - 1 <= Len(back) /\ Replies(back', i - 1) = Replies(back, i - 1)
        BY <2>0, <2>1
      <3>1. CASE i <= Len(back)
        <4>1. i \in 1..Len(back) /\ back[i] = "update"
          BY <2>0, <3>1
        <4>2. QED
          BY <3>0, <4>1 DEF SnapshotInv, SnapshotFirst
      <3>2. CASE i = Len(back) + 1
        <4>1. frame = "update" /\ i - 1 = Len(back)
          BY <2>0, <3>2
        <4>2. pc = "update" /\ subscribed
          BY <1>2, <4>1 DEF SnapshotInv
        <4>3. QED
          BY <3>0, <4>1, <4>2, SubscribeAnswered
      <3>3. QED
        BY <2>0, <3>1, <3>2
    <2>6. QED
      BY <1>2, <2>4, <2>5 DEF SnapshotInv
  <1>3. CASE WriteReply
    BY <1>1, <1>2, <1>3 DEF WriteReply, WriteMsg, Frames
  <1>4. CASE WriteUpdate
    BY <1>1, <1>2, <1>4 DEF WriteUpdate, WriteMsg, Frames
  <1>5. QED
    BY <1>3, <1>4

LEMMA SnapshotNext == FramingInv /\ SnapshotInv /\ [Next]_vars => SnapshotInv'
  <1> SUFFICES ASSUME FramingInv, SnapshotInv, [Next]_vars PROVE SnapshotInv'
    OBVIOUS
  <1> USE DEF clientVars, readVars, updateVars
  <1>0. /\ kinds \in Seq(Kinds) /\ taken \in Seq(Kinds) /\ Len(kinds) \in Nat
        /\ pc = "update" => subscribed
    BY DEF FramingInv, TypeOK, SnapshotInv
  <1>1. ASSUME NEW kind \in Kinds, BeginCommand(kind)
        PROVE  SnapshotInv'
    <2>1. kinds' = Append(kinds, kind) /\ UNCHANGED <<back, answers, taken, pc, subscribed>>
      BY <1>1 DEF BeginCommand
    <2>2. Len(kinds) <= Len(kinds') /\ \A n \in 1..Len(kinds) : kinds'[n] = kinds[n]
      BY <1>0, <2>1
    <2>3. QED
      BY <1>0, <2>1, <2>2, SnapshotKept
  <1>2. CASE WriteUnit \/ ClientLeaves \/ Announce \/ Closed \/ UNCHANGED vars
    <2>1. UNCHANGED <<kinds, back, answers, taken, pc, subscribed>>
      BY <1>2 DEF WriteUnit, ClientLeaves, Announce, Closed, vars
    <2>2. QED
      BY <1>0, <2>1, SnapshotKept
  <1>3. CASE Eof \/ ReadAstray
    <2>1. UNCHANGED <<kinds, back, answers, taken, subscribed>> /\ pc' \in {pc, "closed"}
      BY <1>3 DEF Eof, ReadAstray
    <2>2. QED
      BY <1>0, <2>1, SnapshotKept
  <1>4. CASE Dispatch
    <2>1. UNCHANGED <<kinds, back, answers, taken>> /\ pc = "dispatch" /\ pc' = "reply"
      BY <1>4 DEF Dispatch
    <2>2. QED
      BY <1>0, <2>1, SnapshotKept
  <1>5. CASE ReadUnit
    <2>1. CASE units + 1 < FrameUnits
      <3>1. UNCHANGED <<kinds, back, answers, taken, pc, subscribed>>
        BY <1>5, <2>1 DEF ReadUnit, FramingInv, TypeOK
      <3>2. QED
        BY <1>0, <3>1, SnapshotKept
    <2>2. CASE units + 1 = FrameUnits
      <3>1. /\ UNCHANGED <<kinds, back, answers, subscribed>>
            /\ pc = "select" /\ pc' = "dispatch"
            /\ taken' = Append(taken, kinds[frames + 1])
        BY <1>5, <2>2 DEF ReadUnit, FramingInv, TypeOK
      <3>2. Len(taken') - 1 = Len(taken)
        BY <1>0, <3>1
      <3>3. OneReplyEach'
        BY <3>1, <3>2 DEF SnapshotInv, OneReplyEach
      <3>4. SnapshotFirst'
        BY <3>1 DEF SnapshotInv, SnapshotFirst
      <3>5. QED
        BY <3>1, <3>3, <3>4 DEF SnapshotInv
    <2>3. QED
      BY <1>5, <2>1, <2>2 DEF ReadUnit
  <1>6. CASE TakeUpdate
    <2>1. UNCHANGED <<kinds, back, answers, taken, subscribed>> /\ pc = "select"
      BY <1>6 DEF TakeUpdate
    <2>2. pc' \in {"select", "update"} /\ (pc' = "update" => subscribed)
      BY <1>6 DEF TakeUpdate, FramingInv, UpdatesSubscribed
    <2>3. OneReplyEach'
      BY <2>1, <2>2 DEF SnapshotInv, OneReplyEach
    <2>4. SnapshotFirst'
      BY <2>1 DEF SnapshotInv, SnapshotFirst
    <2>5. QED
      BY <2>1, <2>2, <2>3, <2>4 DEF SnapshotInv
  <1>7. QED
    BY <1>1, <1>2, <1>3, <1>4, <1>5, <1>6, SnapshotReads, SnapshotWrites DEF Next

LEMMA SnapshotInit == Init => SnapshotInv
  <1> SUFFICES ASSUME Init PROVE SnapshotInv
    OBVIOUS
  <1>1. back = <<>> /\ answers = 0 /\ taken = <<>> /\ pc = "select" /\ Len(<<>>) = 0
    BY DEF Init
  <1>2. QED
    BY <1>1, RepliesNone DEF SnapshotInv, OneReplyEach, SnapshotFirst

\* handle_conn: each command that is served is answered once, in the order of the
\* commands, and no update goes out between a Subscribe and its reply.
THEOREM SnapshotInvariant == Spec => []SnapshotInv
  BY SnapshotInit, SnapshotNext, FramingInvariant, PTL DEF Spec

\* A subscriber never sees an update before the snapshot that Subscribe is answered
\* with, for every capacity of the channel and of the socket.
THEOREM SnapshotComesFirst == Spec => []SnapshotFirst
  <1>1. SnapshotInv => SnapshotFirst
    BY DEF SnapshotInv
  <1>2. QED
    BY SnapshotInvariant, <1>1, PTL

=============================================================================
