---- MODULE CommandChannel ----
(***************************************************************************)
(* What a connection promises to the dispatcher of the service: whole       *)
(* commands, in the order in which the client sent them, none twice and     *)
(* none made up.  This is what Controller takes for granted.                *)
(***************************************************************************)
EXTENDS Sequences, Naturals

CONSTANT Kinds   \* the commands that may be sent

VARIABLES
    sent,    \* the commands the client has written to the end
    taken    \* the commands the service has begun to serve

Init == sent = <<>> /\ taken = <<>>

Send(kind) ==
    /\ sent' = Append(sent, kind)
    /\ UNCHANGED taken

Take ==
    /\ Len(taken) < Len(sent)
    /\ taken' = Append(taken, sent[Len(taken) + 1])
    /\ UNCHANGED sent

Next == Take \/ \E kind \in Kinds : Send(kind)

Spec == Init /\ [][Next]_<<sent, taken>>

=============================================================================
