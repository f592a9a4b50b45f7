---- MODULE ConnLifecycle ----
(***************************************************************************)
(* The connection lifecycle a client may rely on: what the status of the    *)
(* service can become next.  voidns-proto/src/lib.rs names the states, and  *)
(* the GUI mirrors them in its button.                                      *)
(*                                                                          *)
(* It is the abstract specification of Controller: threads, locks, sockets  *)
(* and system calls are hidden.                                             *)
(***************************************************************************)
EXTENDS VoidnsProto

VARIABLE status

Init == status = Disconnected

\* A connect starts from rest only.
Begin(u) ==
    /\ status.state \in {"disconnected", "error"}
    /\ status' = Connecting(u)

\* It ends connected to the upstream it was started with, or in an error.
Succeed ==
    /\ status.state = "connecting"
    /\ status' = Connected(status.upstream)

Fail(e) ==
    /\ status.state = "connecting"
    /\ status' = ErrorStatus(e)

\* A disconnect never cuts a connect short.
Drop ==
    /\ status.state # "connecting"
    /\ status' = Disconnected

Next ==
    \/ \E u \in Upstreams : Begin(u)
    \/ Succeed
    \/ \E e \in ErrorCauses : Fail(e)
    \/ Drop

Spec == Init /\ [][Next]_status

\* A connect that has begun ends.
FairSpec == Spec /\ WF_status(Succeed \/ \E e \in ErrorCauses : Fail(e))

=============================================================================
