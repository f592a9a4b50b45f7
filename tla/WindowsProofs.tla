---- MODULE WindowsProofs ----
(***************************************************************************)
(* What TLAPS proves of WindowsRedirector, for any interfaces, any names    *)
(* among them that netsh garbles, and any set of combinations of troubles.  *)
(*                                                                          *)
(* The loops of apply and restore hand their work over from variable to     *)
(* variable: the inductive invariant says how the list, what is left of it  *)
(* and what is done of it fit together, and where a pointed interface is    *)
(* recorded, each part charged with the troubles it survives.               *)
(***************************************************************************)
EXTENDS WindowsRedirector, Naturals, FiniteSetTheorems, TLAPS

\* How the loops divide their list.
LoopInv ==
    /\ pc # "idle" => applied = None
    /\ applied.names \subseteq Interfaces
    /\ pc \in {"native", "netsh"} =>
           ifaces # {} /\ left \subseteq ifaces /\ done \subseteq ifaces \ left
    /\ pc = "netsh" => done = ifaces \ left
    /\ pc = "clear" => left \subseteq Interfaces

\* Without adapters that come and go, what was set is there to be cleared.
PresentInv == Without({"unplug"}) =>
    /\ applied.names \subseteq connected
    /\ done \subseteq connected
    /\ pc = "clear" => left \subseteq connected

\* What is listed is there as well, if every name survives the parser.
ListedInv ==
    /\ Without({"spaced"}) => connected \cap Spaced = {}
    /\ Without({"unplug", "spaced"}) /\ pc \in {"native", "netsh"} => ifaces \subseteq connected

\* An apply that fails has pointed nothing, unless netsh refused an interface.
FailInv == pc = "failed" /\ Without({"netsh_refused", "spaced", "unplug"}) => done = {}

\* What apply counts as done is pointed.
RouteInv == Without({"user"}) /\ pc \in {"native", "netsh"} =>
    /\ done \subseteq PointedInterfaces
    /\ Without({"native_refused", "spaced", "unplug"}) => done = ifaces \ left

\* A pointed interface is remembered, or the call in progress has it on its list.
UnpointInv == Without({"netsh_refused", "clear_refused", "spaced", "unplug", "crash"}) =>
    PointedInterfaces \subseteq CASE pc \in {"native", "netsh"} -> done
                                  [] pc = "clear" -> left
                                  [] pc \in {"idle", "failed"} -> applied.names

WindowsInv == TypeOK /\ LoopInv /\ PresentInv /\ ListedInv /\ FailInv /\ RouteInv /\ UnpointInv

USE SpacedAssumption, UnknownAssumption

-----------------------------------------------------------------------------
(* The invariant is inductive *)

\* The redirector is created with nothing pointed and nothing remembered.
THEOREM Initially == Init => WindowsInv
  BY DEF Init, WindowsInv, TypeOK, LoopInv, PresentInv, ListedInv, FailInv, RouteInv, UnpointInv,
         PointedInterfaces, None, Without, May, Names

LEMMA TypeStep == WindowsInv /\ [Next]_vars => TypeOK'
  <1> SUFFICES ASSUME WindowsInv, [Next]_vars PROVE TypeOK'
    OBVIOUS
  <1> USE DEF WindowsInv, TypeOK, None, Native, Netsh, Names, env, call, LoopInv, ParseNetshInterfaces
  <1>1. CASE ApplyBegin
    BY <1>1 DEF ApplyBegin
  <1>2. CASE NativeOk
    BY <1>2 DEF NativeOk
  <1>3. CASE Fallback
    BY <1>3 DEF Fallback
  <1>4. CASE NetshOk
    BY <1>4 DEF NetshOk
  <1>5. CASE ApplyErr
    BY <1>5 DEF ApplyErr
  <1>6. CASE RestoreBegin
    BY <1>6 DEF RestoreBegin
  <1>7. CASE RestoreOk
    BY <1>7 DEF RestoreOk
  <1>8. CASE Crash
    BY <1>8 DEF Crash
  <1>9. CASE \E n \in Names : NativeFails(n)
    BY <1>9 DEF NativeFails
  <1>10. CASE \E n \in Names : NetshFails(n)
    BY <1>10 DEF NetshFails
  <1>11. CASE \E n \in Names : ClearFails(n)
    BY <1>11 DEF ClearFails
  <1>12. CASE \E i \in Interfaces : NativeSet(i)
    BY <1>12 DEF NativeSet
  <1>13. CASE \E i \in Interfaces : NetshSet(i)
    BY <1>13 DEF NetshSet
  <1>14. CASE \E i \in Interfaces : Clear(i)
    BY <1>14 DEF Clear
  <1>15. CASE \E i \in Interfaces : Unplug(i)
    BY <1>15 DEF Unplug
  <1>16. CASE \E i \in Interfaces : UserSets(i)
    BY <1>16 DEF UserSets
  <1>17. CASE UNCHANGED vars
    BY <1>17 DEF vars
  <1>18. QED
    BY <1>1, <1>2, <1>3, <1>4, <1>5, <1>6, <1>7, <1>8, <1>9, <1>10, <1>11, <1>12, <1>13, <1>14, <1>15, <1>16, <1>17 DEF Next

LEMMA LoopStep == WindowsInv /\ [Next]_vars => LoopInv'
  <1> SUFFICES ASSUME WindowsInv, [Next]_vars PROVE LoopInv'
    OBVIOUS
  <1> USE DEF WindowsInv, TypeOK, None, Native, Netsh, Names, env, call, LoopInv, ParseNetshInterfaces
  <1>1. CASE ApplyBegin
    BY <1>1 DEF ApplyBegin
  <1>2. CASE NativeOk
    BY <1>2 DEF NativeOk
  <1>3. CASE Fallback
    BY <1>3 DEF Fallback
  <1>4. CASE NetshOk
    BY <1>4 DEF NetshOk
  <1>5. CASE ApplyErr
    BY <1>5 DEF ApplyErr
  <1>6. CASE RestoreBegin
    BY <1>6 DEF RestoreBegin
  <1>7. CASE RestoreOk
    BY <1>7 DEF RestoreOk
  <1>8. CASE Crash
    BY <1>8 DEF Crash
  <1>9. CASE \E n \in Names : NativeFails(n)
    BY <1>9 DEF NativeFails
  <1>10. CASE \E n \in Names : NetshFails(n)
    BY <1>10 DEF NetshFails
  <1>11. CASE \E n \in Names : ClearFails(n)
    BY <1>11 DEF ClearFails
  <1>12. CASE \E i \in Interfaces : NativeSet(i)
    BY <1>12 DEF NativeSet
  <1>13. CASE \E i \in Interfaces : NetshSet(i)
    BY <1>13 DEF NetshSet
  <1>14. CASE \E i \in Interfaces : Clear(i)
    BY <1>14 DEF Clear
  <1>15. CASE \E i \in Interfaces : Unplug(i)
    BY <1>15 DEF Unplug
  <1>16. CASE \E i \in Interfaces : UserSets(i)
    BY <1>16 DEF UserSets
  <1>17. CASE UNCHANGED vars
    BY <1>17 DEF vars
  <1>18. QED
    BY <1>1, <1>2, <1>3, <1>4, <1>5, <1>6, <1>7, <1>8, <1>9, <1>10, <1>11, <1>12, <1>13, <1>14, <1>15, <1>16, <1>17 DEF Next

LEMMA PresentStep == WindowsInv /\ [Next]_vars => PresentInv'
  <1> SUFFICES ASSUME WindowsInv, [Next]_vars PROVE PresentInv'
    OBVIOUS
  <1> USE DEF WindowsInv, TypeOK, None, Native, Netsh, Names, env, call, LoopInv, PresentInv, Without, May
  <1>1. CASE ApplyBegin
    BY <1>1 DEF ApplyBegin
  <1>2. CASE NativeOk
    BY <1>2 DEF NativeOk
  <1>3. CASE Fallback
    BY <1>3 DEF Fallback
  <1>4. CASE NetshOk
    BY <1>4 DEF NetshOk
  <1>5. CASE ApplyErr
    BY <1>5 DEF ApplyErr
  <1>6. CASE RestoreBegin
    BY <1>6 DEF RestoreBegin
  <1>7. CASE RestoreOk
    BY <1>7 DEF RestoreOk
  <1>8. CASE Crash
    BY <1>8 DEF Crash
  <1>9. CASE \E n \in Names : NativeFails(n)
    BY <1>9 DEF NativeFails
  <1>10. CASE \E n \in Names : NetshFails(n)
    BY <1>10 DEF NetshFails
  <1>11. CASE \E n \in Names : ClearFails(n)
    BY <1>11 DEF ClearFails
  <1>12. CASE \E i \in Interfaces : NativeSet(i)
    BY <1>12 DEF NativeSet
  <1>13. CASE \E i \in Interfaces : NetshSet(i)
    BY <1>13 DEF NetshSet
  <1>14. CASE \E i \in Interfaces : Clear(i)
    BY <1>14 DEF Clear
  <1>15. CASE \E i \in Interfaces : Unplug(i)
    BY <1>15 DEF Unplug
  <1>16. CASE \E i \in Interfaces : UserSets(i)
    BY <1>16 DEF UserSets
  <1>17. CASE UNCHANGED vars
    BY <1>17 DEF vars
  <1>18. QED
    BY <1>1, <1>2, <1>3, <1>4, <1>5, <1>6, <1>7, <1>8, <1>9, <1>10, <1>11, <1>12, <1>13, <1>14, <1>15, <1>16, <1>17 DEF Next

LEMMA ListedStep == WindowsInv /\ [Next]_vars => ListedInv'
  <1> SUFFICES ASSUME WindowsInv, [Next]_vars PROVE ListedInv'
    OBVIOUS
  <1> USE DEF WindowsInv, TypeOK, None, Native, Netsh, Names, env, call, LoopInv, ListedInv, ParseNetshInterfaces, Without, May
  <1>1. CASE ApplyBegin
    BY <1>1 DEF ApplyBegin
  <1>2. CASE NativeOk
    BY <1>2 DEF NativeOk
  <1>3. CASE Fallback
    BY <1>3 DEF Fallback
  <1>4. CASE NetshOk
    BY <1>4 DEF NetshOk
  <1>5. CASE ApplyErr
    BY <1>5 DEF ApplyErr
  <1>6. CASE RestoreBegin
    BY <1>6 DEF RestoreBegin
  <1>7. CASE RestoreOk
    BY <1>7 DEF RestoreOk
  <1>8. CASE Crash
    BY <1>8 DEF Crash
  <1>9. CASE \E n \in Names : NativeFails(n)
    BY <1>9 DEF NativeFails
  <1>10. CASE \E n \in Names : NetshFails(n)
    BY <1>10 DEF NetshFails
  <1>11. CASE \E n \in Names : ClearFails(n)
    BY <1>11 DEF ClearFails
  <1>12. CASE \E i \in Interfaces : NativeSet(i)
    BY <1>12 DEF NativeSet
  <1>13. CASE \E i \in Interfaces : NetshSet(i)
    BY <1>13 DEF NetshSet
  <1>14. CASE \E i \in Interfaces : Clear(i)
    BY <1>14 DEF Clear
  <1>15. CASE \E i \in Interfaces : Unplug(i)
    BY <1>15 DEF Unplug
  <1>16. CASE \E i \in Interfaces : UserSets(i)
    BY <1>16 DEF UserSets
  <1>17. CASE UNCHANGED vars
    BY <1>17 DEF vars
  <1>18. QED
    BY <1>1, <1>2, <1>3, <1>4, <1>5, <1>6, <1>7, <1>8, <1>9, <1>10, <1>11, <1>12, <1>13, <1>14, <1>15, <1>16, <1>17 DEF Next

LEMMA FailStep == WindowsInv /\ [Next]_vars => FailInv'
  <1> SUFFICES ASSUME WindowsInv, [Next]_vars PROVE FailInv'
    OBVIOUS
  <1> USE DEF WindowsInv, TypeOK, None, Native, Netsh, Names, env, call, LoopInv, ListedInv, FailInv, ParseNetshInterfaces, Without, May
  <1>1. CASE ApplyBegin
    BY <1>1 DEF ApplyBegin
  <1>2. CASE NativeOk
    BY <1>2 DEF NativeOk
  <1>3. CASE Fallback
    BY <1>3 DEF Fallback
  <1>4. CASE NetshOk
    BY <1>4 DEF NetshOk
  <1>5. CASE ApplyErr
    BY <1>5 DEF ApplyErr
  <1>6. CASE RestoreBegin
    BY <1>6 DEF RestoreBegin
  <1>7. CASE RestoreOk
    BY <1>7 DEF RestoreOk
  <1>8. CASE Crash
    BY <1>8 DEF Crash
  <1>9. CASE \E n \in Names : NativeFails(n)
    BY <1>9 DEF NativeFails
  <1>10. CASE \E n \in Names : NetshFails(n)
    BY <1>10 DEF NetshFails
  <1>11. CASE \E n \in Names : ClearFails(n)
    BY <1>11 DEF ClearFails
  <1>12. CASE \E i \in Interfaces : NativeSet(i)
    BY <1>12 DEF NativeSet
  <1>13. CASE \E i \in Interfaces : NetshSet(i)
    BY <1>13 DEF NetshSet
  <1>14. CASE \E i \in Interfaces : Clear(i)
    BY <1>14 DEF Clear
  <1>15. CASE \E i \in Interfaces : Unplug(i)
    BY <1>15 DEF Unplug
  <1>16. CASE \E i \in Interfaces : UserSets(i)
    BY <1>16 DEF UserSets
  <1>17. CASE UNCHANGED vars
    BY <1>17 DEF vars
  <1>18. QED
    BY <1>1, <1>2, <1>3, <1>4, <1>5, <1>6, <1>7, <1>8, <1>9, <1>10, <1>11, <1>12, <1>13, <1>14, <1>15, <1>16, <1>17 DEF Next

LEMMA RouteStep == WindowsInv /\ [Next]_vars => RouteInv'
  <1> SUFFICES ASSUME WindowsInv, [Next]_vars PROVE RouteInv'
    OBVIOUS
  <1> USE DEF WindowsInv, TypeOK, None, Native, Netsh, Names, env, call, LoopInv, ListedInv, RouteInv, PointedInterfaces, Without, May
  <1>1. CASE ApplyBegin
    BY <1>1 DEF ApplyBegin
  <1>2. CASE NativeOk
    BY <1>2 DEF NativeOk
  <1>3. CASE Fallback
    BY <1>3 DEF Fallback
  <1>4. CASE NetshOk
    BY <1>4 DEF NetshOk
  <1>5. CASE ApplyErr
    BY <1>5 DEF ApplyErr
  <1>6. CASE RestoreBegin
    BY <1>6 DEF RestoreBegin
  <1>7. CASE RestoreOk
    BY <1>7 DEF RestoreOk
  <1>8. CASE Crash
    BY <1>8 DEF Crash
  <1>9. CASE \E n \in Names : NativeFails(n)
    BY <1>9 DEF NativeFails
  <1>10. CASE \E n \in Names : NetshFails(n)
    BY <1>10 DEF NetshFails
  <1>11. CASE \E n \in Names : ClearFails(n)
    BY <1>11 DEF ClearFails
  <1>12. CASE \E i \in Interfaces : NativeSet(i)
    BY <1>12 DEF NativeSet
  <1>13. CASE \E i \in Interfaces : NetshSet(i)
    BY <1>13 DEF NetshSet
  <1>14. CASE \E i \in Interfaces : Clear(i)
    BY <1>14 DEF Clear
  <1>15. CASE \E i \in Interfaces : Unplug(i)
    BY <1>15 DEF Unplug
  <1>16. CASE \E i \in Interfaces : UserSets(i)
    BY <1>16 DEF UserSets
  <1>17. CASE UNCHANGED vars
    BY <1>17 DEF vars
  <1>18. QED
    BY <1>1, <1>2, <1>3, <1>4, <1>5, <1>6, <1>7, <1>8, <1>9, <1>10, <1>11, <1>12, <1>13, <1>14, <1>15, <1>16, <1>17 DEF Next

LEMMA UnpointStep == WindowsInv /\ [Next]_vars => UnpointInv'
  <1> SUFFICES ASSUME WindowsInv, [Next]_vars PROVE UnpointInv'
    OBVIOUS
  <1> USE DEF WindowsInv, TypeOK, None, Native, Netsh, Names, env, call, LoopInv, PresentInv, ListedInv, UnpointInv, PointedInterfaces, Without, May
  <1>1. CASE ApplyBegin
    BY <1>1 DEF ApplyBegin
  <1>2. CASE NativeOk
    BY <1>2 DEF NativeOk
  <1>3. CASE Fallback
    BY <1>3 DEF Fallback
  <1>4. CASE NetshOk
    BY <1>4 DEF NetshOk
  <1>5. CASE ApplyErr
    BY <1>5 DEF ApplyErr
  <1>6. CASE RestoreBegin
    BY <1>6 DEF RestoreBegin
  <1>7. CASE RestoreOk
    BY <1>7 DEF RestoreOk
  <1>8. CASE Crash
    BY <1>8 DEF Crash
  <1>9. CASE \E n \in Names : NativeFails(n)
    BY <1>9 DEF NativeFails
  <1>10. CASE \E n \in Names : NetshFails(n)
    BY <1>10 DEF NetshFails
  <1>11. CASE \E n \in Names : ClearFails(n)
    BY <1>11 DEF ClearFails
  <1>12. CASE \E i \in Interfaces : NativeSet(i)
    BY <1>12 DEF NativeSet
  <1>13. CASE \E i \in Interfaces : NetshSet(i)
    BY <1>13 DEF NetshSet
  <1>14. CASE \E i \in Interfaces : Clear(i)
    BY <1>14 DEF Clear
  <1>15. CASE \E i \in Interfaces : Unplug(i)
    BY <1>15 DEF Unplug
  <1>16. CASE \E i \in Interfaces : UserSets(i)
    BY <1>16 DEF UserSets
  <1>17. CASE UNCHANGED vars
    BY <1>17 DEF vars
  <1>18. QED
    BY <1>1, <1>2, <1>3, <1>4, <1>5, <1>6, <1>7, <1>8, <1>9, <1>10, <1>11, <1>12, <1>13, <1>14, <1>15, <1>16, <1>17 DEF Next

\* No step of a call, no trouble and no change of the system breaks it.
THEOREM Inductive == WindowsInv /\ [Next]_vars => WindowsInv'
  BY TypeStep, LoopStep, PresentStep, ListedStep, FailStep, RouteStep, UnpointStep DEF WindowsInv

\* It holds in every state.
THEOREM Invariance == Spec => []WindowsInv
  BY Initially, Inductive, PTL DEF Spec

-----------------------------------------------------------------------------
(* The properties the run checks *)

\* The types.
THEOREM TypeCorrect == Spec => []TypeOK
  BY Invariance, PTL DEF WindowsInv

\* apply returns Ok with every interface it listed pointed.
THEOREM RoutesAllListed == Spec => RoutesAll
  <1>1. WindowsInv /\ [Next]_vars =>
          [Without({"unplug", "user"}) /\ (NetshOk \/ (NativeOk /\ Without({"native_refused", "spaced"})))
               => ifaces \subseteq PointedInterfaces]_vars
    BY DEF WindowsInv, LoopInv, RouteInv, NetshOk, NativeOk, Without
  <1>2. QED
    BY <1>1, Invariance, PTL DEF Spec, RoutesAll

\* A restore that returns Ok leaves nothing pointed.
THEOREM RestoreUnpointsAll == Spec => RestoreUnpoints
  <1>1. WindowsInv /\ [Next]_vars =>
          [RestoreOk /\ Without({"netsh_refused", "clear_refused", "spaced", "unplug", "crash"})
               => PointedInterfaces = {}]_vars
    BY DEF WindowsInv, UnpointInv, RestoreOk
  <1>2. QED
    BY <1>1, Invariance, PTL DEF Spec, RestoreUnpoints

-----------------------------------------------------------------------------
(* The refinement *)

\* Every step of the redirector is a step of the contract, with the promises
\* that the troubles of this behaviour break, or changes nothing of it.
LEMMA StepRefines ==
  ASSUME WindowsInv, WindowsInv', Next, NEW T \in TroubleSets, troubles = T
  PROVE  Contract(T)!RedirNext \/ UNCHANGED Contract({})!redirVars
  <1> USE DEF WindowsInv, TypeOK, LoopInv, None, env, call
  <1>1. CASE ApplyBegin
    <2>1. Contract(T)!BeginApply
      BY <1>1 DEF ApplyBegin, Contract!BeginApply, PointedInterfaces
    <2>2. QED
      BY <2>1 DEF Contract!RedirNext
  <1>2. CASE NativeOk
    <2>1. Contract(T)!ApplyOk(done) /\ done \in SUBSET Interfaces
      BY <1>2 DEF NativeOk, Native, Contract!ApplyOk, PointedInterfaces
    <2>2. QED
      BY <2>1 DEF Contract!RedirNext
  <1>3. CASE NetshOk
    <2>1. Contract(T)!ApplyOk(ifaces) /\ ifaces \in SUBSET Interfaces
      BY <1>3 DEF NetshOk, Netsh, Contract!ApplyOk, PointedInterfaces
    <2>2. QED
      BY <2>1 DEF Contract!RedirNext
  <1>4. CASE ApplyErr
    <2>1. "apply_leaks" \in BrokenBy(T) \/ done = {}
      BY <1>4, "apply_leaks" \in DOMAIN TroublesBreaking
         DEF ApplyErr, FailInv, BrokenBy, TroublesBreaking, Without
    <2>2. Contract(T)!ApplyErr
      BY <1>4, <2>1 DEF ApplyErr, Contract!ApplyErr, PointedInterfaces
    <2>3. QED
      BY <2>2 DEF Contract!RedirNext
  <1>5. CASE RestoreBegin
    <2>1. Contract(T)!BeginRestore
      BY <1>5 DEF RestoreBegin, Contract!BeginRestore, PointedInterfaces
    <2>2. QED
      BY <2>1 DEF Contract!RedirNext
  <1>6. CASE RestoreOk
    <2>1. Contract(T)!EndRestore
      BY <1>6 DEF RestoreOk, Contract!EndRestore, PointedInterfaces
    <2>2. QED
      BY <2>1 DEF Contract!RedirNext
  <1>7. CASE Crash
    <2>1. "crash" \in BrokenBy(T)
      BY <1>7 DEF Crash, May, BrokenBy, TroublesBreaking
    <2>2. Contract(T)!Forget
      BY <1>7, <2>1 DEF Crash, Contract!Forget, PointedInterfaces
    <2>3. QED
      BY <2>2 DEF Contract!RedirNext
  <1>8. CASE \E i \in Interfaces : NativeSet(i) \/ NetshSet(i)
    <2>1. PICK i \in Interfaces : NativeSet(i) \/ NetshSet(i)
      BY <1>8
    <2>2. PointedInterfaces' = PointedInterfaces \cup {i}
      BY <2>1 DEF NativeSet, NetshSet, PointedInterfaces
    <2>3. Contract(T)!Point(i)
      BY <2>1, <2>2 DEF NativeSet, NetshSet, Contract!Point
    <2>4. QED
      BY <2>3 DEF Contract!RedirNext
  <1>9. CASE \E i \in Interfaces : Clear(i)
    <2>1. PICK i \in Interfaces : Clear(i)
      BY <1>9
    <2>2. PointedInterfaces' = PointedInterfaces \ {i}
      BY <2>1 DEF Clear, PointedInterfaces
    <2>3. Contract(T)!Unpoint(i)
      BY <2>1, <2>2 DEF Clear, Contract!Unpoint
    <2>4. QED
      BY <2>3 DEF Contract!RedirNext
  <1>10. CASE \E n \in Names : ClearFails(n)
    <2>1. PICK n \in Names : ClearFails(n)
      BY <1>10
    <2>2. n \in Interfaces
      BY <2>1 DEF ClearFails
    <2>3. "restore_fails" \in BrokenBy(T)
      BY <2>1 DEF ClearFails, PresentInv, May, Without, BrokenBy, TroublesBreaking
    <2>4. Contract(T)!Skip(n)
      BY <2>1, <2>3 DEF ClearFails, Contract!Skip, PointedInterfaces
    <2>5. QED
      BY <2>2, <2>4 DEF Contract!RedirNext
  <1>11. CASE \E i \in Interfaces : UserSets(i)
    <2>1. PICK i \in Interfaces : UserSets(i)
      BY <1>11
    <2>2. "external" \in BrokenBy(T)
      BY <2>1 DEF UserSets, May, BrokenBy, TroublesBreaking
    <2>3. PointedInterfaces' = PointedInterfaces \ {i}
      BY <2>1 DEF UserSets, PointedInterfaces
    <2>4. Contract(T)!External(i)
      BY <2>1, <2>2, <2>3 DEF UserSets, Contract!External
    <2>5. QED
      BY <2>4 DEF Contract!RedirNext
  <1>12. CASE Fallback
    BY <1>12 DEF Fallback, Contract!redirVars, PointedInterfaces
  <1>13. CASE \E n \in Names : NativeFails(n)
    BY <1>13 DEF NativeFails, Contract!redirVars, PointedInterfaces
  <1>14. CASE \E n \in Names : NetshFails(n)
    BY <1>14 DEF NetshFails, Contract!redirVars, PointedInterfaces
  <1>15. CASE \E i \in Interfaces : Unplug(i)
    BY <1>15 DEF Unplug, Contract!redirVars, PointedInterfaces
  <1>16. QED
    BY <1>1, <1>2, <1>3, <1>4, <1>5, <1>6, <1>7, <1>8, <1>9, <1>10, <1>11, <1>12, <1>13, <1>14,
       <1>15 DEF Next

\* The Windows redirector keeps the contract but for the promises its troubles break.
THEOREM KeepsContract == Spec => ImplementsContract
  <1>1. Init => Contract({})!RedirInit
    BY DEF Init, Contract!RedirInit, PointedInterfaces, None
  <1>2. WindowsInv /\ WindowsInv' /\ [Next]_vars =>
          [\A T \in TroubleSets : troubles = T => Contract(T)!RedirNext]_(Contract({})!redirVars)
    <2> SUFFICES ASSUME WindowsInv, WindowsInv', [Next]_vars,
                        ~ UNCHANGED Contract({})!redirVars, NEW T \in TroubleSets, troubles = T
                 PROVE  Contract(T)!RedirNext
      OBVIOUS
    <2>1. CASE Next
      BY <2>1, StepRefines
    <2>2. CASE UNCHANGED vars
      BY <2>2 DEF vars, call, env, Contract!redirVars, PointedInterfaces
    <2>3. QED
      BY <2>1, <2>2
  <1>3. QED
    BY <1>1, <1>2, Invariance, PTL DEF Spec, ImplementsContract

-----------------------------------------------------------------------------
(* Calls end *)

\* At most how many system calls and returns the call in progress has left.
StepsLeft ==
    CASE pc = "native" -> Cardinality(left) + Cardinality(ifaces) + 4
      [] pc = "netsh"  -> Cardinality(left) + 2
      [] pc = "clear"  -> Cardinality(left) + 1
      [] pc = "failed" -> 1
      [] pc = "idle"   -> 0

\* Every step of a call ends it or brings its end nearer; adapters that come and go and
\* settings that a user changes meanwhile do not delay it.
CallGoesOn ==
    pc # "idle" =>
        IF \E i \in Interfaces : Unplug(i) \/ UserSets(i) THEN StepsLeft' = StepsLeft
        ELSE StepsLeft' < StepsLeft

LEMMA Sizes ==
    ASSUME NEW S \in SUBSET Names
    PROVE  /\ Cardinality(S) \in Nat /\ Cardinality(S) <= Cardinality(Names)
           /\ Cardinality(Names) \in Nat
           /\ \A s \in S : Cardinality(S \ {s}) = Cardinality(S) - 1
  <1>1. IsFiniteSet(Names)
    BY InterfacesAssumption, FS_AddElement DEF Names
  <1>2. IsFiniteSet(S) /\ Cardinality(S) <= Cardinality(Names)
    BY <1>1, FS_Subset
  <1>3. Cardinality(S) \in Nat /\ Cardinality(Names) \in Nat
    BY <1>1, <1>2, FS_CardinalityType
  <1>4. \A s \in S : Cardinality(S \ {s}) = Cardinality(S) - 1
    BY <1>2, FS_RemoveElement
  <1>5. QED
    BY <1>2, <1>3, <1>4

\* A loop visits one name of what is left.
LEMMA VisitStep ==
    ASSUME WindowsInv, pc \in {"native", "netsh", "clear"}, NEW n \in left,
           left' = left \ {n}, pc' = pc, ifaces' = ifaces
    PROVE  StepsLeft' < StepsLeft
  <1>1. left \in SUBSET Names /\ ifaces \in SUBSET Names
    BY DEF WindowsInv, TypeOK
  <1>2. /\ Cardinality(left') = Cardinality(left) - 1
        /\ Cardinality(left) \in Nat /\ Cardinality(ifaces) \in Nat
    BY <1>1, Sizes
  <1>3. QED
    BY <1>2 DEF StepsLeft

LEMMA ReturnStep ==
    ASSUME WindowsInv, pc # "idle", pc' = "idle"
    PROVE  StepsLeft' < StepsLeft
  <1>1. /\ pc \in {"native", "netsh", "failed", "clear"}
        /\ left \in SUBSET Names /\ ifaces \in SUBSET Names
    BY DEF WindowsInv, TypeOK
  <1>2. Cardinality(left) \in Nat /\ Cardinality(ifaces) \in Nat
    BY <1>1, Sizes
  <1>3. QED
    BY <1>1, <1>2 DEF StepsLeft

LEMMA CallStep == WindowsInv /\ Next => CallGoesOn
  <1> SUFFICES ASSUME WindowsInv, Next, pc # "idle"
               PROVE  IF \E i \in Interfaces : Unplug(i) \/ UserSets(i) THEN StepsLeft' = StepsLeft
                      ELSE StepsLeft' < StepsLeft
    BY DEF CallGoesOn
  <1>1. CASE \E i \in Interfaces : Unplug(i) \/ UserSets(i)
    BY <1>1 DEF Unplug, UserSets, call, StepsLeft
  <1>2. CASE ~\E i \in Interfaces : Unplug(i) \/ UserSets(i)
    <2>1. CASE NativeOk \/ NetshOk \/ ApplyErr \/ RestoreOk \/ Crash
      <3>1. pc' = "idle"
        BY <2>1 DEF NativeOk, NetshOk, ApplyErr, RestoreOk, Crash
      <3>2. QED
        BY <1>2, <3>1, ReturnStep
    <2>2. CASE \E n \in Names : NativeFails(n) \/ ClearFails(n)
      BY <1>2, <2>2, VisitStep DEF NativeFails, ClearFails
    <2>3. CASE \E i \in Interfaces : NativeSet(i) \/ NetshSet(i) \/ Clear(i)
      BY <1>2, <2>3, VisitStep DEF NativeSet, NetshSet, Clear
    <2>4. CASE Fallback
      <3>1. ifaces \in SUBSET Names /\ left = {}
        BY <2>4 DEF WindowsInv, TypeOK, Fallback
      <3>2. Cardinality(ifaces) \in Nat /\ Cardinality(left) = 0
        BY <3>1, Sizes, FS_EmptySet
      <3>3. StepsLeft = Cardinality(ifaces) + 4 /\ StepsLeft' = Cardinality(ifaces) + 2
        BY <2>4, <3>2 DEF Fallback, StepsLeft
      <3>4. QED
        BY <1>2, <3>2, <3>3
    <2>5. CASE \E n \in Names : NetshFails(n)
      <3>1. pc = "netsh" /\ pc' = "failed" /\ left \in SUBSET Names
        BY <2>5 DEF NetshFails, WindowsInv, TypeOK
      <3>2. Cardinality(left) \in Nat
        BY <3>1, Sizes
      <3>3. StepsLeft = Cardinality(left) + 2 /\ StepsLeft' = 1
        BY <3>1 DEF StepsLeft
      <3>4. QED
        BY <1>2, <3>2, <3>3
    <2>6. QED
      BY <1>2, <2>1, <2>2, <2>3, <2>4, <2>5 DEF Next, ApplyBegin, RestoreBegin
  <1>3. QED
    BY <1>1, <1>2

\* apply and restore end: each takes at most as many steps as twice the interfaces and six,
\* through the fallback too, whatever is refused.
THEOREM CallsEnd ==
    Spec => []( StepsLeft \in 0 .. 2 * Cardinality(Interfaces) + 6 ) /\ [][CallGoesOn]_vars
  <1>1. WindowsInv => StepsLeft \in 0 .. 2 * Cardinality(Interfaces) + 6
    <2> SUFFICES ASSUME WindowsInv PROVE StepsLeft \in 0 .. 2 * Cardinality(Interfaces) + 6
      OBVIOUS
    <2>1. /\ left \in SUBSET Names /\ ifaces \in SUBSET Names
          /\ pc \in {"idle", "native", "netsh", "failed", "clear"}
      BY DEF WindowsInv, TypeOK
    <2>2. /\ Cardinality(left) \in Nat /\ Cardinality(left) <= Cardinality(Names)
          /\ Cardinality(ifaces) \in Nat /\ Cardinality(ifaces) <= Cardinality(Names)
          /\ Cardinality(Names) = Cardinality(Interfaces) + 1
      BY <2>1, Sizes, InterfacesAssumption, FS_AddElement DEF Names
    <2>3. Cardinality(Interfaces) \in Nat
      BY InterfacesAssumption, FS_CardinalityType
    <2>4. StepsLeft \in {Cardinality(left) + Cardinality(ifaces) + 4, Cardinality(left) + 2,
                         Cardinality(left) + 1, 1, 0}
      BY <2>1 DEF StepsLeft
    <2>5. QED
      BY <2>2, <2>3, <2>4
  <1>2. WindowsInv /\ [Next]_vars => [CallGoesOn]_vars
    BY CallStep
  <1>3. QED
    BY <1>1, <1>2, Invariance, PTL DEF Spec

=============================================================================
