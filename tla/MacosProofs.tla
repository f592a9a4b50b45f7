---- MODULE MacosProofs ----
(***************************************************************************)
(* What TLAPS proves of MacosRedirector, for any network services, any      *)
(* server lists and any set of combinations of troubles.                    *)
(*                                                                          *)
(* The invariant follows the previous servers of a service from the         *)
(* configuration through saved and applied back to the configuration, and   *)
(* every pointed surface to the list that will restore it.                  *)
(***************************************************************************)
EXTENDS MacosRedirector, Naturals, FiniteSetTheorems, TLAPS

\* How the loops divide the services.
LoopInv ==
    /\ pc # "idle" => applied = None
    /\ applied.path = "none" => applied.names = {}
    /\ pc = "native" => done \cap left = {}
    /\ pc = "list" => done = {}
    /\ pc = "shell" => done = Services \ left
    /\ pc = "failed" /\ Without({"shell_refused"}) => done = {}

\* A setting of the user is in place, or saved, or remembered.
PriorInv == Without(Spoiling) =>
    /\ \A s \in Services : prior[s] \notin Scoped
    /\ pc \in {"native", "list", "failed", "remove"} \/ (pc = "idle" /\ applied.path # "shell")
           => dns = prior
    /\ applied.path = "shell" => applied.names = Services /\ applied.prev = prior
    /\ pc = "shell" => \A s \in Services : (IF s \in left THEN dns[s] ELSE saved[s]) = prior[s]
    /\ pc = "set_back" => saved = prior /\ \A s \in Services \ left : dns[s] = prior[s]

ProxyServices == {s \in Services : dns[s] = Proxy}

\* What the fallback has visited, and not yet restored, is pointed.
VisitedInv ==
    /\ pc = "shell" => done \subseteq ProxyServices
    /\ pc = "set_back" => left \subseteq ProxyServices
    /\ applied.path = "shell" => applied.names \subseteq ProxyServices

\* A pointed surface is remembered, or the call in progress has it on its list; and
\* no address of ours is taken for one of the user.
UnpointInv == Without({"store_fails", "shell_refused", "restore_refused", "crash"}) =>
    /\ key \subseteq CASE pc = "native" -> done
                       [] pc = "remove" -> left
                       [] pc = "idle" /\ applied.path = "native" -> applied.names
                       [] OTHER -> {}
    /\ ProxyServices \subseteq CASE pc = "shell" -> done
                                 [] pc = "set_back" -> left
                                 [] pc = "idle" /\ applied.path = "shell" -> applied.names
                                 [] OTHER -> {}
    /\ \A s \in Services : saved[s] # Proxy /\ applied.prev[s] # Proxy

MacosInv == TypeOK /\ LoopInv /\ PriorInv /\ VisitedInv /\ UnpointInv

USE ServicesAssumption, ScopedAssumption, TextsAssumption DEF Empty, Proxy

-----------------------------------------------------------------------------
(* The memory of the redirector *)

\* The three values of Applied.
LEMMA MemoryFacts ==
  /\ None.path = "none" /\ None.names = {} /\ None.prev = NoneSaved
  /\ \A names : Native(names).path = "native" /\ Native(names).names = names
                  /\ Native(names).prev = NoneSaved
  /\ \A names, prev : Shell(names, prev).path = "shell" /\ Shell(names, prev).names = names
                        /\ Shell(names, prev).prev = prev
  BY DEF None, Native, Shell

LEMMA MemoryTypes ==
  /\ NoneSaved \in [Services -> Servers]
  /\ \A s \in Services : NoneSaved[s] # Proxy
  BY DEF NoneSaved, Servers

-----------------------------------------------------------------------------
(* The invariant is inductive *)

\* The redirector is created with nothing pointed and nothing remembered.
THEOREM Initially == Init => MacosInv
  BY MemoryFacts, MemoryTypes
  DEF Init, MacosInv, TypeOK, LoopInv, PriorInv, VisitedInv, UnpointInv, ProxyServices, Servers, None,
      NoneSaved, Without, May, Spoiling

LEMMA TypeStep == MacosInv /\ [Next]_vars => TypeOK'
  <1> SUFFICES ASSUME MacosInv, [Next]_vars PROVE TypeOK'
    OBVIOUS
  <1> USE DEF MacosInv, TypeOK, call, LoopInv, None, Native, Shell, NoneSaved, Servers
  <1>1. CASE ApplyBegin
    BY <1>1 DEF ApplyBegin
  <1>2. CASE NativeEnd
    BY <1>2 DEF NativeEnd
  <1>3. CASE List
    BY <1>3 DEF List
  <1>4. CASE ShellEnd
    BY <1>4 DEF ShellEnd
  <1>5. CASE ApplyErr
    BY <1>5 DEF ApplyErr
  <1>6. CASE RestoreBegin
    BY <1>6 DEF RestoreBegin
  <1>7. CASE RestoreErr
    BY <1>7 DEF RestoreErr
  <1>8. CASE RestoreOk
    BY <1>8 DEF RestoreOk
  <1>9. CASE Crash
    BY <1>9 DEF Crash
  <1>10. CASE \E s \in Services : NativeSet(s)
    BY <1>10 DEF NativeSet
  <1>11. CASE \E s \in Services : NativeRefused(s)
    BY <1>11 DEF NativeRefused
  <1>12. CASE \E s \in Services : ShellSet(s)
    BY <1>12 DEF ShellSet, ParseDnsServers
  <1>13. CASE \E s \in Services : ShellRefused(s)
    BY <1>13 DEF ShellRefused
  <1>14. CASE \E s \in Services : Remove(s)
    BY <1>14 DEF Remove
  <1>15. CASE \E s \in Services : SetBack(s)
    BY <1>15 DEF SetBack
  <1>16. CASE \E s \in Services : KeyLost(s)
    BY <1>16 DEF KeyLost
  <1>17. CASE UNCHANGED vars
    BY <1>17 DEF vars
  <1>18. QED
    BY <1>1, <1>2, <1>3, <1>4, <1>5, <1>6, <1>7, <1>8, <1>9, <1>10, <1>11, <1>12, <1>13, <1>14, <1>15, <1>16, <1>17 DEF Next

LEMMA LoopStep == MacosInv /\ [Next]_vars => LoopInv'
  <1> SUFFICES ASSUME MacosInv, [Next]_vars PROVE LoopInv'
    OBVIOUS
  <1> USE DEF MacosInv, TypeOK, call, LoopInv, Without, May
  <1>1. CASE ApplyBegin
    BY <1>1, MemoryFacts DEF ApplyBegin
  <1>2. CASE NativeEnd
    BY <1>2, MemoryFacts DEF NativeEnd
  <1>3. CASE List
    BY <1>3, MemoryFacts DEF List
  <1>4. CASE ShellEnd
    BY <1>4, MemoryFacts DEF ShellEnd
  <1>5. CASE ApplyErr
    BY <1>5, MemoryFacts DEF ApplyErr
  <1>6. CASE RestoreBegin
    BY <1>6, MemoryFacts DEF RestoreBegin
  <1>7. CASE RestoreErr
    BY <1>7, MemoryFacts DEF RestoreErr
  <1>8. CASE RestoreOk
    BY <1>8, MemoryFacts DEF RestoreOk
  <1>9. CASE Crash
    BY <1>9, MemoryFacts DEF Crash
  <1>10. CASE \E s \in Services : NativeSet(s)
    BY <1>10, MemoryFacts DEF NativeSet
  <1>11. CASE \E s \in Services : NativeRefused(s)
    BY <1>11, MemoryFacts DEF NativeRefused
  <1>12. CASE \E s \in Services : ShellSet(s)
    BY <1>12, MemoryFacts DEF ShellSet, ParseDnsServers
  <1>13. CASE \E s \in Services : ShellRefused(s)
    BY <1>13, MemoryFacts DEF ShellRefused
  <1>14. CASE \E s \in Services : Remove(s)
    BY <1>14, MemoryFacts DEF Remove
  <1>15. CASE \E s \in Services : SetBack(s)
    BY <1>15, MemoryFacts DEF SetBack
  <1>16. CASE \E s \in Services : KeyLost(s)
    BY <1>16, MemoryFacts DEF KeyLost
  <1>17. CASE UNCHANGED vars
    BY <1>17, MemoryFacts DEF vars
  <1>18. QED
    BY <1>1, <1>2, <1>3, <1>4, <1>5, <1>6, <1>7, <1>8, <1>9, <1>10, <1>11, <1>12, <1>13, <1>14, <1>15, <1>16, <1>17 DEF Next

LEMMA PriorStep == MacosInv /\ [Next]_vars => PriorInv'
  <1> SUFFICES ASSUME MacosInv, [Next]_vars PROVE PriorInv'
    OBVIOUS
  <1> USE DEF MacosInv, TypeOK, call, LoopInv, PriorInv, Without, May, Spoiling, Servers
  <1>1. CASE ApplyBegin
    BY <1>1, MemoryFacts DEF ApplyBegin
  <1>2. CASE NativeEnd
    BY <1>2, MemoryFacts DEF NativeEnd
  <1>3. CASE List
    BY <1>3, MemoryFacts DEF List
  <1>4. CASE ShellEnd
    BY <1>4, MemoryFacts DEF ShellEnd
  <1>5. CASE ApplyErr
    BY <1>5, MemoryFacts DEF ApplyErr
  <1>6. CASE RestoreBegin
    BY <1>6, MemoryFacts DEF RestoreBegin
  <1>7. CASE RestoreErr
    BY <1>7, MemoryFacts DEF RestoreErr
  <1>8. CASE RestoreOk
    BY <1>8, MemoryFacts DEF RestoreOk
  <1>9. CASE Crash
    BY <1>9, MemoryFacts DEF Crash
  <1>10. CASE \E s \in Services : NativeSet(s)
    BY <1>10, MemoryFacts DEF NativeSet
  <1>11. CASE \E s \in Services : NativeRefused(s)
    BY <1>11, MemoryFacts DEF NativeRefused
  <1>12. CASE \E s \in Services : ShellSet(s)
    BY <1>12, MemoryFacts DEF ShellSet, ParseDnsServers
  <1>13. CASE \E s \in Services : ShellRefused(s)
    BY <1>13, MemoryFacts DEF ShellRefused
  <1>14. CASE \E s \in Services : Remove(s)
    BY <1>14, MemoryFacts DEF Remove
  <1>15. CASE \E s \in Services : SetBack(s)
    BY <1>15, MemoryFacts DEF SetBack
  <1>16. CASE \E s \in Services : KeyLost(s)
    BY <1>16, MemoryFacts DEF KeyLost
  <1>17. CASE UNCHANGED vars
    BY <1>17, MemoryFacts DEF vars
  <1>18. QED
    BY <1>1, <1>2, <1>3, <1>4, <1>5, <1>6, <1>7, <1>8, <1>9, <1>10, <1>11, <1>12, <1>13, <1>14, <1>15, <1>16, <1>17 DEF Next

LEMMA VisitedStep == MacosInv /\ [Next]_vars => VisitedInv'
  <1> SUFFICES ASSUME MacosInv, [Next]_vars PROVE VisitedInv'
    OBVIOUS
  <1> USE DEF MacosInv, TypeOK, call, LoopInv, VisitedInv, ProxyServices
  <1>1. CASE ApplyBegin
    BY <1>1, MemoryFacts DEF ApplyBegin
  <1>2. CASE NativeEnd
    BY <1>2, MemoryFacts DEF NativeEnd
  <1>3. CASE List
    BY <1>3, MemoryFacts DEF List
  <1>4. CASE ShellEnd
    BY <1>4, MemoryFacts DEF ShellEnd
  <1>5. CASE ApplyErr
    BY <1>5, MemoryFacts DEF ApplyErr
  <1>6. CASE RestoreBegin
    BY <1>6, MemoryFacts DEF RestoreBegin
  <1>7. CASE RestoreErr
    BY <1>7, MemoryFacts DEF RestoreErr
  <1>8. CASE RestoreOk
    BY <1>8, MemoryFacts DEF RestoreOk
  <1>9. CASE Crash
    BY <1>9, MemoryFacts DEF Crash
  <1>10. CASE \E s \in Services : NativeSet(s)
    BY <1>10, MemoryFacts DEF NativeSet
  <1>11. CASE \E s \in Services : NativeRefused(s)
    BY <1>11, MemoryFacts DEF NativeRefused
  <1>12. CASE \E s \in Services : ShellSet(s)
    BY <1>12, MemoryFacts DEF ShellSet, ParseDnsServers
  <1>13. CASE \E s \in Services : ShellRefused(s)
    BY <1>13, MemoryFacts DEF ShellRefused
  <1>14. CASE \E s \in Services : Remove(s)
    BY <1>14, MemoryFacts DEF Remove
  <1>15. CASE \E s \in Services : SetBack(s)
    BY <1>15, MemoryFacts DEF SetBack
  <1>16. CASE \E s \in Services : KeyLost(s)
    BY <1>16, MemoryFacts DEF KeyLost
  <1>17. CASE UNCHANGED vars
    BY <1>17, MemoryFacts DEF vars
  <1>18. QED
    BY <1>1, <1>2, <1>3, <1>4, <1>5, <1>6, <1>7, <1>8, <1>9, <1>10, <1>11, <1>12, <1>13, <1>14, <1>15, <1>16, <1>17 DEF Next

LEMMA UnpointStep == MacosInv /\ [Next]_vars => UnpointInv'
  <1> SUFFICES ASSUME MacosInv, [Next]_vars PROVE UnpointInv'
    OBVIOUS
  <1> USE DEF MacosInv, TypeOK, call, LoopInv, UnpointInv, ProxyServices, Without, May
  <1>1. CASE ApplyBegin
    BY <1>1, MemoryFacts, MemoryTypes DEF ApplyBegin
  <1>2. CASE NativeEnd
    BY <1>2, MemoryFacts, MemoryTypes DEF NativeEnd
  <1>3. CASE List
    BY <1>3, MemoryFacts, MemoryTypes DEF List
  <1>4. CASE ShellEnd
    BY <1>4, MemoryFacts, MemoryTypes DEF ShellEnd
  <1>5. CASE ApplyErr
    BY <1>5, MemoryFacts, MemoryTypes DEF ApplyErr
  <1>6. CASE RestoreBegin
    BY <1>6, MemoryFacts, MemoryTypes DEF RestoreBegin
  <1>7. CASE RestoreErr
    BY <1>7, MemoryFacts, MemoryTypes DEF RestoreErr
  <1>8. CASE RestoreOk
    BY <1>8, MemoryFacts, MemoryTypes DEF RestoreOk
  <1>9. CASE Crash
    BY <1>9, MemoryFacts, MemoryTypes DEF Crash
  <1>10. CASE \E s \in Services : NativeSet(s)
    BY <1>10, MemoryFacts, MemoryTypes DEF NativeSet
  <1>11. CASE \E s \in Services : NativeRefused(s)
    BY <1>11, MemoryFacts, MemoryTypes DEF NativeRefused
  <1>12. CASE \E s \in Services : ShellSet(s)
    BY <1>12, MemoryFacts, MemoryTypes DEF ShellSet, ParseDnsServers
  <1>13. CASE \E s \in Services : ShellRefused(s)
    BY <1>13, MemoryFacts, MemoryTypes DEF ShellRefused
  <1>14. CASE \E s \in Services : Remove(s)
    BY <1>14, MemoryFacts, MemoryTypes DEF Remove
  <1>15. CASE \E s \in Services : SetBack(s)
    BY <1>15, MemoryFacts, MemoryTypes DEF SetBack
  <1>16. CASE \E s \in Services : KeyLost(s)
    BY <1>16, MemoryFacts, MemoryTypes DEF KeyLost
  <1>17. CASE UNCHANGED vars
    BY <1>17, MemoryFacts, MemoryTypes DEF vars
  <1>18. QED
    BY <1>1, <1>2, <1>3, <1>4, <1>5, <1>6, <1>7, <1>8, <1>9, <1>10, <1>11, <1>12, <1>13, <1>14, <1>15, <1>16, <1>17 DEF Next

\* No step of a call, no trouble and no change of the system breaks it.
THEOREM Inductive == MacosInv /\ [Next]_vars => MacosInv'
  BY TypeStep, LoopStep, PriorStep, VisitedStep, UnpointStep DEF MacosInv

\* It holds in every state.
THEOREM Invariance == Spec => []MacosInv
  BY Initially, Inductive, PTL DEF Spec

-----------------------------------------------------------------------------
(* The properties the run checks *)

\* The types.
THEOREM TypeCorrect == Spec => []TypeOK
  BY Invariance, PTL DEF MacosInv

\* What is saved is what the user had.
THEOREM PreviousIsSaved == Spec => []SavesPrevious
  <1>1. MacosInv => SavesPrevious
    BY DEF MacosInv, TypeOK, PriorInv, SavesPrevious
  <1>2. QED
    BY <1>1, Invariance, PTL

\* restore gives every service its servers back.
THEOREM RestoresWhatWas == Spec => RestoresPrior
  <1>1. MacosInv /\ [Next]_vars => [RestoreOk /\ Without(Spoiling) => dns = prior]_vars
    BY DEF MacosInv, TypeOK, PriorInv, RestoreOk
  <1>2. QED
    BY <1>1, Invariance, PTL DEF Spec, RestoresPrior

\* A restore that returns Ok leaves nothing pointed.
THEOREM RestoreUnpointsAll == Spec => RestoreUnpoints
  <1>1. MacosInv /\ [Next]_vars =>
          [RestoreOk /\ Without({"store_fails", "shell_refused", "restore_refused", "crash"})
               => PointedSurfaces = {}]_vars
    BY DEF MacosInv, UnpointInv, RestoreOk, PointedSurfaces, ProxyServices, StateKeys, SetupServers
  <1>2. QED
    BY <1>1, Invariance, PTL DEF Spec, RestoreUnpoints

-----------------------------------------------------------------------------
(* The refinement *)

\* The two kinds of surface of one service.
LEMMA SurfaceFacts ==
  ASSUME NEW s \in Services, NEW S \in SUBSET Services
  PROVE  /\ StateKeys(S \cup {s}) = StateKeys(S) \cup {<<"state", s>>}
         /\ StateKeys(S \ {s}) = StateKeys(S) \ {<<"state", s>>}
         /\ SetupServers(S \cup {s}) = SetupServers(S) \cup {<<"setup", s>>}
         /\ SetupServers(S \ {s}) = SetupServers(S) \ {<<"setup", s>>}
         /\ <<"state", s>> \in StateKeys(S) <=> s \in S
         /\ <<"setup", s>> \in SetupServers(S) <=> s \in S
         /\ StateKeys(S) \subseteq StateKeys(Services)
         /\ SetupServers(S) \subseteq SetupServers(Services)
  BY DEF StateKeys, SetupServers

LEMMA NoSurface == StateKeys({}) = {} /\ SetupServers({}) = {}
  BY DEF StateKeys, SetupServers

LEMMA SomeSurface ==
  ASSUME NEW S \in SUBSET Services, S # {}
  PROVE  StateKeys(S) # {} /\ SetupServers(S) # {}
  <1>1. PICK s \in S : TRUE
    OBVIOUS
  <1>2. <<"state", s>> \in StateKeys(S) /\ <<"setup", s>> \in SetupServers(S)
    BY <1>1 DEF StateKeys, SetupServers
  <1>3. QED
    BY <1>2

SurfacesOf(K, P) == StateKeys(K) \cup SetupServers(P)

LEMMA Pointed ==
  /\ PointedSurfaces = SurfacesOf(key, ProxyServices)
  /\ PointedSurfaces' = SurfacesOf(key', ProxyServices')
  BY DEF PointedSurfaces, ProxyServices, SurfacesOf

\* A surface joins or leaves both.
LEMMA PointedFacts ==
  ASSUME NEW s \in Services, NEW K \in SUBSET Services, NEW P \in SUBSET Services
  PROVE  /\ SurfacesOf(K \cup {s}, P) = SurfacesOf(K, P) \cup {<<"state", s>>}
         /\ SurfacesOf(K \ {s}, P) = SurfacesOf(K, P) \ {<<"state", s>>}
         /\ SurfacesOf(K, P \cup {s}) = SurfacesOf(K, P) \cup {<<"setup", s>>}
         /\ SurfacesOf(K, P \ {s}) = SurfacesOf(K, P) \ {<<"setup", s>>}
  BY DEF SurfacesOf, StateKeys, SetupServers

LEMMA SomeServices == ProxyServices \in SUBSET Services
  BY DEF ProxyServices

\* Every step of the redirector is a step of the contract, with the promises
\* that the troubles of this behaviour break, or changes nothing of it.
LEMMA StepRefines ==
  ASSUME MacosInv, MacosInv', Next, NEW T \in TroubleSets, troubles = T
  PROVE  Contract(T)!RedirNext \/ UNCHANGED Contract({})!redirVars
  <1> DEFINE Remembered == IF applied.path = "native" THEN StateKeys(applied.names)
                           ELSE SetupServers(applied.names)
             Call == IF pc = "idle" THEN "none"
                     ELSE IF pc \in {"remove", "set_back"} THEN "restore" ELSE "apply"
             Todo == CASE pc = "native" -> StateKeys(done)
                       [] pc \in {"shell", "failed"} -> SetupServers(done)
                       [] pc = "remove" -> StateKeys(left)
                       [] pc = "set_back" -> SetupServers(left)
                       [] OTHER -> {}
  <1> USE DEF MacosInv, TypeOK, LoopInv
  <1>1. CASE ApplyBegin
    <2>1. PointedSurfaces' = PointedSurfaces
      BY <1>1 DEF ApplyBegin, PointedSurfaces
    <2>2. Remembered' = Remembered
      BY <1>1 DEF ApplyBegin
    <2>3. Call = "none" /\ Call' = "apply"
      BY <1>1 DEF ApplyBegin
    <2>4. Todo' = {}
      BY <1>1, NoSurface DEF ApplyBegin
    <2>5. Contract(T)!BeginApply
      BY <2>1, <2>2, <2>3, <2>4 DEF Contract!BeginApply
    <2>6. QED
      BY <2>5 DEF Contract!RedirNext
  <1>2. CASE \E s \in Services : NativeSet(s)
    <2>1. PICK s \in Services : NativeSet(s)
      BY <1>2
    <2>2. <<"state", s>> \in StateKeys(Services) \cup SetupServers(Services)
      BY SurfaceFacts
    <2>3. ProxyServices' = ProxyServices /\ key' = key \cup {s}
      BY <2>1 DEF NativeSet, ProxyServices
    <2>4. PointedSurfaces' = PointedSurfaces \cup {<<"state", s>>}
      BY <2>3, Pointed, PointedFacts, SomeServices
    <2>5. Remembered' = Remembered
      BY <2>1 DEF NativeSet
    <2>6. Call = "apply" /\ Call' = "apply"
      BY <2>1 DEF NativeSet
    <2>7. <<"state", s>> \notin Todo /\ Todo' = Todo \cup {<<"state", s>>}
      BY <2>1, SurfaceFacts DEF NativeSet
    <2>8. Contract(T)!Point(<<"state", s>>)
      BY <2>1, <2>2, <2>3, <2>4, <2>5, <2>6, <2>7 DEF Contract!Point
    <2>9. QED
      BY <2>8, <2>2 DEF Contract!RedirNext
  <1>3. CASE \E s \in Services : NativeRefused(s)
    <2>1. PICK s \in Services : NativeRefused(s)
      BY <1>3
    <2>2. PointedSurfaces' = PointedSurfaces
      BY <2>1 DEF NativeRefused, PointedSurfaces
    <2>3. Remembered' = Remembered
      BY <2>1 DEF NativeRefused
    <2>4. Call' = Call
      BY <2>1 DEF NativeRefused
    <2>5. Todo' = Todo
      BY <2>1 DEF NativeRefused
    <2>6. QED
      BY <2>1, <2>2, <2>3, <2>4, <2>5 DEF Contract!redirVars
  <1>4. CASE NativeEnd /\ done # {}
    <2>1. PointedSurfaces' = PointedSurfaces
      BY <1>4 DEF NativeEnd, PointedSurfaces
    <2>2. Remembered' = StateKeys(done)
      BY <1>4, MemoryFacts DEF NativeEnd
    <2>3. Call = "apply" /\ Call' = "none"
      BY <1>4 DEF NativeEnd
    <2>4. Todo = StateKeys(done) /\ Todo' = {} /\ StateKeys(done) # {}
      BY <1>4, SomeSurface DEF NativeEnd
    <2>5. StateKeys(done) \in SUBSET (StateKeys(Services) \cup SetupServers(Services))
      BY DEF StateKeys
    <2>6. Contract(T)!ApplyOk(StateKeys(done))
      BY <2>1, <2>2, <2>3, <2>4, <2>5 DEF Contract!ApplyOk
    <2>7. QED
      BY <2>6, <2>5 DEF Contract!RedirNext
  <1>5. CASE NativeEnd /\ done = {}
    <2>1. PointedSurfaces' = PointedSurfaces
      BY <1>5 DEF NativeEnd, PointedSurfaces
    <2>2. Remembered' = Remembered
      BY <1>5 DEF NativeEnd
    <2>3. Call' = Call
      BY <1>5 DEF NativeEnd
    <2>4. Todo' = Todo
      BY <1>5, NoSurface DEF NativeEnd
    <2>5. QED
      BY <2>1, <2>2, <2>3, <2>4 DEF Contract!redirVars
  <1>6. CASE List
    <2>1. PointedSurfaces' = PointedSurfaces
      BY <1>6 DEF List, PointedSurfaces
    <2>2. Remembered' = Remembered
      BY <1>6 DEF List
    <2>3. Call' = Call
      BY <1>6 DEF List
    <2>4. Todo' = Todo
      BY <1>6, NoSurface DEF List
    <2>5. QED
      BY <2>1, <2>2, <2>3, <2>4 DEF Contract!redirVars
  <1>7. CASE \E s \in Services : ShellSet(s)
    <2>1. PICK s \in Services : ShellSet(s)
      BY <1>7
    <2>2. <<"setup", s>> \in StateKeys(Services) \cup SetupServers(Services)
      BY SurfaceFacts
    <2>3. ProxyServices' = ProxyServices \cup {s} /\ key' = key
      BY <2>1 DEF ShellSet, ProxyServices, Servers
    <2>4. PointedSurfaces' = PointedSurfaces \cup {<<"setup", s>>}
      BY <2>3, Pointed, PointedFacts, SomeServices
    <2>5. Remembered' = Remembered
      BY <2>1 DEF ShellSet
    <2>6. Call = "apply" /\ Call' = "apply"
      BY <2>1 DEF ShellSet
    <2>7. <<"setup", s>> \notin Todo /\ Todo' = Todo \cup {<<"setup", s>>}
      BY <2>1, SurfaceFacts DEF ShellSet
    <2>8. Contract(T)!Point(<<"setup", s>>)
      BY <2>1, <2>2, <2>3, <2>4, <2>5, <2>6, <2>7 DEF Contract!Point
    <2>9. QED
      BY <2>8, <2>2 DEF Contract!RedirNext
  <1>8. CASE \E s \in Services : ShellRefused(s)
    <2>1. PICK s \in Services : ShellRefused(s)
      BY <1>8
    <2>2. PointedSurfaces' = PointedSurfaces
      BY <2>1 DEF ShellRefused, PointedSurfaces
    <2>3. Remembered' = Remembered
      BY <2>1 DEF ShellRefused
    <2>4. Call' = Call
      BY <2>1 DEF ShellRefused
    <2>5. Todo' = Todo
      BY <2>1 DEF ShellRefused
    <2>6. QED
      BY <2>1, <2>2, <2>3, <2>4, <2>5 DEF Contract!redirVars
  <1>9. CASE ShellEnd
    <2>1. PointedSurfaces' = PointedSurfaces
      BY <1>9 DEF ShellEnd, PointedSurfaces
    <2>2. Remembered' = SetupServers(done)
      BY <1>9, MemoryFacts DEF ShellEnd
    <2>3. Call = "apply" /\ Call' = "none"
      BY <1>9 DEF ShellEnd
    <2>4. Todo = SetupServers(done) /\ Todo' = {} /\ SetupServers(done) # {}
      BY <1>9, SomeSurface DEF ShellEnd
    <2>5. SetupServers(done) \in SUBSET (StateKeys(Services) \cup SetupServers(Services))
      BY DEF SetupServers
    <2>6. Contract(T)!ApplyOk(SetupServers(done))
      BY <2>1, <2>2, <2>3, <2>4, <2>5 DEF Contract!ApplyOk
    <2>7. QED
      BY <2>6, <2>5 DEF Contract!RedirNext
  <1>10. CASE ApplyErr
    <2>1. PointedSurfaces' = PointedSurfaces
      BY <1>10 DEF ApplyErr, PointedSurfaces
    <2>2. Remembered' = Remembered
      BY <1>10 DEF ApplyErr
    <2>3. Call = "apply" /\ Call' = "none"
      BY <1>10 DEF ApplyErr
    <2>4. Todo' = {}
      BY <1>10 DEF ApplyErr
    <2>5. "apply_leaks" \in BrokenBy(T) \/ Todo = {}
      BY <1>10, NoSurface DEF ApplyErr, Without, BrokenBy, TroublesBreaking
    <2>6. Contract(T)!ApplyErr
      BY <2>1, <2>2, <2>3, <2>4, <2>5 DEF Contract!ApplyErr
    <2>7. QED
      BY <2>6 DEF Contract!RedirNext
  <1>11. CASE RestoreBegin
    <2>1. PointedSurfaces' = PointedSurfaces
      BY <1>11 DEF RestoreBegin, PointedSurfaces
    <2>2. Remembered' = {}
      BY <1>11, MemoryFacts, NoSurface DEF RestoreBegin
    <2>3. Call = "none" /\ Call' = "restore"
      BY <1>11 DEF RestoreBegin
    <2>4. applied.path \in {"none", "native", "shell"}
      BY DEF TypeOK
    <2>5. Todo' = Remembered
      BY <1>11, <2>4, NoSurface DEF RestoreBegin
    <2>6. Contract(T)!BeginRestore
      BY <2>1, <2>2, <2>3, <2>4, <2>5 DEF Contract!BeginRestore
    <2>7. QED
      BY <2>6 DEF Contract!RedirNext
  <1>12. CASE \E s \in Services : Remove(s)
    <2>1. PICK s \in Services : Remove(s)
      BY <1>12
    <2>2. <<"state", s>> \in StateKeys(Services) \cup SetupServers(Services)
      BY SurfaceFacts
    <2>3. Remembered' = Remembered
      BY <2>1 DEF Remove
    <2>4. Call = "restore" /\ Call' = "restore"
      BY <2>1 DEF Remove
    <2>5. <<"state", s>> \in Todo /\ Todo' = Todo \ {<<"state", s>>}
      BY <2>1, SurfaceFacts DEF Remove
    <2>6. CASE key' = key \ {s}
      <3>1. ProxyServices' = ProxyServices
        BY <2>1 DEF Remove, ProxyServices
      <3>2. PointedSurfaces' = PointedSurfaces \ {<<"state", s>>}
        BY <2>6, <3>1, Pointed, PointedFacts, SomeServices
      <3>3. Contract(T)!Unpoint(<<"state", s>>)
        BY <2>3, <2>4, <2>5, <3>2 DEF Contract!Unpoint
      <3>4. QED
        BY <2>2, <3>3 DEF Contract!RedirNext
    <2>7. CASE key' = key /\ May("restore_refused")
      <3>1. PointedSurfaces' = PointedSurfaces
        BY <2>1, <2>7 DEF Remove, PointedSurfaces
      <3>2. "restore_fails" \in BrokenBy(T)
        BY <2>7 DEF May, BrokenBy, TroublesBreaking
      <3>3. Contract(T)!Skip(<<"state", s>>)
        BY <2>3, <2>4, <2>5, <3>1, <3>2 DEF Contract!Skip
      <3>4. QED
        BY <2>2, <3>3 DEF Contract!RedirNext
    <2>8. key' = key \ {s} \/ (key' = key /\ May("restore_refused"))
      BY <2>1 DEF Remove
    <2>9. QED
      BY <2>6, <2>7, <2>8
  <1>13. CASE RestoreErr
    <2>1. PointedSurfaces' = PointedSurfaces
      BY <1>13 DEF RestoreErr, PointedSurfaces
    <2>2. Remembered' = Remembered
      BY <1>13 DEF RestoreErr
    <2>3. Call = "restore" /\ Call' = "none"
      BY <1>13 DEF RestoreErr
    <2>4. Todo' = {}
      BY <1>13 DEF RestoreErr
    <2>5. "restore_fails" \in BrokenBy(T)
      BY <1>13 DEF RestoreErr, May, BrokenBy, TroublesBreaking
    <2>6. Contract(T)!EndRestore
      BY <2>1, <2>2, <2>3, <2>4, <2>5 DEF Contract!EndRestore
    <2>7. QED
      BY <2>6 DEF Contract!RedirNext
  <1>14. CASE \E s \in Services : SetBack(s)
    <2>1. PICK s \in Services : SetBack(s)
      BY <1>14
    <2>2. <<"setup", s>> \in StateKeys(Services) \cup SetupServers(Services)
      BY SurfaceFacts
    <2>3. Remembered' = Remembered
      BY <2>1 DEF SetBack
    <2>4. Call = "restore" /\ Call' = "restore"
      BY <2>1 DEF SetBack
    <2>5. <<"setup", s>> \in Todo /\ Todo' = Todo \ {<<"setup", s>>}
      BY <2>1, SurfaceFacts DEF SetBack
    <2>6. CASE dns' = [dns EXCEPT ![s] = saved[s]] /\ saved[s] # Proxy
      <3>1. ProxyServices' = ProxyServices \ {s} /\ key' = key
        BY <2>1, <2>6 DEF SetBack, ProxyServices
      <3>2. PointedSurfaces' = PointedSurfaces \ {<<"setup", s>>}
        BY <3>1, Pointed, PointedFacts, SomeServices
      <3>3. Contract(T)!Unpoint(<<"setup", s>>)
        BY <2>3, <2>4, <2>5, <3>2 DEF Contract!Unpoint
      <3>4. QED
        BY <2>2, <3>3 DEF Contract!RedirNext
    <2>7. CASE (dns' = dns /\ May("restore_refused")) \/ (dns' = [dns EXCEPT ![s] = saved[s]] /\ saved[s] = Proxy)
      <3>1. dns' = dns
        BY <2>1, <2>7 DEF SetBack, VisitedInv, ProxyServices
      <3>2. PointedSurfaces' = PointedSurfaces
        BY <2>1, <3>1 DEF SetBack, PointedSurfaces
      <3>3. "restore_fails" \in BrokenBy(T)
        BY <2>7 DEF UnpointInv, Without, May, BrokenBy, TroublesBreaking
      <3>4. Contract(T)!Skip(<<"setup", s>>)
        BY <2>3, <2>4, <2>5, <3>2, <3>3 DEF Contract!Skip
      <3>5. QED
        BY <2>2, <3>4 DEF Contract!RedirNext
    <2>8. \/ dns' = [dns EXCEPT ![s] = saved[s]]
          \/ dns' = dns /\ May("restore_refused")
      BY <2>1 DEF SetBack
    <2>9. QED
      BY <2>6, <2>7, <2>8
  <1>15. CASE RestoreOk
    <2>1. PointedSurfaces' = PointedSurfaces
      BY <1>15 DEF RestoreOk, PointedSurfaces
    <2>2. Remembered' = Remembered
      BY <1>15 DEF RestoreOk
    <2>3. Call = "restore" /\ Call' = "none"
      BY <1>15 DEF RestoreOk
    <2>4. Todo = {} /\ Todo' = {}
      BY <1>15, NoSurface DEF RestoreOk
    <2>5. Contract(T)!EndRestore
      BY <2>1, <2>2, <2>3, <2>4 DEF Contract!EndRestore
    <2>6. QED
      BY <2>5 DEF Contract!RedirNext
  <1>16. CASE Crash
    <2>1. "crash" \in BrokenBy(T)
      BY <1>16 DEF Crash, May, BrokenBy, TroublesBreaking
    <2>2. PointedSurfaces' = PointedSurfaces
      BY <1>16 DEF Crash, PointedSurfaces
    <2>3. Remembered' = {}
      BY <1>16, MemoryFacts, NoSurface DEF Crash
    <2>4. Call' = "none"
      BY <1>16 DEF Crash
    <2>5. Todo' = {}
      BY <1>16 DEF Crash
    <2>6. Contract(T)!Forget
      BY <2>1, <2>2, <2>3, <2>4, <2>5 DEF Contract!Forget
    <2>7. QED
      BY <2>6 DEF Contract!RedirNext
  <1>17. CASE \E s \in Services : KeyLost(s)
    <2>1. PICK s \in Services : KeyLost(s)
      BY <1>17
    <2>2. <<"state", s>> \in StateKeys(Services) \cup SetupServers(Services)
      BY SurfaceFacts
    <2>3. "external" \in BrokenBy(T)
      BY <2>1 DEF KeyLost, May, BrokenBy, TroublesBreaking
    <2>4. ProxyServices' = ProxyServices /\ key' = key \ {s}
      BY <2>1 DEF KeyLost, ProxyServices
    <2>5. PointedSurfaces' = PointedSurfaces \ {<<"state", s>>}
      BY <2>4, Pointed, PointedFacts, SomeServices
    <2>6. Remembered' = Remembered
      BY <2>1 DEF KeyLost
    <2>7. Call' = Call /\ Todo' = Todo
      BY <2>1 DEF KeyLost, call
    <2>8. Contract(T)!External(<<"state", s>>)
      BY <2>1, <2>2, <2>3, <2>4, <2>5, <2>6, <2>7 DEF Contract!External
    <2>9. QED
      BY <2>8, <2>2 DEF Contract!RedirNext
  <1>18. QED
    BY <1>1, <1>2, <1>3, <1>4, <1>5, <1>6, <1>7, <1>8, <1>9, <1>10, <1>11, <1>12, <1>13, <1>14, <1>15, <1>16, <1>17 DEF Next

\* The macOS redirector keeps the contract but for the promises its troubles break.
THEOREM KeepsContract == Spec => ImplementsContract
  <1>1. Init => Contract({})!RedirInit
    <2> SUFFICES ASSUME Init PROVE Contract({})!RedirInit
      OBVIOUS
    <2>1. PointedSurfaces = {}
      BY DEF Init, PointedSurfaces, StateKeys, SetupServers
    <2>2. applied.path = "none" /\ applied.names = {} /\ pc = "idle"
      BY MemoryFacts DEF Init
    <2>3. QED
      BY <2>1, <2>2, NoSurface DEF Contract!RedirInit
  <1>2. MacosInv /\ MacosInv' /\ [Next]_vars =>
          [\A T \in TroubleSets : troubles = T => Contract(T)!RedirNext]_(Contract({})!redirVars)
    <2> SUFFICES ASSUME MacosInv, MacosInv', [Next]_vars,
                        ~ UNCHANGED Contract({})!redirVars, NEW T \in TroubleSets, troubles = T
                 PROVE  Contract(T)!RedirNext
      OBVIOUS
    <2>1. CASE Next
      BY <2>1, StepRefines
    <2>2. CASE UNCHANGED vars
      BY <2>2 DEF vars, call, Contract!redirVars, PointedSurfaces
    <2>3. QED
      BY <2>1, <2>2
  <1>3. QED
    BY <1>1, <1>2, Invariance, PTL DEF Spec, ImplementsContract

-----------------------------------------------------------------------------
(* Calls end *)

\* At most how many system calls and returns the call in progress has left.
StepsLeft ==
    CASE pc = "native"   -> Cardinality(left) + Cardinality(Services) + 4
      [] pc = "list"     -> Cardinality(Services) + 3
      [] pc = "shell"    -> Cardinality(left) + 2
      [] pc = "remove"   -> Cardinality(left) + 1
      [] pc = "set_back" -> Cardinality(left) + 1
      [] pc = "failed"   -> 1
      [] pc = "idle"     -> 0

\* Every step of a call ends it or brings its end nearer; a key that the system drops
\* meanwhile does not delay it.
CallGoesOn ==
    pc # "idle" =>
        IF \E s \in Services : KeyLost(s) THEN StepsLeft' = StepsLeft
        ELSE StepsLeft' < StepsLeft

LEMMA Sizes ==
    ASSUME NEW S \in SUBSET Services
    PROVE  /\ Cardinality(S) \in Nat /\ Cardinality(S) <= Cardinality(Services)
           /\ Cardinality(Services) \in Nat
           /\ \A s \in S : Cardinality(S \ {s}) = Cardinality(S) - 1
  <1>1. IsFiniteSet(S) /\ Cardinality(S) <= Cardinality(Services)
    BY FiniteAssumption, FS_Subset
  <1>2. Cardinality(S) \in Nat /\ Cardinality(Services) \in Nat
    BY <1>1, FiniteAssumption, FS_CardinalityType
  <1>3. \A s \in S : Cardinality(S \ {s}) = Cardinality(S) - 1
    BY <1>1, FS_RemoveElement
  <1>4. QED
    BY <1>1, <1>2, <1>3

LEMMA NoneLeft == Cardinality({}) = 0
  BY FS_EmptySet

\* A loop visits one service of what is left.
LEMMA VisitStep ==
    ASSUME MacosInv, pc \in {"native", "shell", "remove", "set_back"}, NEW s \in left,
           left' = left \ {s}, pc' = pc
    PROVE  StepsLeft' < StepsLeft
  <1>1. left \in SUBSET Services
    BY DEF MacosInv, TypeOK
  <1>2. /\ Cardinality(left') = Cardinality(left) - 1
        /\ Cardinality(left) \in Nat /\ Cardinality(Services) \in Nat
    BY <1>1, Sizes
  <1>3. QED
    BY <1>2 DEF StepsLeft

\* A call that returns, or gives up, had more than that left.
LEMMA ReturnStep ==
    ASSUME MacosInv, pc # "idle",
           pc' = "idle" \/ (pc \in {"list", "shell"} /\ pc' = "failed")
    PROVE  StepsLeft' < StepsLeft
  <1>1. /\ pc \in {"native", "list", "shell", "failed", "remove", "set_back"}
        /\ left \in SUBSET Services
    BY DEF MacosInv, TypeOK
  <1>2. Cardinality(left) \in Nat /\ Cardinality(Services) \in Nat
    BY <1>1, Sizes
  <1>3. QED
    BY <1>1, <1>2 DEF StepsLeft

\* A loop that is over is followed by the next one.
LEMMA NextLoopStep ==
    ASSUME MacosInv,
           \/ pc = "native" /\ pc' = "list" /\ left = {}
           \/ pc = "list" /\ pc' = "shell" /\ left' = Services
    PROVE  StepsLeft' < StepsLeft
  <1>1. Cardinality(Services) \in Nat
    BY FiniteAssumption, FS_CardinalityType
  <1>2. CASE pc = "native" /\ pc' = "list" /\ left = {}
    <2>1. StepsLeft = Cardinality(Services) + 4 /\ StepsLeft' = Cardinality(Services) + 3
      BY <1>1, <1>2, NoneLeft DEF StepsLeft
    <2>2. QED
      BY <1>1, <2>1
  <1>3. CASE pc = "list" /\ pc' = "shell" /\ left' = Services
    <2>1. StepsLeft = Cardinality(Services) + 3 /\ StepsLeft' = Cardinality(Services) + 2
      BY <1>3 DEF StepsLeft
    <2>2. QED
      BY <1>1, <2>1
  <1>4. QED
    BY <1>2, <1>3

LEMMA CallStep == MacosInv /\ Next => CallGoesOn
  <1> SUFFICES ASSUME MacosInv, Next, pc # "idle"
               PROVE  IF \E s \in Services : KeyLost(s) THEN StepsLeft' = StepsLeft
                      ELSE StepsLeft' < StepsLeft
    BY DEF CallGoesOn
  <1>1. CASE \E s \in Services : KeyLost(s)
    BY <1>1 DEF KeyLost, call, StepsLeft
  <1>2. CASE ~\E s \in Services : KeyLost(s)
    <2>1. CASE ShellEnd \/ ApplyErr \/ RestoreErr \/ RestoreOk \/ Crash
      <3>1. pc' = "idle"
        BY <2>1 DEF ShellEnd, ApplyErr, RestoreErr, RestoreOk, Crash
      <3>2. QED
        BY <1>2, <3>1, ReturnStep
    <2>2. CASE NativeEnd
      BY <1>2, <2>2, ReturnStep, NextLoopStep DEF NativeEnd
    <2>3. CASE List
      BY <1>2, <2>3, ReturnStep, NextLoopStep DEF List
    <2>4. CASE \E s \in Services : NativeSet(s) \/ NativeRefused(s) \/ ShellSet(s)
      BY <1>2, <2>4, VisitStep DEF NativeSet, NativeRefused, ShellSet
    <2>5. CASE \E s \in Services : Remove(s) \/ SetBack(s)
      BY <1>2, <2>5, VisitStep DEF Remove, SetBack
    <2>6. CASE \E s \in Services : ShellRefused(s)
      BY <1>2, <2>6, ReturnStep DEF ShellRefused
    <2>7. QED
      BY <1>2, <2>1, <2>2, <2>3, <2>4, <2>5, <2>6 DEF Next, ApplyBegin, RestoreBegin
  <1>3. QED
    BY <1>1, <1>2

\* apply and restore end: each takes at most as many steps as twice the services and four,
\* through networksetup too, whatever is refused.
THEOREM CallsEnd ==
    Spec => [](StepsLeft \in 0 .. 2 * Cardinality(Services) + 4) /\ [][CallGoesOn]_vars
  <1>1. MacosInv => StepsLeft \in 0 .. 2 * Cardinality(Services) + 4
    <2> SUFFICES ASSUME MacosInv PROVE StepsLeft \in 0 .. 2 * Cardinality(Services) + 4
      OBVIOUS
    <2>1. /\ left \in SUBSET Services
          /\ pc \in {"idle", "native", "list", "shell", "failed", "remove", "set_back"}
      BY DEF MacosInv, TypeOK
    <2>2. /\ Cardinality(left) \in Nat /\ Cardinality(left) <= Cardinality(Services)
          /\ Cardinality(Services) \in Nat
      BY <2>1, Sizes
    <2>3. StepsLeft \in {Cardinality(left) + Cardinality(Services) + 4, Cardinality(Services) + 3,
                         Cardinality(left) + 2, Cardinality(left) + 1, 1, 0}
      BY <2>1 DEF StepsLeft
    <2>4. QED
      BY <2>2, <2>3
  <1>2. MacosInv /\ [Next]_vars => [CallGoesOn]_vars
    BY CallStep
  <1>3. QED
    BY <1>1, <1>2, Invariance, PTL DEF Spec

=============================================================================
