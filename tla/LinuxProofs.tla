---- MODULE LinuxProofs ----
(***************************************************************************)
(* What TLAPS proves of LinuxRedirector, for any links, any texts, any      *)
(* length of the routing table and any set of combinations of troubles.     *)
(*                                                                          *)
(* One inductive invariant carries the results.  Besides the types it       *)
(* says where the backup and the pointed surfaces are to be found between   *)
(* two steps: each part is charged only with the troubles it survives.      *)
(***************************************************************************)
EXTENDS LinuxRedirector, TLAPS

\* Which calls are in progress, and what they work on.
CallInv ==
    /\ pc # "idle" => active = Idle
    /\ pc \in {"set_dns", "set_route"} => ifindex \in Links

\* From the unlinking on there is a backup, and a restored file is not ours.
RecoverInv == Without({"no_conf"}) =>
    /\ backup # Ours
    /\ conf \in {Ours, NoText} => backup # NoText
    /\ pc \in {"unlink", "write", "remember"} => backup # NoText
    /\ active = ResolvConf \/ pc = "copy_back" => backup # NoText
    /\ pc = "remove_backup" => conf \notin {Ours, NoText}

\* A whole text is kept: the backup has one if it is there, and it is removed only after
\* it has been copied back.
TextInv == Without({"no_conf", "backup_torn"}) =>
    /\ backup \in Texts \cup {NoText}
    /\ conf \in Texts \/ backup \in Texts
    /\ pc = "remove_backup" => conf \in Texts

\* A pointed surface is remembered, or the call in progress knows it.
UnpointInv == Without({"route_refused", "revert_fails", "io_fails", "crash", "no_conf"}) =>
    /\ \A l \in Links : linkDns[l] = "proxy" =>
           active = Resolved(l) \/ (pc \in {"set_route", "revert"} /\ ifindex = l)
    /\ conf = Ours => active = ResolvConf \/ pc \in {"remember", "copy_back"}

\* The backup is the one of this connect.
PriorInv == Without({"io_fails", "torn", "backup_torn", "crash", "no_conf"}) =>
    /\ pc \in {"set_dns", "set_route", "backup"} => conf \in prior
    /\ backup # NoText =>
           /\ backup \in prior
           /\ \/ active = ResolvConf
              \/ pc \in {"unlink", "write", "remember", "copy_back", "remove_backup"}
    /\ active = ResolvConf \/ pc = "copy_back" => backup # NoText

\* What the apply in progress has pointed: a link that stays behind has refused
\* to become the default route.
TouchedInv ==
    /\ pc \notin ApplySteps \/ pc = "set_dns" => touched = {}
    /\ pc = "set_route" => touched = {ifindex}
    /\ ConfSurface \in touched <=> pc = "remember"
    /\ touched \cap Links # {} => pc = "set_route" \/ May("route_refused")

\* restore works on the link it has taken from the memory.
RevertInv == (pc = "revert" => ifindex \in Links) /\ (active.path = "resolved" => active.link \in Links)

\* Our text is in a file, and stays there until it is restored or rewritten.
FileInv ==
    /\ conf = Ours \/ active = ResolvConf \/ pc \in {"remember", "copy_back"} => kind = "file"
    /\ Without({"rewrite"}) /\ (active = ResolvConf \/ pc \in {"remember", "copy_back"}) => conf = Ours

LinuxInv == TypeOK /\ CallInv /\ RecoverInv /\ TextInv /\ UnpointInv /\ PriorInv /\ TouchedInv /\ FileInv
            /\ RevertInv

-----------------------------------------------------------------------------
(* Calls end *)

\* At most how many system calls and returns the call in progress has left.
CallLength ==
    [set_dns |-> 6, set_route |-> 5, backup |-> 4, unlink |-> 3, write |-> 2,
     remember |-> 1, failed |-> 1, copy_back |-> 3, remove_backup |-> 2, revert |-> 2,
     restored |-> 1, restore_failed |-> 1, idle |-> 0]

StepsLeft == CallLength[pc]

\* Every step of a call ends it or brings its end nearer; another program that rewrites
\* resolv.conf meanwhile does not delay it.
CallGoesOn ==
    pc # "idle" =>
        IF \E text \in Texts : Rewrite(text) THEN StepsLeft' = StepsLeft
        ELSE StepsLeft' < StepsLeft

LEMMA CallLengths ==
    /\ CallLength["set_dns"] = 6 /\ CallLength["set_route"] = 5
    /\ CallLength["backup"] = 4 /\ CallLength["unlink"] = 3 /\ CallLength["write"] = 2
    /\ CallLength["remember"] = 1 /\ CallLength["failed"] = 1
    /\ CallLength["copy_back"] = 3 /\ CallLength["remove_backup"] = 2
    /\ CallLength["revert"] = 2 /\ CallLength["restored"] = 1
    /\ CallLength["restore_failed"] = 1 /\ CallLength["idle"] = 0
  BY DEF CallLength

\* Which step may follow which.
Follow ==
    {<<"set_dns", "set_route">>, <<"set_dns", "backup">>, <<"set_route", "backup">>,
     <<"set_route", "idle">>, <<"backup", "unlink">>, <<"backup", "failed">>,
     <<"unlink", "write">>, <<"unlink", "failed">>, <<"write", "remember">>,
     <<"write", "failed">>, <<"remember", "idle">>, <<"failed", "idle">>,
     <<"revert", "restored">>, <<"revert", "restore_failed">>,
     <<"copy_back", "restored">>, <<"copy_back", "remove_backup">>,
     <<"copy_back", "restore_failed">>, <<"remove_backup", "restored">>,
     <<"restored", "idle">>, <<"restore_failed", "idle">>}

LEMMA FollowShortens ==
    ASSUME NEW p, NEW q, <<p, q>> \in Follow
    PROVE  CallLength[q] < CallLength[p]
  <1>1. /\ p = "set_dns" => q \in {"set_route", "backup"}
        /\ p = "set_route" => q \in {"backup", "idle"}
        /\ p = "backup" => q \in {"unlink", "failed"}
        /\ p = "unlink" => q \in {"write", "failed"}
        /\ p = "write" => q \in {"remember", "failed"}
        /\ p = "copy_back" => q \in {"restored", "remove_backup", "restore_failed"}
        /\ p = "remove_backup" => q = "restored"
        /\ p = "revert" => q \in {"restored", "restore_failed"}
        /\ p \in {"remember", "failed", "restored", "restore_failed"} => q = "idle"
        /\ p \in ApplySteps \cup RestoreSteps
    BY DEF Follow, ApplySteps, RestoreSteps
  <1>2. QED
    BY <1>1, CallLengths DEF ApplySteps, RestoreSteps

LEMMA CallLengthRange ==
    /\ \A p \in ApplySteps \cup RestoreSteps : CallLength[p] \in 1 .. 6
    /\ CallLength["idle"] = 0
  BY CallLengths DEF ApplySteps, RestoreSteps

LEMMA StepsLeftRange == TypeOK => StepsLeft \in 0 .. 6
  <1>1. TypeOK => pc \in ApplySteps \cup RestoreSteps \cup {"idle"}
    BY DEF TypeOK
  <1>2. QED
    BY <1>1, CallLengthRange DEF StepsLeft

LEMMA CallGoesOnStep == TypeOK /\ Next => CallGoesOn
  <1> SUFFICES ASSUME TypeOK, Next, pc # "idle"
               PROVE  IF \E text \in Texts : Rewrite(text) THEN StepsLeft' = StepsLeft
                      ELSE StepsLeft' < StepsLeft
    BY DEF CallGoesOn
  <1>1. CASE \E text \in Texts : Rewrite(text)
    BY <1>1 DEF Rewrite, StepsLeft
  <1>2. CASE ~\E text \in Texts : Rewrite(text)
    <2>1. CASE Crash
      <3>1. pc \in ApplySteps \cup RestoreSteps /\ pc' = "idle"
        BY <2>1 DEF TypeOK, Crash
      <3>2. QED
        BY <1>2, <3>1, CallLengthRange DEF StepsLeft
    <2>2. CASE SetLinkDns \/ BusFails \/ SetLinkDefaultRoute
      <3>1. <<pc, pc'>> \in Follow
        BY <2>2 DEF SetLinkDns, BusFails, SetLinkDefaultRoute, Follow
      <3>2. QED
        BY <1>2, <3>1, FollowShortens DEF StepsLeft
    <2>3. CASE Backup \/ BackupTorn \/ Unlink \/ WriteConf \/ WriteTorn
      <3>1. <<pc, pc'>> \in Follow
        BY <2>3 DEF Backup, BackupTorn, Unlink, WriteConf, WriteTorn, Follow
      <3>2. QED
        BY <1>2, <3>1, FollowShortens DEF StepsLeft
    <2>4. CASE FileFails \/ Remember \/ ApplyErr
      <3>1. <<pc, pc'>> \in Follow
        BY <2>4 DEF FileFails, Remember, ApplyErr, Follow
      <3>2. QED
        BY <1>2, <3>1, FollowShortens DEF StepsLeft
    <2>5. CASE RevertLink \/ CopyBack \/ CopyTorn \/ RestoreFails
      <3>1. <<pc, pc'>> \in Follow
        BY <2>5 DEF RevertLink, CopyBack, CopyTorn, RestoreFails, Follow
      <3>2. QED
        BY <1>2, <3>1, FollowShortens DEF StepsLeft
    <2>6. CASE RemoveBackup \/ RestoreErr \/ RestoreOk
      <3>1. <<pc, pc'>> \in Follow
        BY <2>6 DEF RemoveBackup, RestoreErr, RestoreOk, Follow
      <3>2. QED
        BY <1>2, <3>1, FollowShortens DEF StepsLeft
    <2>7. QED
      BY <1>2, <2>1, <2>2, <2>3, <2>4, <2>5, <2>6 DEF Next, ApplyBegin, RestoreBegin
  <1>3. QED
    BY <1>1, <1>2

USE TextsAssumption, NoLinkAssumption, LinksAssumption DEF Ours, Torn, NoText

-----------------------------------------------------------------------------
(* The memory of the redirector *)

\* The three values of Active are told apart by their path.
LEMMA MemoryFacts ==
  ASSUME NEW m, m \in {Idle, ResolvConf} \cup {Resolved(l) : l \in Links}
  PROVE  /\ m.path \in {"idle", "resolved", "resolv_conf"}
         /\ m.link \in Links \cup {NoLink}
         /\ m.path = "idle" => m = Idle
         /\ m.path = "resolved" => m.link \in Links
         /\ m.path = "resolv_conf" => m = ResolvConf
  <1>1. CASE m = Idle
    BY <1>1 DEF Idle
  <1>2. CASE m = ResolvConf
    BY <1>2 DEF ResolvConf
  <1>3. CASE \E l \in Links : m = Resolved(l)
    <2>1. PICK l \in Links : m = Resolved(l)
      BY <1>3
    <2>2. m.path = "resolved" /\ m.link = l
      BY <2>1 DEF Resolved
    <2>3. QED
      BY <2>2
  <1>4. QED
    BY <1>1, <1>2, <1>3

LEMMA MemoryKinds ==
  ASSUME NEW l \in Links
  PROVE  /\ Resolved(l).path = "resolved" /\ Resolved(l).link = l
         /\ Resolved(l) # Idle /\ Resolved(l) # ResolvConf /\ Idle # ResolvConf
         /\ Idle.path = "idle" /\ ResolvConf.path = "resolv_conf"
  BY DEF Idle, Resolved, ResolvConf

LEMMA MemoriesDiffer == Idle # ResolvConf /\ Idle.path = "idle" /\ ResolvConf.path = "resolv_conf"
  BY DEF Idle, ResolvConf

-----------------------------------------------------------------------------
(* The invariant is inductive *)

\* The redirector is created with nothing pointed and nothing remembered.
THEOREM Initially == Init => LinuxInv
  BY MemoriesDiffer DEF Init, LinuxInv, TypeOK, CallInv, RecoverInv, TextInv, UnpointInv, PriorInv,
         TouchedInv, FileInv, RevertInv, ConfSurface, ApplySteps, RestoreSteps, Without, May

LEMMA TypeStep == LinuxInv /\ [Next]_vars => TypeOK'
  <1> SUFFICES ASSUME LinuxInv, [Next]_vars PROVE TypeOK'
    OBVIOUS
  <1> USE DEF LinuxInv, TypeOK, Idle, Resolved, ResolvConf, ApplySteps, RestoreSteps, disk, CallInv
  <1>1. CASE ApplyBegin
    BY <1>1 DEF ApplyBegin
  <1>2. CASE SetLinkDns
    BY <1>2 DEF SetLinkDns
  <1>3. CASE BusFails
    BY <1>3 DEF BusFails
  <1>4. CASE SetLinkDefaultRoute
    BY <1>4 DEF SetLinkDefaultRoute
  <1>5. CASE Backup
    BY <1>5 DEF Backup
  <1>6. CASE BackupTorn
    BY <1>6 DEF BackupTorn
  <1>7. CASE Unlink
    BY <1>7 DEF Unlink
  <1>8. CASE WriteConf
    BY <1>8 DEF WriteConf
  <1>9. CASE WriteTorn
    BY <1>9 DEF WriteTorn
  <1>10. CASE FileFails
    BY <1>10 DEF FileFails
  <1>11. CASE Remember
    BY <1>11 DEF Remember
  <1>12. CASE ApplyErr
    BY <1>12 DEF ApplyErr
  <1>13. CASE RestoreBegin
    <2>1. /\ active.path \in {"idle", "resolved", "resolv_conf"}
          /\ active.link \in Links \cup {NoLink}
          /\ active.path = "idle" => active = Idle
          /\ active.path = "resolv_conf" => active = ResolvConf
      BY MemoryFacts
    <2>2. pc' \in {"restored", "revert", "copy_back"} /\ ifindex' = active.link /\ active' = Idle
      BY <1>13, <2>1 DEF RestoreBegin
    <2>3. QED
      BY <1>13, <2>1, <2>2, MemoriesDiffer DEF RestoreBegin
  <1>14. CASE RevertLink
    BY <1>14 DEF RevertLink
  <1>15. CASE CopyBack
    BY <1>15 DEF CopyBack
  <1>16. CASE CopyTorn
    BY <1>16 DEF CopyTorn
  <1>17. CASE RestoreFails
    BY <1>17 DEF RestoreFails
  <1>18. CASE RemoveBackup
    BY <1>18 DEF RemoveBackup
  <1>19. CASE RestoreErr
    BY <1>19 DEF RestoreErr
  <1>20. CASE RestoreOk
    BY <1>20 DEF RestoreOk
  <1>21. CASE Crash
    BY <1>21 DEF Crash
  <1>22. CASE \E text \in Texts : Rewrite(text)
    BY <1>22 DEF Rewrite
  <1>23. CASE UNCHANGED vars
    BY <1>23 DEF vars
  <1>24. QED
    BY <1>1, <1>2, <1>3, <1>4, <1>5, <1>6, <1>7, <1>8, <1>9, <1>10, <1>11, <1>12, <1>13, <1>14, <1>15, <1>16, <1>17, <1>18, <1>19, <1>20, <1>21, <1>22, <1>23 DEF Next

LEMMA CallStep == LinuxInv /\ [Next]_vars => CallInv'
  <1> SUFFICES ASSUME LinuxInv, [Next]_vars PROVE CallInv'
    OBVIOUS
  <1> USE DEF LinuxInv, TypeOK, Idle, Resolved, ResolvConf, ApplySteps, RestoreSteps, disk, CallInv
  <1>1. CASE ApplyBegin
    BY <1>1 DEF ApplyBegin
  <1>2. CASE SetLinkDns
    BY <1>2 DEF SetLinkDns
  <1>3. CASE BusFails
    BY <1>3 DEF BusFails
  <1>4. CASE SetLinkDefaultRoute
    BY <1>4 DEF SetLinkDefaultRoute
  <1>5. CASE Backup
    BY <1>5 DEF Backup
  <1>6. CASE BackupTorn
    BY <1>6 DEF BackupTorn
  <1>7. CASE Unlink
    BY <1>7 DEF Unlink
  <1>8. CASE WriteConf
    BY <1>8 DEF WriteConf
  <1>9. CASE WriteTorn
    BY <1>9 DEF WriteTorn
  <1>10. CASE FileFails
    BY <1>10 DEF FileFails
  <1>11. CASE Remember
    BY <1>11 DEF Remember
  <1>12. CASE ApplyErr
    BY <1>12 DEF ApplyErr
  <1>13. CASE RestoreBegin
    <2>1. /\ active.path \in {"idle", "resolved", "resolv_conf"}
          /\ active.link \in Links \cup {NoLink}
          /\ active.path = "idle" => active = Idle
          /\ active.path = "resolv_conf" => active = ResolvConf
      BY MemoryFacts
    <2>2. pc' \in {"restored", "revert", "copy_back"} /\ ifindex' = active.link /\ active' = Idle
      BY <1>13, <2>1 DEF RestoreBegin
    <2>3. QED
      BY <1>13, <2>1, <2>2, MemoriesDiffer DEF RestoreBegin
  <1>14. CASE RevertLink
    BY <1>14 DEF RevertLink
  <1>15. CASE CopyBack
    BY <1>15 DEF CopyBack
  <1>16. CASE CopyTorn
    BY <1>16 DEF CopyTorn
  <1>17. CASE RestoreFails
    BY <1>17 DEF RestoreFails
  <1>18. CASE RemoveBackup
    BY <1>18 DEF RemoveBackup
  <1>19. CASE RestoreErr
    BY <1>19 DEF RestoreErr
  <1>20. CASE RestoreOk
    BY <1>20 DEF RestoreOk
  <1>21. CASE Crash
    BY <1>21 DEF Crash
  <1>22. CASE \E text \in Texts : Rewrite(text)
    BY <1>22 DEF Rewrite
  <1>23. CASE UNCHANGED vars
    BY <1>23 DEF vars
  <1>24. QED
    BY <1>1, <1>2, <1>3, <1>4, <1>5, <1>6, <1>7, <1>8, <1>9, <1>10, <1>11, <1>12, <1>13, <1>14, <1>15, <1>16, <1>17, <1>18, <1>19, <1>20, <1>21, <1>22, <1>23 DEF Next

LEMMA RecoverStep == LinuxInv /\ [Next]_vars => RecoverInv'
  <1> SUFFICES ASSUME LinuxInv, [Next]_vars PROVE RecoverInv'
    OBVIOUS
  <1> USE DEF LinuxInv, TypeOK, Idle, Resolved, ResolvConf, ApplySteps, RestoreSteps, disk, CallInv, RecoverInv, Without, May
  <1>1. CASE ApplyBegin
    BY <1>1 DEF ApplyBegin
  <1>2. CASE SetLinkDns
    BY <1>2 DEF SetLinkDns
  <1>3. CASE BusFails
    BY <1>3 DEF BusFails
  <1>4. CASE SetLinkDefaultRoute
    BY <1>4 DEF SetLinkDefaultRoute
  <1>5. CASE Backup
    BY <1>5 DEF Backup
  <1>6. CASE BackupTorn
    BY <1>6 DEF BackupTorn
  <1>7. CASE Unlink
    BY <1>7 DEF Unlink
  <1>8. CASE WriteConf
    BY <1>8 DEF WriteConf
  <1>9. CASE WriteTorn
    BY <1>9 DEF WriteTorn
  <1>10. CASE FileFails
    BY <1>10 DEF FileFails
  <1>11. CASE Remember
    BY <1>11 DEF Remember
  <1>12. CASE ApplyErr
    BY <1>12 DEF ApplyErr
  <1>13. CASE RestoreBegin
    <2>1. /\ active.path \in {"idle", "resolved", "resolv_conf"}
          /\ active.link \in Links \cup {NoLink}
          /\ active.path = "idle" => active = Idle
          /\ active.path = "resolv_conf" => active = ResolvConf
      BY MemoryFacts
    <2>2. pc' \in {"restored", "revert", "copy_back"} /\ ifindex' = active.link /\ active' = Idle
      BY <1>13, <2>1 DEF RestoreBegin
    <2>3. QED
      BY <1>13, <2>1, <2>2, MemoriesDiffer DEF RestoreBegin
  <1>14. CASE RevertLink
    BY <1>14 DEF RevertLink
  <1>15. CASE CopyBack
    BY <1>15 DEF CopyBack
  <1>16. CASE CopyTorn
    BY <1>16 DEF CopyTorn
  <1>17. CASE RestoreFails
    BY <1>17 DEF RestoreFails
  <1>18. CASE RemoveBackup
    <2>1. active = Idle /\ active' = Idle /\ Idle # ResolvConf
      BY <1>18 DEF RemoveBackup
    <2>2. QED
      BY <1>18, <2>1 DEF RemoveBackup
  <1>19. CASE RestoreErr
    BY <1>19 DEF RestoreErr
  <1>20. CASE RestoreOk
    BY <1>20 DEF RestoreOk
  <1>21. CASE Crash
    BY <1>21 DEF Crash
  <1>22. CASE \E text \in Texts : Rewrite(text)
    BY <1>22 DEF Rewrite
  <1>23. CASE UNCHANGED vars
    BY <1>23 DEF vars
  <1>24. QED
    BY <1>1, <1>2, <1>3, <1>4, <1>5, <1>6, <1>7, <1>8, <1>9, <1>10, <1>11, <1>12, <1>13, <1>14, <1>15, <1>16, <1>17, <1>18, <1>19, <1>20, <1>21, <1>22, <1>23 DEF Next

LEMMA TextStep == LinuxInv /\ [Next]_vars => TextInv'
  <1> SUFFICES ASSUME LinuxInv, [Next]_vars PROVE TextInv'
    OBVIOUS
  <1> USE DEF LinuxInv, TypeOK, Idle, Resolved, ResolvConf, ApplySteps, RestoreSteps, disk, CallInv, RecoverInv, TextInv, Without, May
  <1>1. CASE ApplyBegin
    BY <1>1 DEF ApplyBegin
  <1>2. CASE SetLinkDns
    BY <1>2 DEF SetLinkDns
  <1>3. CASE BusFails
    BY <1>3 DEF BusFails
  <1>4. CASE SetLinkDefaultRoute
    BY <1>4 DEF SetLinkDefaultRoute
  <1>5. CASE Backup
    BY <1>5 DEF Backup
  <1>6. CASE BackupTorn
    BY <1>6 DEF BackupTorn
  <1>7. CASE Unlink
    BY <1>7 DEF Unlink
  <1>8. CASE WriteConf
    BY <1>8 DEF WriteConf
  <1>9. CASE WriteTorn
    BY <1>9 DEF WriteTorn
  <1>10. CASE FileFails
    BY <1>10 DEF FileFails
  <1>11. CASE Remember
    BY <1>11 DEF Remember
  <1>12. CASE ApplyErr
    BY <1>12 DEF ApplyErr
  <1>13. CASE RestoreBegin
    <2>1. /\ active.path \in {"idle", "resolved", "resolv_conf"}
          /\ active.link \in Links \cup {NoLink}
          /\ active.path = "idle" => active = Idle
          /\ active.path = "resolv_conf" => active = ResolvConf
      BY MemoryFacts
    <2>2. pc' \in {"restored", "revert", "copy_back"} /\ ifindex' = active.link /\ active' = Idle
      BY <1>13, <2>1 DEF RestoreBegin
    <2>3. QED
      BY <1>13, <2>1, <2>2, MemoriesDiffer DEF RestoreBegin
  <1>14. CASE RevertLink
    BY <1>14 DEF RevertLink
  <1>15. CASE CopyBack
    BY <1>15 DEF CopyBack
  <1>16. CASE CopyTorn
    BY <1>16 DEF CopyTorn
  <1>17. CASE RestoreFails
    BY <1>17 DEF RestoreFails
  <1>18. CASE RemoveBackup
    <2>1. active = Idle /\ active' = Idle /\ Idle # ResolvConf
      BY <1>18 DEF RemoveBackup
    <2>2. QED
      BY <1>18, <2>1 DEF RemoveBackup
  <1>19. CASE RestoreErr
    BY <1>19 DEF RestoreErr
  <1>20. CASE RestoreOk
    BY <1>20 DEF RestoreOk
  <1>21. CASE Crash
    BY <1>21 DEF Crash
  <1>22. CASE \E text \in Texts : Rewrite(text)
    BY <1>22 DEF Rewrite
  <1>23. CASE UNCHANGED vars
    BY <1>23 DEF vars
  <1>24. QED
    BY <1>1, <1>2, <1>3, <1>4, <1>5, <1>6, <1>7, <1>8, <1>9, <1>10, <1>11, <1>12, <1>13, <1>14, <1>15, <1>16, <1>17, <1>18, <1>19, <1>20, <1>21, <1>22, <1>23 DEF Next

LEMMA UnpointStep == LinuxInv /\ [Next]_vars => UnpointInv'
  <1> SUFFICES ASSUME LinuxInv, [Next]_vars PROVE UnpointInv'
    OBVIOUS
  <1> USE DEF LinuxInv, TypeOK, Idle, Resolved, ResolvConf, ApplySteps, RestoreSteps, disk, CallInv, RecoverInv, UnpointInv, Without, May
  <1>1. CASE ApplyBegin
    BY <1>1 DEF ApplyBegin
  <1>2. CASE SetLinkDns
    BY <1>2 DEF SetLinkDns
  <1>3. CASE BusFails
    BY <1>3 DEF BusFails
  <1>4. CASE SetLinkDefaultRoute
    <2>1. /\ active' = Resolved(ifindex) /\ pc' = "idle" /\ pc = "set_route"
          /\ UNCHANGED <<troubles, linkDns, conf>>
          /\ active = Idle
      BY <1>4 DEF SetLinkDefaultRoute
    <2>2. Idle # ResolvConf /\ \A l \in Links : Idle # Resolved(l)
      OBVIOUS
    <2>3. QED
      BY <2>1, <2>2
  <1>5. CASE Backup
    BY <1>5 DEF Backup
  <1>6. CASE BackupTorn
    BY <1>6 DEF BackupTorn
  <1>7. CASE Unlink
    BY <1>7 DEF Unlink
  <1>8. CASE WriteConf
    BY <1>8 DEF WriteConf
  <1>9. CASE WriteTorn
    BY <1>9 DEF WriteTorn
  <1>10. CASE FileFails
    BY <1>10 DEF FileFails
  <1>11. CASE Remember
    <2>1. /\ active' = ResolvConf /\ pc' = "idle" /\ pc = "remember"
          /\ UNCHANGED <<troubles, linkDns, conf>>
          /\ active = Idle
      BY <1>11 DEF Remember
    <2>2. Idle # ResolvConf /\ \A l \in Links : Idle # Resolved(l)
      OBVIOUS
    <2>3. QED
      BY <2>1, <2>2
  <1>12. CASE ApplyErr
    BY <1>12 DEF ApplyErr
  <1>13. CASE RestoreBegin
    <2>1. /\ active.path \in {"idle", "resolved", "resolv_conf"}
          /\ active.path = "idle" => active = Idle
          /\ active.path = "resolv_conf" => active = ResolvConf
      BY MemoryFacts
    <2>2. ASSUME NEW l \in Links, active = Resolved(l)
          PROVE  pc' = "revert" /\ ifindex' = l
      BY <1>13, <2>2 DEF RestoreBegin
    <2>3. ASSUME active = ResolvConf
          PROVE  pc' = "copy_back"
      BY <1>13, <2>3 DEF RestoreBegin
    <2>4. pc \notin {"set_route", "revert", "remember", "copy_back"}
          /\ UNCHANGED <<troubles, linkDns, conf>>
      BY <1>13 DEF RestoreBegin
    <2>5. QED
      BY <2>2, <2>3, <2>4
  <1>14. CASE RevertLink
    BY <1>14 DEF RevertLink
  <1>15. CASE CopyBack
    BY <1>15 DEF CopyBack
  <1>16. CASE CopyTorn
    BY <1>16 DEF CopyTorn
  <1>17. CASE RestoreFails
    BY <1>17 DEF RestoreFails
  <1>18. CASE RemoveBackup
    BY <1>18 DEF RemoveBackup
  <1>19. CASE RestoreErr
    BY <1>19 DEF RestoreErr
  <1>20. CASE RestoreOk
    BY <1>20 DEF RestoreOk
  <1>21. CASE Crash
    BY <1>21 DEF Crash
  <1>22. CASE \E text \in Texts : Rewrite(text)
    BY <1>22 DEF Rewrite
  <1>23. CASE UNCHANGED vars
    BY <1>23 DEF vars
  <1>24. QED
    BY <1>1, <1>2, <1>3, <1>4, <1>5, <1>6, <1>7, <1>8, <1>9, <1>10, <1>11, <1>12, <1>13, <1>14, <1>15, <1>16, <1>17, <1>18, <1>19, <1>20, <1>21, <1>22, <1>23 DEF Next

LEMMA PriorStep == LinuxInv /\ [Next]_vars => PriorInv'
  <1> SUFFICES ASSUME LinuxInv, [Next]_vars PROVE PriorInv'
    OBVIOUS
  <1> USE DEF LinuxInv, TypeOK, Idle, Resolved, ResolvConf, ApplySteps, RestoreSteps, disk, CallInv, RecoverInv, PriorInv, Without, May
  <1>1. CASE ApplyBegin
    BY <1>1 DEF ApplyBegin
  <1>2. CASE SetLinkDns
    BY <1>2 DEF SetLinkDns
  <1>3. CASE BusFails
    BY <1>3 DEF BusFails
  <1>4. CASE SetLinkDefaultRoute
    <2>1. active = Idle /\ active' # ResolvConf /\ Idle # ResolvConf
      BY <1>4 DEF SetLinkDefaultRoute
    <2>2. QED
      BY <1>4, <2>1 DEF SetLinkDefaultRoute
  <1>5. CASE Backup
    BY <1>5 DEF Backup
  <1>6. CASE BackupTorn
    BY <1>6 DEF BackupTorn
  <1>7. CASE Unlink
    BY <1>7 DEF Unlink
  <1>8. CASE WriteConf
    BY <1>8 DEF WriteConf
  <1>9. CASE WriteTorn
    BY <1>9 DEF WriteTorn
  <1>10. CASE FileFails
    BY <1>10 DEF FileFails
  <1>11. CASE Remember
    BY <1>11 DEF Remember
  <1>12. CASE ApplyErr
    BY <1>12 DEF ApplyErr
  <1>13. CASE RestoreBegin
    <2>1. /\ active.path \in {"idle", "resolved", "resolv_conf"}
          /\ active.link \in Links \cup {NoLink}
          /\ active.path = "idle" => active = Idle
          /\ active.path = "resolv_conf" => active = ResolvConf
      BY MemoryFacts
    <2>2. pc' \in {"restored", "revert", "copy_back"} /\ ifindex' = active.link /\ active' = Idle
      BY <1>13, <2>1 DEF RestoreBegin
    <2>3. QED
      BY <1>13, <2>1, <2>2, MemoriesDiffer DEF RestoreBegin
  <1>14. CASE RevertLink
    BY <1>14 DEF RevertLink
  <1>15. CASE CopyBack
    BY <1>15 DEF CopyBack
  <1>16. CASE CopyTorn
    BY <1>16 DEF CopyTorn
  <1>17. CASE RestoreFails
    BY <1>17 DEF RestoreFails
  <1>18. CASE RemoveBackup
    <2>1. active = Idle /\ active' = Idle /\ Idle # ResolvConf
      BY <1>18 DEF RemoveBackup
    <2>2. "io_fails" \in troubles \/ backup' = NoText
      BY <1>18 DEF RemoveBackup
    <2>3. QED
      BY <1>18, <2>1, <2>2 DEF RemoveBackup
  <1>19. CASE RestoreErr
    BY <1>19 DEF RestoreErr
  <1>20. CASE RestoreOk
    BY <1>20 DEF RestoreOk
  <1>21. CASE Crash
    BY <1>21 DEF Crash
  <1>22. CASE \E text \in Texts : Rewrite(text)
    BY <1>22 DEF Rewrite
  <1>23. CASE UNCHANGED vars
    BY <1>23 DEF vars
  <1>24. QED
    BY <1>1, <1>2, <1>3, <1>4, <1>5, <1>6, <1>7, <1>8, <1>9, <1>10, <1>11, <1>12, <1>13, <1>14, <1>15, <1>16, <1>17, <1>18, <1>19, <1>20, <1>21, <1>22, <1>23 DEF Next

LEMMA TouchedStep == LinuxInv /\ [Next]_vars => TouchedInv'
  <1> SUFFICES ASSUME LinuxInv, [Next]_vars PROVE TouchedInv'
    OBVIOUS
  <1> USE DEF LinuxInv, TypeOK, Idle, Resolved, ResolvConf, ApplySteps, RestoreSteps, disk, CallInv, TouchedInv, ConfSurface, May
  <1>1. CASE ApplyBegin
    BY <1>1 DEF ApplyBegin
  <1>2. CASE SetLinkDns
    BY <1>2 DEF SetLinkDns
  <1>3. CASE BusFails
    BY <1>3 DEF BusFails
  <1>4. CASE SetLinkDefaultRoute
    BY <1>4 DEF SetLinkDefaultRoute
  <1>5. CASE Backup
    BY <1>5 DEF Backup
  <1>6. CASE BackupTorn
    BY <1>6 DEF BackupTorn
  <1>7. CASE Unlink
    BY <1>7 DEF Unlink
  <1>8. CASE WriteConf
    BY <1>8 DEF WriteConf
  <1>9. CASE WriteTorn
    BY <1>9 DEF WriteTorn
  <1>10. CASE FileFails
    BY <1>10 DEF FileFails
  <1>11. CASE Remember
    BY <1>11 DEF Remember
  <1>12. CASE ApplyErr
    BY <1>12 DEF ApplyErr
  <1>13. CASE RestoreBegin
    <2>1. /\ active.path \in {"idle", "resolved", "resolv_conf"}
          /\ active.link \in Links \cup {NoLink}
          /\ active.path = "idle" => active = Idle
          /\ active.path = "resolv_conf" => active = ResolvConf
      BY MemoryFacts
    <2>2. pc' \in {"restored", "revert", "copy_back"} /\ ifindex' = active.link /\ active' = Idle
      BY <1>13, <2>1 DEF RestoreBegin
    <2>3. QED
      BY <1>13, <2>1, <2>2, MemoriesDiffer DEF RestoreBegin
  <1>14. CASE RevertLink
    BY <1>14 DEF RevertLink
  <1>15. CASE CopyBack
    BY <1>15 DEF CopyBack
  <1>16. CASE CopyTorn
    BY <1>16 DEF CopyTorn
  <1>17. CASE RestoreFails
    BY <1>17 DEF RestoreFails
  <1>18. CASE RemoveBackup
    BY <1>18 DEF RemoveBackup
  <1>19. CASE RestoreErr
    BY <1>19 DEF RestoreErr
  <1>20. CASE RestoreOk
    BY <1>20 DEF RestoreOk
  <1>21. CASE Crash
    BY <1>21 DEF Crash
  <1>22. CASE \E text \in Texts : Rewrite(text)
    BY <1>22 DEF Rewrite
  <1>23. CASE UNCHANGED vars
    BY <1>23 DEF vars
  <1>24. QED
    BY <1>1, <1>2, <1>3, <1>4, <1>5, <1>6, <1>7, <1>8, <1>9, <1>10, <1>11, <1>12, <1>13, <1>14, <1>15, <1>16, <1>17, <1>18, <1>19, <1>20, <1>21, <1>22, <1>23 DEF Next

LEMMA FileStep == LinuxInv /\ [Next]_vars => FileInv'
  <1> SUFFICES ASSUME LinuxInv, [Next]_vars PROVE FileInv'
    OBVIOUS
  <1> USE DEF LinuxInv, TypeOK, Idle, Resolved, ResolvConf, ApplySteps, RestoreSteps, disk, CallInv, FileInv, Without, May
  <1>1. CASE ApplyBegin
    BY <1>1 DEF ApplyBegin
  <1>2. CASE SetLinkDns
    BY <1>2 DEF SetLinkDns
  <1>3. CASE BusFails
    BY <1>3 DEF BusFails
  <1>4. CASE SetLinkDefaultRoute
    <2>1. active = Idle /\ active' # ResolvConf /\ Idle # ResolvConf
      BY <1>4 DEF SetLinkDefaultRoute
    <2>2. QED
      BY <1>4, <2>1 DEF SetLinkDefaultRoute
  <1>5. CASE Backup
    BY <1>5 DEF Backup
  <1>6. CASE BackupTorn
    BY <1>6 DEF BackupTorn
  <1>7. CASE Unlink
    BY <1>7 DEF Unlink
  <1>8. CASE WriteConf
    BY <1>8 DEF WriteConf
  <1>9. CASE WriteTorn
    <2>1. active = Idle /\ active' = Idle /\ Idle # ResolvConf
      BY <1>9 DEF WriteTorn
    <2>2. QED
      BY <1>9, <2>1 DEF WriteTorn
  <1>10. CASE FileFails
    BY <1>10 DEF FileFails
  <1>11. CASE Remember
    BY <1>11 DEF Remember
  <1>12. CASE ApplyErr
    BY <1>12 DEF ApplyErr
  <1>13. CASE RestoreBegin
    <2>1. /\ active.path \in {"idle", "resolved", "resolv_conf"}
          /\ active.link \in Links \cup {NoLink}
          /\ active.path = "idle" => active = Idle
          /\ active.path = "resolv_conf" => active = ResolvConf
      BY MemoryFacts
    <2>2. pc' \in {"restored", "revert", "copy_back"} /\ ifindex' = active.link /\ active' = Idle
      BY <1>13, <2>1 DEF RestoreBegin
    <2>3. QED
      BY <1>13, <2>1, <2>2, MemoriesDiffer DEF RestoreBegin
  <1>14. CASE RevertLink
    BY <1>14 DEF RevertLink
  <1>15. CASE CopyBack
    <2>1. active = Idle /\ active' = Idle /\ Idle # ResolvConf
      BY <1>15 DEF CopyBack
    <2>2. QED
      BY <1>15, <2>1 DEF CopyBack
  <1>16. CASE CopyTorn
    <2>1. active = Idle /\ active' = Idle /\ Idle # ResolvConf
      BY <1>16 DEF CopyTorn
    <2>2. QED
      BY <1>16, <2>1 DEF CopyTorn
  <1>17. CASE RestoreFails
    BY <1>17 DEF RestoreFails
  <1>18. CASE RemoveBackup
    <2>1. active = Idle /\ active' = Idle /\ Idle # ResolvConf
      BY <1>18 DEF RemoveBackup
    <2>2. QED
      BY <1>18, <2>1 DEF RemoveBackup
  <1>19. CASE RestoreErr
    BY <1>19 DEF RestoreErr
  <1>20. CASE RestoreOk
    BY <1>20 DEF RestoreOk
  <1>21. CASE Crash
    BY <1>21 DEF Crash
  <1>22. CASE \E text \in Texts : Rewrite(text)
    BY <1>22 DEF Rewrite
  <1>23. CASE UNCHANGED vars
    BY <1>23 DEF vars
  <1>24. QED
    BY <1>1, <1>2, <1>3, <1>4, <1>5, <1>6, <1>7, <1>8, <1>9, <1>10, <1>11, <1>12, <1>13, <1>14, <1>15, <1>16, <1>17, <1>18, <1>19, <1>20, <1>21, <1>22, <1>23 DEF Next

LEMMA RevertStep == LinuxInv /\ [Next]_vars => RevertInv'
  <1> SUFFICES ASSUME LinuxInv, [Next]_vars PROVE RevertInv'
    OBVIOUS
  <1> USE DEF LinuxInv, TypeOK, Idle, Resolved, ResolvConf, ApplySteps, RestoreSteps, disk, CallInv, RevertInv
  <1>1. CASE ApplyBegin
    BY <1>1 DEF ApplyBegin
  <1>2. CASE SetLinkDns
    BY <1>2 DEF SetLinkDns
  <1>3. CASE BusFails
    BY <1>3 DEF BusFails
  <1>4. CASE SetLinkDefaultRoute
    BY <1>4 DEF SetLinkDefaultRoute
  <1>5. CASE Backup
    BY <1>5 DEF Backup
  <1>6. CASE BackupTorn
    BY <1>6 DEF BackupTorn
  <1>7. CASE Unlink
    BY <1>7 DEF Unlink
  <1>8. CASE WriteConf
    BY <1>8 DEF WriteConf
  <1>9. CASE WriteTorn
    BY <1>9 DEF WriteTorn
  <1>10. CASE FileFails
    BY <1>10 DEF FileFails
  <1>11. CASE Remember
    BY <1>11 DEF Remember
  <1>12. CASE ApplyErr
    BY <1>12 DEF ApplyErr
  <1>13. CASE RestoreBegin
    <2>1. active.path \in {"idle", "resolved", "resolv_conf"}
      BY MemoryFacts
    <2>2. QED
      BY <1>13, <2>1 DEF RestoreBegin
  <1>14. CASE RevertLink
    BY <1>14 DEF RevertLink
  <1>15. CASE CopyBack
    BY <1>15 DEF CopyBack
  <1>16. CASE CopyTorn
    BY <1>16 DEF CopyTorn
  <1>17. CASE RestoreFails
    BY <1>17 DEF RestoreFails
  <1>18. CASE RemoveBackup
    BY <1>18 DEF RemoveBackup
  <1>19. CASE RestoreErr
    BY <1>19 DEF RestoreErr
  <1>20. CASE RestoreOk
    BY <1>20 DEF RestoreOk
  <1>21. CASE Crash
    BY <1>21 DEF Crash
  <1>22. CASE \E text \in Texts : Rewrite(text)
    BY <1>22 DEF Rewrite
  <1>23. CASE UNCHANGED vars
    BY <1>23 DEF vars
  <1>24. QED
    BY <1>1, <1>2, <1>3, <1>4, <1>5, <1>6, <1>7, <1>8, <1>9, <1>10, <1>11, <1>12, <1>13, <1>14, <1>15, <1>16, <1>17, <1>18, <1>19, <1>20, <1>21, <1>22, <1>23 DEF Next

\* No step of a call, no trouble and no change of the system breaks it.
THEOREM Inductive == LinuxInv /\ [Next]_vars => LinuxInv'
  BY TypeStep, CallStep, RecoverStep, TextStep, UnpointStep, PriorStep, TouchedStep, FileStep,
     RevertStep
     DEF LinuxInv

\* It holds in every state.
THEOREM Invariance == Spec => []LinuxInv
  BY Initially, Inductive, PTL DEF Spec

-----------------------------------------------------------------------------
(* The properties the runs check *)

\* The types.
THEOREM TypeCorrect == Spec => []TypeOK
  BY Invariance, PTL DEF LinuxInv

\* A whole text of the administrator is kept through kills and failures at any point but the
\* copy that makes the backup.
THEOREM StaysRecoverable == Spec => []Recoverable
  <1>1. LinuxInv => Recoverable
    BY DEF LinuxInv, TypeOK, RecoverInv, TextInv, Recoverable, Without
  <1>2. QED
    BY <1>1, Invariance, PTL

\* A restore that returns Ok leaves nothing pointed.
THEOREM RestoreUnpointsAll == Spec => RestoreUnpoints
  <1>1. LinuxInv /\ [Next]_vars =>
          [RestoreOk /\ Without({"route_refused", "revert_fails", "io_fails", "crash", "no_conf"})
               => PointedSurfaces = {}]_vars
    <2> SUFFICES ASSUME LinuxInv, RestoreOk,
                        Without({"route_refused", "revert_fails", "io_fails", "crash", "no_conf"})
                 PROVE  PointedSurfaces = {}
      OBVIOUS
    <2>1. active = Idle /\ pc = "restored"
      BY DEF LinuxInv, CallInv, RestoreOk
    <2>2. \A l \in Links : linkDns[l] # "proxy"
      BY <2>1, MemoryKinds DEF LinuxInv, UnpointInv
    <2>3. conf # Ours
      BY <2>1, MemoriesDiffer DEF LinuxInv, UnpointInv
    <2>4. QED
      BY <2>2, <2>3 DEF PointedSurfaces
  <1>2. QED
    BY <1>1, Invariance, PTL DEF Spec, RestoreUnpoints

\* What restore writes is what resolv.conf held before the connect overwrote it.
THEOREM RestoresWhatWas == Spec => RestoresPrior
  <1>1. LinuxInv /\ [Next]_vars =>
          [CopyBack /\ Without({"io_fails", "torn", "backup_torn", "crash", "no_conf"}) => conf' \in prior]_vars
    BY DEF LinuxInv, PriorInv, CopyBack
  <1>2. QED
    BY <1>1, Invariance, PTL DEF Spec, RestoresPrior

-----------------------------------------------------------------------------
(* The refinement *)

\* Every step of the redirector is a step of the contract, with the promises
\* that the troubles of this behaviour break, or changes nothing of it.
LEMMA StepRefines ==
  ASSUME LinuxInv, LinuxInv', Next,
         NEW T \in TroubleSets, troubles = T, ~ {"no_conf", "rewrite"} \subseteq T
  PROVE  Contract(T)!RedirNext \/ UNCHANGED Contract({})!redirVars
  <1> DEFINE Remembered == CASE active.path = "idle" -> {}
                             [] active.path = "resolved" -> {active.link}
                             [] active.path = "resolv_conf" -> {ConfSurface}
             Call == IF pc \in ApplySteps THEN "apply"
                     ELSE IF pc \in RestoreSteps THEN "restore" ELSE "none"
             Todo == CASE pc = "revert" -> {ifindex}
                       [] pc = "copy_back" -> {ConfSurface}
                       [] OTHER -> touched
  <1> USE DEF LinuxInv, TypeOK, CallInv
  <1>1. CASE ApplyBegin
    <2>1. PointedSurfaces' = PointedSurfaces
      BY <1>1 DEF ApplyBegin, PointedSurfaces, disk
    <2>2. Remembered' = Remembered
      BY <1>1 DEF ApplyBegin
    <2>3. Call = "none" /\ Call' = "apply"
      BY <1>1 DEF ApplyBegin, ApplySteps, RestoreSteps
    <2>4. Todo' = {}
      BY <1>1 DEF ApplyBegin
    <2>5. Contract(T)!BeginApply
      BY <2>1, <2>2, <2>3, <2>4 DEF Contract!BeginApply
    <2>6. QED
      BY <2>5 DEF Contract!RedirNext
  <1>2. CASE SetLinkDns
    <2>1. ifindex \in Links
      BY <1>2 DEF SetLinkDns
    <2>2. PointedSurfaces' = PointedSurfaces \cup {ifindex}
      BY <1>2, <2>1 DEF SetLinkDns, PointedSurfaces, disk
    <2>3. Remembered' = Remembered
      BY <1>2 DEF SetLinkDns
    <2>4. Call = "apply" /\ Call' = "apply"
      BY <1>2 DEF SetLinkDns, ApplySteps, RestoreSteps
    <2>5. Todo = {} /\ Todo' = {ifindex}
      BY <1>2 DEF SetLinkDns, TouchedInv
    <2>6. Contract(T)!Point(ifindex)
      BY <2>1, <2>2, <2>3, <2>4, <2>5 DEF Contract!Point
    <2>7. QED
      BY <2>6, <2>1 DEF Contract!RedirNext
  <1>3. CASE BusFails
    <2>1. PointedSurfaces' = PointedSurfaces
      BY <1>3 DEF BusFails, PointedSurfaces, disk
    <2>2. Remembered' = Remembered
      BY <1>3 DEF BusFails
    <2>3. Call' = Call
      BY <1>3 DEF BusFails, ApplySteps, RestoreSteps
    <2>4. Todo' = Todo
      BY <1>3 DEF BusFails
    <2>5. QED
      BY <2>1, <2>2, <2>3, <2>4 DEF Contract!redirVars
  <1>4. CASE SetLinkDefaultRoute
    <2>1. ifindex \in Links
      BY <1>4 DEF SetLinkDefaultRoute
    <2>2. PointedSurfaces' = PointedSurfaces
      BY <1>4 DEF SetLinkDefaultRoute, PointedSurfaces, disk
    <2>3. Remembered' = {ifindex}
      BY <1>4 DEF SetLinkDefaultRoute, Resolved
    <2>4. Call = "apply" /\ Call' = "none"
      BY <1>4 DEF SetLinkDefaultRoute, ApplySteps, RestoreSteps
    <2>5. Todo = {ifindex} /\ Todo' = {}
      BY <1>4 DEF SetLinkDefaultRoute, TouchedInv
    <2>6. Contract(T)!ApplyOk({ifindex})
      BY <2>1, <2>2, <2>3, <2>4, <2>5 DEF Contract!ApplyOk
    <2>7. QED
      BY <2>6, <2>1 DEF Contract!RedirNext
  <1>5. CASE Backup
    <2>1. PointedSurfaces' = PointedSurfaces
      BY <1>5 DEF Backup, PointedSurfaces, disk
    <2>2. Remembered' = Remembered
      BY <1>5 DEF Backup
    <2>3. Call' = Call
      BY <1>5 DEF Backup, ApplySteps, RestoreSteps
    <2>4. Todo' = Todo
      BY <1>5 DEF Backup
    <2>5. QED
      BY <2>1, <2>2, <2>3, <2>4 DEF Contract!redirVars
  <1>6. CASE BackupTorn
    <2>1. PointedSurfaces' = PointedSurfaces
      BY <1>6 DEF BackupTorn, PointedSurfaces, disk
    <2>2. Remembered' = Remembered
      BY <1>6 DEF BackupTorn
    <2>3. Call' = Call
      BY <1>6 DEF BackupTorn, ApplySteps, RestoreSteps
    <2>4. Todo' = Todo
      BY <1>6 DEF BackupTorn
    <2>5. QED
      BY <2>1, <2>2, <2>3, <2>4 DEF Contract!redirVars
  <1>7. CASE Unlink
    <2>1. kind = "symlink" => conf # Ours
      BY <1>7 DEF Unlink, FileInv
    <2>2. PointedSurfaces' = PointedSurfaces
      BY <1>7, <2>1 DEF Unlink, PointedSurfaces
    <2>3. Remembered' = Remembered
      BY <1>7 DEF Unlink
    <2>4. Call' = Call
      BY <1>7 DEF Unlink, ApplySteps, RestoreSteps
    <2>5. Todo' = Todo
      BY <1>7 DEF Unlink
    <2>6. QED
      BY <2>1, <2>2, <2>3, <2>4, <2>5 DEF Contract!redirVars
  <1>8. CASE WriteConf
    <2>1. PointedSurfaces' = PointedSurfaces \cup {ConfSurface}
      BY <1>8 DEF WriteConf, PointedSurfaces
    <2>2. Remembered' = Remembered
      BY <1>8 DEF WriteConf
    <2>3. Call = "apply" /\ Call' = "apply"
      BY <1>8 DEF WriteConf, ApplySteps, RestoreSteps
    <2>4. ConfSurface \notin Todo /\ Todo' = Todo \cup {ConfSurface}
      BY <1>8 DEF WriteConf, TouchedInv, ConfSurface
    <2>5. Contract(T)!Point(ConfSurface)
      BY <2>1, <2>2, <2>3, <2>4 DEF Contract!Point
    <2>6. QED
      BY <2>5 DEF Contract!RedirNext
  <1>9. CASE WriteTorn
    <2>1. "external" \in BrokenBy(T)
      BY <1>9 DEF WriteTorn, May, BrokenBy, TroublesBreaking
    <2>2. PointedSurfaces' = PointedSurfaces \ {ConfSurface}
      BY <1>9 DEF WriteTorn, PointedSurfaces, ConfSurface
    <2>3. Remembered' = Remembered
      BY <1>9 DEF WriteTorn
    <2>4. Call' = Call
      BY <1>9 DEF WriteTorn, ApplySteps, RestoreSteps
    <2>5. Todo' = Todo
      BY <1>9 DEF WriteTorn
    <2>6. Contract(T)!External(ConfSurface)
      BY <2>1, <2>2, <2>3, <2>4, <2>5 DEF Contract!External
    <2>7. QED
      BY <2>6 DEF Contract!RedirNext
  <1>10. CASE FileFails
    <2>1. PointedSurfaces' = PointedSurfaces
      BY <1>10 DEF FileFails, PointedSurfaces, disk
    <2>2. Remembered' = Remembered
      BY <1>10 DEF FileFails
    <2>3. Call' = Call
      BY <1>10 DEF FileFails, ApplySteps, RestoreSteps
    <2>4. Todo' = Todo
      BY <1>10 DEF FileFails
    <2>5. QED
      BY <2>1, <2>2, <2>3, <2>4 DEF Contract!redirVars
  <1>11. CASE Remember
    <2>1. PointedSurfaces' = PointedSurfaces
      BY <1>11 DEF Remember, PointedSurfaces, disk
    <2>2. Remembered' = {ConfSurface}
      BY <1>11 DEF Remember, ResolvConf
    <2>3. Call = "apply" /\ Call' = "none"
      BY <1>11 DEF Remember, ApplySteps, RestoreSteps
    <2>4. ConfSurface \in Todo /\ Todo' = {}
      BY <1>11 DEF Remember, TouchedInv
    <2>5. "apply_leaks" \in BrokenBy(T) \/ Todo = {ConfSurface}
      BY <1>11 DEF Remember, TouchedInv, May, BrokenBy, TroublesBreaking, ConfSurface
    <2>6. Contract(T)!ApplyOk({ConfSurface})
      BY <2>1, <2>2, <2>3, <2>4, <2>5 DEF Contract!ApplyOk
    <2>7. QED
      BY <2>6 DEF Contract!RedirNext
  <1>12. CASE ApplyErr
    <2>1. PointedSurfaces' = PointedSurfaces
      BY <1>12 DEF ApplyErr, PointedSurfaces, disk
    <2>2. Remembered' = Remembered
      BY <1>12 DEF ApplyErr
    <2>3. Call = "apply" /\ Call' = "none"
      BY <1>12 DEF ApplyErr, ApplySteps, RestoreSteps
    <2>4. Todo' = {}
      BY <1>12 DEF ApplyErr
    <2>5. "apply_leaks" \in BrokenBy(T) \/ Todo = {}
      BY <1>12 DEF ApplyErr, TouchedInv, May, BrokenBy, TroublesBreaking, ConfSurface
    <2>6. Contract(T)!ApplyErr
      BY <2>1, <2>2, <2>3, <2>4, <2>5 DEF Contract!ApplyErr
    <2>7. QED
      BY <2>6 DEF Contract!RedirNext
  <1>13. CASE RestoreBegin
    <2>1. active.path \in {"idle", "resolved", "resolv_conf"}
      BY MemoryFacts
    <2>2. PointedSurfaces' = PointedSurfaces
      BY <1>13 DEF RestoreBegin, PointedSurfaces, disk
    <2>3. Remembered' = {}
      BY <1>13 DEF RestoreBegin, Idle
    <2>4. Call = "none" /\ Call' = "restore"
      BY <1>13, <2>1 DEF RestoreBegin, ApplySteps, RestoreSteps
    <2>5. touched' = {}
      BY <1>13 DEF RestoreBegin, TouchedInv, ApplySteps
    <2>6. Todo' = Remembered
      BY <1>13, <2>1, <2>5 DEF RestoreBegin
    <2>7. Contract(T)!BeginRestore
      BY <2>1, <2>2, <2>3, <2>4, <2>5, <2>6 DEF Contract!BeginRestore
    <2>8. QED
      BY <2>7 DEF Contract!RedirNext
  <1>14. CASE RevertLink
    <2>1. ifindex \in Links /\ touched = {}
      BY <1>14 DEF RevertLink, TouchedInv, RevertInv, ApplySteps
    <2>2. PointedSurfaces' = PointedSurfaces \ {ifindex}
      BY <1>14, <2>1 DEF RevertLink, PointedSurfaces, disk, ConfSurface
    <2>3. Remembered' = Remembered
      BY <1>14 DEF RevertLink
    <2>4. Call = "restore" /\ Call' = "restore"
      BY <1>14 DEF RevertLink, ApplySteps, RestoreSteps
    <2>5. Todo = {ifindex} /\ Todo' = {}
      BY <1>14, <2>1 DEF RevertLink
    <2>6. Contract(T)!Unpoint(ifindex)
      BY <2>1, <2>2, <2>3, <2>4, <2>5 DEF Contract!Unpoint
    <2>7. QED
      BY <2>6, <2>1 DEF Contract!RedirNext
  <1>15. CASE CopyBack
    <2>1. touched = {} /\ touched' = {}
      BY <1>15 DEF CopyBack, TouchedInv, ApplySteps
    <2>2. Remembered' = Remembered
      BY <1>15 DEF CopyBack
    <2>3. Call = "restore" /\ Call' = "restore"
      BY <1>15 DEF CopyBack, ApplySteps, RestoreSteps
    <2>4. Todo = {ConfSurface} /\ Todo' = {}
      BY <1>15, <2>1 DEF CopyBack
    <2>5. CASE backup \notin {Ours, NoText}
      <3>1. PointedSurfaces' = PointedSurfaces \ {ConfSurface}
        BY <1>15, <2>5 DEF CopyBack, PointedSurfaces, ConfSurface
      <3>2. Contract(T)!Unpoint(ConfSurface)
        BY <2>2, <2>3, <2>4, <3>1 DEF Contract!Unpoint
      <3>3. QED
        BY <3>2 DEF Contract!RedirNext
    <2>6. CASE backup \in {Ours, NoText}
      <3>1. "no_conf" \in T
        BY <1>15, <2>6 DEF CopyBack, RecoverInv, Without
      <3>2. conf = Ours
        BY <1>15, <3>1 DEF CopyBack, FileInv, Without
      <3>3. PointedSurfaces' = PointedSurfaces
        BY <1>15, <2>6, <3>2 DEF CopyBack, PointedSurfaces
      <3>4. "restore_fails" \in BrokenBy(T)
        BY <3>1 DEF BrokenBy, TroublesBreaking
      <3>5. Contract(T)!Skip(ConfSurface)
        BY <2>2, <2>3, <2>4, <3>3, <3>4 DEF Contract!Skip
      <3>6. QED
        BY <3>5 DEF Contract!RedirNext
    <2>7. QED
      BY <2>5, <2>6
  <1>16. CASE CopyTorn
    <2>1. touched = {}
      BY <1>16 DEF CopyTorn, TouchedInv, ApplySteps
    <2>2. PointedSurfaces' = PointedSurfaces \ {ConfSurface}
      BY <1>16 DEF CopyTorn, PointedSurfaces, ConfSurface
    <2>3. Remembered' = Remembered
      BY <1>16 DEF CopyTorn
    <2>4. Call = "restore" /\ Call' = "restore"
      BY <1>16 DEF CopyTorn, ApplySteps, RestoreSteps
    <2>5. Todo = {ConfSurface} /\ Todo' = {}
      BY <1>16, <2>1 DEF CopyTorn
    <2>6. Contract(T)!Unpoint(ConfSurface)
      BY <2>1, <2>2, <2>3, <2>4, <2>5 DEF Contract!Unpoint
    <2>7. QED
      BY <2>6 DEF Contract!RedirNext
  <1>17. CASE RestoreFails
    <2>1. touched = {}
      BY <1>17 DEF RestoreFails, TouchedInv, ApplySteps
    <2>2. PointedSurfaces' = PointedSurfaces
      BY <1>17 DEF RestoreFails, PointedSurfaces, disk
    <2>3. Remembered' = Remembered
      BY <1>17 DEF RestoreFails
    <2>4. Call = "restore" /\ Call' = "restore"
      BY <1>17 DEF RestoreFails, ApplySteps, RestoreSteps
    <2>5. "restore_fails" \in BrokenBy(T)
      BY <1>17 DEF RestoreFails, May, BrokenBy, TroublesBreaking
    <2>6. PICK s \in Links \cup {ConfSurface} : Todo = {s} /\ Todo' = {}
      BY <1>17, <2>1 DEF RestoreFails, RevertInv
    <2>7. Contract(T)!Skip(s)
      BY <2>1, <2>2, <2>3, <2>4, <2>5, <2>6 DEF Contract!Skip
    <2>8. QED
      BY <2>7 DEF Contract!RedirNext
  <1>18. CASE RemoveBackup
    <2>1. PointedSurfaces' = PointedSurfaces
      BY <1>18 DEF RemoveBackup, PointedSurfaces, disk
    <2>2. Remembered' = Remembered
      BY <1>18 DEF RemoveBackup
    <2>3. Call' = Call
      BY <1>18 DEF RemoveBackup, ApplySteps, RestoreSteps
    <2>4. Todo' = Todo
      BY <1>18 DEF RemoveBackup
    <2>5. QED
      BY <2>1, <2>2, <2>3, <2>4 DEF Contract!redirVars
  <1>19. CASE RestoreErr
    <2>1. PointedSurfaces' = PointedSurfaces
      BY <1>19 DEF RestoreErr, PointedSurfaces, disk
    <2>2. Remembered' = Remembered
      BY <1>19 DEF RestoreErr
    <2>3. Call = "restore" /\ Call' = "none"
      BY <1>19 DEF RestoreErr, ApplySteps, RestoreSteps
    <2>4. Todo = {} /\ Todo' = {}
      BY <1>19 DEF RestoreErr, TouchedInv, ApplySteps
    <2>5. Contract(T)!EndRestore
      BY <2>1, <2>2, <2>3, <2>4 DEF Contract!EndRestore
    <2>6. QED
      BY <2>5 DEF Contract!RedirNext
  <1>20. CASE RestoreOk
    <2>1. PointedSurfaces' = PointedSurfaces
      BY <1>20 DEF RestoreOk, PointedSurfaces, disk
    <2>2. Remembered' = Remembered
      BY <1>20 DEF RestoreOk
    <2>3. Call = "restore" /\ Call' = "none"
      BY <1>20 DEF RestoreOk, ApplySteps, RestoreSteps
    <2>4. Todo = {} /\ Todo' = {}
      BY <1>20 DEF RestoreOk, TouchedInv, ApplySteps
    <2>5. Contract(T)!EndRestore
      BY <2>1, <2>2, <2>3, <2>4 DEF Contract!EndRestore
    <2>6. QED
      BY <2>5 DEF Contract!RedirNext
  <1>21. CASE Crash
    <2>1. "crash" \in BrokenBy(T)
      BY <1>21 DEF Crash, May, BrokenBy, TroublesBreaking
    <2>2. PointedSurfaces' = PointedSurfaces
      BY <1>21 DEF Crash, PointedSurfaces, disk
    <2>3. Remembered' = {}
      BY <1>21 DEF Crash, Idle
    <2>4. Call' = "none"
      BY <1>21 DEF Crash, ApplySteps, RestoreSteps
    <2>5. Todo' = {}
      BY <1>21 DEF Crash
    <2>6. Contract(T)!Forget
      BY <2>1, <2>2, <2>3, <2>4, <2>5 DEF Contract!Forget
    <2>7. QED
      BY <2>6 DEF Contract!RedirNext
  <1>22. CASE \E text \in Texts : Rewrite(text)
    <2>1. PICK text \in Texts : Rewrite(text)
      BY <1>22
    <2>2. "external" \in BrokenBy(T)
      BY <2>1 DEF Rewrite, May, BrokenBy, TroublesBreaking
    <2>3. PointedSurfaces' = PointedSurfaces \ {ConfSurface}
      BY <2>1 DEF Rewrite, PointedSurfaces, ConfSurface
    <2>4. Remembered' = Remembered
      BY <2>1 DEF Rewrite
    <2>5. Call' = Call /\ Todo' = Todo
      BY <2>1 DEF Rewrite
    <2>6. Contract(T)!External(ConfSurface)
      BY <2>1, <2>2, <2>3, <2>4, <2>5 DEF Contract!External
    <2>7. QED
      BY <2>6 DEF Contract!RedirNext
  <1>23. QED
    BY <1>1, <1>2, <1>3, <1>4, <1>5, <1>6, <1>7, <1>8, <1>9, <1>10, <1>11, <1>12, <1>13, <1>14, <1>15, <1>16, <1>17, <1>18, <1>19, <1>20, <1>21, <1>22 DEF Next

\* The Linux redirector keeps the contract but for the promises its troubles break,
\* unless resolv.conf is missing and rewritten in one behaviour.
THEOREM KeepsContract ==
  ASSUME \A T \in TroubleSets : ~ {"no_conf", "rewrite"} \subseteq T
  PROVE  Spec => ImplementsContract
  <1>1. Init => Contract({})!RedirInit
    <2> SUFFICES ASSUME Init PROVE Contract({})!RedirInit
      OBVIOUS
    <2>1. PointedSurfaces = {}
      BY DEF Init, PointedSurfaces
    <2>2. active.path = "idle" /\ pc = "idle" /\ touched = {}
      BY MemoriesDiffer DEF Init
    <2>3. QED
      BY <2>1, <2>2 DEF Contract!RedirInit, ApplySteps, RestoreSteps
  <1>2. LinuxInv /\ LinuxInv' /\ [Next]_vars =>
          [\A T \in TroubleSets : troubles = T => Contract(T)!RedirNext]_(Contract({})!redirVars)
    <2> SUFFICES ASSUME LinuxInv, LinuxInv', [Next]_vars,
                        ~ UNCHANGED Contract({})!redirVars, NEW T \in TroubleSets, troubles = T
                 PROVE  Contract(T)!RedirNext
      OBVIOUS
    <2>1. CASE Next
      BY <2>1, StepRefines
    <2>2. CASE UNCHANGED vars
      BY <2>2 DEF vars, disk, Contract!redirVars, PointedSurfaces
    <2>3. QED
      BY <2>1, <2>2
  <1>3. QED
    BY <1>1, <1>2, Invariance, PTL DEF Spec, ImplementsContract

\* apply and restore end after at most six steps, by whatever path, whatever fails and
\* whoever rewrites resolv.conf meanwhile.
THEOREM CallsEnd == Spec => [](StepsLeft \in 0 .. 6) /\ [][CallGoesOn]_vars
  <1>1. TypeOK => StepsLeft \in 0 .. 6
    BY StepsLeftRange
  <1>2. TypeOK /\ [Next]_vars => [CallGoesOn]_vars
    BY CallGoesOnStep
  <1>3. QED
    BY <1>1, <1>2, TypeCorrect, PTL DEF Spec

=============================================================================
