-------------------------- MODULE Lifecycle_proofs --------------------------
(***************************************************************************)
(* Proofs about Lifecycle, for any number of instances, any set of calls   *)
(* that may fail and any number of crashes.                                *)
(***************************************************************************)
EXTENDS Lifecycle, TLAPS

\* The stages from the creation of the pid file, and of the socket, to its removal,
\* and those in which the working directory is in use.
HasPidfile == {"chdir", "bind", "listen", "open", "flock", "manual", "drm", "run",
               "server_kill", "pidfile_unlink"}
HasSocket == {"listen", "open", "flock", "manual", "drm", "run", "server_kill"}
InDir == {"pidfile", "rmdir"} \cup HasPidfile

\* The stages between writing the manual mode and writing the automatic one.
Manual == {"drm", "run", "server_kill", "pidfile_unlink", "rmdir", "release"}

\* The descriptor is open from HwmonOpen on, and whoever controls the fans holds
\* the lock.
LockInv ==
  /\ \A p \in Procs : pc[p] \in {"flock", "manual", "drm", "run"} => p \in fd
  /\ ~flockFailed => \A p \in Procs : Controls(p) => lock = p

\* The mode is manual where it has been set and not been taken back, and it is
\* manual only if there is such an instance.
ModeInv ==
  /\ ~flockFailed => \A p \in Procs : pc[p] \in {"drm", "run"} => mode = "manual"
  /\ mode = "manual" => abandoned \/ \E p \in fd : pc[p] \in Manual

\* While nobody has been killed, whatever there is in the file system belongs to an
\* instance that has yet to remove it.
FilesInv ==
  /\ ~dir => pidfile = None /\ sock = None
  /\ ~litter => /\ pidfile # None => pc[pidfile] \in HasPidfile
                /\ sock # None => pc[sock] \in HasSocket
                /\ dir => \E p \in Procs : pc[p] \in InDir

\* The inductive invariant.
IInv == TypeOK /\ LockInv /\ ModeInv /\ FilesInv

\* Every step keeps the types; the descriptor is closed before an instance ends.
LEMMA TypeStep ==
  ASSUME TypeOK, [Next]_vars
  PROVE  TypeOK'
<1> USE OwnersAssumption, CrashesAssumption
           DEF TypeOK,
               At, Goto, Fail, MayFail, files, card, rest, Stages, InitStages, FreeStages
<1>1. ASSUME NEW p \in Procs, Start(p) PROVE TypeOK'
  BY <1>1 DEF Start
<1>2. ASSUME NEW p \in Procs, Mkdir(p) PROVE TypeOK'
  BY <1>2 DEF Mkdir
<1>3. ASSUME NEW p \in Procs, PidfileWrite(p) PROVE TypeOK'
  BY <1>3 DEF PidfileWrite
<1>4. ASSUME NEW p \in Procs, Chdir(p) PROVE TypeOK'
  BY <1>4 DEF Chdir
<1>5. ASSUME NEW p \in Procs, Bind(p) PROVE TypeOK'
  BY <1>5 DEF Bind
<1>6. ASSUME NEW p \in Procs, Listen(p) PROVE TypeOK'
  BY <1>6 DEF Listen
<1>7. ASSUME NEW p \in Procs, HwmonOpen(p) PROVE TypeOK'
  BY <1>7 DEF HwmonOpen
<1>8. ASSUME NEW p \in Procs, Flock(p) PROVE TypeOK'
  BY <1>8 DEF Flock
<1>9. ASSUME NEW p \in Procs, SetManual(p) PROVE TypeOK'
  BY <1>9 DEF SetManual
<1>10. ASSUME NEW p \in Procs, DrmOpen(p) PROVE TypeOK'
  BY <1>10 DEF DrmOpen
<1>11. ASSUME NEW p \in Procs, Stop(p) PROVE TypeOK'
  BY <1>11 DEF Stop
<1>12. ASSUME NEW p \in Procs, Restart(p) PROVE TypeOK'
  BY <1>12 DEF Restart
<1>13. ASSUME NEW p \in Procs, ServerKill(p) PROVE TypeOK'
  BY <1>13 DEF ServerKill
<1>14. ASSUME NEW p \in Procs, PidfileUnlink(p) PROVE TypeOK'
  BY <1>14 DEF PidfileUnlink
<1>15. ASSUME NEW p \in Procs, Rmdir(p) PROVE TypeOK'
  BY <1>15 DEF Rmdir
<1>16. ASSUME NEW p \in Procs, Release(p) PROVE TypeOK'
  BY <1>16 DEF Release
<1>17. ASSUME NEW p \in Procs, Unlock(p) PROVE TypeOK'
  BY <1>17 DEF Unlock, Return
<1>18. ASSUME NEW p \in Procs, Crash(p) PROVE TypeOK'
  BY <1>18 DEF Crash, Controls
<1>19. CASE OrphanExit
  BY <1>19 DEF OrphanExit
<1>20. CASE UNCHANGED vars
  BY <1>20 DEF vars
<1> QED BY <1>1, <1>2, <1>3, <1>4, <1>5, <1>6, <1>7, <1>8, <1>9, <1>10,
                <1>11, <1>12, <1>13, <1>14, <1>15, <1>16, <1>17, <1>18, <1>19, <1>20 DEF Next, Step,
                OtherStep

\* Every step leaves the lock with whoever controls the fans: Flock waits for it,
\* Unlock drops it together with the control.
LEMMA LockStep ==
  ASSUME TypeOK, LockInv, [Next]_vars
  PROVE  LockInv'
<1> USE OwnersAssumption, CrashesAssumption
           DEF TypeOK, LockInv, Controls,
               At, Goto, Fail, MayFail, files, card, rest, Stages, InitStages, FreeStages
<1>1. ASSUME NEW p \in Procs, Start(p) PROVE LockInv'
  BY <1>1 DEF Start
<1>2. ASSUME NEW p \in Procs, Mkdir(p) PROVE LockInv'
  BY <1>2 DEF Mkdir
<1>3. ASSUME NEW p \in Procs, PidfileWrite(p) PROVE LockInv'
  BY <1>3 DEF PidfileWrite
<1>4. ASSUME NEW p \in Procs, Chdir(p) PROVE LockInv'
  BY <1>4 DEF Chdir
<1>5. ASSUME NEW p \in Procs, Bind(p) PROVE LockInv'
  BY <1>5 DEF Bind
<1>6. ASSUME NEW p \in Procs, Listen(p) PROVE LockInv'
  BY <1>6 DEF Listen
<1>7. ASSUME NEW p \in Procs, HwmonOpen(p) PROVE LockInv'
  BY <1>7 DEF HwmonOpen
<1>8. ASSUME NEW p \in Procs, Flock(p) PROVE LockInv'
  BY <1>8 DEF Flock
<1>9. ASSUME NEW p \in Procs, SetManual(p) PROVE LockInv'
  BY <1>9 DEF SetManual
<1>10. ASSUME NEW p \in Procs, DrmOpen(p) PROVE LockInv'
  BY <1>10 DEF DrmOpen
<1>11. ASSUME NEW p \in Procs, Stop(p) PROVE LockInv'
  BY <1>11 DEF Stop
<1>12. ASSUME NEW p \in Procs, Restart(p) PROVE LockInv'
  BY <1>12 DEF Restart
<1>13. ASSUME NEW p \in Procs, ServerKill(p) PROVE LockInv'
  BY <1>13 DEF ServerKill
<1>14. ASSUME NEW p \in Procs, PidfileUnlink(p) PROVE LockInv'
  BY <1>14 DEF PidfileUnlink
<1>15. ASSUME NEW p \in Procs, Rmdir(p) PROVE LockInv'
  BY <1>15 DEF Rmdir
<1>16. ASSUME NEW p \in Procs, Release(p) PROVE LockInv'
  BY <1>16 DEF Release
<1>17. ASSUME NEW p \in Procs, Unlock(p) PROVE LockInv'
  BY <1>17 DEF Unlock, Return
<1>18. ASSUME NEW p \in Procs, Crash(p) PROVE LockInv'
  BY <1>18 DEF Crash, Controls
<1>19. CASE OrphanExit
  BY <1>19 DEF OrphanExit
<1>20. CASE UNCHANGED vars
  BY <1>20 DEF vars
<1> QED BY <1>1, <1>2, <1>3, <1>4, <1>5, <1>6, <1>7, <1>8, <1>9, <1>10,
                <1>11, <1>12, <1>13, <1>14, <1>15, <1>16, <1>17, <1>18, <1>19, <1>20 DEF Next, Step,
                OtherStep

\* Every step keeps the mode in line with the stages: the automatic mode is written
\* under the lock, so by the one instance in control.
LEMMA ModeStep ==
  ASSUME TypeOK, LockInv, ModeInv, [Next]_vars
  PROVE  ModeInv'
<1> USE OwnersAssumption, CrashesAssumption
           DEF TypeOK, LockInv, ModeInv, Manual, Controls,
               At, Goto, Fail, MayFail, files, card, rest, Stages, InitStages, FreeStages
<1>1. ASSUME NEW p \in Procs, Start(p) PROVE ModeInv'
  BY <1>1 DEF Start
<1>2. ASSUME NEW p \in Procs, Mkdir(p) PROVE ModeInv'
  BY <1>2 DEF Mkdir
<1>3. ASSUME NEW p \in Procs, PidfileWrite(p) PROVE ModeInv'
  BY <1>3 DEF PidfileWrite
<1>4. ASSUME NEW p \in Procs, Chdir(p) PROVE ModeInv'
  BY <1>4 DEF Chdir
<1>5. ASSUME NEW p \in Procs, Bind(p) PROVE ModeInv'
  BY <1>5 DEF Bind
<1>6. ASSUME NEW p \in Procs, Listen(p) PROVE ModeInv'
  BY <1>6 DEF Listen
<1>7. ASSUME NEW p \in Procs, HwmonOpen(p) PROVE ModeInv'
  BY <1>7 DEF HwmonOpen
<1>8. ASSUME NEW p \in Procs, Flock(p) PROVE ModeInv'
  BY <1>8 DEF Flock
<1>9. ASSUME NEW p \in Procs, SetManual(p) PROVE ModeInv'
  BY <1>9 DEF SetManual
<1>10. ASSUME NEW p \in Procs, DrmOpen(p) PROVE ModeInv'
  BY <1>10 DEF DrmOpen
<1>11. ASSUME NEW p \in Procs, Stop(p) PROVE ModeInv'
  BY <1>11 DEF Stop
<1>12. ASSUME NEW p \in Procs, Restart(p) PROVE ModeInv'
  BY <1>12 DEF Restart
<1>13. ASSUME NEW p \in Procs, ServerKill(p) PROVE ModeInv'
  BY <1>13 DEF ServerKill
<1>14. ASSUME NEW p \in Procs, PidfileUnlink(p) PROVE ModeInv'
  BY <1>14 DEF PidfileUnlink
<1>15. ASSUME NEW p \in Procs, Rmdir(p) PROVE ModeInv'
  BY <1>15 DEF Rmdir
<1>16. ASSUME NEW p \in Procs, Release(p) PROVE ModeInv'
  BY <1>16 DEF Release
<1>17. ASSUME NEW p \in Procs, Unlock(p) PROVE ModeInv'
  BY <1>17 DEF Unlock, Return
<1>18. ASSUME NEW p \in Procs, Crash(p) PROVE ModeInv'
  BY <1>18 DEF Crash, Controls
<1>19. CASE OrphanExit
  BY <1>19 DEF OrphanExit
<1>20. CASE UNCHANGED vars
  BY <1>20 DEF vars
<1> QED BY <1>1, <1>2, <1>3, <1>4, <1>5, <1>6, <1>7, <1>8, <1>9, <1>10,
                <1>11, <1>12, <1>13, <1>14, <1>15, <1>16, <1>17, <1>18, <1>19, <1>20 DEF Next, Step,
                OtherStep

\* Every step keeps what there is in the file system with an instance that is going
\* to remove it: a directory that is not empty survives rmdir, but then the owner of
\* what it holds is still in it.
LEMMA FilesStep ==
  ASSUME TypeOK, FilesInv, [Next]_vars
  PROVE  FilesInv'
<1> USE OwnersAssumption, CrashesAssumption
           DEF TypeOK, FilesInv, InDir, HasPidfile, HasSocket,
               At, Goto, Fail, MayFail, files, card, rest, Stages, InitStages, FreeStages
<1>1. ASSUME NEW p \in Procs, Start(p) PROVE FilesInv'
  BY <1>1 DEF Start
<1>2. ASSUME NEW p \in Procs, Mkdir(p) PROVE FilesInv'
  BY <1>2 DEF Mkdir
<1>3. ASSUME NEW p \in Procs, PidfileWrite(p) PROVE FilesInv'
  BY <1>3 DEF PidfileWrite
<1>4. ASSUME NEW p \in Procs, Chdir(p) PROVE FilesInv'
  BY <1>4 DEF Chdir
<1>5. ASSUME NEW p \in Procs, Bind(p) PROVE FilesInv'
  BY <1>5 DEF Bind
<1>6. ASSUME NEW p \in Procs, Listen(p) PROVE FilesInv'
  BY <1>6 DEF Listen
<1>7. ASSUME NEW p \in Procs, HwmonOpen(p) PROVE FilesInv'
  BY <1>7 DEF HwmonOpen
<1>8. ASSUME NEW p \in Procs, Flock(p) PROVE FilesInv'
  BY <1>8 DEF Flock
<1>9. ASSUME NEW p \in Procs, SetManual(p) PROVE FilesInv'
  BY <1>9 DEF SetManual
<1>10. ASSUME NEW p \in Procs, DrmOpen(p) PROVE FilesInv'
  BY <1>10 DEF DrmOpen
<1>11. ASSUME NEW p \in Procs, Stop(p) PROVE FilesInv'
  BY <1>11 DEF Stop
<1>12. ASSUME NEW p \in Procs, Restart(p) PROVE FilesInv'
  BY <1>12 DEF Restart
<1>13. ASSUME NEW p \in Procs, ServerKill(p) PROVE FilesInv'
  BY <1>13 DEF ServerKill
<1>14. ASSUME NEW p \in Procs, PidfileUnlink(p) PROVE FilesInv'
  BY <1>14 DEF PidfileUnlink
<1>15. ASSUME NEW p \in Procs, Rmdir(p) PROVE FilesInv'
  BY <1>15 DEF Rmdir
<1>16. ASSUME NEW p \in Procs, Release(p) PROVE FilesInv'
  BY <1>16 DEF Release
<1>17. ASSUME NEW p \in Procs, Unlock(p) PROVE FilesInv'
  BY <1>17 DEF Unlock, Return
<1>18. ASSUME NEW p \in Procs, Crash(p) PROVE FilesInv'
  BY <1>18 DEF Crash, Controls
<1>19. CASE OrphanExit
  BY <1>19 DEF OrphanExit
<1>20. CASE UNCHANGED vars
  BY <1>20 DEF vars
<1> QED BY <1>1, <1>2, <1>3, <1>4, <1>5, <1>6, <1>7, <1>8, <1>9, <1>10,
                <1>11, <1>12, <1>13, <1>14, <1>15, <1>16, <1>17, <1>18, <1>19, <1>20 DEF Next, Step,
                OtherStep

\* The invariant holds before the first start.
LEMMA InitInv == Init => IInv
<1> SUFFICES ASSUME Init PROVE IInv
  OBVIOUS
<1>1. TypeOK
  <2>1. /\ dir \in BOOLEAN /\ flockFailed \in BOOLEAN
        /\ litter \in BOOLEAN /\ abandoned \in BOOLEAN
    BY Zenon DEF Init
  <2>2. /\ pc \in [Procs -> Stages] /\ restarting \subseteq Procs
        /\ fd = {} /\ crashes \in 0 .. MaxCrashes
    BY CrashesAssumption DEF Init, Stages
  <2> QED BY <2>1, <2>2 DEF Init, TypeOK
<1>2. \A p \in Procs : pc[p] = "off" /\ p \notin fd
  BY DEF Init
<1>3. LockInv
  BY <1>2 DEF LockInv, Controls
<1>4. ModeInv /\ FilesInv
  BY <1>2 DEF Init, ModeInv, FilesInv
<1> QED BY <1>1, <1>3, <1>4 DEF IInv

\* The invariant holds through every step of daemon_init, daemon_free and
\* daemon_restart.
THEOREM Invariance == Spec => []IInv
<1>1. IInv /\ [Next]_vars => IInv'
  BY TypeStep, LockStep, ModeStep, FilesStep DEF IInv
<1> QED BY <1>1, InitInv, PTL DEF Spec

\* Type correctness, for any number of instances.
THEOREM TypeCorrect == Spec => []TypeOK
BY Invariance, PTL DEF IInv

\* The lock excludes a second instance in control (file.c:89), whatever is started,
\* restarted or killed: two controllers would both hold it.
THEOREM MutualExclusion == Spec => []AtMostOneController
<1>1. IInv => AtMostOneController
  BY DEF IInv, LockInv, AtMostOneController
<1> QED BY <1>1, Invariance, PTL

\* No instance hands the fans of another that runs to the kernel (hwmon.c:181-190).
THEOREM ManualWhileRunning == Spec => []RunningIsManual
<1>1. IInv => RunningIsManual
  BY DEF IInv, ModeInv, RunningIsManual
<1> QED BY <1>1, Invariance, PTL

\* A daemon that ends in daemon_free hands the fans back (daemon.c:194).
THEOREM ReleaseAtExit == Spec => []FansHandedBack
<1>1. IInv => FansHandedBack
  BY DEF IInv, TypeOK, ModeInv, Manual, FansHandedBack, Controls, FreeStages
<1> QED BY <1>1, Invariance, PTL

\* The last instance out removes all there is to remove (daemon.c:181-192).
THEOREM CleanSlate == Spec => []LastOneOutCleansUp
<1>1. IInv => LastOneOutCleansUp
  BY DEF IInv, FilesInv, LastOneOutCleansUp, TypeOK, InDir, HasPidfile, HasSocket
<1> QED BY <1>1, Invariance, PTL

------------------------------------------------------------------------------
(* The ownership of the fans. *)

\* Those who control the fans, what FanOwnership calls the owners.
Owners == {p \in Procs : Controls(p)}

\* A step changes nothing that the ownership is about.
Unowned == UNCHANGED <<Owners, mode, abandoned, flockFailed>>

\* The steps up to the lock, and those of daemon_free before the mode is written, have
\* no part in it.
LEMMA UnownedSteps ==
  ASSUME TypeOK, LockInv, NEW p \in Procs,
         \/ Start(p) \/ Mkdir(p) \/ PidfileWrite(p) \/ Chdir(p) \/ Bind(p) \/ Listen(p)
         \/ HwmonOpen(p) \/ DrmOpen(p) \/ Stop(p) \/ Restart(p) \/ ServerKill(p)
         \/ PidfileUnlink(p) \/ Rmdir(p)
  PROVE  Unowned
<1> USE DEF Unowned, Owners, Controls, TypeOK, LockInv, At, Goto, Fail, MayFail, files, card,
            rest, Stages, InitStages, FreeStages
<1>1. CASE Start(p)
  BY <1>1 DEF Start
<1>2. CASE Mkdir(p)
  BY <1>2 DEF Mkdir
<1>3. CASE PidfileWrite(p)
  BY <1>3 DEF PidfileWrite
<1>4. CASE Chdir(p)
  BY <1>4 DEF Chdir
<1>5. CASE Bind(p)
  BY <1>5 DEF Bind
<1>6. CASE Listen(p)
  BY <1>6 DEF Listen
<1>7. CASE HwmonOpen(p)
  BY <1>7 DEF HwmonOpen
<1>8. CASE DrmOpen(p)
  BY <1>8 DEF DrmOpen
<1>9. CASE Stop(p)
  BY <1>9 DEF Stop
<1>10. CASE Restart(p)
  BY <1>10 DEF Restart
<1>11. CASE ServerKill(p)
  BY <1>11 DEF ServerKill
<1>12. CASE PidfileUnlink(p)
  BY <1>12 DEF PidfileUnlink
<1>13. CASE Rmdir(p)
  BY <1>13 DEF Rmdir
<1> QED BY <1>1, <1>2, <1>3, <1>4, <1>5, <1>6, <1>7,
           <1>8, <1>9, <1>10, <1>11, <1>12, <1>13

\* An instance that comes to hold the lock owns the fans alone.
LEMMA FlockTakes ==
  ASSUME TypeOK, LockInv, NEW p \in Procs, Flock(p)
  PROVE  Fans!Take(p)
<1> USE DEF Owners, Controls, At, Goto, files, card, rest
<1>1. /\ pc[p] = "flock" /\ pc' = [pc EXCEPT ![p] = "manual"]
      /\ UNCHANGED <<fd, mode, abandoned>>
  BY DEF Flock
<1>2. Owners' = Owners \cup {p} /\ p \notin Owners
  BY <1>1 DEF TypeOK, FreeStages
<1>3. ~flockFailed' => ~flockFailed /\ lock = None
  BY DEF Flock
<1>4. ~flockFailed' => Owners = {}
  BY <1>3, OwnersAssumption DEF LockInv
<1>5. (~flockFailed') \in BOOLEAN
  BY Zenon
<1>6. UNCHANGED <<mode, abandoned>> /\ (~flockFailed' => ~flockFailed /\ Owners = {})
  BY <1>1, <1>3, <1>4
<1> QED BY <1>2, <1>5, <1>6, Zenon DEF Fans!Take

\* hwmon_set_pwm_mode_manual is called by owners only.
LEMMA ManualTakesOver ==
  ASSUME TypeOK, LockInv, NEW p \in Procs, SetManual(p)
  PROVE  Fans!SetManual(p) \/ Unowned
<1>1. /\ pc[p] = "manual" /\ p \in fd
      /\ \/ pc' = [pc EXCEPT ![p] = "drm"] /\ mode' = "manual"
         \/ pc' = [pc EXCEPT ![p] = "server_kill"] /\ mode' = mode
      /\ UNCHANGED <<fd, abandoned, flockFailed>>
  BY DEF SetManual, MayFail, Fail, Goto, At, LockInv
<1>2. Owners' = Owners /\ p \in Owners
  BY <1>1 DEF Owners, Controls, TypeOK, FreeStages
<1> QED BY <1>1, <1>2 DEF Unowned, Fans!SetManual, Owners

\* hwmon_close writes the mode while it still owns the fans.
LEMMA ReleaseHandsBack ==
  ASSUME TypeOK, LockInv, NEW p \in Procs, Release(p)
  PROVE  Fans!HandBack(p) \/ Fans!FailBack(p) \/ Unowned
<1>1. /\ pc[p] = "release" /\ pc' = [pc EXCEPT ![p] = "unlock"]
      /\ \/ p \in fd /\ mode' = "auto" /\ abandoned' = FALSE
         \/ p \in fd /\ mode' = mode /\ abandoned' = TRUE
         \/ p \notin fd /\ UNCHANGED <<mode, abandoned>>
      /\ UNCHANGED <<fd, flockFailed>>
  BY DEF Release, Goto, At
<1>2. Owners' = Owners /\ (p \in fd => p \in Owners)
  BY <1>1 DEF Owners, Controls, TypeOK, FreeStages
<1> QED BY <1>1, <1>2 DEF Unowned, Fans!HandBack, Fans!FailBack, Owners

\* fdclose_excl leaves fans in manual mode to nobody only if somebody was killed or
\* failed before.
LEMMA UnlockLeaves ==
  ASSUME TypeOK, LockInv, ModeInv, NEW p \in Procs, Unlock(p)
  PROVE  Fans!Leave(p) \/ Unowned
<1>1. /\ pc[p] = "unlock"
      /\ \/ pc' = [pc EXCEPT ![p] = "mkdir"]
         \/ pc' = [pc EXCEPT ![p] = "off"]
      /\ fd' = fd \ {p} /\ UNCHANGED <<mode, abandoned, flockFailed>>
  BY DEF Unlock, Return, At
<1>2. Owners' = Owners \ {p}
  BY <1>1 DEF Owners, Controls, TypeOK, FreeStages
<1>3. CASE p \in fd
  <2>1. p \in Owners
    BY <1>1, <1>3 DEF Owners, Controls, FreeStages
  <2>2. mode = "manual" => abandoned \/ Owners' # {}
    <3> SUFFICES ASSUME mode = "manual", ~abandoned PROVE \E q \in Owners : q # p
      BY <1>2
    <3>1. PICK q \in fd : pc[q] \in Manual
      BY DEF ModeInv
    <3> QED BY <1>1, <3>1 DEF Owners, Controls, Manual, FreeStages, TypeOK
  <2> QED BY <1>1, <1>2, <2>1, <2>2 DEF Fans!Leave, Owners
<1>4. CASE p \notin fd
  BY <1>1, <1>2, <1>4 DEF Unowned, Owners, Controls
<1> QED BY <1>3, <1>4

\* Whoever is killed in control leaves the fans as they are.
LEMMA CrashKills ==
  ASSUME TypeOK, NEW p \in Procs, Crash(p)
  PROVE  Fans!Kill(p) \/ Unowned
<1>1. /\ pc' = [pc EXCEPT ![p] = "off"] /\ fd' = fd \ {p}
      /\ abandoned' = (abandoned \/ Controls(p)) /\ UNCHANGED <<mode, flockFailed>>
  BY DEF Crash
<1>2. Owners' = Owners \ {p} /\ (Controls(p) <=> p \in Owners)
  BY <1>1 DEF Owners, Controls, TypeOK, FreeStages
<1>3. abandoned \in BOOLEAN
  BY DEF TypeOK
<1> QED BY <1>1, <1>2, <1>3 DEF Unowned, Fans!Kill, Owners

\* The life cycle implements the orderly ownership of the fans, for any number of
\* instances: every step of daemon_init, daemon_free and daemon_restart is one of
\* FanOwnership's steps or changes nothing it speaks of.
THEOREM OwnershipImplemented == Spec => OrderlyOwnership
<1>1. Init => Fans!Init
  <2> SUFFICES ASSUME Init PROVE Fans!Init
    OBVIOUS
  <2>1. Owners = {}
    BY DEF Init, Owners, Controls, FreeStages
  <2> QED BY <2>1 DEF Init, Fans!Init, Owners
<1>2. IInv /\ [Next]_vars => [Fans!Next]_(Fans!vars)
  <2> SUFFICES ASSUME IInv, [Next]_vars PROVE [Fans!Next]_(Fans!vars)
    OBVIOUS
  <2> USE DEF IInv
  <2>1. Unowned => UNCHANGED Fans!vars
    BY DEF Unowned, Fans!vars, Owners
  <2>2. ASSUME NEW p \in Procs, Flock(p) PROVE Fans!Next
    BY <2>2, FlockTakes DEF Fans!Next
  <2>3. ASSUME NEW p \in Procs, SetManual(p) PROVE Fans!Next \/ Unowned
    BY <2>3, ManualTakesOver DEF Fans!Next
  <2>4. ASSUME NEW p \in Procs, Release(p) PROVE Fans!Next \/ Unowned
    BY <2>4, ReleaseHandsBack DEF Fans!Next
  <2>5. ASSUME NEW p \in Procs, Unlock(p) PROVE Fans!Next \/ Unowned
    BY <2>5, UnlockLeaves DEF Fans!Next
  <2>6. ASSUME NEW p \in Procs, Crash(p) PROVE Fans!Next \/ Unowned
    BY <2>6, CrashKills DEF Fans!Next
  <2>7. OrphanExit \/ UNCHANGED vars => Unowned
    BY DEF OrphanExit, Unowned, Owners, Controls, vars, card, files, rest
  <2>8. ASSUME NEW p \in Procs, Start(p) \/ Step(p) \/ Stop(p) \/ Restart(p)
        PROVE  Fans!Next \/ Unowned
    BY <2>2, <2>3, <2>4, <2>5, <2>8, UnownedSteps DEF Step, OtherStep
  <2>9. Fans!Next \/ Unowned
    BY <2>6, <2>7, <2>8 DEF Next
  <2> QED BY <2>1, <2>9
<1> QED BY <1>1, <1>2, Invariance, PTL DEF Spec, OrderlyOwnership, Fans!Spec
=============================================================================
