------------------------------ MODULE Lifecycle ------------------------------
(***************************************************************************)
(* Starting, restarting and stopping the daemon: daemon_init, daemon_free  *)
(* and daemon_restart of src/fand/daemon.c with the pid file, the control  *)
(* socket and the lock on the card's pwm1_enable file they acquire and     *)
(* give up.  Several instances may be started; one step is one system call *)
(* that other instances can observe.  Any call in Faults may fail, and an  *)
(* instance may be killed outright between any two steps.                  *)
(***************************************************************************)
EXTENDS Integers

CONSTANTS Procs,       \* the instances of the daemon that may be started
          None,        \* nobody: no owner, no holder
          Orphan,      \* the server children an instance that was killed left behind
          Faults,      \* the calls that may fail for reasons outside the model
          MaxCrashes   \* bound: how often an instance is killed

ASSUME OwnersAssumption == None \notin Procs /\ Orphan \notin Procs /\ None # Orphan
ASSUME CrashesAssumption == MaxCrashes \in Nat

VARIABLES
  pc,         \* what each instance does next; "off" when there is no process
  restarting, \* the instances in daemon_restart, between its free and its init
  dir,        \* the working directory exists
  pidfile,    \* whose pid the pid file holds
  sock,       \* whose listening socket is bound to the socket path
  fd,         \* the instances with hwmon_pwm_enable_fd open
  lock,       \* who holds the exclusive lock on pwm1_enable
  mode,       \* the pwm mode of the card
  crashes,
  (* History, read by the properties only. *)
  litter,     \* an instance was killed since the working directory was last removed
  flockFailed,\* some flock call failed, which the code ignores
  abandoned   \* the last one in control was killed, or failed to write the mode

files == <<dir, pidfile, sock>>
card == <<fd, lock, mode, flockFailed, abandoned>>
rest == <<crashes, litter>>
vars == <<pc, restarting, files, card, rest>>

InitStages == {"mkdir", "pidfile", "chdir", "bind", "listen", "open", "flock", "manual",
               "drm"}
FreeStages == {"server_kill", "pidfile_unlink", "rmdir", "release", "unlock"}
Stages == {"off", "run"} \cup InitStages \cup FreeStages

Init ==
  /\ pc = [p \in Procs |-> "off"] /\ restarting = {}
  /\ dir = FALSE /\ pidfile = None /\ sock = None
  /\ fd = {} /\ lock = None /\ mode = "auto" /\ flockFailed = FALSE /\ abandoned = FALSE
  /\ crashes = 0 /\ litter = FALSE

------------------------------------------------------------------------------
(* daemon_init *)

At(p, stage) == pc[p] = stage
Goto(p, stage) == pc' = [pc EXCEPT ![p] = stage] /\ UNCHANGED restarting

\* A slip: giving up without cleaning up.
FailQuietly(p) == Goto(p, "off")

\* daemon_init returns -1.  Both callers then end in daemon_free: daemon_main at
\* once, daemon_restart through daemon_alive = 0 and the end of the loop.
Fail(p) == Goto(p, "server_kill")

MayFail(p, call) == call \in Faults /\ Fail(p) /\ UNCHANGED files

\* A new process enters daemon_main.
Start(p) ==
  /\ At(p, "off") /\ Goto(p, "mkdir")
  /\ UNCHANGED <<files, card, rest>>

\* daemon_set_sigacts and daemon_fork, which nobody else observes, and mkdir.
Mkdir(p) ==
  /\ At(p, "mkdir")
  /\ \/ ~dir /\ dir' = TRUE /\ Goto(p, "pidfile") /\ UNCHANGED <<pidfile, sock>>
     \/ dir /\ Fail(p) /\ UNCHANGED files
     \/ MayFail(p, "mkdir")
  /\ UNCHANGED <<card, rest>>

\* pidfile_write: exclusive creation, then writing, which may fail with the file
\* left in place.
PidfileWrite(p) ==
  /\ At(p, "pidfile")
  /\ \/ /\ dir /\ pidfile = None /\ pidfile' = p
        /\ Goto(p, "chdir") \/ ("pidfile" \in Faults /\ Fail(p))
        /\ UNCHANGED <<dir, sock>>
     \/ ~(dir /\ pidfile = None) /\ Fail(p) /\ UNCHANGED files
     \/ MayFail(p, "pidfile")
  /\ UNCHANGED <<card, rest>>

\* chdir and config_parse.
Chdir(p) ==
  /\ At(p, "chdir")
  /\ \/ dir /\ Goto(p, "bind") /\ UNCHANGED files
     \/ ~dir /\ Fail(p) /\ UNCHANGED files
     \/ MayFail(p, "chdir")
  /\ UNCHANGED <<card, rest>>

\* server_init up to bind, which needs the directory and a free path.
Bind(p) ==
  /\ At(p, "bind")
  /\ \/ dir /\ sock = None /\ sock' = p /\ Goto(p, "listen") /\ UNCHANGED <<dir, pidfile>>
     \/ ~(dir /\ sock = None) /\ Fail(p) /\ UNCHANGED files
     \/ MayFail(p, "bind")
  /\ UNCHANGED <<card, rest>>

\* server_init after bind: chmod needs the path, and a failure unlinks the path.
Listen(p) ==
  /\ At(p, "listen")
  /\ \/ sock # None /\ Goto(p, "open") /\ UNCHANGED files
     \/ /\ sock = None \/ "listen" \in Faults
        /\ Fail(p) /\ sock' = None /\ UNCHANGED <<dir, pidfile>>
  /\ UNCHANGED <<card, rest>>

\* fsys_watch_init and hwmon_open up to the open of fdopen_excl: the cache or the
\* detection of the card, then the descriptor.
HwmonOpen(p) ==
  /\ At(p, "open")
  /\ \/ Goto(p, "flock") /\ fd' = fd \cup {p} /\ UNCHANGED files
     \/ MayFail(p, "open") /\ UNCHANGED fd
  /\ UNCHANGED <<lock, mode, flockFailed, abandoned, rest>>

\* A slip: a lock that does not wait (LOCK_NB, its result ignored).
FlockNoWait(p) ==
  /\ At(p, "flock") /\ Goto(p, "manual")
  /\ lock' = IF lock = None THEN p ELSE lock
  /\ UNCHANGED <<files, fd, mode, flockFailed, abandoned, rest>>

\* The flock of fdopen_excl.  It waits for the lock; signals do not interrupt it,
\* every handler is installed with SA_RESTART.  A failure is logged and ignored.
Flock(p) ==
  /\ At(p, "flock") /\ Goto(p, "manual")
  /\ \/ lock = None /\ lock' = p /\ UNCHANGED flockFailed
     \/ "flock" \in Faults /\ flockFailed' = TRUE /\ UNCHANGED lock
  /\ UNCHANGED <<files, fd, mode, abandoned, rest>>

\* hwmon_set_pwm_mode_manual after fdopen_excl.
SetManual(p) ==
  /\ At(p, "manual")
  /\ \/ Goto(p, "drm") /\ mode' = "manual" /\ UNCHANGED files
     \/ MayFail(p, "manual") /\ UNCHANGED mode
  /\ UNCHANGED <<fd, lock, flockFailed, abandoned, rest>>

\* drm_open and fanctrl_configure.
DrmOpen(p) ==
  /\ At(p, "drm")
  /\ \/ Goto(p, "run") /\ UNCHANGED files
     \/ MayFail(p, "drm")
  /\ UNCHANGED <<card, rest>>

------------------------------------------------------------------------------
(* The loop of daemon_main, as far as the life cycle is concerned. *)

\* daemon_alive was cleared: by SIGTERM or SIGINT, by a server child that
\* exited for an exit request, or by a fatal error.
Stop(p) ==
  /\ At(p, "run") /\ Goto(p, "server_kill")
  /\ UNCHANGED <<files, card, rest>>

\* SIGPIPE was caught: daemon_restart.
Restart(p) ==
  /\ At(p, "run")
  /\ pc' = [pc EXCEPT ![p] = "server_kill"] /\ restarting' = restarting \cup {p}
  /\ UNCHANGED <<files, card, rest>>

------------------------------------------------------------------------------
(* daemon_free *)

\* A slip: the socket is closed, its path left in place.
ServerKillKeepsPath(p) ==
  /\ At(p, "server_kill") /\ Goto(p, "pidfile_unlink")
  /\ UNCHANGED <<files, card, rest>>

\* fsys_watch_clear and server_kill.
ServerKill(p) ==
  /\ At(p, "server_kill") /\ Goto(p, "pidfile_unlink")
  /\ sock' = None
  /\ UNCHANGED <<dir, pidfile, card, rest>>

PidfileUnlink(p) ==
  /\ At(p, "pidfile_unlink") /\ Goto(p, "rmdir")
  /\ pidfile' = None
  /\ UNCHANGED <<dir, sock, card, rest>>

\* rmdir removes an empty directory only; daemon_free goes on either way.
Rmdir(p) ==
  /\ At(p, "rmdir") /\ Goto(p, "release")
  /\ dir' = (dir /\ (pidfile # None \/ sock # None))
  /\ litter' = (litter /\ dir')
  /\ UNCHANGED <<pidfile, sock, card, crashes>>

\* A slip: the lock is dropped before the mode is written.
ReleaseAfterUnlock(p) ==
  /\ At(p, "release")
  /\ \/ /\ p \in fd /\ lock = p /\ lock' = None
        /\ UNCHANGED <<pc, restarting, mode, abandoned>>
     \/ /\ lock # p /\ Goto(p, "unlock")
        /\ mode' = IF p \in fd THEN "auto" ELSE mode
        /\ UNCHANGED <<lock, abandoned>>
  /\ UNCHANGED <<files, fd, flockFailed, rest>>

\* drm_close and the write of hwmon_close; the result of the write is not looked at.
Release(p) ==
  /\ At(p, "release") /\ Goto(p, "unlock")
  /\ \/ p \in fd /\ mode' = "auto" /\ abandoned' = FALSE
     \/ p \in fd /\ "auto" \in Faults /\ abandoned' = TRUE /\ UNCHANGED mode
     \/ p \notin fd /\ UNCHANGED <<mode, abandoned>>
  /\ UNCHANGED <<files, fd, lock, flockFailed, rest>>

\* daemon_main returns, daemon_restart goes on with daemon_init.
Return(p) == /\ pc' = [pc EXCEPT ![p] = IF p \in restarting THEN "mkdir" ELSE "off"]
             /\ restarting' = restarting \ {p}

\* A slip: the descriptor is left open.
UnlockWithoutClose(p) ==
  /\ At(p, "unlock") /\ Return(p)
  /\ lock' = IF p \in fd /\ lock = p THEN None ELSE lock
  /\ UNCHANGED <<files, fd, mode, flockFailed, abandoned, crashes, litter>>

\* fdclose_excl: an explicit LOCK_UN, which also ends what the children share,
\* then close.
Unlock(p) ==
  /\ At(p, "unlock") /\ Return(p)
  /\ lock' = IF p \in fd /\ lock = p THEN None ELSE lock
  /\ fd' = fd \ {p}
  /\ UNCHANGED <<files, mode, flockFailed, abandoned, crashes, litter>>

------------------------------------------------------------------------------
(* The environment *)

\* The instance has the card's fans in its hands: it may write the mode and the pwm.
Controls(p) == pc[p] \in {"manual", "drm", "run"} \/ (pc[p] \in FreeStages /\ p \in fd)

\* The process is killed and the kernel closes its descriptors.  The server
\* children that server_poll forked inherited the one that is locked: the lock
\* outlives the daemon in a child that is still there.
Crash(p) ==
  /\ ~At(p, "off") /\ crashes < MaxCrashes
  /\ crashes' = crashes + 1
  /\ pc' = [pc EXCEPT ![p] = "off"] /\ restarting' = restarting \ {p}
  /\ fd' = fd \ {p}
  /\ \/ lock' = IF lock = p THEN None ELSE lock
     \/ lock = p /\ pc[p] \in {"run"} \cup FreeStages /\ lock' = Orphan
  /\ litter' = TRUE /\ abandoned' = (abandoned \/ Controls(p))
  /\ UNCHANGED <<files, mode, flockFailed>>

\* The last orphaned child exits, and with it the lock goes.
OrphanExit ==
  /\ lock = Orphan /\ lock' = None
  /\ UNCHANGED <<pc, restarting, files, fd, mode, flockFailed, abandoned, rest>>

\* What an instance does on its own once it has been started: looking for the card
\* and its sensor, and the rest.
OtherStep(p) == \/ Mkdir(p) \/ PidfileWrite(p) \/ Chdir(p) \/ Bind(p) \/ Listen(p)
                \/ Flock(p) \/ SetManual(p)
                \/ ServerKill(p) \/ PidfileUnlink(p) \/ Rmdir(p) \/ Release(p)
                \/ Unlock(p)
Step(p) == HwmonOpen(p) \/ DrmOpen(p) \/ OtherStep(p)

Next == \/ \E p \in Procs : \/ Start(p) \/ Step(p) \/ Stop(p) \/ Restart(p)
                            \/ Crash(p)
        \/ OrphanExit

Spec == Init /\ [][Next]_vars

------------------------------------------------------------------------------
(* Properties *)

\* Every variable keeps its type, and the descriptor is open only where daemon_init
\* has opened it and daemon_free has not yet closed it.
TypeOK ==
  /\ pc \in [Procs -> Stages] /\ restarting \subseteq Procs
  /\ dir \in BOOLEAN /\ pidfile \in Procs \cup {None} /\ sock \in Procs \cup {None}
  /\ fd \subseteq {p \in Procs : pc[p] \in {"flock", "manual", "drm", "run"} \cup FreeStages}
  /\ lock \in Procs \cup {None, Orphan}
  /\ mode \in {"auto", "manual"} /\ flockFailed \in BOOLEAN
  /\ crashes \in 0 .. MaxCrashes
  /\ litter \in BOOLEAN /\ abandoned \in BOOLEAN

\* Two instances are never in control together, through restarts, failed starts
\* and crashes, as long as no flock has failed: the exclusive lock on pwm1_enable
\* (file.c:89) is taken before the mode is first written and dropped after it is
\* last written.
AtMostOneController ==
  ~flockFailed => \A p, q \in Procs : Controls(p) /\ Controls(q) => p = q

\* A daemon that runs has the fans in manual mode: no other instance hands them to
\* the kernel behind its back (hwmon.c:187 writes the mode before fdclose_excl
\* unlocks), as long as no flock has failed.
RunningIsManual ==
  ~flockFailed => \A p \in Procs : pc[p] = "run" => mode = "manual"

\* "If the daemon is terminated, it will first relinquish control of the fans to
\* the kernel" (README.md:93): the fans are in manual mode only while somebody
\* controls them, unless the last one to do so was killed or its write failed.
FansHandedBack == mode = "manual" => abandoned \/ \E p \in Procs : Controls(p)

\* However starts, failed starts and stops of several instances interleave, the last
\* one out leaves no directory, pid file or socket behind, unless one was killed
\* (daemon.c:174-201, 261-273).
LastOneOutCleansUp ==
  (\A p \in Procs : pc[p] = "off") /\ ~litter => ~dir /\ pidfile = None /\ sock = None

\* What the instances do amounts to an orderly ownership of the fans, as FanOwnership
\* states it for whoever may own them: whoever comes to control them does so alone, only
\* owners touch the mode, and nobody leaves fans in manual mode to nobody (file.c:82-107,
\* hwmon.c:122-128, 181-190).
Fans == INSTANCE FanOwnership WITH owners <- {p \in Procs : Controls(p)},
                                   lost <- abandoned, trusted <- ~flockFailed
OrderlyOwnership == Fans!Spec

\* The control interface "may be used to query the daemon" and "to terminate the
\* daemon" (README.md:89-90): the socket path of a running daemon leads to it.
RunningIsReachable == \A p \in Procs : pc[p] = "run" => sock = p
=============================================================================
