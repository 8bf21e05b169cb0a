------------------------------ MODULE EventLoop ------------------------------
(***************************************************************************)
(* The main loop of the daemon (daemon_main in src/fand/daemon.c) with the *)
(* asynchronous events it has to cope with: signals, whose handler runs    *)
(* between any two steps of the loop; the server children that server_poll *)
(* forks, whose exit codes come back through SIGCHLD; and the              *)
(* configuration file, edited at any time and noticed through inotify.     *)
(* daemon_init and daemon_restart appear with the steps that matter here:  *)
(* forking, reading the configuration, setting up the watch and waiting    *)
(* for the lock on the card; Lifecycle has the others.                     *)
(***************************************************************************)
EXTENDS Integers, Sequences

CONSTANTS Clients,    \* each connects at most once
          Modes,      \* whether it forks into the background (no -F): a set of Booleans
          Batch,      \* inotify events that fit the buffer of fsys_watch_event
          MaxEdits,   \* bound: modifications of the configuration file
          MaxOthers,  \* bound: modifications of other files in its directory
          MaxHolds,   \* bound: how often somebody else takes the lock on the card
          MaxSent     \* bound: how often each signal is sent

Signals == {"TERM", "HUP", "PIPE"}

ASSUME BoundsAssumption ==
  /\ Modes \subseteq BOOLEAN /\ Batch \in Nat \ {0}
  /\ MaxEdits \in Nat /\ MaxOthers \in Nat /\ MaxHolds \in Nat
  /\ MaxSent \in [Signals -> Nat]

VARIABLES
  pc,               \* what the daemon does next
  forking,          \* it forks into the background
  restarting,       \* it goes through daemon_init because of a SIGPIPE
  old,              \* a process from before a fork has yet to exit
  alive,            \* daemon_alive
  reload_pending,   \* daemon_reload_pending
  sigpipe_caught,   \* daemon_sigpipe_caught
  triggered,        \* watch.triggered
  matrix,           \* where the matrix in use comes from: "none", "file", "garbage"
  pending,          \* signals sent and not yet delivered; SIGCHLD is "CHLD"
  sent,             \* how often each signal was sent to either process
  handler,          \* daemon_sighandler runs for SIGCHLD
  wstatus,          \* its variable status: "unset" or what was reaped last
  conn,             \* what has become of each client's connection
  req,              \* what each client asks for: "exit", with the right to, or "other"
  file,             \* content of the configuration file: "full", "partial", "broken"
  version,          \* how often it was modified
  others,           \* how often other files were
  events,           \* the inotify queue
  up,               \* the server socket and the inotify watch exist
  held,             \* somebody else holds the lock on the card
  holds,            \* how often somebody else has taken it
  (* History, read by the properties only. *)
  parsed,           \* newest version that config_parse has read; -1 if none
  lost,             \* how often each signal was sent to a process about to exit
  hup,              \* version when the last SIGHUP that was not lost was sent; -1 if none
  noticed,          \* newest version whose modification was queued; -1 if none
  exitReaped,       \* a child that served an exit request was waited for
  unset,            \* the handler ran to its end without reaping anything
  failed            \* daemon_init failed or a fatal error was met

process == <<forking, restarting, old>>
flags == <<alive, reload_pending, sigpipe_caught>>
signals == <<pending, sent, lost, handler, wstatus, exitReaped, unset>>
children == <<conn, req>>
environment == <<file, version, others, held, holds>>
vars == <<pc, process, flags, triggered, matrix, signals, children, environment, events,
          up, parsed, hup, noticed, failed>>

Init ==
  /\ pc = "fork" /\ forking \in Modes /\ restarting = FALSE /\ old = FALSE
  /\ alive = TRUE /\ reload_pending = FALSE /\ sigpipe_caught = FALSE
  /\ triggered = FALSE /\ matrix = "none"
  /\ pending = {} /\ sent = [s \in Signals |-> 0] /\ lost = [s \in Signals |-> 0]
  /\ handler = FALSE /\ wstatus = "unset"
  /\ conn = [c \in Clients |-> "idle"] /\ req \in [Clients -> {"exit", "other"}]
  /\ file = "full" /\ version = 0 /\ others = 0 /\ events = <<>> /\ up = FALSE
  /\ held = FALSE /\ holds = 0 /\ parsed = -1 /\ hup = -1 /\ noticed = -1
  /\ exitReaped = FALSE /\ unset = FALSE /\ failed = FALSE

------------------------------------------------------------------------------
(* The thread of daemon_main.  It stands still while the handler runs. *)

At(stage) == pc = stage /\ ~handler

\* daemon_kill for a reason other than a signal.
Kill == alive' = FALSE /\ failed' = TRUE

\* daemon_init is over: daemon_main enters its loop, or daemon_restart returns into
\* it, and only then is the flag that asked for the restart cleared.
InitReturns(next) ==
  /\ pc' = (IF restarting THEN "poll" ELSE next)
  /\ restarting' = FALSE
  /\ sigpipe_caught' = (sigpipe_caught /\ ~restarting)

\* daemon_init up to config_parse, with any of its failures.  A fork passes on the flags;
\* signals pending for the old process are delivered to that one before, and it goes on
\* until it exits.  Its children are not those of the new process.
InitFork ==
  /\ At("fork")
  /\ \/ /\ ~forking /\ pc' = "config"
        /\ UNCHANGED <<restarting, old, alive, failed, sigpipe_caught, conn>>
     \/ /\ forking /\ pending = {} /\ old' = TRUE
        /\ conn' = [c \in Clients |-> IF conn[c] = "serving" THEN "orphan" ELSE conn[c]]
        /\ \/ pc' = "config" /\ UNCHANGED <<restarting, alive, failed, sigpipe_caught>>
           \/ Kill /\ InitReturns("adjust")
     \/ Kill /\ InitReturns("adjust") /\ UNCHANGED <<old, conn>>
  /\ UNCHANGED <<forking, reload_pending, triggered, matrix, signals, req, environment,
                 events, up, parsed, hup, noticed>>

\* daemon_init reads the configuration into the data in use: a file without a
\* matrix is rejected unless there is a matrix from before.
InitConfig ==
  /\ At("config")
  /\ parsed' = version
  /\ \/ /\ file = "full" \/ (file = "partial" /\ matrix # "none")
        /\ matrix' = (IF file = "full" THEN "file" ELSE matrix)
        /\ pc' = "setup" /\ UNCHANGED <<restarting, alive, failed, sigpipe_caught>>
     \/ /\ file = "broken" \/ (file = "partial" /\ matrix = "none")
        /\ Kill /\ InitReturns("adjust") /\ UNCHANGED matrix
  /\ UNCHANGED <<forking, old, reload_pending, triggered, signals, children, environment, events,
                 up, hup, noticed>>

\* The server and the watch, or a failure in some part of them or in hwmon_open.
InitSetup ==
  /\ At("setup") /\ triggered' = FALSE
  /\ \/ up' = TRUE /\ pc' = "lock" /\ UNCHANGED <<restarting, alive, failed, sigpipe_caught>>
     \/ up' \in BOOLEAN /\ Kill /\ InitReturns("adjust")
  /\ UNCHANGED <<forking, old, reload_pending, matrix, signals, children, environment,
                 events, parsed, hup, noticed>>

\* A slip: a completed restart clears every flag, a reload asked for meanwhile included.
InitLockForgetting ==
  /\ At("lock") /\ ~held
  /\ reload_pending' = FALSE /\ InitReturns("adjust")
  /\ UNCHANGED <<forking, old, alive, failed, triggered, matrix, signals, children,
                 environment, events, up, parsed, hup, noticed>>

\* flock waits as long as somebody else has the lock, and is resumed when a signal has
\* been handled (SA_RESTART).  Then the rest of daemon_init.
InitLock ==
  /\ At("lock") /\ ~held
  /\ InitReturns("adjust")
  /\ \/ UNCHANGED <<alive, failed>>
     \/ Kill
  /\ UNCHANGED <<forking, old, reload_pending, triggered, matrix, signals, children,
                 environment, events, up, parsed, hup, noticed>>

\* The condition of the loop and daemon_adjust_fanspeed, which is fatal for a
\* matrix of arbitrary bytes, with speeds that are no percentages.
Adjust ==
  /\ At("adjust") /\ alive
  /\ pc' = "watch"
  /\ \/ UNCHANGED <<alive, failed>>
     \/ matrix = "garbage" /\ Kill
  /\ UNCHANGED <<process, reload_pending, sigpipe_caught, triggered, matrix, signals,
                 children, environment, events, up, parsed, hup, noticed>>

\* A slip: without server_kill, those not yet accepted stay connected.
DaemonFreeKept == up' = FALSE /\ events' = <<>> /\ UNCHANGED conn

\* daemon_free: the watch and the socket are gone, and who was not accepted is dropped.
DaemonFree ==
  /\ up' = FALSE /\ events' = <<>>
  /\ conn' = [c \in Clients |-> IF conn[c] = "connected" THEN "closed" ELSE conn[c]]

\* The loop ends.
Leave ==
  /\ At("adjust") /\ ~alive
  /\ pc' = "stopped" /\ DaemonFree
  /\ UNCHANGED <<process, flags, triggered, matrix, signals, req, environment, parsed, hup,
                 noticed, failed>>

\* A slip: only the first event of a batch is looked at.
WatchFirstEvent ==
  /\ At("watch")
  /\ triggered' = (events # <<>> /\ Head(events) = "own")
  /\ events' = SubSeq(events, Batch + 1, Len(events))
  /\ pc' = "check"
  /\ UNCHANGED <<process, flags, matrix, signals, children, environment, up, parsed, hup,
                 noticed, failed>>

\* fsys_watch_event: one batch is read, all of it is consumed.
WatchEvent ==
  /\ At("watch")
  /\ triggered' = (\E i \in DOMAIN events : i <= Batch /\ events[i] = "own")
  /\ events' = SubSeq(events, Batch + 1, Len(events))
  /\ pc' = "check"
  /\ UNCHANGED <<process, flags, matrix, signals, children, environment, up, parsed, hup,
                 noticed, failed>>

\* daemon_watch_event clears the flag before the file is read.
CheckReload ==
  /\ At("check")
  /\ IF reload_pending \/ triggered
     THEN pc' = "reload" /\ reload_pending' = FALSE
     ELSE pc' = "signals" /\ UNCHANGED reload_pending
  /\ UNCHANGED <<process, alive, sigpipe_caught, triggered, matrix, signals, children,
                 environment, events, up, parsed, hup, noticed, failed>>

\* daemon_reload reads the file into uninitialized memory: without a matrix in the
\* file, the number of rows is arbitrary.  None: rejected; too many: fatal.
Reload ==
  /\ At("reload")
  /\ parsed' = version /\ pc' = "signals"
  /\ \/ file \in {"broken", "partial"} /\ UNCHANGED <<matrix, alive, failed>>
     \/ file = "full" /\ matrix' = "file" /\ UNCHANGED <<alive, failed>>
     \/ file = "partial" /\ matrix' = "garbage" /\ UNCHANGED <<alive, failed>>
     \/ file = "partial" /\ matrix' = "garbage" /\ Kill
  /\ UNCHANGED <<process, reload_pending, sigpipe_caught, triggered, signals, children,
                 environment, events, up, hup, noticed>>

\* A slip: the restart starts over with a fresh daemon_alive.
HandleSignalsReviving ==
  /\ At("signals")
  /\ \/ /\ ~sigpipe_caught /\ pc' = "poll"
        /\ UNCHANGED <<restarting, alive, up, events, conn>>
     \/ sigpipe_caught /\ pc' = "fork" /\ restarting' = TRUE /\ DaemonFree /\ alive' = TRUE
  /\ UNCHANGED <<forking, old, reload_pending, sigpipe_caught, triggered, matrix, signals,
                 req, environment, parsed, hup, noticed, failed>>

\* daemon_handle_pending_signals: daemon_restart is daemon_free and daemon_init.
HandleSignals ==
  /\ At("signals")
  /\ \/ /\ ~sigpipe_caught /\ pc' = "poll"
        /\ UNCHANGED <<restarting, up, events, conn>>
     \/ sigpipe_caught /\ pc' = "fork" /\ restarting' = TRUE /\ DaemonFree
  /\ UNCHANGED <<forking, old, flags, triggered, matrix, signals, req, environment, parsed,
                 hup, noticed, failed>>

\* server_poll returns: a timeout, a signal (EINTR) or an error of poll or accept; or
\* it accepts c and forks, and a failed fork leaves the connection open.
PollReturn ==
  /\ At("poll")
  /\ pc' = "adjust"
  /\ UNCHANGED <<process, flags, triggered, matrix, signals, children, environment, events,
                 up, parsed, hup, noticed, failed>>

PollAccept(c) ==
  /\ At("poll") /\ conn[c] = "connected"
  /\ pc' = "adjust"
  /\ \E state \in {"serving", "leaked"} : conn' = [conn EXCEPT ![c] = state]
  /\ UNCHANGED <<process, flags, triggered, matrix, signals, req, environment, events, up,
                 parsed, hup, noticed, failed>>

Main == \/ InitFork \/ InitConfig \/ InitSetup \/ InitLock
        \/ Adjust \/ Leave \/ WatchEvent \/ CheckReload \/ Reload \/ HandleSignals \/ PollReturn
        \/ \E c \in Clients : PollAccept(c)

------------------------------------------------------------------------------
(* daemon_sighandler.  The handlers of SIGTERM, SIGHUP and SIGPIPE are one      *)
(* assignment; they may interrupt that of SIGCHLD, which is masked meanwhile.   *)

Deliver(s) ==
  /\ s \in pending /\ pc # "stopped"
  /\ pending' = pending \ {s}
  /\ alive' = (alive /\ s # "TERM")
  /\ reload_pending' = (reload_pending \/ s = "HUP")
  /\ sigpipe_caught' = (sigpipe_caught \/ s = "PIPE")
  /\ UNCHANGED <<pc, process, triggered, matrix, sent, lost, handler, wstatus, exitReaped,
                 unset, children, environment, events, up, parsed, hup, noticed, failed>>

DeliverChld ==
  /\ "CHLD" \in pending /\ ~handler /\ pc # "stopped"
  /\ pending' = pending \ {"CHLD"}
  /\ handler' = TRUE /\ wstatus' = "unset"
  /\ UNCHANGED <<pc, process, flags, triggered, matrix, sent, lost, exitReaped, unset,
                 children, environment, events, up, parsed, hup, noticed, failed>>

\* One round of the loop around waitpid; each overwrites the status.
Reap(c) ==
  /\ handler /\ conn[c] = "zombie"
  /\ conn' = [conn EXCEPT ![c] = "closed"]
  /\ wstatus' = req[c]
  /\ exitReaped' = (exitReaped \/ req[c] = "exit")
  /\ UNCHANGED <<pc, process, flags, triggered, matrix, pending, sent, lost, handler, unset,
                 req, environment, events, up, parsed, hup, noticed, failed>>

\* Slips: the handler waits for one child per signal; any status ends the daemon.
HandlerReturnAfterOne ==
  /\ handler /\ (wstatus = "unset" => \A c \in Clients : conn[c] # "zombie")
  /\ handler' = FALSE
  /\ alive' = (alive /\ wstatus # "exit")
  /\ unset' = (unset \/ wstatus = "unset")
  /\ UNCHANGED <<pc, process, reload_pending, sigpipe_caught, triggered, matrix,
                 pending, sent, lost, wstatus, exitReaped, children, environment,
                 events, up, parsed, hup, noticed, failed>>

HandlerReturnAnyStatus ==
  /\ handler /\ \A c \in Clients : conn[c] # "zombie"
  /\ handler' = FALSE
  /\ alive' = (alive /\ wstatus = "unset")
  /\ unset' = (unset \/ wstatus = "unset")
  /\ UNCHANGED <<pc, process, reload_pending, sigpipe_caught, triggered, matrix,
                 pending, sent, lost, wstatus, exitReaped, children, environment,
                 events, up, parsed, hup, noticed, failed>>

\* There is nobody left to wait for.  A status that was never written may be anything.
HandlerReturn ==
  /\ handler /\ \A c \in Clients : conn[c] # "zombie"
  /\ handler' = FALSE
  /\ alive' \in (CASE wstatus = "exit" -> {FALSE}
                   [] wstatus = "other" -> {alive}
                   [] wstatus = "unset" -> {alive, FALSE})
  /\ unset' = (unset \/ wstatus = "unset")
  /\ UNCHANGED <<pc, process, reload_pending, sigpipe_caught, triggered, matrix,
                 pending, sent, lost, wstatus, exitReaped, children, environment,
                 events, up, parsed, hup, noticed, failed>>

Handler == DeliverChld \/ HandlerReturn \/ \E c \in Clients : Reap(c)

------------------------------------------------------------------------------
(* The outside: whoever sends signals, the clients and their children, and     *)
(* whoever edits the configuration.                                            *)

\* A signal reaches the daemon, or the process from before its last fork (daemon.c:63-70),
\* where the handler runs to no effect.
Send(s) ==
  /\ pc # "stopped" /\ sent[s] < MaxSent[s]
  /\ pending' = pending \cup {s}
  /\ sent' = [sent EXCEPT ![s] = @ + 1]
  /\ hup' = (IF s = "HUP" THEN version ELSE hup)
  /\ UNCHANGED <<pc, process, flags, triggered, matrix, lost, handler, wstatus, exitReaped,
                 unset, children, environment, events, up, parsed, noticed, failed>>

SendOld(s) ==
  /\ old /\ pc # "stopped" /\ sent[s] < MaxSent[s]
  /\ sent' = [sent EXCEPT ![s] = @ + 1]
  /\ lost' = [lost EXCEPT ![s] = @ + 1]
  /\ UNCHANGED <<pc, process, flags, triggered, matrix, pending, handler, wstatus,
                 exitReaped, unset, children, environment, events, up, parsed, hup, noticed,
                 failed>>

\* The last of the processes from before a fork exits.
OldExit ==
  /\ old /\ old' = FALSE
  /\ UNCHANGED <<pc, forking, restarting, flags, triggered, matrix, signals, children,
                 environment, events, up, parsed, hup, noticed, failed>>

\* Another instance, or the orphaned child of one, gets the lock while the daemon does not
\* have it, and lets go of it.
Hold ==
  /\ pc \in {"fork", "config", "setup", "lock"} /\ ~held /\ holds < MaxHolds
  /\ held' = TRUE /\ holds' = holds + 1
  /\ UNCHANGED <<pc, process, flags, triggered, matrix, signals, children, file, version,
                 others, events, up, parsed, hup, noticed, failed>>

LetGo ==
  /\ held /\ held' = FALSE
  /\ UNCHANGED <<pc, process, flags, triggered, matrix, signals, children, file, version,
                 others, holds, events, up, parsed, hup, noticed, failed>>

Connect(c) ==
  /\ up /\ conn[c] = "idle"
  /\ conn' = [conn EXCEPT ![c] = "connected"]
  /\ UNCHANGED <<pc, process, flags, triggered, matrix, signals, req, environment, events,
                 up, parsed, hup, noticed, failed>>

\* A child has served its client and exits with server_recv_and_respond's result.
ChildExit(c) ==
  /\ \/ /\ conn[c] = "serving" /\ pc # "stopped"
        /\ conn' = [conn EXCEPT ![c] = "zombie"]
        /\ pending' = pending \cup {"CHLD"}
     \/ /\ conn[c] = "orphan"
        /\ conn' = [conn EXCEPT ![c] = "closed"] /\ UNCHANGED pending
  /\ UNCHANGED <<pc, process, flags, triggered, matrix, sent, lost, handler, wstatus,
                 exitReaped, unset, req, environment, events, up, parsed, hup, noticed,
                 failed>>

\* inotify drops an event that equals the last one in the queue.
Queue(event) ==
  events' = (IF ~up \/ (events # <<>> /\ events[Len(events)] = event) THEN events
             ELSE Append(events, event))

\* The file is modified in place; it may be incomplete meanwhile.
Edit(content) ==
  /\ pc # "stopped" /\ version < MaxEdits
  /\ file' = content /\ version' = version + 1
  /\ Queue("own") /\ noticed' = (IF up THEN version' ELSE noticed)
  /\ UNCHANGED <<pc, process, flags, triggered, matrix, signals, children, others, held,
                 holds, up, parsed, hup, failed>>

\* The file is replaced by rename, which is no IN_MODIFY.
Replace(content) ==
  /\ pc # "stopped" /\ version < MaxEdits
  /\ file' = content /\ version' = version + 1
  /\ UNCHANGED <<pc, process, flags, triggered, matrix, signals, children, others, held,
                 holds, events, up, parsed, hup, noticed, failed>>

\* Another file of the watched directory is modified.
EditOther ==
  /\ up /\ others < MaxOthers
  /\ others' = others + 1 /\ Queue("other")
  /\ UNCHANGED <<pc, process, flags, triggered, matrix, signals, children, file,
                 version, held, holds, up, parsed, hup, noticed, failed>>

Contents == {"full", "partial", "broken"}

Outside == \/ \E s \in Signals : Send(s) \/ SendOld(s)
           \/ \E c \in Clients : Connect(c) \/ ChildExit(c)
           \/ \E content \in Contents : Edit(content) \/ Replace(content)
           \/ EditOther \/ OldExit \/ Hold \/ LetGo

\* Nothing is left to be done once the daemon has stopped.
Stopped == pc = "stopped" /\ UNCHANGED vars

Next == Main \/ Handler \/ (\E s \in Signals : Deliver(s)) \/ Outside \/ Stopped

Spec == Init /\ [][Next]_vars

\* The daemon keeps running (poll has a timeout) and signals are delivered; nobody is
\* obliged to connect, to serve, to send or to edit anything, or to let go of the lock.
Fairness == /\ WF_vars(Main) /\ WF_vars(Handler)
            /\ \A s \in Signals : WF_vars(Deliver(s))

FairSpec == Spec /\ Fairness

------------------------------------------------------------------------------
(* Properties *)

FlagsOK ==
  /\ forking \in BOOLEAN /\ restarting \in BOOLEAN /\ old \in BOOLEAN /\ held \in BOOLEAN
  /\ alive \in BOOLEAN /\ reload_pending \in BOOLEAN /\ sigpipe_caught \in BOOLEAN
  /\ triggered \in BOOLEAN /\ handler \in BOOLEAN /\ up \in BOOLEAN
  /\ exitReaped \in BOOLEAN /\ unset \in BOOLEAN /\ failed \in BOOLEAN

StatesOK ==
  /\ pc \in {"fork", "config", "setup", "lock", "adjust", "watch", "check", "reload",
             "signals", "poll", "stopped"}
  /\ matrix \in {"none", "file", "garbage"} /\ wstatus \in {"unset", "exit", "other"}
  /\ pending \subseteq Signals \cup {"CHLD"}
  /\ conn \in [Clients -> {"idle", "connected", "serving", "leaked", "zombie", "orphan",
                           "closed"}]
  /\ req \in [Clients -> {"exit", "other"}]
  /\ file \in Contents /\ events \in Seq({"own", "other"})

CountsOK ==
  /\ sent \in [Signals -> Nat] /\ lost \in [Signals -> Nat]
  /\ \A s \in Signals : lost[s] <= sent[s] /\ sent[s] <= MaxSent[s]
  /\ version \in 0 .. MaxEdits /\ others \in 0 .. MaxOthers /\ holds \in 0 .. MaxHolds
  /\ parsed \in -1 .. version /\ hup \in -1 .. version /\ noticed \in -1 .. version

\* Every variable keeps its type; without a socket and a watch nobody waits to be
\* accepted and no event is queued (daemon_free closes both).
TypeOK ==
  /\ FlagsOK /\ StatesOK /\ CountsOK
  /\ ~up => events = <<>> /\ \A c \in Clients : conn[c] # "connected"

\* A signal was sent that did not go to a process about to exit.
Told(s) == sent[s] > lost[s]

\* The daemon gives up only if it was told to (SIGTERM, SIGINT or an exit request that
\* was waited for), met a fatal error, or tested a status that waitpid never wrote:
\* no other child's exit, restart or reload ends it (daemon.c:28-52, 238-249).
StopsForAReason == ~alive => Told("TERM") \/ exitReaped \/ failed \/ unset

\* The daemon waits for a lock that somebody else has.
Blocked == pc = "lock" /\ held

\* SIGTERM ends the daemon whatever it is doing, a restart or the SIGCHLD handler
\* included (daemon.c:35-38, 266): the fork of a restart passes the cleared flag on and
\* daemon_alive is never set again.  There are two exceptions: a signal that goes to the
\* old process between its fork and its exit (daemon.c:63-70), and a restart that is kept
\* waiting for the lock (file.c:89).
TermStops == <>[]~Blocked => (Told("TERM") ~> pc = "stopped")

\* A SIGHUP makes the daemon read the file as it is then or later, even if the signal
\* comes while it reloads or restarts: the flag is cleared before the file is read
\* (daemon.c:219-222) and a restart leaves it alone.  The exceptions are those of TermStops.
HupHonoured ==
  <>[]~Blocked => (parsed < hup ~> parsed >= hup \/ pc = "stopped")

\* Every modification that inotify has queued leads to the file being read again,
\* whatever else is in the queue and however much of it one read returns, and though
\* a restart throws the queue away (filesystem.c:107-135, daemon.c:219), unless the restart
\* is kept waiting for the lock.
EditNoticed ==
  <>[]~Blocked => (parsed < noticed ~> parsed >= noticed \/ pc = "stopped")

\* No child stays a zombie although the SIGCHLDs of several become one: the handler
\* waits for all that there are (daemon.c:46).
ZombiesReaped ==
  \A c \in Clients : conn[c] = "zombie" ~> conn[c] = "closed" \/ pc = "stopped"

\* "It may also be used to terminate the daemon using the `-e` switch" (README.md:89-90):
\* once the child that served an exit request was waited for, the daemon stops.
ExitRequestStops == exitReaped /\ ~handler => ~alive

\* "The matrix defines the temperature-speed relation for the fan curve" (README.md:74)
\* and a file without one is an error, "No matrix found" (config.c:333): the matrix
\* in use always comes from the file.
MatrixFromFile == matrix # "garbage"
=============================================================================
