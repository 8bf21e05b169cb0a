-------------------------- MODULE EventLoop_proofs --------------------------
(***************************************************************************)
(* The loop keeps its types and never stops without a reason, for any      *)
(* number of clients, signals and edits and any size of the inotify batch. *)
(***************************************************************************)
EXTENDS EventLoop, SequenceTheorems, TLAPS

\* What ~alive rests on: a pending SIGTERM was sent to the daemon, and the status that the SIGCHLD
\* handler will test is "exit" only if an exiting child was waited for.
ReasonInv ==
  /\ StopsForAReason
  /\ "TERM" \in pending => Told("TERM")
  /\ wstatus = "exit" => exitReaped

\* The socket and the watch are down while daemon_init sets them up, and with them the
\* queue and the backlog are empty.
Down ==
  /\ pc \in {"fork", "config", "setup"} => ~up
  /\ ~up => events = <<>> /\ \A c \in Clients : conn[c] # "connected"

IInv == TypeOK /\ Down /\ ReasonInv

\* Dropping the first events of the queue leaves a queue of events.
LEMMA RestOfQueue ==
  ASSUME NEW q \in Seq({"own", "other"})
  PROVE  SubSeq(q, Batch + 1, Len(q)) \in Seq({"own", "other"})
<1>1. Batch \in Nat /\ Len(q) \in Nat
  BY BoundsAssumption
<1>2. \A i \in Batch + 1 .. Len(q) : q[i] \in {"own", "other"}
  BY <1>1
<1> QED
  BY <1>1, <1>2

\* Every step keeps the flags Boolean.
LEMMA FlagsStep ==
  ASSUME TypeOK, [Next]_vars
  PROVE  FlagsOK'
<1> USE DEF TypeOK, FlagsOK, process, flags, signals, children, environment, At, Kill, InitReturns
<1>1. CASE InitConfig
  BY <1>1, ZenonT(60) DEF InitConfig
<1>2. CASE InitSetup
  BY <1>2 DEF InitSetup
<1>3. CASE Adjust
  BY <1>3 DEF Adjust
<1>4. CASE Leave
  BY <1>4 DEF Leave, DaemonFree
<1>5. CASE WatchEvent
  BY <1>5 DEF WatchEvent
<1>6. CASE CheckReload
  BY <1>6, ZenonT(60) DEF CheckReload
<1>7. CASE Reload
  BY <1>7, ZenonT(60) DEF Reload
<1>8. CASE HandleSignals
  BY <1>8, ZenonT(60) DEF HandleSignals, DaemonFree
<1>9. CASE PollReturn
  BY <1>9 DEF PollReturn
<1>10. ASSUME NEW c \in Clients, PollAccept(c) PROVE FlagsOK'
  BY <1>10 DEF PollAccept
<1>11. ASSUME NEW s \in Signals, Deliver(s) PROVE FlagsOK'
  BY <1>11 DEF Deliver
<1>12. CASE DeliverChld
  BY <1>12 DEF DeliverChld
<1>13. ASSUME NEW c \in Clients, Reap(c) PROVE FlagsOK'
  BY <1>13 DEF Reap
<1>14. CASE HandlerReturn
  <2>1. alive' \in {alive, FALSE}
    BY <1>14 DEF HandlerReturn, StatesOK
  <2> QED
    BY <1>14, <2>1, ZenonT(60) DEF HandlerReturn
<1>15. ASSUME NEW s \in Signals, Send(s) PROVE FlagsOK'
  BY <1>15 DEF Send
<1>16. ASSUME NEW c \in Clients, Connect(c) PROVE FlagsOK'
  BY <1>16 DEF Connect
<1>17. ASSUME NEW c \in Clients, ChildExit(c) PROVE FlagsOK'
  BY <1>17 DEF ChildExit
<1>18. ASSUME NEW content \in Contents, Edit(content) PROVE FlagsOK'
  BY <1>18 DEF Edit
<1>19. ASSUME NEW content \in Contents, Replace(content) PROVE FlagsOK'
  BY <1>19 DEF Replace
<1>20. CASE EditOther
  BY <1>20 DEF EditOther
<1>21. CASE Stopped
  BY <1>21 DEF Stopped, vars
<1>22. CASE UNCHANGED vars
  BY <1>22 DEF vars
<1>23. CASE InitFork
  BY <1>23, ZenonT(60) DEF InitFork
<1>24. CASE InitLock
  BY <1>24 DEF InitLock
<1>25. ASSUME NEW s \in Signals, SendOld(s) PROVE FlagsOK'
  BY <1>25 DEF SendOld
<1>26. CASE OldExit
  BY <1>26, ZenonT(60) DEF OldExit
<1>27. CASE Hold
  BY <1>27 DEF Hold
<1>28. CASE LetGo
  BY <1>28, ZenonT(60) DEF LetGo
<1> QED
  BY <1>1, <1>2, <1>3, <1>4, <1>5, <1>6, <1>7, <1>8, <1>9, <1>10, <1>11,
     <1>12, <1>13, <1>14, <1>15, <1>16, <1>17, <1>18, <1>19, <1>20, <1>21, <1>22,
     <1>23, <1>24, <1>25, <1>26, <1>27, <1>28
     DEF Next, Main, Handler, Outside

\* Every step keeps states and queues within their sets.
LEMMA StatesStep ==
  ASSUME TypeOK, [Next]_vars
  PROVE  StatesOK'
<1> USE BoundsAssumption
        DEF TypeOK, StatesOK, Signals, Contents, process, flags, signals, children, environment, At,
            InitReturns, DaemonFree, Queue
<1>1. CASE InitConfig
  BY <1>1 DEF InitConfig
<1>2. CASE InitSetup
  BY <1>2 DEF InitSetup
<1>3. CASE Adjust
  BY <1>3 DEF Adjust
<1>4. CASE Leave
  BY <1>4 DEF Leave, DaemonFree
<1>5. CASE WatchEvent
  BY <1>5, RestOfQueue DEF WatchEvent
<1>6. CASE CheckReload
  BY <1>6 DEF CheckReload
<1>7. CASE Reload
  BY <1>7 DEF Reload
<1>8. CASE HandleSignals
  BY <1>8, EmptySeq, ZenonT(60) DEF HandleSignals
<1>9. CASE PollReturn
  BY <1>9 DEF PollReturn
<1>10. ASSUME NEW c \in Clients, PollAccept(c) PROVE StatesOK'
  BY <1>10 DEF PollAccept
<1>11. ASSUME NEW s \in Signals, Deliver(s) PROVE StatesOK'
  BY <1>11 DEF Deliver
<1>12. CASE DeliverChld
  BY <1>12 DEF DeliverChld
<1>13. ASSUME NEW c \in Clients, Reap(c) PROVE StatesOK'
  BY <1>13 DEF Reap
<1>14. CASE HandlerReturn
  BY <1>14 DEF HandlerReturn
<1>15. ASSUME NEW s \in Signals, Send(s) PROVE StatesOK'
  BY <1>15 DEF Send
<1>16. ASSUME NEW c \in Clients, Connect(c) PROVE StatesOK'
  BY <1>16 DEF Connect
<1>17. ASSUME NEW c \in Clients, ChildExit(c) PROVE StatesOK'
  BY <1>17 DEF ChildExit
<1>18. ASSUME NEW content \in Contents, Edit(content) PROVE StatesOK'
  BY <1>18 DEF Edit
<1>19. ASSUME NEW content \in Contents, Replace(content) PROVE StatesOK'
  BY <1>19 DEF Replace
<1>20. CASE EditOther
  BY <1>20 DEF EditOther
<1>21. CASE Stopped
  BY <1>21 DEF Stopped, vars
<1>22. CASE UNCHANGED vars
  BY <1>22 DEF vars
<1>23. CASE InitFork
  BY <1>23 DEF InitFork
<1>24. CASE InitLock
  BY <1>24 DEF InitLock
<1>25. ASSUME NEW s \in Signals, SendOld(s) PROVE StatesOK'
  BY <1>25 DEF SendOld
<1>26. CASE OldExit
  BY <1>26 DEF OldExit
<1>27. CASE Hold
  BY <1>27 DEF Hold
<1>28. CASE LetGo
  BY <1>28 DEF LetGo
<1> QED
  BY <1>1, <1>2, <1>3, <1>4, <1>5, <1>6, <1>7, <1>8, <1>9, <1>10, <1>11,
     <1>12, <1>13, <1>14, <1>15, <1>16, <1>17, <1>18, <1>19, <1>20, <1>21, <1>22,
     <1>23, <1>24, <1>25, <1>26, <1>27, <1>28
     DEF Next, Main, Handler, Outside

\* Every step keeps the counters within their bounds, and no version is read or
\* reported before it is written.
LEMMA CountsStep ==
  ASSUME TypeOK, [Next]_vars
  PROVE  CountsOK'
<1> USE BoundsAssumption
        DEF TypeOK, CountsOK, Signals, process, flags, signals, children, environment
<1>1. CASE InitConfig
  BY <1>1 DEF InitConfig
<1>2. CASE InitSetup
  BY <1>2 DEF InitSetup
<1>3. CASE Adjust
  BY <1>3 DEF Adjust
<1>4. CASE Leave
  BY <1>4 DEF Leave, DaemonFree
<1>5. CASE WatchEvent
  BY <1>5 DEF WatchEvent
<1>6. CASE CheckReload
  BY <1>6 DEF CheckReload
<1>7. CASE Reload
  BY <1>7 DEF Reload
<1>8. CASE HandleSignals
  BY <1>8 DEF HandleSignals, DaemonFree
<1>9. CASE PollReturn
  BY <1>9 DEF PollReturn
<1>10. ASSUME NEW c \in Clients, PollAccept(c) PROVE CountsOK'
  BY <1>10 DEF PollAccept
<1>11. ASSUME NEW s \in Signals, Deliver(s) PROVE CountsOK'
  BY <1>11 DEF Deliver
<1>12. CASE DeliverChld
  BY <1>12 DEF DeliverChld
<1>13. ASSUME NEW c \in Clients, Reap(c) PROVE CountsOK'
  BY <1>13 DEF Reap
<1>14. CASE HandlerReturn
  BY <1>14 DEF HandlerReturn
<1>15. ASSUME NEW s \in Signals, Send(s) PROVE CountsOK'
  BY <1>15 DEF Send
<1>16. ASSUME NEW c \in Clients, Connect(c) PROVE CountsOK'
  BY <1>16 DEF Connect
<1>17. ASSUME NEW c \in Clients, ChildExit(c) PROVE CountsOK'
  BY <1>17 DEF ChildExit
<1>18. ASSUME NEW content \in Contents, Edit(content) PROVE CountsOK'
  BY <1>18 DEF Edit
<1>19. ASSUME NEW content \in Contents, Replace(content) PROVE CountsOK'
  BY <1>19 DEF Replace
<1>20. CASE EditOther
  BY <1>20 DEF EditOther
<1>21. CASE Stopped
  BY <1>21 DEF Stopped, vars
<1>22. CASE UNCHANGED vars
  BY <1>22 DEF vars
<1>23. CASE InitFork
  BY <1>23 DEF InitFork
<1>24. CASE InitLock
  BY <1>24 DEF InitLock
<1>25. ASSUME NEW s \in Signals, SendOld(s) PROVE CountsOK'
  BY <1>25, SMTT(30) DEF SendOld
<1>26. CASE OldExit
  BY <1>26 DEF OldExit
<1>27. CASE Hold
  BY <1>27 DEF Hold
<1>28. CASE LetGo
  BY <1>28 DEF LetGo
<1> QED
  BY <1>1, <1>2, <1>3, <1>4, <1>5, <1>6, <1>7, <1>8, <1>9, <1>10, <1>11,
     <1>12, <1>13, <1>14, <1>15, <1>16, <1>17, <1>18, <1>19, <1>20, <1>21, <1>22,
     <1>23, <1>24, <1>25, <1>26, <1>27, <1>28
     DEF Next, Main, Handler, Outside

\* Every step keeps the queue and the backlog empty while there is no socket and no watch.
LEMMA DownStep ==
  ASSUME TypeOK, Down, [Next]_vars
  PROVE  Down'
<1> USE DEF TypeOK, FlagsOK, StatesOK, Down, process, flags, signals, children, environment, At, Kill, InitReturns,
            DaemonFree, Queue
<1>1. CASE InitConfig
  BY <1>1 DEF InitConfig
<1>2. CASE InitSetup
  BY <1>2 DEF InitSetup
<1>3. CASE Adjust
  BY <1>3 DEF Adjust
<1>4. CASE Leave
  BY <1>4 DEF Leave, DaemonFree
<1>5. CASE WatchEvent
  BY <1>5 DEF WatchEvent
<1>6. CASE CheckReload
  BY <1>6 DEF CheckReload
<1>7. CASE Reload
  BY <1>7 DEF Reload
<1>8. CASE HandleSignals
  BY <1>8 DEF HandleSignals, DaemonFree
<1>9. CASE PollReturn
  BY <1>9 DEF PollReturn
<1>10. ASSUME NEW c \in Clients, PollAccept(c) PROVE Down'
  BY <1>10 DEF PollAccept
<1>11. ASSUME NEW s \in Signals, Deliver(s) PROVE Down'
  BY <1>11 DEF Deliver
<1>12. CASE DeliverChld
  BY <1>12 DEF DeliverChld
<1>13. ASSUME NEW c \in Clients, Reap(c) PROVE Down'
  BY <1>13 DEF Reap
<1>14. CASE HandlerReturn
  BY <1>14 DEF HandlerReturn
<1>15. ASSUME NEW s \in Signals, Send(s) PROVE Down'
  BY <1>15 DEF Send
<1>16. ASSUME NEW c \in Clients, Connect(c) PROVE Down'
  BY <1>16 DEF Connect
<1>17. ASSUME NEW c \in Clients, ChildExit(c) PROVE Down'
  BY <1>17 DEF ChildExit
<1>18. ASSUME NEW content \in Contents, Edit(content) PROVE Down'
  BY <1>18 DEF Edit
<1>19. ASSUME NEW content \in Contents, Replace(content) PROVE Down'
  BY <1>19 DEF Replace
<1>20. CASE EditOther
  BY <1>20 DEF EditOther
<1>21. CASE Stopped
  BY <1>21 DEF Stopped, vars
<1>22. CASE UNCHANGED vars
  BY <1>22 DEF vars
<1>23. CASE InitFork
  BY <1>23 DEF InitFork
<1>24. CASE InitLock
  BY <1>24 DEF InitLock
<1>25. ASSUME NEW s \in Signals, SendOld(s) PROVE Down'
  BY <1>25 DEF SendOld
<1>26. CASE OldExit
  BY <1>26 DEF OldExit
<1>27. CASE Hold
  BY <1>27 DEF Hold
<1>28. CASE LetGo
  BY <1>28 DEF LetGo
<1> QED
  BY <1>1, <1>2, <1>3, <1>4, <1>5, <1>6, <1>7, <1>8, <1>9, <1>10, <1>11,
     <1>12, <1>13, <1>14, <1>15, <1>16, <1>17, <1>18, <1>19, <1>20, <1>21, <1>22,
     <1>23, <1>24, <1>25, <1>26, <1>27, <1>28
     DEF Next, Main, Handler, Outside

\* Every step that clears daemon_alive has its reason.
LEMMA ReasonStep ==
  ASSUME TypeOK, ReasonInv, [Next]_vars
  PROVE  ReasonInv'
<1> USE DEF TypeOK, FlagsOK, StatesOK, CountsOK, ReasonInv, StopsForAReason, Signals,
            process, flags, signals, children, environment, Kill, InitReturns, Told
<1>1. CASE InitConfig
  BY <1>1 DEF InitConfig
<1>2. CASE InitSetup
  BY <1>2 DEF InitSetup
<1>3. CASE Adjust
  BY <1>3 DEF Adjust
<1>4. CASE Leave
  BY <1>4 DEF Leave, DaemonFree
<1>5. CASE WatchEvent
  BY <1>5 DEF WatchEvent
<1>6. CASE CheckReload
  BY <1>6 DEF CheckReload
<1>7. CASE Reload
  BY <1>7 DEF Reload
<1>8. CASE HandleSignals
  BY <1>8 DEF HandleSignals, DaemonFree
<1>9. CASE PollReturn
  BY <1>9 DEF PollReturn
<1>10. ASSUME NEW c \in Clients, PollAccept(c) PROVE ReasonInv'
  BY <1>10 DEF PollAccept
<1>11. ASSUME NEW s \in Signals, Deliver(s) PROVE ReasonInv'
  BY <1>11 DEF Deliver
<1>12. CASE DeliverChld
  BY <1>12 DEF DeliverChld
<1>13. ASSUME NEW c \in Clients, Reap(c) PROVE ReasonInv'
  BY <1>13 DEF Reap
<1>14. CASE HandlerReturn
  BY <1>14 DEF HandlerReturn
<1>15. ASSUME NEW s \in Signals, Send(s) PROVE ReasonInv'
  BY <1>15 DEF Send
<1>16. ASSUME NEW c \in Clients, Connect(c) PROVE ReasonInv'
  BY <1>16 DEF Connect
<1>17. ASSUME NEW c \in Clients, ChildExit(c) PROVE ReasonInv'
  BY <1>17 DEF ChildExit
<1>18. ASSUME NEW content \in Contents, Edit(content) PROVE ReasonInv'
  BY <1>18 DEF Edit
<1>19. ASSUME NEW content \in Contents, Replace(content) PROVE ReasonInv'
  BY <1>19 DEF Replace
<1>20. CASE EditOther
  BY <1>20 DEF EditOther
<1>21. CASE Stopped
  BY <1>21 DEF Stopped, vars
<1>22. CASE UNCHANGED vars
  BY <1>22 DEF vars
<1>23. CASE InitFork
  BY <1>23 DEF InitFork
<1>24. CASE InitLock
  BY <1>24 DEF InitLock
<1>25. ASSUME NEW s \in Signals, SendOld(s) PROVE ReasonInv'
  BY <1>25 DEF SendOld
<1>26. CASE OldExit
  BY <1>26 DEF OldExit
<1>27. CASE Hold
  BY <1>27 DEF Hold
<1>28. CASE LetGo
  BY <1>28 DEF LetGo
<1> QED
  BY <1>1, <1>2, <1>3, <1>4, <1>5, <1>6, <1>7, <1>8, <1>9, <1>10, <1>11,
     <1>12, <1>13, <1>14, <1>15, <1>16, <1>17, <1>18, <1>19, <1>20, <1>21, <1>22,
     <1>23, <1>24, <1>25, <1>26, <1>27, <1>28
     DEF Next, Main, Handler, Outside

\* The inductive invariant holds of every behaviour.
THEOREM Invariance == Spec => []IInv
<1>1. ASSUME Init PROVE IInv
  <2>1. FlagsOK
    BY <1>1, BoundsAssumption DEF Init, FlagsOK
  <2>2. StatesOK
    BY <1>1 DEF Init, StatesOK, Contents
  <2>3. CountsOK
    BY <1>1, BoundsAssumption DEF Init, CountsOK, Signals
  <2>4. Down
    BY <1>1 DEF Init, Down
  <2>5. ReasonInv
    BY <1>1 DEF Init, ReasonInv, StopsForAReason, Told, Signals
  <2> QED
    BY <2>1, <2>2, <2>3, <2>4, <2>5 DEF IInv, TypeOK, Down
<1>2. IInv /\ [Next]_vars => IInv'
  BY FlagsStep, StatesStep, CountsStep, DownStep, ReasonStep DEF IInv, TypeOK, Down
<1> QED
  BY <1>1, <1>2, PTL DEF Spec

\* The type invariant, for any number of clients, signals and edits.
THEOREM TypeCorrect == Spec => []TypeOK
<1>1. IInv => TypeOK
  BY DEF IInv
<1> QED
  BY <1>1, Invariance, PTL

\* The daemon never gives up without having been told to, having met a fatal error or
\* having tested an unwritten status, whatever signals, children and edits interleave.
THEOREM StopsOnlyForAReason == Spec => []StopsForAReason
<1>1. IInv => StopsForAReason
  BY DEF IInv, ReasonInv
<1> QED
  BY <1>1, Invariance, PTL
=============================================================================
