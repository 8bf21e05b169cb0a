----------------------------- MODULE Ipc_proofs -----------------------------
(***************************************************************************)
(* The control interface for any clients, commands, requests, matrices     *)
(* and readings.  RootInv: only root can end the daemon.  CallInv: through *)
(* the stages of a call, what the child knows, packs and sends answers the *)
(* request by what was in effect since the call began; with the round trip *)
(* of Serialize_proofs, that is what fanctl prints.                        *)
(***************************************************************************)
EXTENDS Ipc, Serialize_proofs

ExitCodes == {0, 1, FAND_SERVER_EXIT}
Gets == {ipc_req_speed, ipc_req_temp, ipc_req_matrix}

\* What a run of fanctl has yet to ask for: --exit comes last.
CallsLeft == {<<>>, <<ipc_req_exit>>} \cup {<<g>> : g \in Gets}
               \cup {<<g, ipc_req_exit>> : g \in Gets}

RootTypes == /\ pc \in [Clients -> {"start", "connect", "send", "recv", "stay", "done"}]
             /\ calls \in [Clients -> CallsLeft]
             /\ sent \in [Clients -> -1 .. 255] /\ exitcode \in [Clients -> ExitCodes]

\* The code that ends the daemon was, and will be, returned only for root's request.
CodeInv == \A c \in Clients : c \in told \/ exitcode[c] = FAND_SERVER_EXIT =>
                                root[c] /\ sent[c] = ipc_req_exit

\* A client that has asked for the exit asks for nothing else afterwards.
LastInv == \A c \in Clients :
             /\ pc[c] \in {"start", "connect", "send"} => sent[c] # ipc_req_exit
             /\ pc[c] \in {"connect", "send", "recv"} /\ c \in Fanctls => calls[c] # <<>>
             /\ pc[c] = "recv" => c \in Fanctls /\ sent[c] = Head(calls[c])

RootInv == RootTypes /\ CodeInv /\ LastInv /\ told \subseteq Clients

\* The codes are distinct, and | 1 keeps what the SIGCHLD handler tells apart
\* (server.c:192, 199).
LEMMA OrOneCodes ==
  ASSUME NEW code \in ExitCodes
  PROVE  OrOne(code) \in ExitCodes /\ (OrOne(code) = FAND_SERVER_EXIT <=> code = FAND_SERVER_EXIT)
  BY DEF OrOne, ExitCodes, FAND_SERVER_EXIT

\* After --get there is at most the --exit left (main.c:73-88).
LEMMA CallsShrink ==
  ASSUME NEW s \in CallsLeft, s # <<>>
  PROVE  /\ Tail(s) \in CallsLeft
         /\ Head(s) \in ipc_valid_requests /\ Head(s) \in 0 .. 255
         /\ Len(s) > 1 => Head(s) # ipc_req_exit /\ Tail(s) # <<>>
<1> USE DEF Gets, ipc_req_exit, ipc_req_speed, ipc_req_temp, ipc_req_matrix, ipc_valid_requests
<1>1. CASE s = <<ipc_req_exit>>
  BY <1>1 DEF CallsLeft
<1>2. ASSUME NEW g \in Gets, s = <<g>>
      PROVE  Tail(s) = <<>> /\ Head(s) = g /\ Len(s) = 1
  BY <1>2
<1>3. ASSUME NEW g \in Gets, s = <<g, ipc_req_exit>>
      PROVE  Tail(s) = <<ipc_req_exit>> /\ Head(s) = g
  BY <1>3
<1>4. CASE \E g \in Gets : s = <<g>>
  BY <1>2, <1>4 DEF CallsLeft
<1>5. CASE \E g \in Gets : s = <<g, ipc_req_exit>>
  BY <1>3, <1>5 DEF CallsLeft
<1> QED
  BY <1>1, <1>4, <1>5 DEF CallsLeft

\* A child returns the code that ends the daemon for root's exit request only
\* (server.c:26-54, 162-173).
LEMMA ExitCodeRoot ==
  ASSUME NEW c, NEW request
  PROVE  /\ ExitCode(c, request) \in ExitCodes
         /\ ExitCode(c, request) = FAND_SERVER_EXIT =>
              root[c] /\ request = ipc_req_exit
  BY DEF ExitCode, ExitCodes, FAND_SERVER_EXIT, server_validate_request, ipc_req_exit,
         ipc_req_unprivileged, EACCES, EINVAL

\* Nothing has been asked for at the start.
LEMMA InitRoot == Init => RootInv
  BY DEF Init, RootInv, RootTypes, CodeInv, LastInv, CallsLeft, ExitCodes,
         FAND_SERVER_EXIT, ipc_req_exit

\* Every step keeps the invariant.
LEMMA StepRoot == RootInv /\ [Next]_vars => RootInv'
<1> SUFFICES ASSUME RootInv, [Next]_vars PROVE RootInv'
  OBVIOUS
<1> USE DEF RootInv, RootTypes, CodeInv, LastInv, child, client, world
<1>1. ASSUME NEW c \in Fanctls, Start(c) PROVE RootInv'
  <2> DEFINE target == cmd[c].target
  <2>1. c \in Clients /\ pc[c] = "start"
    BY <1>1 DEF Start, Clients
  <2>2. CASE calls' = calls /\ pc' = [pc EXCEPT ![c] = "done"]
    BY <1>1, <2>1, <2>2 DEF Start
  <2>3. CASE /\ target \in DOMAIN ipc_request_map \/ (target = "none" /\ cmd[c].exit)
             /\ calls' = [calls EXCEPT ![c] = Requests(cmd[c])]
             /\ pc' = [pc EXCEPT ![c] = "connect"]
    <3>1. target # "none" => ipc_request_map[target] \in Gets
      BY <2>3 DEF ipc_request_map, Gets
    <3>2. Requests(cmd[c]) \in CallsLeft /\ Requests(cmd[c]) # <<>>
      BY <3>1 DEF CallsLeft, Requests
    <3> QED
      BY <1>1, <2>1, <2>3, <3>2 DEF Start
  <2> QED
    BY <1>1, <2>2, <2>3 DEF Start, Call, Finish
<1>2. ASSUME NEW c \in Clients, Connect(c) PROVE RootInv'
  BY <1>2, SMTT(20) DEF Connect, ipc_req_exit
<1>3. ASSUME NEW c \in Fanctls, ConnectFails(c) PROVE RootInv'
  BY <1>3 DEF ConnectFails, CallFails, Finish, Clients
<1>4. ASSUME NEW c \in Fanctls, SendRequest(c) PROVE RootInv'
  <2>1. c \in Clients /\ pc[c] = "send" /\ calls[c] \in CallsLeft /\ calls[c] # <<>>
    BY <1>4 DEF SendRequest, Clients
  <2>2. Head(calls[c]) \in 0 .. 255
    BY <2>1, CallsShrink
  <2>3. ~(c \in told) /\ exitcode[c] # FAND_SERVER_EXIT
    BY <2>1
  <2>4. CASE sent' = sent /\ pc' = [pc EXCEPT ![c] = "done"]
    BY <1>4, <2>4 DEF SendRequest
  <2>5. CASE /\ sent' = [sent EXCEPT ![c] = Head(calls[c])]
             /\ pc' = [pc EXCEPT ![c] = "recv"]
    <3>1. sent' \in [Clients -> -1 .. 255]
      <4>1. PICK r \in 0 .. 255 : sent' = [sent EXCEPT ![c] = r]
        BY <2>2, <2>5
      <4>2. r \in -1 .. 255 /\ sent \in [Clients -> -1 .. 255]
        OBVIOUS
      <4> HIDE DEF RootInv, RootTypes
      <4> QED
        BY <2>1, <4>1, <4>2, SMTT(20)
    <3> QED
      BY <1>4, <2>1, <2>3, <2>5, <3>1 DEF SendRequest
  <2> QED
    BY <1>4, <2>4, <2>5 DEF SendRequest, Finish
<1>5. ASSUME NEW c \in Fanctls, Recv(c) PROVE RootInv'
  <2>1. PICK u \in Unpacked : Process(c, u.verdict)
    BY <1>5 DEF Recv
  <2>2. c \in Clients /\ pc[c] = "recv" /\ calls[c] # <<>> /\ sent[c] = Head(calls[c])
    BY <1>5 DEF Recv, Clients
  <2>3. /\ Tail(calls[c]) \in CallsLeft
        /\ Len(calls[c]) > 1 => sent[c] # ipc_req_exit /\ Tail(calls[c]) # <<>>
    BY <2>2, CallsShrink
  <2>4. /\ sent' = sent /\ exitcode' = exitcode /\ told' = told /\ root' = root
        /\ calls' \in {calls, [calls EXCEPT ![c] = Tail(calls[c])]}
        /\ \/ pc' = [pc EXCEPT ![c] = "done"]
           \/ /\ pc' = [pc EXCEPT ![c] = "connect"] /\ Len(calls[c]) > 1
              /\ calls' = [calls EXCEPT ![c] = Tail(calls[c])]
    BY <1>5, <2>1 DEF Recv, Process, Call, Finish
  <2>5. calls' \in [Clients -> CallsLeft] /\ \A d \in Clients \ {c} : calls'[d] = calls[d]
    BY <2>2, <2>3, <2>4, ZenonT(40)
  <2>6. CASE pc' = [pc EXCEPT ![c] = "done"]
    BY <2>2, <2>4, <2>5, <2>6
  <2>7. CASE /\ pc' = [pc EXCEPT ![c] = "connect"] /\ Len(calls[c]) > 1
             /\ calls' = [calls EXCEPT ![c] = Tail(calls[c])]
    <3>1. calls'[c] # <<>> /\ sent[c] # ipc_req_exit
      BY <2>2, <2>3, <2>7
    <3> QED
      BY <2>2, <2>4, <2>5, <2>7, <3>1
  <2> QED
    BY <2>4, <2>6, <2>7
<1>6. ASSUME NEW c \in Fanctls, RecvReset(c) \/ RecvTimeout(c) PROVE RootInv'
  BY <1>6, ZenonT(60) DEF RecvReset, RecvTimeout, CallFails, Finish, Clients
<1>7. ASSUME NEW c \in Strangers, StrangerSend(c) PROVE RootInv'
  <2>1. c \in Clients /\ c \notin Fanctls /\ pc[c] = "send"
    BY <1>7, PartiesAssumption DEF StrangerSend, Clients
  <2>2. ~(c \in told) /\ exitcode[c] # FAND_SERVER_EXIT
    BY <2>1
  <2>3. PICK request \in RawRequests : sent' = [sent EXCEPT ![c] = request]
    BY <1>7 DEF StrangerSend
  <2>4. request \in 0 .. 255
    BY RequestsAssumption
  <2> QED
    BY <1>7, <2>1, <2>2, <2>3, <2>4 DEF StrangerSend
<1>8. ASSUME NEW c \in Strangers, StrangerLeave(c) PROVE RootInv'
  BY <1>8 DEF StrangerLeave, Clients
<1>9. ASSUME NEW c \in Clients, Receive(c) PROVE RootInv'
  <2>1. CASE sent[c] = -1 /\ exitcode' = [exitcode EXCEPT ![c] = 1]
    BY <1>9, <2>1, SMTT(20) DEF Receive, ExitCodes, FAND_SERVER_EXIT
  <2>2. ASSUME NEW code, code = ExitCode(c, sent[c]) \/ code = OrOne(ExitCode(c, sent[c])),
               exitcode' = [exitcode EXCEPT ![c] = code]
        PROVE  RootInv'
    BY <1>9, <2>2, OrOneCodes, ExitCodeRoot, SMTT(20) DEF Receive
  <2> QED
    BY <1>9, <2>1, <2>2 DEF Receive
<1>10. ASSUME NEW c \in Clients, Respond(c) PROVE RootInv'
  BY <1>10, OrOneCodes, SMTT(20) DEF Respond
<1>11. ASSUME NEW c \in Clients, ChildExit(c) PROVE RootInv'
  BY <1>11, SMTT(20) DEF ChildExit, ExitCodes, FAND_SERVER_EXIT
<1>12. CASE PollAccept
  <2>1. CASE exitcode' = exitcode
    BY <1>12, <2>1 DEF PollAccept
  <2>2. CASE exitcode' = [exitcode EXCEPT ![Head(backlog)] = 0]
    <3>1. /\ exitcode' \in [Clients -> ExitCodes]
          /\ \A c \in Clients : exitcode'[c] \in {0, exitcode[c]}
      BY <2>2 DEF ExitCodes
    <3> QED
      BY <1>12, <3>1 DEF PollAccept, FAND_SERVER_EXIT
  <2> QED
    BY <1>12, <2>1, <2>2 DEF PollAccept
<1>13. CASE Stop
  BY <1>13 DEF Stop
<1>14. CASE Change
  BY <1>14 DEF Change
<1>15. CASE Done \/ UNCHANGED vars
  BY <1>15 DEF Done, vars
<1> QED
  BY <1>1, <1>2, <1>3, <1>4, <1>5, <1>6, <1>7, <1>8, <1>9, <1>10, <1>11, <1>12, <1>13,
     <1>14, <1>15 DEF Next, ClientStep, Child, Clients

\* The invariant: exit codes and requests never part, and --exit comes last.
THEOREM RootInvariant == Spec => []RootInv
<1> QED
  BY InitRoot, StepRoot, PTL DEF Spec

\* Nobody but root ends the daemon, by nothing but an exit request, for any clients and
\* whatever they send (server.c:26-54, 141-203).
THEOREM RootOnly == Spec => []OnlyRootStops
<1>1. RootInv => OnlyRootStops
  BY DEF RootInv, CodeInv, OnlyRootStops
<1> QED
  BY <1>1, RootInvariant, PTL

------------------------------------------------------------------------------
Errors == {"error"} \X {EAGAIN, EACCES, EINVAL}
States == [matrix : Matrices, sensor : Sensors]

\* The response is one to the request, by what was in effect at some time in S.
Serves(request, a, S) ==
  \/ a \in Errors
  \/ request = ipc_req_exit /\ a = <<"exit">>
  \/ request = ipc_req_speed /\ \E s \in S : s.sensor.speed # -1 /\ a = <<"reading", s.sensor.speed>>
  \/ request = ipc_req_temp /\ \E s \in S : s.sensor.temp # -1 /\ a = <<"reading", s.sensor.temp>>
  \/ request = ipc_req_matrix /\ \E s \in S : a = <<"matrix", s.matrix>>

Reply(request, bytes, S) ==
  \E a \in Responses : Serves(request, a, S) /\ bytes = Packing(a).bytes

ReplyTypes ==
  /\ status \in [Fanctls -> {"none", "0", "1", "killed"}] /\ output = [c \in Fanctls |-> output[c]]
  /\ conn \in [Clients -> {"none", "queued", "child", "respond", "exit", "closed",
                           "leaked", "dropped"}]
  /\ packed \in [Clients -> Messages] /\ answer \in [Clients -> Messages]
  /\ snapshot \in [Clients -> Matrices \cup {<<>>}] /\ seen \in [Fanctls -> SUBSET States]
  /\ matrix \in Matrices /\ sensor \in Sensors
  /\ cmd \in [Fanctls -> Commands] /\ root \in [Clients -> BOOLEAN]
  /\ up \in BOOLEAN /\ changes \in 0 .. MaxChanges

\* Who is queued waits there once, and nobody else.
QueueInv == /\ backlog \in Seq(Clients) /\ Len(backlog) <= SRVBACKLOG + 1
            /\ \A i \in DOMAIN backlog : conn[backlog[i]] = "queued"
            /\ \A i, j \in DOMAIN backlog : backlog[i] = backlog[j] => i = j

\* Where the connection is while the client does what it does.
ConnInv == \A c \in Clients :
  /\ pc[c] \in {"start", "connect"} => answer[c] = <<>> /\ conn[c] \in {"none", "exit", "closed"}
  /\ pc[c] = "send" => /\ answer[c] = <<>> /\ sent[c] = -1
                       /\ conn[c] \in {"queued", "child", "leaked", "dropped"}
  /\ answer[c] # <<>> => conn[c] \in {"exit", "closed"}

\* What the child knows was in effect during the call.
SeenInv == \A c \in Fanctls :
  /\ pc[c] \in {"connect", "send", "recv"} => Now \in seen[c]
  /\ pc[c] \in {"send", "recv"} /\ conn[c] = "child" => \E s \in seen[c] : s.matrix = snapshot[c]

\* What is sent answers the request, and a yes to an exit request goes with the exit code.
ReplyInv == \A c \in Fanctls : pc[c] = "recv" =>
  /\ conn[c] = "respond" =>
       /\ Reply(sent[c], packed[c], seen[c])
       /\ sent[c] = ipc_req_exit /\ packed[c][2] = ipc_rsp_ok => exitcode[c] = FAND_SERVER_EXIT
  /\ answer[c] # <<>> =>
       /\ Reply(sent[c], answer[c], seen[c])
       /\ sent[c] = ipc_req_exit /\ answer[c][2] = ipc_rsp_ok =>
            c \in told \/ (conn[c] = "exit" /\ exitcode[c] = FAND_SERVER_EXIT)

ConfirmInv == /\ confirmed \subseteq Fanctls
              /\ \A c \in confirmed : pc[c] = "done"
              /\ ConfirmedExit

CallInv == ReplyTypes /\ QueueInv /\ ConnInv /\ SeenInv /\ ReplyInv /\ ConfirmInv

\* The bytes of an errno (serialize.c:465-467).
LEMMA PackingError ==
  ASSUME NEW e \in {EAGAIN, EACCES, EINVAL}
  PROVE  /\ <<"error", e>> \in Responses /\ e \in 0 .. 255
         /\ Packing(<<"error", e>>) = [n |-> 6, bytes |-> <<6, 1, e, 0, 0, 0>>]
<1>1. e \in 0 .. 255
  BY DEF EAGAIN, EACCES, EINVAL
<1>2. Packing(<<"error", e>>) = pack_error(e)
  BY DEF Packing
<1>3. pack_error(e) = [n |-> 6, bytes |-> <<6, 1, e, 0, 0, 0>>]
  BY <1>1, ErrorTrip, Zenon
<1> QED
  BY <1>1, <1>2, <1>3, Zenon DEF Responses

\* The bytes of a speed or a temperature (serialize.c:469-480).
LEMMA PackingReading ==
  ASSUME NEW v \in Readings
  PROVE  /\ v \in 0 .. 255
         /\ Packing(<<"reading", v>>) = [n |-> 6, bytes |-> <<6, 0, v, 0, 0, 0>>]
<1>1. v \in 0 .. 255
  <2>1. PICK s \in Sensors : v \in {s.speed, s.temp} /\ v # -1
    <3>1. PICK x \in {{s.speed, s.temp} : s \in Sensors} : v \in x
      BY DEF Readings
    <3>2. PICK s \in Sensors : x = {s.speed, s.temp}
      OBVIOUS
    <3>3. v # -1
      BY DEF Readings
    <3> QED
      BY <3>1, <3>2, <3>3, Zenon
  <2> QED
    BY <2>1, SensorsAssumption
<1>2. Packing(<<"reading", v>>) = pack_int(v)
  BY DEF Packing
<1> QED
  BY <1>1, <1>2, IntTrip, Zenon

\* The bytes of a matrix (serialize.c:485-488).
LEMMA PackingMatrix ==
  ASSUME NEW m \in Matrices
  PROVE  \E n \in 1 .. 16 :
           /\ m \in [1 .. 2 * n -> 0 .. 255] /\ m \in Seq(0 .. 255) /\ Len(m) = 2 * n
           /\ Packing(<<"matrix", m>>) = [n |-> 3 + 2 * n, bytes |-> <<3 + 2 * n, 0, n>> \o m]
<1>1. PICK n \in 1 .. 16 : m \in [1 .. 2 * n -> 0 .. 255]
  BY MatricesAssumption, ZenonT(30) DEF MAX_TEMP_THRESHOLDS
<1>2. m \in Seq(0 .. 255) /\ Len(m) = 2 * n
  BY <1>1
<1>3. Packing(<<"matrix", m>>) = pack_matrix(m)
  BY DEF Packing
<1>4. pack_matrix(m) = [n |-> 3 + 2 * n, bytes |-> <<3 + 2 * n, 0, n>> \o m]
  BY <1>1, PackMatrix, ZenonT(30)
<1> QED
  BY <1>1, <1>2, <1>3, <1>4, ZenonT(30)

\* The bytes of the answer to an exit request (serialize.c:521-523).
LEMMA PackingExit == Packing(<<"exit">>) = [n |-> 2, bytes |-> <<2, 0>>]
<1>1. Packing(<<"exit">>) = pack_exit_rsp
  BY DEF Packing
<1> QED
  BY <1>1, PackExit, Zenon

\* The four kinds of answers.
LEMMA ResponseKinds ==
  ASSUME NEW a \in Responses
  PROVE  \/ \E e \in {EAGAIN, EACCES, EINVAL} : a = <<"error", e>>
         \/ \E v \in Readings : a = <<"reading", v>>
         \/ \E m \in Matrices : a = <<"matrix", m>>
         \/ a = <<"exit">>
  BY DEF Responses

\* Every answer fits, and its second byte is the verdict (server.c:141-203, ipc.h:7).
THEOREM AnswersFit ==
  \A a \in Responses :
    /\ Packing(a).n \in 0 .. IPC_MAX_MSG_LENGTH /\ Len(Packing(a).bytes) <= IPC_MAX_MSG_LENGTH
    /\ Packing(a).bytes # <<>>
    /\ Packing(a).bytes[2] = IF a \in Errors THEN ipc_rsp_err ELSE ipc_rsp_ok
<1> SUFFICES ASSUME NEW a \in Responses
             PROVE  /\ Packing(a).n \in 0 .. IPC_MAX_MSG_LENGTH /\ Len(Packing(a).bytes) <= IPC_MAX_MSG_LENGTH
                    /\ Packing(a).bytes # <<>>
                    /\ Packing(a).bytes[2] = IF a \in Errors THEN ipc_rsp_err ELSE ipc_rsp_ok
  OBVIOUS
<1> USE DEF IPC_MAX_MSG_LENGTH, ipc_rsp_err, ipc_rsp_ok
<1>1. ASSUME NEW e \in {EAGAIN, EACCES, EINVAL}, a = <<"error", e>>
      PROVE  /\ Packing(a).n = 6 /\ Len(Packing(a).bytes) = 6 /\ Packing(a).bytes[2] = 1
             /\ a \in Errors
  BY <1>1, PackingError DEF Errors
<1>2. ASSUME NEW v \in Readings, a = <<"reading", v>>
      PROVE  /\ Packing(a).n = 6 /\ Len(Packing(a).bytes) = 6 /\ Packing(a).bytes[2] = 0
             /\ a \notin Errors
  <2>1. Packing(a) = [n |-> 6, bytes |-> <<6, 0, v, 0, 0, 0>>]
    BY <1>2, PackingReading
  <2>2. a \notin Errors
    BY <1>2 DEF Errors
  <2> QED
    BY <2>1, <2>2
<1>3. ASSUME NEW m \in Matrices, a = <<"matrix", m>>
      PROVE  /\ Packing(a).n \in 0 .. 48 /\ Len(Packing(a).bytes) \in 3 .. 48
             /\ Packing(a).bytes[2] = 0 /\ a \notin Errors
  <2>1. PICK n \in 1 .. 16 :
           /\ m \in [1 .. 2 * n -> 0 .. 255]
           /\ Packing(a) = [n |-> 3 + 2 * n, bytes |-> <<3 + 2 * n, 0, n>> \o m]
    BY <1>3, PackingMatrix, ZenonT(30)
  <2> DEFINE b == <<3 + 2 * n, 0, n>> \o m
  <2>2. Len(b) = 3 + 2 * n /\ b[2] = 0
    BY <2>1, MatrixBytes, ZenonT(30)
  <2>3. Packing(a).n = 3 + 2 * n /\ Packing(a).bytes = b
    <3> HIDE DEF b
    <3>1. Packing(a) = [n |-> 3 + 2 * n, bytes |-> b]
      BY <2>1 DEF b
    <3> QED
      BY <3>1
  <2>4. a \notin Errors
    BY <1>3 DEF Errors
  <2> HIDE DEF b
  <2>5. 3 + 2 * n \in 0 .. 48 /\ 3 + 2 * n \in 3 .. 48
    OBVIOUS
  <2> QED
    BY <2>2, <2>3, <2>4, <2>5, ZenonT(30)
<1>4. ASSUME a = <<"exit">>
      PROVE  /\ Packing(a).n = 2 /\ Len(Packing(a).bytes) = 2 /\ Packing(a).bytes[2] = 0
             /\ a \notin Errors
  BY <1>4, PackingExit DEF Errors
<1>5. /\ Packing(a).n \in 0 .. 48 /\ Len(Packing(a).bytes) \in 1 .. 48
      /\ Packing(a).bytes[2] = IF a \in Errors THEN 1 ELSE 0
  <2>1. CASE \E e \in {EAGAIN, EACCES, EINVAL} : a = <<"error", e>>
    BY <1>1, <2>1
  <2>2. CASE \E v \in Readings : a = <<"reading", v>>
    BY <1>2, <2>2
  <2>3. CASE \E m \in Matrices : a = <<"matrix", m>>
    BY <1>3, <2>3
  <2>4. CASE a = <<"exit">>
    BY <1>4, <2>4
  <2> QED
    BY <2>1, <2>2, <2>3, <2>4, ResponseKinds, Zenon
<1>6. ASSUME Packing(a).bytes = <<>> PROVE FALSE
  <2>1. Len(<<>>) = 0
    OBVIOUS
  <2> QED
    BY <1>5, <1>6, <2>1
<1>7. ASSUME NEW y \in 1 .. 48 PROVE y <= 48
  OBVIOUS
<1> QED
  BY <1>5, <1>6, <1>7, Zenon

\* What is made of nothing, for any request.
LEMMA NothingUnderstood ==
  ASSUME NEW request \in ipc_valid_requests
  PROVE  Unpacking(request, <<>>).rsp # ipc_rsp_ok
<1> USE DEF ipc_req_speed, ipc_req_temp, ipc_req_matrix, ipc_req_exit
<1>1. Unpacking(request, <<>>) \in {unpack_int(<<>>), unpack_matrix(<<>>), unpack_exit_rsp(<<>>)}
  BY DEF Unpacking, ipc_valid_requests
<1> QED
  BY <1>1, NothingTrip DEF ipc_rsp_ok

\* A reply to a request is understood: it fails only if it says so, and its values are
\* those in effect.
LEMMA Understood ==
  ASSUME NEW request \in ipc_valid_requests, NEW S \in SUBSET States, NEW b, Reply(request, b, S)
  PROVE  LET v == Unpacking(request, b) IN
         /\ b # <<>>
         /\ v.rsp # ipc_rsp_ok => b[2] = ipc_rsp_err
         /\ v.rsp = ipc_rsp_ok => b[2] = ipc_rsp_ok
         /\ v.rsp = ipc_rsp_ok /\ request # ipc_req_exit => \E s \in S : v.vals \in Answers(request, s)
<1>1. PICK a \in Responses : Serves(request, a, S) /\ b = Packing(a).bytes
  BY DEF Reply
<1> DEFINE v == Unpacking(request, b)
<1>2. b # <<>> /\ b[2] = IF a \in Errors THEN ipc_rsp_err ELSE ipc_rsp_ok
  BY <1>1, AnswersFit
<1>3. /\ request \in {ipc_req_speed, ipc_req_temp} => v = unpack_int(b)
      /\ request = ipc_req_matrix => v = unpack_matrix(b)
      /\ request = ipc_req_exit => v = unpack_exit_rsp(b)
  BY DEF Unpacking, ipc_req_speed, ipc_req_temp, ipc_req_matrix, ipc_req_exit
<1>4. ipc_rsp_ok # ipc_rsp_err
  BY DEF ipc_rsp_ok, ipc_rsp_err
<1>5. CASE a \in Errors
  <2>1. PICK e \in {EAGAIN, EACCES, EINVAL} : a = <<"error", e>>
    BY <1>5 DEF Errors
  <2>2. e \in 0 .. 255 /\ b = <<6, 1, e, 0, 0, 0>>
    <3>1. Packing(a) = [n |-> 6, bytes |-> <<6, 1, e, 0, 0, 0>>] /\ e \in 0 .. 255
      BY <2>1, PackingError
    <3> QED
      BY <1>1, <3>1
  <2>3. unpack_int(b).rsp = 1 /\ unpack_matrix(b).rsp = 1 /\ unpack_exit_rsp(b).rsp = 1
    BY <2>2, ErrorTrip, Zenon
  <2>4. v.rsp = ipc_rsp_err
    BY <1>3, <2>3 DEF ipc_rsp_err, ipc_valid_requests
  <2> QED
    BY <1>2, <1>4, <1>5, <2>4
<1>6. CASE request = ipc_req_exit /\ a = <<"exit">>
  <2>1. b = <<2, 0>>
    BY <1>1, <1>6, PackingExit
  <2>2. v.rsp = ipc_rsp_ok
    BY <1>3, <1>6, <2>1, ExitTrip DEF ipc_rsp_ok
  <2>3. a \notin Errors
    BY <1>6 DEF Errors
  <2> QED
    BY <1>2, <1>6, <2>2, <2>3
<1>7. ASSUME NEW s \in S, NEW x, x # -1, a = <<"reading", x>>,
             \/ request = ipc_req_speed /\ x = s.sensor.speed
             \/ request = ipc_req_temp /\ x = s.sensor.temp
      PROVE  v.rsp = ipc_rsp_ok /\ v.vals \in Answers(request, s) /\ a \notin Errors
  <2>1. x \in Readings
    BY <1>7, ResponseKinds
  <2>2. x \in 0 .. 255 /\ b = <<6, 0, x, 0, 0, 0>>
    <3>1. Packing(a) = [n |-> 6, bytes |-> <<6, 0, x, 0, 0, 0>>] /\ x \in 0 .. 255
      BY <1>7, <2>1, PackingReading
    <3> QED
      BY <1>1, <3>1
  <2>3. unpack_int(b) = [rsp |-> 0, vals |-> <<x>>]
    BY <2>2, IntTrip, Zenon
  <2>4. v.rsp = 0 /\ v.vals = <<x>>
    BY <1>3, <1>7, <2>3
  <2>5. <<x>> \in Answers(request, s)
    <3>1. Answers(request, s) = {<<y>> : y \in {x} \ {-1}}
      BY <1>7 DEF Answers, ipc_req_speed, ipc_req_temp, ipc_req_matrix
    <3> QED
      BY <1>7, <3>1
  <2>6. a \notin Errors
    BY <1>7 DEF Errors
  <2> QED
    BY <2>4, <2>5, <2>6 DEF ipc_rsp_ok
<1>8. ASSUME NEW s \in S, a = <<"matrix", s.matrix>>, request = ipc_req_matrix
      PROVE  v.rsp = ipc_rsp_ok /\ v.vals \in Answers(request, s) /\ a \notin Errors
  <2> DEFINE m == s.matrix
  <2>1. m \in Matrices
    BY DEF States
  <2>2. PICK n \in 1 .. 16 :
           /\ m \in [1 .. 2 * n -> 0 .. 255] /\ Len(m) = 2 * n
           /\ Packing(a) = [n |-> 3 + 2 * n, bytes |-> <<3 + 2 * n, 0, n>> \o m]
    <3> HIDE DEF m
    <3> QED
      BY <1>8, <2>1, PackingMatrix, Zenon DEF m
  <2>3. unpack_matrix(<<3 + 2 * n, 0, n>> \o m) = [rsp |-> 0, vals |-> <<n>> \o m]
    <3> HIDE DEF m
    <3> QED
      BY <2>2, MatrixTrip, Zenon
  <2>4. b = <<3 + 2 * n, 0, n>> \o m
    <3> DEFINE t == <<3 + 2 * n, 0, n>> \o m
    <3>1. Packing(a) = [n |-> 3 + 2 * n, bytes |-> t]
      BY <2>2, Zenon
    <3> HIDE DEF t
    <3>2. Packing(a).bytes = t
      BY <3>1
    <3> QED
      BY <1>1, <3>2, Zenon DEF t
  <2>5. v = [rsp |-> 0, vals |-> <<n>> \o m]
    BY <1>3, <1>8, <2>3, <2>4, Zenon
  <2>6. v.rsp = 0 /\ v.vals = <<n>> \o m
    <3> DEFINE t == <<n>> \o m
    <3>1. v = [rsp |-> 0, vals |-> t]
      BY <2>5, Zenon
    <3> HIDE DEF t, v
    <3>2. v.rsp = 0 /\ v.vals = t
      BY <3>1
    <3> QED
      BY <3>2, Zenon DEF t
  <2>7. Len(s.matrix) \div 2 = n
    BY <2>2
  <2>8. Answers(request, s) = {<<n>> \o m}
    <3>1. Answers(request, s) = {<<Len(s.matrix) \div 2>> \o s.matrix}
      BY <1>8 DEF Answers, ipc_req_speed, ipc_req_temp, ipc_req_matrix
    <3> QED
      BY <2>7, <3>1, Zenon
  <2>9. a \notin Errors
    BY <1>8 DEF Errors
  <2> QED
    BY <2>6, <2>8, <2>9, Zenon DEF ipc_rsp_ok
<1> HIDE DEF v
<1>9. CASE \E s \in S : /\ v.rsp = ipc_rsp_ok /\ v.vals \in Answers(request, s) /\ a \notin Errors
  BY <1>2, <1>9 DEF v
<1> QED
  BY <1>1, <1>5, <1>6, <1>7, <1>8, <1>9, Zenon DEF Serves, v

\* There is no call at the start.
LEMMA InitCall == Init => CallInv
<1> SUFFICES ASSUME Init PROVE CallInv
  OBVIOUS
<1> USE DEF Init
<1>1. <<>> \in Messages /\ 0 \in 0 .. MaxChanges
  BY BoundsAssumption DEF Messages
<1>2. ReplyTypes
  BY <1>1 DEF ReplyTypes
<1>3. QueueInv
  BY BoundsAssumption DEF QueueInv
<1>4. ConnInv /\ SeenInv /\ ReplyInv
  BY PartiesAssumption DEF ConnInv, SeenInv, ReplyInv, Clients
<1>5. ConfirmInv
  BY DEF ConfirmInv, ConfirmedExit
<1> QED
  BY <1>2, <1>3, <1>4, <1>5 DEF CallInv

\* What a child packs is one of the messages.
LEMMA PackedMessages ==
  ASSUME NEW p \in Packed
  PROVE  /\ p.rsp.bytes \in Messages /\ p.response \in Responses /\ p.rsp = Packing(p.response)
         /\ ~(p.rsp.n < 0)
<1>1. PICK a \in Responses : p = [response |-> a, rsp |-> Packing(a)]
  BY DEF Packed
<1>2. ~(Packing(a).n < 0)
  <2>1. Packing(a).n \in 0 .. 48
    BY AnswersFit DEF IPC_MAX_MSG_LENGTH
  <2> QED
    BY <2>1
<1>3. p.rsp.bytes \in Messages
  BY DEF Messages
<1> QED
  BY <1>1, <1>2, <1>3

\* What is in effect is a matrix and the readings of the card.
LEMMA NowState == ReplyTypes => Now \in States /\ Now.matrix = matrix /\ Now.sensor = sensor
  BY DEF ReplyTypes, Now, States

\* Every step keeps the types.
LEMMA StepTypes == RootInv /\ CallInv /\ [Next]_vars => ReplyTypes'
<1> SUFFICES ASSUME RootInv, CallInv, [Next]_vars PROVE ReplyTypes'
  OBVIOUS
<1> USE DEF ReplyTypes, CallInv, child, client, world
<1>0. Now \in States /\ <<>> \in Messages
  BY NowState DEF Messages
<1>1. ASSUME NEW c \in Fanctls, Start(c) PROVE ReplyTypes'
  BY <1>0, <1>1 DEF Start, Call, Finish
<1>2. ASSUME NEW c \in Clients, Connect(c) PROVE ReplyTypes'
  BY <1>0, <1>2 DEF Connect
<1>3. ASSUME NEW c \in Fanctls, ConnectFails(c) \/ RecvReset(c) \/ RecvTimeout(c) PROVE ReplyTypes'
  BY <1>3 DEF ConnectFails, RecvReset, RecvTimeout, CallFails, Finish
<1>4. ASSUME NEW c \in Fanctls, SendRequest(c) PROVE ReplyTypes'
  BY <1>4 DEF SendRequest, Finish
<1>5. ASSUME NEW c \in Fanctls, Recv(c) PROVE ReplyTypes'
  <2>1. PICK u \in Unpacked : Process(c, u.verdict)
    BY <1>5 DEF Recv
  <2>2. /\ status' \in [Fanctls -> {"none", "0", "1", "killed"}]
        /\ seen' \in [Fanctls -> SUBSET States]
        /\ output' = [d \in Fanctls |-> output'[d]]
    BY <1>0, <2>1 DEF Process, Call, Finish
  <2>3. answer' \in [Clients -> Messages]
    BY <1>0, <1>5 DEF Recv
  <2> QED
    BY <1>5, <2>2, <2>3 DEF Recv
<1>6. ASSUME NEW c \in Strangers, StrangerSend(c) \/ StrangerLeave(c) PROVE ReplyTypes'
  BY <1>6 DEF StrangerSend, StrangerLeave
<1>7. ASSUME NEW c \in Clients, Receive(c) PROVE ReplyTypes'
  <2>1. packed' \in [Clients -> Messages]
    <3>1. CASE packed' = packed
      BY <3>1
    <3>2. ASSUME NEW p \in Packed, packed' = [packed EXCEPT ![c] = p.rsp.bytes]
          PROVE  packed' \in [Clients -> Messages]
      BY <3>2, PackedMessages
    <3> QED
      BY <1>7, <3>1, <3>2 DEF Receive
  <2>2. conn' \in {[conn EXCEPT ![c] = "exit"], [conn EXCEPT ![c] = "respond"]}
    BY <1>7 DEF Receive
  <2> QED
    BY <1>7, <2>1, <2>2 DEF Receive
<1>8. ASSUME NEW c \in Clients, Respond(c) \/ ChildExit(c) PROVE ReplyTypes'
  BY <1>0, <1>8 DEF Respond, ChildExit
<1>9. CASE PollAccept
  BY <1>9 DEF PollAccept
<1>10. CASE Stop
  BY <1>10 DEF Stop
<1>11. CASE Change
  <2>1. matrix' \in Matrices /\ sensor' \in Sensors /\ changes' \in 0 .. MaxChanges
    BY <1>11, BoundsAssumption DEF Change
  <2>2. Now' \in States
    BY <2>1 DEF Now, States
  <2>3. seen' \in [Fanctls -> SUBSET States]
    BY <1>11, <2>2 DEF Change
  <2> QED
    BY <1>11, <2>1, <2>3 DEF Change
<1>12. CASE Done \/ UNCHANGED vars
  BY <1>12 DEF Done, vars
<1> QED
  BY <1>1, <1>2, <1>3, <1>4, <1>5, <1>6, <1>7, <1>8, <1>9, <1>10, <1>11, <1>12
     DEF Next, ClientStep, Child, Clients

\* Every step keeps the queue: who connects was not in it, who is accepted leaves it.
LEMMA StepQueue == RootInv /\ CallInv /\ [Next]_vars => QueueInv'
<1> SUFFICES ASSUME RootInv, CallInv, [Next]_vars PROVE QueueInv'
  OBVIOUS
<1> USE DEF QueueInv, CallInv, child, client, world
<1>1. CASE backlog' = backlog /\ \A d \in Clients : conn[d] = "queued" => conn'[d] = "queued"
  <2>1. \A i \in DOMAIN backlog : backlog[i] \in Clients
    OBVIOUS
  <2> QED
    BY <1>1, <2>1
<1>2. ASSUME NEW c \in Clients, Connect(c) PROVE QueueInv'
  <2>1. \A i \in DOMAIN backlog : backlog[i] # c
    BY <1>2 DEF Connect, ConnInv
  <2>2. /\ backlog' \in Seq(Clients) /\ Len(backlog') = Len(backlog) + 1
        /\ \A i \in 1 .. Len(backlog) : backlog'[i] = backlog[i]
        /\ backlog'[Len(backlog) + 1] = c
    BY <1>2 DEF Connect
  <2>3. conn'[c] = "queued" /\ \A d \in Clients \ {c} : conn'[d] = conn[d]
    BY <1>2 DEF Connect, ReplyTypes
  <2>4. Len(backlog') <= SRVBACKLOG + 1
    BY <1>2, <2>2, BoundsAssumption DEF Connect
  <2>5. \A i \in DOMAIN backlog : backlog[i] \in Clients
    OBVIOUS
  <2>6. \A i \in DOMAIN backlog' : conn'[backlog'[i]] = "queued"
    BY <2>1, <2>2, <2>3, <2>5
  <2>7. \A i, j \in DOMAIN backlog' : backlog'[i] = backlog'[j] => i = j
    BY <2>1, <2>2
  <2> QED
    BY <2>2, <2>4, <2>6, <2>7
<1>3. CASE PollAccept
  <2>1. backlog # <<>> /\ backlog' = Tail(backlog)
    BY <1>3 DEF PollAccept
  <2> DEFINE c == Head(backlog)
  <2>2. /\ c \in Clients /\ Tail(backlog) \in Seq(Clients) /\ Len(Tail(backlog)) = Len(backlog) - 1
        /\ c = backlog[1] /\ \A i \in 1 .. Len(backlog) - 1 : Tail(backlog)[i] = backlog[i + 1]
    BY <2>1
  <2>3. \A d \in Clients \ {c} : conn'[d] = conn[d]
    BY <1>3 DEF PollAccept, ReplyTypes
  <2>4. \A i \in 1 .. Len(backlog) - 1 : backlog[i + 1] # c /\ backlog[i + 1] \in Clients
    BY <2>2
  <2>5. \A i \in DOMAIN backlog' : conn'[backlog'[i]] = "queued"
    BY <2>1, <2>2, <2>3, <2>4
  <2>6. \A i, j \in DOMAIN backlog' : backlog'[i] = backlog'[j] => i = j
    BY <2>1, <2>2
  <2>7. Len(backlog') <= SRVBACKLOG + 1
    BY <2>1, <2>2, BoundsAssumption
  <2> QED
    BY <2>1, <2>2, <2>5, <2>6, <2>7
<1>4. CASE Stop
  BY <1>4, BoundsAssumption DEF Stop
<1>5. ASSUME NEW c \in Fanctls, \/ Start(c) \/ ConnectFails(c) \/ SendRequest(c) \/ Recv(c)
                                \/ RecvReset(c) \/ RecvTimeout(c)
      PROVE  backlog' = backlog /\ conn' = conn
  BY <1>5 DEF Start, ConnectFails, SendRequest, Recv, RecvReset, RecvTimeout
<1>6. ASSUME NEW c \in Strangers, StrangerSend(c) \/ StrangerLeave(c)
      PROVE  backlog' = backlog /\ conn' = conn
  BY <1>6 DEF StrangerSend, StrangerLeave
<1>7. ASSUME NEW c \in Clients, Child(c)
      PROVE  backlog' = backlog /\ \A d \in Clients : conn[d] = "queued" => conn'[d] = "queued"
  <2>1. conn[c] # "queued" /\ \A d \in Clients \ {c} : conn'[d] = conn[d]
    BY <1>7 DEF Child, Receive, Respond, ChildExit, ReplyTypes
  <2> QED
    BY <1>7, <2>1 DEF Child, Receive, Respond, ChildExit
<1>8. CASE Change \/ Done \/ UNCHANGED vars
  BY <1>8 DEF Change, Done, vars
<1> QED
  BY <1>1, <1>2, <1>3, <1>4, <1>5, <1>6, <1>7, <1>8 DEF Next, ClientStep, Clients

\* And the stages of a connection.
LEMMA StepConn == RootInv /\ CallInv /\ [Next]_vars => ConnInv'
<1> SUFFICES ASSUME RootInv, CallInv, [Next]_vars PROVE ConnInv'
  OBVIOUS
<1> USE DEF ConnInv, CallInv, RootInv, RootTypes, ReplyTypes, child, client, world
<1>1. ASSUME NEW c \in Fanctls, Start(c) PROVE ConnInv'
  BY <1>1 DEF Start, Call, Finish, Clients
<1>2. ASSUME NEW c \in Clients, Connect(c) PROVE ConnInv'
  BY <1>2 DEF Connect
<1>3. ASSUME NEW c \in Fanctls, ConnectFails(c) \/ RecvReset(c) \/ RecvTimeout(c) PROVE ConnInv'
  BY <1>3 DEF ConnectFails, RecvReset, RecvTimeout, CallFails, Finish, Clients
<1>4. ASSUME NEW c \in Fanctls, SendRequest(c) PROVE ConnInv'
  BY <1>4 DEF SendRequest, Finish, Clients
<1>5. ASSUME NEW c \in Fanctls, Recv(c) PROVE ConnInv'
  <2>1. PICK u \in Unpacked : u.request = Head(calls[c]) /\ u.bytes = answer[c] /\ Process(c, u.verdict)
    BY <1>5 DEF Recv
  <2>2. c \in Clients /\ pc[c] = "recv" /\ calls[c] # <<>> /\ calls[c] \in CallsLeft
    BY <1>5 DEF Recv, Clients, LastInv
  <2>3. u.verdict = Unpacking(Head(calls[c]), answer[c]) /\ Head(calls[c]) \in ipc_valid_requests
    BY <2>1, <2>2, CallsShrink DEF Unpacked
  <2>4. answer[c] = <<>> => pc' = [pc EXCEPT ![c] = "done"]
    BY <2>1, <2>3, NothingUnderstood DEF Process, Finish
  <2>5. pc' \in {[pc EXCEPT ![c] = "done"], [pc EXCEPT ![c] = "connect"]}
    BY <2>1 DEF Process, Finish, Call
  <2>6. answer' = [answer EXCEPT ![c] = <<>>] /\ conn' = conn /\ sent' = sent
    BY <1>5 DEF Recv
  <2> QED
    BY <2>2, <2>4, <2>5, <2>6
<1>6. ASSUME NEW c \in Strangers, StrangerSend(c) \/ StrangerLeave(c) PROVE ConnInv'
  BY <1>6 DEF StrangerSend, StrangerLeave, Clients
<1>7. ASSUME NEW c \in Clients, Receive(c) PROVE ConnInv'
  <2>1. /\ conn' \in {[conn EXCEPT ![c] = "exit"], [conn EXCEPT ![c] = "respond"]}
        /\ answer' = answer /\ sent' = sent /\ pc' = pc /\ conn[c] = "child"
        /\ sent[c] # -1 \/ pc[c] = "done"
    BY <1>7 DEF Receive
  <2> QED
    BY <2>1
<1>8. ASSUME NEW c \in Clients, Respond(c) \/ ChildExit(c) PROVE ConnInv'
  BY <1>8 DEF Respond, ChildExit
<1>9. CASE PollAccept
  <2>1. Head(backlog) \in Clients /\ conn[Head(backlog)] = "queued"
    BY <1>9 DEF PollAccept, QueueInv
  <2>2. conn' \in {[conn EXCEPT ![Head(backlog)] = "child"], [conn EXCEPT ![Head(backlog)] = "leaked"]}
    BY <1>9 DEF PollAccept
  <2> QED
    BY <1>9, <2>1, <2>2 DEF PollAccept
<1>10. CASE Stop
  BY <1>10 DEF Stop
<1>11. CASE Change \/ Done \/ UNCHANGED vars
  BY <1>11 DEF Change, Done, vars
<1> QED
  BY <1>1, <1>2, <1>3, <1>4, <1>5, <1>6, <1>7, <1>8, <1>9, <1>10, <1>11
     DEF Next, ClientStep, Child, Clients

\* And that what a child knows was in effect during the call.
LEMMA StepSeen == RootInv /\ CallInv /\ [Next]_vars => SeenInv'
<1> SUFFICES ASSUME RootInv, CallInv, [Next]_vars PROVE SeenInv'
  OBVIOUS
<1> USE DEF SeenInv, CallInv, RootInv, RootTypes, ReplyTypes, child, client, world
<1>0. Now.matrix = matrix
  BY DEF Now
<1>1. ASSUME NEW c \in Fanctls, Start(c) PROVE SeenInv'
  BY <1>1 DEF Start, Call, Finish, Clients, Now
<1>2. ASSUME NEW c \in Clients, Connect(c) PROVE SeenInv'
  BY <1>2 DEF Connect, Now, Clients
<1>3. ASSUME NEW c \in Fanctls, ConnectFails(c) \/ RecvReset(c) \/ RecvTimeout(c) PROVE SeenInv'
  BY <1>3 DEF ConnectFails, RecvReset, RecvTimeout, CallFails, Finish, Clients, Now
<1>4. ASSUME NEW c \in Fanctls, SendRequest(c) PROVE SeenInv'
  BY <1>4 DEF SendRequest, Finish, Clients, Now
<1>5. ASSUME NEW c \in Fanctls, Recv(c) PROVE SeenInv'
  <2>1. PICK u \in Unpacked : Process(c, u.verdict)
    BY <1>5 DEF Recv
  <2>2. \/ pc' = [pc EXCEPT ![c] = "done"] /\ seen' = [seen EXCEPT ![c] = {}]
        \/ pc' = [pc EXCEPT ![c] = "connect"] /\ seen' = [seen EXCEPT ![c] = {Now}]
    BY <2>1 DEF Process, Finish, Call
  <2>3. Now' = Now /\ conn' = conn /\ snapshot' = snapshot
    BY <1>5 DEF Recv, Now
  <2> QED
    BY <2>2, <2>3 DEF Clients
<1>6. ASSUME NEW c \in Strangers, StrangerSend(c) \/ StrangerLeave(c) PROVE SeenInv'
  BY <1>6, PartiesAssumption DEF StrangerSend, StrangerLeave, Clients, Now
<1>7. ASSUME NEW c \in Clients, Child(c) PROVE SeenInv'
  <2>1. /\ pc' = pc /\ seen' = seen /\ Now' = Now
        /\ \A d \in Clients : conn'[d] = "child" => conn[d] = "child" /\ snapshot'[d] = snapshot[d]
    <3>1. /\ pc' = pc /\ seen' = seen /\ Now' = Now
          /\ \A d \in Clients \ {c} : conn'[d] = conn[d] /\ snapshot'[d] = snapshot[d]
      BY <1>7 DEF Child, Receive, Respond, ChildExit, Now
    <3>2. conn'[c] # "child"
      BY <1>7 DEF Child, Receive, Respond, ChildExit
    <3> QED
      BY <3>1, <3>2
  <2> QED
    BY <2>1 DEF Clients
<1>8. CASE PollAccept
  <2> DEFINE c == Head(backlog)
  <2>1. c \in Clients /\ conn[c] = "queued"
    BY <1>8 DEF PollAccept, QueueInv
  <2>2. /\ pc' = pc /\ seen' = seen /\ Now' = Now
        /\ \A d \in Clients \ {c} : conn'[d] = conn[d] /\ snapshot'[d] = snapshot[d]
        /\ conn'[c] = "child" => snapshot'[c] = matrix
    BY <1>8, <2>1 DEF PollAccept, Now
  <2> HIDE DEF c
  <2> QED
    BY <1>0, <2>1, <2>2 DEF Clients
<1>9. CASE Stop
  BY <1>9 DEF Stop, Now, Clients
<1>10. CASE Change
  BY <1>10 DEF Change, Clients
<1>11. CASE Done \/ UNCHANGED vars
  BY <1>11 DEF Done, vars, Now
<1> QED
  BY <1>1, <1>2, <1>3, <1>4, <1>5, <1>6, <1>7, <1>8, <1>9, <1>10, <1>11
     DEF Next, ClientStep, Clients

\* What was in effect stays so: an answer remains one when more is seen.
LEMMA ReplyMonotone ==
  ASSUME NEW request, NEW bytes, NEW S, NEW T, S \subseteq T, Reply(request, bytes, S)
  PROVE  Reply(request, bytes, T)
<1>1. PICK a \in Responses : Serves(request, a, S) /\ bytes = Packing(a).bytes
  BY DEF Reply
<1>2. Serves(request, a, T)
  BY <1>1 DEF Serves
<1> QED
  BY <1>1, <1>2 DEF Reply

\* The response of a child is one to the request (server.c:26-75, 141-188).
LEMMA ResponseServes ==
  ASSUME NEW c, NEW request, NEW S, Now \in S, \E s \in S : s.matrix = snapshot[c],
         sensor \in Sensors
  PROVE  Serves(request, Response(c, request), S)
<1> DEFINE error == server_validate_request(c, request)
           a == Response(c, request)
<1>1. error \in {0, EACCES, EINVAL}
  BY DEF server_validate_request
<1>2. CASE error # 0
  <2>1. a = <<"error", error>>
    BY <1>2 DEF Response
  <2> QED
    BY <1>1, <1>2, <2>1 DEF Serves, Errors
<1>3. CASE error = 0
  <2>1. request \in ipc_valid_requests
    BY <1>3 DEF server_validate_request, EINVAL
  <2>2. CASE request = ipc_req_exit
    BY <1>3, <2>2 DEF Response, Serves
  <2>3. CASE request = ipc_req_matrix
    <3>1. a = <<"matrix", snapshot[c]>>
      BY <1>3, <2>3 DEF Response, ipc_req_exit, ipc_req_matrix
    <3> QED
      BY <2>3, <3>1 DEF Serves
  <2>4. CASE request \in {ipc_req_speed, ipc_req_temp}
    <3> DEFINE x == IF request = ipc_req_speed THEN sensor.speed ELSE sensor.temp
    <3>1. a = IF x < 0 THEN <<"error", EAGAIN>> ELSE <<"reading", x>>
      BY <1>3, <2>4 DEF Response, server_pack_result, ipc_req_exit, ipc_req_matrix, ipc_req_speed,
                        ipc_req_temp
    <3>2. x \in Int
      BY SensorsAssumption
    <3>3. CASE x < 0
      BY <3>1, <3>3 DEF Serves, Errors
    <3>4. CASE ~(x < 0)
      <4>1. a = <<"reading", x>> /\ x # -1
        BY <3>1, <3>2, <3>4
      <4>2. Now.sensor = sensor
        BY DEF Now
      <4>3. request = ipc_req_speed => x = Now.sensor.speed
        BY <4>2
      <4>4. request = ipc_req_temp => x = Now.sensor.temp
        BY <4>2 DEF ipc_req_speed, ipc_req_temp
      <4> HIDE DEF x, a
      <4> QED
        BY <2>4, <4>1, <4>3, <4>4 DEF Serves, a
    <3> QED
      BY <3>3, <3>4
  <2> QED
    BY <2>1, <2>2, <2>3, <2>4 DEF ipc_valid_requests
<1> QED
  BY <1>2, <1>3

\* A yes to an exit request goes with the exit code (server.c:169-173).
LEMMA ExitResponse ==
  ASSUME NEW c, Response(c, ipc_req_exit) \notin Errors
  PROVE  ExitCode(c, ipc_req_exit) = FAND_SERVER_EXIT
<1> DEFINE error == server_validate_request(c, ipc_req_exit)
<1>1. error \in {0, EACCES, EINVAL}
  BY DEF server_validate_request
<1>2. error # 0 => Response(c, ipc_req_exit) = <<"error", error>>
  BY DEF Response
<1>3. error = 0
  BY <1>1, <1>2 DEF Errors
<1> QED
  BY <1>3 DEF ExitCode

\* And that what is sent answers the request.
LEMMA StepReply == RootInv /\ CallInv /\ [Next]_vars => ReplyInv'
<1> SUFFICES ASSUME RootInv, CallInv, [Next]_vars PROVE ReplyInv'
  OBVIOUS
<1> USE DEF ReplyInv, CallInv, RootInv, RootTypes, ReplyTypes, child, client, world
<1>1. ASSUME NEW c \in Fanctls,
             \/ Start(c) \/ ConnectFails(c) \/ Recv(c) \/ RecvReset(c) \/ RecvTimeout(c)
      PROVE  ReplyInv'
  <2>1. /\ conn' = conn /\ packed' = packed /\ sent' = sent /\ exitcode' = exitcode
        /\ told' = told
        /\ answer' \in {answer, [answer EXCEPT ![c] = <<>>]}
    BY <1>1 DEF Start, ConnectFails, Recv, RecvReset, RecvTimeout
  <2>2. pc'[c] # "recv" /\ \A d \in Clients \ {c} : pc'[d] = pc[d]
    BY <1>1 DEF Start, ConnectFails, Recv, RecvReset, RecvTimeout, CallFails, Process, Call,
                Finish, Clients
  <2>3. \A d \in Fanctls \ {c} : seen'[d] = seen[d]
    BY <1>1 DEF Start, ConnectFails, Recv, RecvReset, RecvTimeout, CallFails, Process, Call,
                Finish
  <2> QED
    BY <2>1, <2>2, <2>3 DEF Clients
<1>2. ASSUME NEW c \in Clients, Connect(c) PROVE ReplyInv'
  BY <1>2 DEF Connect, Clients
<1>3. ASSUME NEW c \in Fanctls, SendRequest(c) PROVE ReplyInv'
  <2>1. c \in Clients /\ answer[c] = <<>> /\ conn[c] # "respond"
    BY <1>3 DEF SendRequest, ConnInv, Clients
  <2>2. /\ conn' = conn /\ packed' = packed /\ exitcode' = exitcode /\ told' = told
        /\ answer' = answer
        /\ \A d \in Clients \ {c} : pc'[d] = pc[d] /\ sent'[d] = sent[d]
        /\ \A d \in Fanctls \ {c} : seen'[d] = seen[d]
    BY <1>3 DEF SendRequest, Finish
  <2> QED
    BY <2>1, <2>2 DEF Clients
<1>4. ASSUME NEW c \in Strangers, StrangerSend(c) \/ StrangerLeave(c) PROVE ReplyInv'
  <2>1. /\ conn' = conn /\ packed' = packed /\ exitcode' = exitcode /\ told' = told
        /\ answer' = answer /\ seen' = seen
        /\ \A d \in Clients \ {c} : pc'[d] = pc[d] /\ sent'[d] = sent[d]
    BY <1>4 DEF StrangerSend, StrangerLeave
  <2> QED
    BY <2>1, PartiesAssumption DEF Clients
<1>5. ASSUME NEW c \in Clients, Receive(c) PROVE ReplyInv'
  <2>1. /\ pc' = pc /\ sent' = sent /\ told' = told /\ answer' = answer /\ seen' = seen
        /\ \A d \in Clients \ {c} : /\ conn'[d] = conn[d] /\ packed'[d] = packed[d]
                                    /\ exitcode'[d] = exitcode[d]
    BY <1>5 DEF Receive
  <2>2. answer[c] = <<>>
    BY <1>5 DEF Receive, ConnInv
  <2>3. ASSUME c \in Fanctls, pc[c] = "recv", conn'[c] = "respond"
        PROVE  /\ Reply(sent[c], packed'[c], seen[c])
               /\ sent[c] = ipc_req_exit /\ packed'[c][2] = ipc_rsp_ok =>
                    exitcode'[c] = FAND_SERVER_EXIT
    <3>1. PICK p \in Packed : /\ p.response = Response(c, sent[c])
                              /\ packed' = [packed EXCEPT ![c] = p.rsp.bytes]
                              /\ exitcode' = [exitcode EXCEPT ![c] = ExitCode(c, sent[c])]
      BY <1>5, <2>3, PackedMessages DEF Receive
    <3> DEFINE a == Response(c, sent[c])
    <3>2. a \in Responses /\ p.rsp = Packing(a) /\ packed'[c] = Packing(a).bytes
      BY <3>1, PackedMessages
    <3>3. Now \in seen[c] /\ \E s \in seen[c] : s.matrix = snapshot[c]
      BY <1>5, <2>3 DEF SeenInv, Receive
    <3>4. Serves(sent[c], a, seen[c])
      BY <3>3, ResponseServes
    <3> HIDE DEF a
    <3>5. Reply(sent[c], packed'[c], seen[c])
      BY <3>2, <3>4 DEF Reply
    <3>6. ASSUME sent[c] = ipc_req_exit, packed'[c][2] = ipc_rsp_ok
          PROVE  exitcode'[c] = FAND_SERVER_EXIT
      <4>1. a \notin Errors
        BY <3>2, <3>6, AnswersFit DEF ipc_rsp_ok, ipc_rsp_err
      <4>2. ExitCode(c, sent[c]) = FAND_SERVER_EXIT
        BY <3>6, <4>1, ExitResponse DEF a
      <4> QED
        BY <3>1, <4>2
    <3> QED
      BY <3>5, <3>6
  <2> QED
    BY <2>1, <2>2, <2>3 DEF Clients
<1>6. ASSUME NEW c \in Clients, Respond(c) PROVE ReplyInv'
  <2>1. /\ pc' = pc /\ sent' = sent /\ told' = told /\ seen' = seen /\ packed' = packed
        /\ conn[c] = "respond" /\ conn' = [conn EXCEPT ![c] = "exit"]
        /\ \A d \in Clients \ {c} : answer'[d] = answer[d] /\ exitcode'[d] = exitcode[d]
        /\ pc[c] = "recv" => answer'[c] = packed[c] /\ exitcode'[c] = exitcode[c]
    BY <1>6 DEF Respond
  <2> QED
    BY <2>1 DEF Clients
<1>7. ASSUME NEW c \in Clients, ChildExit(c) PROVE ReplyInv'
  <2>1. /\ pc' = pc /\ sent' = sent /\ seen' = seen /\ answer' = answer
        /\ conn[c] = "exit" /\ conn' = [conn EXCEPT ![c] = "closed"]
        /\ \A d \in Clients \ {c} : packed'[d] = packed[d] /\ exitcode'[d] = exitcode[d]
        /\ told \subseteq told' /\ (exitcode[c] = FAND_SERVER_EXIT => c \in told')
    BY <1>7 DEF ChildExit
  <2> QED
    BY <2>1 DEF Clients
<1>8. CASE PollAccept
  <2> DEFINE c == Head(backlog)
  <2>1. c \in Clients /\ conn[c] = "queued" /\ answer[c] = <<>>
    BY <1>8 DEF PollAccept, QueueInv, ConnInv
  <2>2. /\ pc' = pc /\ sent' = sent /\ seen' = seen /\ answer' = answer /\ packed' = packed
        /\ told' = told
        /\ \A d \in Clients \ {c} : conn'[d] = conn[d] /\ exitcode'[d] = exitcode[d]
        /\ conn'[c] \in {"child", "leaked"}
    BY <1>8, <2>1 DEF PollAccept
  <2> HIDE DEF c
  <2> QED
    BY <2>1, <2>2 DEF Clients
<1>9. CASE Stop
  <2>1. /\ pc' = pc /\ sent' = sent /\ seen' = seen /\ answer' = answer /\ packed' = packed
        /\ told' = told /\ exitcode' = exitcode
        /\ \A d \in Clients : conn'[d] = conn[d] \/ (conn[d] \in {"queued", "leaked"} /\ conn'[d] = "dropped")
    BY <1>9 DEF Stop
  <2>2. \A d \in Clients : answer[d] # <<>> => conn[d] \notin {"queued", "leaked"}
    BY DEF ConnInv
  <2> QED
    BY <2>1, <2>2 DEF Clients
<1>10. CASE Change
  <2>1. /\ pc' = pc /\ sent' = sent /\ answer' = answer /\ packed' = packed
        /\ told' = told /\ exitcode' = exitcode /\ conn' = conn
        /\ \A d \in Fanctls : pc[d] = "recv" => seen[d] \subseteq seen'[d]
    BY <1>10 DEF Change
  <2> QED
    BY <2>1, ReplyMonotone
<1>11. CASE Done \/ UNCHANGED vars
  BY <1>11 DEF Done, vars
<1> QED
  BY <1>1, <1>2, <1>3, <1>4, <1>5, <1>6, <1>7, <1>8, <1>9, <1>10, <1>11
     DEF Next, ClientStep, Child, Clients

\* A positive answer was understood, and is to the exit request only if the child exits so.
LEMMA RecvUnderstood ==
  ASSUME RootInv, CallInv, NEW c \in Fanctls, Recv(c)
  PROVE  \E v : /\ Process(c, v) /\ c \in Clients /\ Head(calls[c]) = sent[c]
                /\ sent[c] \in ipc_valid_requests
                /\ v.rsp # ipc_rsp_ok /\ answer[c] # <<>> => answer[c][2] = ipc_rsp_err
                /\ v.rsp = ipc_rsp_ok =>
                     /\ answer[c] # <<>> /\ answer[c][2] = ipc_rsp_ok
                     /\ sent[c] # ipc_req_exit => \E s \in seen[c] : v.vals \in Answers(sent[c], s)
<1>1. c \in Clients /\ pc[c] = "recv" /\ calls[c] \in CallsLeft /\ calls[c] # <<>>
      /\ sent[c] = Head(calls[c])
  BY DEF Recv, RootInv, RootTypes, LastInv, Clients
<1>2. Head(calls[c]) \in ipc_valid_requests
  BY <1>1, CallsShrink
<1>3. PICK u \in Unpacked : u.request = Head(calls[c]) /\ u.bytes = answer[c] /\ Process(c, u.verdict)
  BY DEF Recv
<1> DEFINE v == u.verdict
<1>4. v = Unpacking(sent[c], answer[c])
  BY <1>1, <1>3 DEF Unpacked
<1>5. CASE answer[c] = <<>>
  <2>1. v.rsp # ipc_rsp_ok
    BY <1>1, <1>2, <1>4, <1>5, NothingUnderstood
  <2> HIDE DEF v
  <2> QED
    BY <1>1, <1>2, <1>3, <1>5, <2>1 DEF v
<1>6. CASE answer[c] # <<>>
  <2>1. Reply(sent[c], answer[c], seen[c]) /\ seen[c] \in SUBSET States
    BY <1>1, <1>6 DEF CallInv, ReplyInv, ReplyTypes
  <2>2. /\ v.rsp # ipc_rsp_ok => answer[c][2] = ipc_rsp_err
        /\ v.rsp = ipc_rsp_ok => answer[c][2] = ipc_rsp_ok
        /\ v.rsp = ipc_rsp_ok /\ sent[c] # ipc_req_exit =>
             \E s \in seen[c] : v.vals \in Answers(sent[c], s)
    BY <1>1, <1>2, <1>4, <2>1, Understood
  <2> HIDE DEF v
  <2> QED
    BY <1>1, <1>2, <1>3, <1>6, <2>2 DEF v
<1> QED
  BY <1>5, <1>6

\* Every step keeps what a confirmation stands for.
LEMMA StepConfirm == RootInv /\ CallInv /\ [Next]_vars => ConfirmInv'
<1> SUFFICES ASSUME RootInv, CallInv, [Next]_vars PROVE ConfirmInv'
  OBVIOUS
<1> USE DEF ConfirmInv, ConfirmedExit, CallInv, RootInv, RootTypes, ReplyTypes, child, client, world
<1>1. ASSUME NEW c \in Fanctls,
             Start(c) \/ ConnectFails(c) \/ SendRequest(c) \/ RecvReset(c) \/ RecvTimeout(c)
      PROVE  ConfirmInv'
  <2>1. /\ conn' = conn /\ exitcode' = exitcode /\ told' = told /\ confirmed' = confirmed
        /\ c \in Clients /\ c \notin confirmed /\ \A d \in Clients \ {c} : pc'[d] = pc[d]
    BY <1>1 DEF Start, ConnectFails, SendRequest, RecvReset, RecvTimeout, CallFails, Call, Finish,
                Clients
  <2> QED
    BY <2>1 DEF Clients
<1>2. ASSUME NEW c \in Clients, Connect(c) PROVE ConfirmInv'
  BY <1>2 DEF Connect, Clients
<1>3. ASSUME NEW c \in Fanctls, Recv(c) PROVE ConfirmInv'
  <2>1. PICK v : /\ Process(c, v) /\ c \in Clients /\ Head(calls[c]) = sent[c]
                 /\ v.rsp = ipc_rsp_ok => answer[c] # <<>> /\ answer[c][2] = ipc_rsp_ok
    BY <1>3, RecvUnderstood
  <2>2. /\ conn' = conn /\ exitcode' = exitcode /\ told' = told /\ pc[c] = "recv"
        /\ calls[c] \in CallsLeft /\ calls[c] # <<>>
    BY <1>3, <2>1 DEF Recv, LastInv
  <2>3. Len(calls[c]) > 1 => Head(calls[c]) # ipc_req_exit
    BY <2>2, CallsShrink
  <2>4. \A d \in Clients \ {c} : pc'[d] = pc[d]
    BY <2>1 DEF Process, Call, Finish
  <2>5. CASE confirmed' = confirmed
    BY <2>1, <2>2, <2>4, <2>5 DEF Clients
  <2>6. CASE /\ confirmed' = confirmed \cup {c} /\ v.rsp = ipc_rsp_ok
             /\ sent[c] = ipc_req_exit
    <3>1. c \in told \/ (conn[c] = "exit" /\ exitcode[c] = FAND_SERVER_EXIT)
      BY <2>1, <2>2, <2>6 DEF ReplyInv
    <3>2. pc'[c] = "done"
      BY <2>1, <2>2, <2>3, <2>6 DEF Process, Finish
    <3> QED
      BY <2>1, <2>2, <2>4, <2>6, <3>1, <3>2 DEF Clients
  <2> QED
    BY <2>1, <2>5, <2>6 DEF Process
<1>4. ASSUME NEW c \in Strangers, StrangerSend(c) \/ StrangerLeave(c) PROVE ConfirmInv'
  BY <1>4, PartiesAssumption DEF StrangerSend, StrangerLeave, Clients
<1>5. ASSUME NEW c \in Clients, Child(c) PROVE ConfirmInv'
  <2>1. /\ pc' = pc /\ confirmed' = confirmed /\ told \subseteq told'
        /\ \A d \in Clients \ {c} : conn'[d] = conn[d] /\ exitcode'[d] = exitcode[d]
        /\ conn[c] = "exit" /\ exitcode[c] = FAND_SERVER_EXIT => c \in told'
    BY <1>5 DEF Child, Receive, Respond, ChildExit
  <2> QED
    BY <2>1 DEF Clients
<1>6. CASE PollAccept
  <2> DEFINE c == Head(backlog)
  <2>1. c \in Clients /\ conn[c] = "queued"
    BY <1>6 DEF PollAccept, QueueInv
  <2>2. /\ pc' = pc /\ confirmed' = confirmed /\ told' = told
        /\ \A d \in Clients \ {c} : conn'[d] = conn[d] /\ exitcode'[d] = exitcode[d]
    BY <1>6, <2>1 DEF PollAccept
  <2> HIDE DEF c
  <2> QED
    BY <2>1, <2>2 DEF Clients
<1>7. CASE Stop
  <2>1. /\ pc' = pc /\ confirmed' = confirmed /\ told' = told /\ exitcode' = exitcode
        /\ \A d \in Clients : conn[d] = "exit" => conn'[d] = "exit"
    BY <1>7 DEF Stop
  <2> QED
    BY <2>1 DEF Clients
<1>8. CASE Change \/ Done \/ UNCHANGED vars
  BY <1>8 DEF Change, Done, vars
<1> QED
  BY <1>1, <1>2, <1>3, <1>4, <1>5, <1>6, <1>7, <1>8 DEF Next, ClientStep, Clients

\* The invariant of a call: at every stage, what the child knows, has packed or has sent
\* is an answer to the request by what was in effect since the call began.
THEOREM CallInvariant == Spec => [](RootInv /\ CallInv)
<1>1. RootInv /\ CallInv /\ [Next]_vars => CallInv'
  BY StepTypes, StepQueue, StepConn, StepSeen, StepReply, StepConfirm DEF CallInv
<1> QED
  BY <1>1, InitRoot, InitCall, StepRoot, PTL DEF Spec

\* Every variable keeps its type, and no answer that a child packs overruns the client's
\* buffer, whatever the matrix (ipc.h:7, server.c:141-203).
THEOREM IpcTypeCorrect == Spec => []TypeOK
<1>1. ASSUME RootInv, CallInv PROVE TypeOK
  <2>1. ASSUME NEW c \in Clients
        PROVE  /\ \A i \in DOMAIN calls[c] : calls[c][i] \in ipc_valid_requests
               /\ packed[c] \in Messages /\ Len(packed[c]) <= IPC_MAX_MSG_LENGTH
    <3>1. calls[c] \in CallsLeft
      BY <1>1 DEF RootInv, RootTypes
    <3>2. \A i \in DOMAIN calls[c] : calls[c][i] \in ipc_valid_requests
      <4> DEFINE s == calls[c]
      <4> HIDE DEF s
      <4> SUFFICES ASSUME s \in CallsLeft PROVE \A i \in DOMAIN s : s[i] \in ipc_valid_requests
        BY <3>1 DEF s
      <4> USE DEF ipc_valid_requests, Gets
      <4>1. CASE s = <<>> \/ s = <<ipc_req_exit>>
        BY <4>1
      <4>2. ASSUME NEW g \in Gets, s = <<g>> \/ s = <<g, ipc_req_exit>>
            PROVE  \A i \in DOMAIN s : s[i] \in ipc_valid_requests
        BY <4>2
      <4> QED
        BY <4>1, <4>2 DEF CallsLeft
    <3>3. packed[c] \in Messages
      BY <1>1 DEF CallInv, ReplyTypes
    <3>4. CASE packed[c] = <<>>
      <4>1. Len(<<>>) = 0 /\ 0 <= IPC_MAX_MSG_LENGTH
        BY DEF IPC_MAX_MSG_LENGTH
      <4> QED
        BY <3>2, <3>3, <3>4, <4>1
    <3>5. CASE packed[c] # <<>>
      <4>1. PICK a \in Responses : packed[c] = Packing(a).bytes
        <5>1. PICK p \in Packed : packed[c] = p.rsp.bytes
          BY <3>3, <3>5 DEF Messages
        <5>2. PICK a \in Responses : p = [response |-> a, rsp |-> Packing(a)]
          BY DEF Packed
        <5> QED
          BY <5>1, <5>2
      <4> QED
        BY <3>2, <3>3, <4>1, AnswersFit
    <3> QED
      BY <3>4, <3>5
  <2>2. exitcode \in [Clients -> {0, 1, 3}]
    BY <1>1 DEF RootInv, RootTypes, ExitCodes, FAND_SERVER_EXIT
  <2> QED
    BY <1>1, <2>1, <2>2 DEF TypeOK, RootInv, RootTypes, CallInv, ReplyTypes, QueueInv, ConfirmInv
<1> QED
  BY <1>1, CallInvariant, PTL

\* fanctl takes no answer for a yes to its exit request but that of a child whose exit code
\* ends the daemon, however calls, children and the daemon's own end interleave
\* (serialize.c:521-543, request.c:68-75, server.c:162-203).
THEOREM ConfirmationTrue == Spec => []ConfirmedExit
<1>1. RootInv /\ CallInv => ConfirmedExit
  BY DEF CallInv, ConfirmInv
<1> QED
  BY <1>1, CallInvariant, PTL

\* Who prints, or exits with 1, is the client that takes the step.
LEMMA ClientEnds ==
  ASSUME RootInv, CallInv, [Next]_vars, NEW c \in Fanctls,
         output'[c] # output[c] \/ (status'[c] = "1" /\ status[c] = "none")
  PROVE  \/ Recv(c)
         \/ output'[c] = output[c] /\ answer[c] = <<>>
<1> USE DEF CallInv, ReplyTypes, RootInv, RootTypes, child, client, world
<1>1. ASSUME NEW d \in Fanctls, Recv(d) PROVE d = c
  <2>1. PICK v : Process(d, v)
    BY <1>1, RecvUnderstood
  <2>2. d # c => output'[c] = output[c] /\ status'[c] = status[c]
    BY <2>1 DEF Process, Call, Finish
  <2> QED
    BY <2>2
<1>2. ASSUME NEW d \in Fanctls,
             Start(d) \/ ConnectFails(d) \/ RecvReset(d) \/ RecvTimeout(d)
      PROVE  d = c /\ output'[c] = output[c] /\ answer[c] = <<>>
  <2>1. d \in Clients /\ answer[d] = <<>>
    BY <1>2 DEF Start, ConnectFails, RecvReset, RecvTimeout, ConnInv, Clients
  <2>2. output' = output /\ (d # c => status'[c] = status[c])
    BY <1>2 DEF Start, ConnectFails, RecvReset, RecvTimeout, CallFails, Finish
  <2> QED
    BY <2>1, <2>2
<1>3. ASSUME NEW d \in Fanctls, SendRequest(d) PROVE FALSE
  <2>1. output' = output /\ (status'[c] = status[c] \/ status'[c] = "killed")
    BY <1>3 DEF SendRequest, Finish
  <2> QED
    BY <2>1
<1>4. ASSUME NEW d \in Clients, Connect(d) \/ StrangerSend(d) \/ StrangerLeave(d) \/ Child(d)
      PROVE  FALSE
  BY <1>4 DEF Connect, StrangerSend, StrangerLeave, Child, Receive, Respond, ChildExit
<1>5. CASE PollAccept \/ Stop \/ Change \/ Done \/ UNCHANGED vars
  BY <1>5 DEF PollAccept, Stop, Change, Done, vars
<1> QED
  BY <1>1, <1>2, <1>3, <1>4, <1>5 DEF Next, ClientStep, Clients

\* What fanctl prints was in effect between its call and the answer, for any matrices and
\* readings and however often they change meanwhile (server.c:56-75, 181, 238;
\* request.c:29-61).
THEOREM PrintedCurrent == Spec => AnswersCurrent
<1>1. ASSUME RootInv, CallInv, [Next]_vars, NEW c \in Fanctls, output'[c] # output[c]
      PROVE  /\ output'[c][1] = Head(calls[c])
             /\ \E s \in seen[c] : output'[c][2] \in Answers(output'[c][1], s)
  <2>1. Recv(c)
    BY <1>1, ClientEnds
  <2>2. PICK v : /\ Process(c, v) /\ Head(calls[c]) = sent[c]
                 /\ v.rsp = ipc_rsp_ok /\ sent[c] # ipc_req_exit =>
                      \E s \in seen[c] : v.vals \in Answers(sent[c], s)
    BY <1>1, <2>1, RecvUnderstood
  <2>3. /\ v.rsp = ipc_rsp_ok /\ sent[c] # ipc_req_exit
        /\ output' = [output EXCEPT ![c] = <<sent[c], v.vals>>]
    BY <1>1, <2>2 DEF Process
  <2>4. output'[c] = <<sent[c], v.vals>>
    BY <1>1, <2>3 DEF CallInv, ReplyTypes
  <2>5. output'[c][1] = sent[c] /\ output'[c][2] = v.vals
    BY <2>4
  <2> QED
    BY <2>2, <2>3, <2>5
<1>2. RootInv /\ CallInv /\ [Next]_vars =>
        [\A c \in Fanctls : output'[c] # output[c] =>
           /\ output'[c][1] = Head(calls[c])
           /\ \E s \in seen[c] : output'[c][2] \in Answers(output'[c][1], s)]_vars
  BY <1>1
<1> QED
  BY <1>2, CallInvariant, PTL DEF Spec, AnswersCurrent

\* fanctl fails on an answer only if the answer says so, whatever the answer
\* (request.c:29-75, serialize.c:442-543).
THEOREM FailuresAnswered == Spec => AnswersUnderstood
<1>1. ASSUME RootInv, CallInv, [Next]_vars, NEW c \in Fanctls,
             status'[c] = "1", status[c] = "none", answer[c] # <<>>
      PROVE  answer[c][2] = ipc_rsp_err
  <2>1. Recv(c)
    BY <1>1, ClientEnds
  <2>2. PICK v : Process(c, v) /\ (v.rsp # ipc_rsp_ok => answer[c][2] = ipc_rsp_err)
    BY <1>1, <2>1, RecvUnderstood
  <2>3. v.rsp # ipc_rsp_ok
    BY <1>1, <2>2 DEF Process, Finish, CallInv, ReplyTypes
  <2> QED
    BY <2>2, <2>3
<1>2. RootInv /\ CallInv /\ [Next]_vars =>
        [\A c \in Fanctls : status'[c] = "1" /\ status[c] = "none" /\ answer[c] # <<>> =>
           answer[c][2] = ipc_rsp_err]_vars
  BY <1>1
<1> QED
  BY <1>2, CallInvariant, PTL DEF Spec, AnswersUnderstood
=============================================================================
