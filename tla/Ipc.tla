--------------------------------- MODULE Ipc ---------------------------------
(***************************************************************************)
(* The control interface from end to end: runs of amdgpu-fanctl            *)
(* (src/fanctl), the daemon that accepts their connections and the child   *)
(* it forks for each (src/fand/server.c), with the Unix socket in between. *)
(* Other programs may connect too, send any byte or none, and leave.  What *)
(* the daemon makes of the exit code of a child is in EventLoop.           *)
(***************************************************************************)
EXTENDS Serialize

CONSTANTS Fanctls,      \* runs of amdgpu-fanctl
          Strangers,    \* other programs that connect
          Commands,     \* what runs of amdgpu-fanctl are asked for
          RawRequests,  \* the requests strangers send
          SRVBACKLOG,   \* the backlog given to listen; Linux lets one more in
          Matrices,     \* the matrices of the configuration, a sequence of bytes each
          Sensors,      \* the readings [speed, temp] of the card; -1 is a failed one
          MaxChanges    \* bound: how often matrix or readings change

Clients == Fanctls \cup Strangers

ipc_req_exit == 1
ipc_req_unprivileged == 32
ipc_req_speed == 33
ipc_req_temp == 34
ipc_req_matrix == 35

ipc_valid_requests == {ipc_req_exit, ipc_req_speed, ipc_req_temp, ipc_req_matrix}
ipc_request_map == [speed |-> ipc_req_speed, temp |-> ipc_req_temp,
                    temperature |-> ipc_req_temp, matrix |-> ipc_req_matrix]

FAND_SERVER_EXIT == 3
MAX_TEMP_THRESHOLDS == 16

\* target is the argument of --get, "none" without it; exit stands for --exit.
ASSUME CommandsAssumption == Commands \subseteq [target : STRING, exit : BOOLEAN]
ASSUME RequestsAssumption == RawRequests \subseteq 0 .. 255
ASSUME BoundsAssumption == SRVBACKLOG \in Nat /\ MaxChanges \in Nat
ASSUME MatricesAssumption ==
  \A m \in Matrices : \E n \in 1 .. MAX_TEMP_THRESHOLDS : m \in [1 .. 2 * n -> 0 .. 255]
ASSUME SensorsAssumption ==
  Sensors \subseteq [speed : {-1} \cup 0 .. 100, temp : {-1} \cup 0 .. 255]
ASSUME PartiesAssumption == Fanctls \cap Strangers = {}

------------------------------------------------------------------------------
(* The answers there are, packed, and what a client makes of the bytes it gets. *)

Readings == (UNION {{s.speed, s.temp} : s \in Sensors}) \ {-1}
Responses == ({"error"} \X {EAGAIN, EACCES, EINVAL}) \cup ({"reading"} \X Readings)
               \cup ({"matrix"} \X Matrices) \cup {<<"exit">>}

Packing(a) == CASE a[1] = "error"   -> pack_error(a[2])
                [] a[1] = "reading" -> pack_int(a[2])
                [] a[1] = "matrix"  -> pack_matrix(a[2])
                [] a[1] = "exit"    -> pack_exit_rsp
Packed == {[response |-> a, rsp |-> Packing(a)] : a \in Responses}

\* What may be received: an answer, or nothing.
Messages == {p.rsp.bytes : p \in Packed} \cup {<<>>}

Unpacking(request, bytes) ==
  CASE request \in {ipc_req_speed, ipc_req_temp} -> unpack_int(bytes)
    [] request = ipc_req_matrix                  -> unpack_matrix(bytes)
    [] request = ipc_req_exit                    -> unpack_exit_rsp(bytes)
Unpacked == {[request |-> request, bytes |-> bytes, verdict |-> Unpacking(request, bytes)] :
               request \in ipc_valid_requests, bytes \in Messages}

------------------------------------------------------------------------------
VARIABLES
  pc,        \* what each client does next
  cmd,       \* what each run of fanctl was asked for
  root,      \* who runs as root
  calls,     \* the requests each client has yet to get an answer to
  status,    \* its exit status, "none" while it runs, "killed" by SIGPIPE
  output,    \* what it has printed: a request and the values
  conn,      \* the daemon's end of each client's connection
  backlog,   \* connections not yet accepted
  sent,      \* the request on its way to the child; -1 if none
  snapshot,  \* the child's copy of the configured matrix
  packed,    \* the child's answer
  exitcode,  \* the child's exit code
  answer,    \* the bytes on their way to the client
  up,        \* the daemon runs
  matrix, sensor, changes,
  (* History, read by the properties only. *)
  seen,      \* matrix and readings in effect at some time during the current call
  confirmed, \* clients that were answered that the daemon exits
  told       \* clients whose child has exited with FAND_SERVER_EXIT

client == <<pc, calls, status, output, confirmed>>
child == <<snapshot, packed, exitcode, told>>
world == <<up, matrix, sensor, changes>>
vars == <<client, cmd, root, conn, backlog, sent, child, answer, world, seen>>

Now == [matrix |-> matrix, sensor |-> sensor]

Init ==
  /\ pc = [c \in Clients |-> IF c \in Fanctls THEN "start" ELSE "connect"]
  /\ cmd \in [Fanctls -> Commands] /\ root \in [Clients -> BOOLEAN]
  /\ calls = [c \in Clients |-> <<>>] /\ status = [c \in Fanctls |-> "none"]
  /\ output = [c \in Fanctls |-> <<>>]
  /\ conn = [c \in Clients |-> "none"] /\ backlog = <<>>
  /\ sent = [c \in Clients |-> -1] /\ answer = [c \in Clients |-> <<>>]
  /\ snapshot = [c \in Clients |-> <<>>] /\ packed = [c \in Clients |-> <<>>]
  /\ exitcode = [c \in Clients |-> 0]
  /\ up = TRUE /\ matrix \in Matrices /\ sensor \in Sensors /\ changes = 0
  /\ seen = [c \in Fanctls |-> {}] /\ confirmed = {} /\ told = {}

------------------------------------------------------------------------------
(* amdgpu-fanctl *)

\* The program ends, which closes its socket.
Finish(c, result) ==
  /\ pc' = [pc EXCEPT ![c] = "done"]
  /\ status' = [status EXCEPT ![c] = result]
  /\ seen' = [seen EXCEPT ![c] = {}]

\* The next call begins.
Call(c) == /\ pc' = [pc EXCEPT ![c] = "connect"]
           /\ seen' = [seen EXCEPT ![c] = {Now}]

\* What main calls for: --get comes before --exit.
Requests(command) ==
  IF command.target = "none" THEN <<ipc_req_exit>>
  ELSE IF command.exit THEN <<ipc_request_map[command.target], ipc_req_exit>>
  ELSE <<ipc_request_map[command.target]>>

\* main and request_convert: an unknown target ends it all.
Start(c) ==
  LET target == cmd[c].target
  IN
  /\ pc[c] = "start"
  /\ \/ /\ target \notin DOMAIN ipc_request_map \cup {"none"}
        /\ Finish(c, "1") /\ UNCHANGED calls
     \/ /\ target = "none" /\ ~cmd[c].exit
        /\ Finish(c, "0") /\ UNCHANGED calls
     \/ /\ target \in DOMAIN ipc_request_map \/ (target = "none" /\ cmd[c].exit)
        /\ calls' = [calls EXCEPT ![c] = Requests(cmd[c])]
        /\ Call(c) /\ UNCHANGED status
  /\ UNCHANGED <<cmd, root, output, confirmed, conn, backlog, sent, child, answer, world>>

\* connect waits while the backlog is full.  A child that has answered the call before
\* has nothing left but to exit with 0.
Connect(c) ==
  /\ pc[c] = "connect" /\ up /\ Len(backlog) <= SRVBACKLOG
  /\ pc' = [pc EXCEPT ![c] = "send"]
  /\ conn' = [conn EXCEPT ![c] = "queued"] /\ backlog' = Append(backlog, c)
  /\ sent' = [sent EXCEPT ![c] = -1]
  /\ packed' = [packed EXCEPT ![c] = <<>>]
  /\ UNCHANGED <<cmd, root, calls, status, output, confirmed, snapshot, exitcode, told,
                 answer, world, seen>>

\* A call of client_send_and_recv returned -1.  request_process_exit does not look, and
\* reads a verdict from a buffer that nobody has written.
CallFails(c) ==
  /\ \/ Finish(c, "1")
     \/ Head(calls[c]) = ipc_req_exit /\ Finish(c, "0")
  /\ UNCHANGED <<calls, output, confirmed>>

ConnectFails(c) ==
  /\ pc[c] = "connect" /\ ~up /\ c \in Fanctls
  /\ CallFails(c)
  /\ UNCHANGED <<cmd, root, conn, backlog, sent, child, answer, world>>

\* Sending on a connection whose other end is gone raises SIGPIPE.
SendRequest(c) ==
  /\ pc[c] = "send" /\ c \in Fanctls
  /\ \/ /\ conn[c] = "dropped"
        /\ Finish(c, "killed") /\ UNCHANGED sent
     \/ /\ conn[c] # "dropped"
        /\ sent' = [sent EXCEPT ![c] = Head(calls[c])]
        /\ pc' = [pc EXCEPT ![c] = "recv"] /\ UNCHANGED <<status, seen>>
  /\ UNCHANGED <<cmd, root, calls, output, confirmed, conn, backlog, child, answer, world>>

\* request_process_get or request_process_exit with the verdict; what follows a --get
\* that succeeded is the --exit, if any.
Process(c, verdict) ==
  \/ /\ verdict.rsp # ipc_rsp_ok
     /\ Finish(c, "1") /\ UNCHANGED <<calls, output, confirmed>>
  \/ /\ verdict.rsp = ipc_rsp_ok
     /\ calls' = [calls EXCEPT ![c] = Tail(@)]
     /\ IF Head(calls[c]) = ipc_req_exit
        THEN confirmed' = confirmed \cup {c} /\ UNCHANGED output
        ELSE /\ output' = [output EXCEPT ![c] = <<Head(calls[c]), verdict.vals>>]
             /\ UNCHANGED confirmed
     /\ IF Len(calls[c]) > 1 THEN Call(c) /\ UNCHANGED status
        ELSE Finish(c, "0")

\* recv returns the answer, or nothing once the child has closed the connection.
Recv(c) ==
  /\ pc[c] = "recv" /\ (answer[c] # <<>> \/ conn[c] = "closed")
  /\ \E u \in Unpacked : /\ u.request = Head(calls[c]) /\ u.bytes = answer[c]
                        /\ Process(c, u.verdict)
  /\ answer' = [answer EXCEPT ![c] = <<>>]
  /\ UNCHANGED <<cmd, root, conn, backlog, sent, child, world>>

\* recv fails: the daemon dropped the connection.
RecvReset(c) ==
  /\ pc[c] = "recv" /\ conn[c] = "dropped"
  /\ CallFails(c)
  /\ UNCHANGED <<cmd, root, conn, backlog, sent, child, answer, world>>

\* recv fails: there was no answer for five seconds.
RecvTimeoutNever(c) == FALSE /\ UNCHANGED vars

RecvTimeout(c) ==
  /\ pc[c] = "recv" /\ answer[c] = <<>> /\ conn[c] \notin {"closed", "dropped"}
  /\ CallFails(c)
  /\ UNCHANGED <<cmd, root, conn, backlog, sent, child, answer, world>>

ClientStep(c) == \/ Start(c) \/ Connect(c) \/ ConnectFails(c) \/ SendRequest(c) \/ Recv(c)
                 \/ RecvReset(c) \/ RecvTimeout(c)

\* A stranger sends something or not, and leaves, or stays for ever.
StrangerSend(c) ==
  /\ pc[c] = "send" /\ conn[c] # "dropped"
  /\ \E request \in RawRequests : sent' = [sent EXCEPT ![c] = request]
  /\ pc' = [pc EXCEPT ![c] = "stay"]
  /\ UNCHANGED <<calls, status, output, confirmed, cmd, root, conn, backlog, child, answer,
                 world, seen>>

StrangerLeave(c) ==
  /\ pc[c] \in {"connect", "send", "stay"}
  /\ pc' = [pc EXCEPT ![c] = "done"]
  /\ UNCHANGED <<calls, status, output, confirmed, cmd, root, conn, backlog, sent, child,
                 answer, world, seen>>

------------------------------------------------------------------------------
(* The daemon and its children *)

\* server_poll: the child inherits the configuration as it is; after a failed fork the
\* connection stays open and nobody answers.
PollAccept ==
  /\ up /\ backlog # <<>>
  /\ LET c == Head(backlog) IN
     \/ /\ conn' = [conn EXCEPT ![c] = "child"]
        /\ snapshot' = [snapshot EXCEPT ![c] = matrix]
        /\ exitcode' = [exitcode EXCEPT ![c] = 0]
     \/ conn' = [conn EXCEPT ![c] = "leaked"] /\ UNCHANGED <<snapshot, exitcode>>
  /\ backlog' = Tail(backlog)
  /\ UNCHANGED <<client, cmd, root, sent, packed, told, answer, world, seen>>

\* A slip: privileged means below the first privileged request.
server_validate_request_order(c, request) ==
  IF request \notin ipc_valid_requests THEN EINVAL
  ELSE IF request < ipc_req_exit /\ ~root[c] THEN EACCES
  ELSE 0

\* 0, or the errno that is sent back.
server_validate_request(c, request) ==
  IF request \notin ipc_valid_requests THEN EINVAL
  ELSE IF request < ipc_req_unprivileged /\ ~root[c] THEN EACCES
  ELSE 0

\* A slip: speed and temperature are mixed up.
server_pack_result_mixed(request) ==
  LET rspval == IF request = ipc_req_speed THEN sensor.temp ELSE sensor.speed
  IN  IF rspval < 0 THEN <<"error", EAGAIN>> ELSE <<"reading", rspval>>

server_pack_result(request) ==
  LET rspval == IF request = ipc_req_speed THEN sensor.speed ELSE sensor.temp
  IN  IF rspval < 0 THEN <<"error", EAGAIN>> ELSE <<"reading", rspval>>

\* The answer of server_recv_and_respond to a request.
Response(c, request) ==
  LET error == server_validate_request(c, request) IN
  CASE error # 0 -> <<"error", error>>
    [] error = 0 /\ request = ipc_req_exit -> <<"exit">>
    [] error = 0 /\ request = ipc_req_matrix -> <<"matrix", snapshot[c]>>
    [] OTHER -> server_pack_result(request)

ExitCode(c, request) ==
  IF server_validate_request(c, request) = 0 /\ request = ipc_req_exit
  THEN FAND_SERVER_EXIT ELSE 0

\* The exit code | 1; a slip has + for it.
OrOneAdded(code) == code + 1

OrOne(code) == IF code % 2 = 0 THEN code + 1 ELSE code

\* server_recv_and_respond up to the send.  The child is through when the peer has hung
\* up without a request, or when the answer cannot be packed.
Receive(c) ==
  /\ conn[c] = "child"
  /\ \/ /\ sent[c] = -1 /\ pc[c] = "done"
        /\ conn' = [conn EXCEPT ![c] = "exit"]
        /\ exitcode' = [exitcode EXCEPT ![c] = 1] /\ UNCHANGED packed
     \/ /\ sent[c] # -1
        /\ \E p \in Packed, code \in {ExitCode(c, sent[c])} :
             /\ p.response = Response(c, sent[c])
             /\ IF p.rsp.n < 0
                THEN /\ conn' = [conn EXCEPT ![c] = "exit"]
                     /\ exitcode' = [exitcode EXCEPT ![c] = OrOne(code)] /\ UNCHANGED packed
                ELSE /\ conn' = [conn EXCEPT ![c] = "respond"]
                     /\ exitcode' = [exitcode EXCEPT ![c] = code]
                     /\ packed' = [packed EXCEPT ![c] = p.rsp.bytes]
  /\ UNCHANGED <<client, cmd, root, backlog, sent, snapshot, told, answer, world, seen>>

\* A slip: an answer that cannot be sent overwrites the exit code.
RespondOverwriting(c) ==
  /\ conn[c] = "respond"
  /\ conn' = [conn EXCEPT ![c] = "exit"]
  /\ IF pc[c] = "done" THEN exitcode' = [exitcode EXCEPT ![c] = 1] /\ UNCHANGED answer
     ELSE answer' = [answer EXCEPT ![c] = packed[c]] /\ UNCHANGED exitcode
  /\ UNCHANGED <<client, cmd, root, backlog, sent, snapshot, packed, told, world, seen>>

\* The send, which fails when the client has gone (the SIGPIPE only sets a flag).
Respond(c) ==
  /\ conn[c] = "respond"
  /\ conn' = [conn EXCEPT ![c] = "exit"]
  /\ IF pc[c] = "done"
     THEN exitcode' = [exitcode EXCEPT ![c] = OrOne(@)] /\ UNCHANGED answer
     ELSE answer' = [answer EXCEPT ![c] = packed[c]] /\ UNCHANGED exitcode
  /\ UNCHANGED <<client, cmd, root, backlog, sent, snapshot, packed, told, world, seen>>

\* The child closes the connection and exits; its memory goes with it.
ChildExit(c) ==
  /\ conn[c] = "exit"
  /\ conn' = [conn EXCEPT ![c] = "closed"]
  /\ told' = (IF exitcode[c] = FAND_SERVER_EXIT THEN told \cup {c} ELSE told)
  /\ snapshot' = [snapshot EXCEPT ![c] = <<>>] /\ packed' = [packed EXCEPT ![c] = <<>>]
  /\ exitcode' = [exitcode EXCEPT ![c] = 0]
  /\ UNCHANGED <<client, cmd, root, backlog, sent, answer, world, seen>>

Child(c) == Receive(c) \/ Respond(c) \/ ChildExit(c)

\* The daemon stops at any time.  Its children go on; a leaked connection is closed
\* unless a child that was forked later has inherited it.
Stop ==
  /\ up /\ up' = FALSE /\ backlog' = <<>>
  /\ \E dropped \in SUBSET {c \in Clients : conn[c] = "leaked"} :
       conn' = [c \in Clients |-> IF conn[c] = "queued" \/ c \in dropped THEN "dropped"
                                  ELSE conn[c]]
  /\ UNCHANGED <<client, cmd, root, sent, child, answer, matrix, sensor, changes, seen>>

\* A reload installs another matrix; the card gets warmer, or cannot be read.
Change ==
  /\ changes < MaxChanges /\ changes' = changes + 1
  /\ \/ matrix' \in Matrices \ {matrix} /\ UNCHANGED sensor
     \/ sensor' \in Sensors \ {sensor} /\ UNCHANGED matrix
  /\ seen' = [c \in Fanctls |-> IF pc[c] \in {"connect", "send", "recv"}
                                THEN seen[c] \cup {Now'} ELSE {}]
  /\ UNCHANGED <<client, cmd, root, conn, backlog, sent, child, answer, up>>

Done == (\A c \in Clients : pc[c] \in {"done", "stay"}) /\ UNCHANGED vars

Next == \/ \E c \in Fanctls : ClientStep(c)
        \/ \E c \in Strangers : Connect(c) \/ StrangerSend(c) \/ StrangerLeave(c)
        \/ \E c \in Clients : Child(c)
        \/ PollAccept \/ Stop \/ Change \/ Done

Spec == Init /\ [][Next]_vars

\* fanctl and the children run on, the daemon polls while it is up; a stranger need not
\* do anything, and nothing need change or fail.
Fairness == /\ \A c \in Fanctls : WF_vars(ClientStep(c))
            /\ \A c \in Clients : WF_vars(Child(c))
            /\ WF_vars(PollAccept)

FairSpec == Spec /\ Fairness

------------------------------------------------------------------------------
(* Properties *)

\* Every variable keeps its type: in particular, the exit codes of children are those
\* that the SIGCHLD handler tells apart, who is queued is waiting to be accepted, and
\* no answer overruns the client's buffer (ipc.h:7, server.c:141-203).
TypeOK ==
  /\ pc \in [Clients -> {"start", "connect", "send", "recv", "stay", "done"}]
  /\ cmd \in [Fanctls -> Commands] /\ root \in [Clients -> BOOLEAN]
  /\ \A c \in Clients : \A i \in DOMAIN calls[c] : calls[c][i] \in ipc_valid_requests
  /\ status \in [Fanctls -> {"none", "0", "1", "killed"}]
  /\ conn \in [Clients -> {"none", "queued", "child", "respond", "exit", "closed",
                           "leaked", "dropped"}]
  /\ \A i \in DOMAIN backlog : conn[backlog[i]] = "queued"
  /\ Len(backlog) <= SRVBACKLOG + 1
  /\ sent \in [Clients -> -1 .. 255] /\ exitcode \in [Clients -> {0, 1, 3}]
  /\ \A c \in Clients : packed[c] \in Messages /\ Len(packed[c]) <= IPC_MAX_MSG_LENGTH
  /\ up \in BOOLEAN /\ matrix \in Matrices /\ sensor \in Sensors
  /\ changes \in 0 .. MaxChanges
  /\ confirmed \subseteq Fanctls /\ told \subseteq Clients

\* What was in effect at s, as an answer to the request; nothing if it cannot be told.
Answers(request, s) ==
  CASE request = ipc_req_speed -> {<<v>> : v \in {s.sensor.speed} \ {-1}}
    [] request = ipc_req_temp -> {<<v>> : v \in {s.sensor.temp} \ {-1}}
    [] request = ipc_req_matrix -> {<<Len(s.matrix) \div 2>> \o s.matrix}
    [] OTHER -> {}

\* What fanctl prints was in effect at some time between its call and the answer, is
\* what it asked for, and is never a reading that failed: neither the matrix that the
\* child inherited nor a value read before others changed is older than the call
\* (server.c:56-75, 181, 238; request.c:29-61).
AnswersCurrent ==
  [][\A c \in Fanctls : output'[c] # output[c] =>
       /\ output'[c][1] = Head(calls[c])
       /\ \E s \in seen[c] : output'[c][2] \in Answers(output'[c][1], s)]_vars

\* fanctl fails on an answer only if the answer says so: what the daemon packs is what
\* the client unpacks, whatever the number of rows (serialize.c:442-543).
AnswersUnderstood ==
  [][\A c \in Fanctls : status'[c] = "1" /\ status[c] = "none" /\ answer[c] # <<>> =>
       answer[c][2] = ipc_rsp_err]_vars

\* Nobody but root makes a child exit with the code that ends the daemon, and only by
\* asking for it, whatever else is sent and whoever connects meanwhile
\* (server.c:42-51, 169-173).
OnlyRootStops == \A c \in told : root[c] /\ sent[c] = ipc_req_exit

\* fanctl takes its exit request for granted on no answer but that of a child that has
\* told the daemon or is about to: an error is not mistaken for it (serialize.c:521-543,
\* request.c:68-75).  Without any answer it may, see CallFails.
ConfirmedExit ==
  \A c \in confirmed :
    c \in told \/ (conn[c] = "exit" /\ exitcode[c] = FAND_SERVER_EXIT)

\* An exit request of root that a child was forked for is passed on to the daemon, even
\* if the client has timed out and the answer cannot be sent (server.c:172, 195-202).
ExitServed ==
  \A c \in Clients :
    root[c] /\ sent[c] = ipc_req_exit /\ conn[c] = "child" ~> c \in told

\* Every run of fanctl comes to an end, though the daemon may stop, leak the connection
\* or be busy with others, who may never send anything (client.c:24-33, 63-85).
EveryCallEnds == \A c \in Fanctls : <>(pc[c] = "done")
=============================================================================
