------------------------------- MODULE MCIpc -------------------------------
(***************************************************************************)
(* Ipc with a run of fanctl and another program.                           *)
(***************************************************************************)
EXTENDS Ipc

Command(t, e) == [target |-> t, exit |-> e]
SomeCommands == {Command("speed", FALSE), Command("matrix", TRUE), Command("fan", TRUE),
                 Command("none", FALSE)}

\* One row, and the most the daemon can hold.
SomeMatrices == {<<50, 30>>, [i \in 1 .. 2 * MAX_TEMP_THRESHOLDS |-> 3 * i]}

SomeSensors == {[speed |-> 30, temp |-> 64], [speed |-> -1, temp |-> -1]}

\* An exit request, and one that is none of the valid ones.
SomeRequests == {ipc_req_exit, 255}
=============================================================================
