---------------------------- MODULE MCEventLoop ----------------------------
(***************************************************************************)
(* EventLoop with each signal sent once, or all but one.                   *)
(***************************************************************************)
EXTENDS EventLoop

Once == [s \in Signals |-> 1]
NoTerm == [s \in Signals |-> IF s = "TERM" THEN 0 ELSE 1]
NoReload == [s \in Signals |-> IF s = "HUP" THEN 0 ELSE 1]
=============================================================================
