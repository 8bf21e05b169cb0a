---------------------------- MODULE FanOwnership ----------------------------
(***************************************************************************)
(* What the life cycle of the daemon promises about the fans of the card,  *)
(* without pid files, sockets, locks and stages: who owns the fans and in  *)
(* which mode they are.                                                    *)
(***************************************************************************)
CONSTANT Procs   \* whoever may own the fans

VARIABLES
  owners,   \* the instances that may write the mode and the pwm
  mode,     \* "auto": the kernel cools the card; "manual": an owner has to
  lost,     \* an owner was killed or could not write the mode
  trusted   \* the locks of the kernel have worked so far

vars == <<owners, mode, lost, trusted>>

Init == owners = {} /\ mode = "auto" /\ lost = FALSE /\ trusted = TRUE

\* An instance becomes an owner: the only one, unless the locks fail.
Take(p) ==
  /\ p \notin owners /\ owners' = owners \cup {p}
  /\ trusted' \in BOOLEAN
  /\ trusted' => trusted /\ owners = {}
  /\ UNCHANGED <<mode, lost>>

\* An owner takes over the cooling.
SetManual(p) == /\ p \in owners /\ mode' = "manual"
                /\ UNCHANGED <<owners, lost, trusted>>

\* An owner gives it back to the kernel, or fails to.
HandBack(p) == /\ p \in owners /\ mode' = "auto" /\ lost' = FALSE
               /\ UNCHANGED <<owners, trusted>>
FailBack(p) == /\ p \in owners /\ lost' = TRUE
               /\ UNCHANGED <<owners, mode, trusted>>

\* An owner leaves.  The fans are with the kernel then, or with another owner.
Leave(p) ==
  /\ p \in owners /\ owners' = owners \ {p}
  /\ mode = "manual" => lost \/ owners' # {}
  /\ UNCHANGED <<mode, lost, trusted>>

\* An owner is killed.
Kill(p) == /\ p \in owners /\ owners' = owners \ {p} /\ lost' = TRUE
           /\ UNCHANGED <<mode, trusted>>

Next == \E p \in Procs : \/ Take(p) \/ SetManual(p) \/ HandBack(p) \/ FailBack(p)
                         \/ Leave(p) \/ Kill(p)

Spec == Init /\ [][Next]_vars
=============================================================================
