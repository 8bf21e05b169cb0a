---------------------------- MODULE MCFanControl ----------------------------
(***************************************************************************)
(* FanControl with room for three rows.  The readings lie on, just above   *)
(* and just below every row of the curves and a hysteresis below them.     *)
(***************************************************************************)
EXTENDS FanControl, Sequences

\* A configuration from its rows <<temp, speed>>; the unused ones are zero.
ConfigOf(rows, h, thr) ==
  [matrix |-> [k \in 0 .. 2 * MAX_TEMP_THRESHOLDS - 1 |->
                 LET i == k \div 2
                 IN  IF i < Len(rows) THEN rows[i + 1][(k % 2) + 1] ELSE 0],
   matrix_rows |-> Len(rows), hysteresis |-> h, throttle |-> thr,
   interval |-> 2]

Wide == <<<<50, 5>>, <<55, 30>>, <<60, 100>>>>
Tight == <<<<50, 10>>, <<52, 10>>, <<54, 61>>>>
Short == <<<<52, 40>>>>
Falling == <<<<50, 60>>, <<55, 80>>, <<60, 20>>>>
\* What an uninitialised struct fand_config may hold.
NoPercentage == <<<<50, 5>>, <<55, 200>>>>
TooLong == <<<<50, 5>>, <<55, 10>>, <<60, 15>>, <<65, 20>>>>

MCConfigs ==
  {ConfigOf(Wide, 3, TRUE), ConfigOf(Wide, 0, FALSE), ConfigOf(Tight, 3, FALSE),
   ConfigOf(Short, 1, TRUE), ConfigOf(Falling, 0, TRUE), ConfigOf(<<>>, 0, FALSE),
   ConfigOf(NoPercentage, 2, TRUE), ConfigOf(TooLong, 5, FALSE)}

MCReadings == {-1} \cup {1000 * t : t \in 46 .. 62} \cup {55999}
=============================================================================
