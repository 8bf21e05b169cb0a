---------------------------- MODULE MCConfigured ----------------------------
(***************************************************************************)
(* Configured with room for four rows.  The files are short ones with what *)
(* can be right and wrong with a file: options and their limits, one       *)
(* matrix, two, none, one that fills the room and one that exceeds it,     *)
(* comments, lines that are passed over, rows out of range, an end that    *)
(* comes too soon.                                                         *)
(***************************************************************************)
EXTENDS Configured

L(k, a, c) == [kind |-> k, arg |-> a, comment |-> c]
Opt(key, value) == L("option", <<key, value>>, "none")
Open(t, s) == L("open", <<t, s>>, "none")
Mid(t, s) == L("row", <<t, s>>, "none")
Last(t, s) == L("last", <<t, s>>, "none")
Blank == L("blank", <<>>, "none")
Commented(line) == [line EXCEPT !.comment = "before"]
Remarked(line) == [line EXCEPT !.comment = "after"]

MCFiles == {
  <<>>,
  <<Opt("hysteresis", 3), Opt("aggressive_throttle", 1), Open(50, 5), Mid(55, 30), Last(60, 100)>>,
  <<Remarked(Blank), Remarked(Open(52, 10)), Last(58, 61), Remarked(Opt("hysteresis", 255))>>,
  <<Open(50, 5), Mid(55, 10), Mid(60, 20), Last(65, 30)>>,
  <<Open(50, 5), Mid(55, 10), Mid(60, 20), Mid(65, 30), Last(70, 40)>>,
  <<Open(50, 5), Blank, Blank, Blank, Blank, Last(65, 30)>>,
  <<Open(50, 5), Blank, Last(60, 20)>>,
  <<Open(50, 5), Remarked(Mid(55, 10)), Last(60, 20)>>,
  <<Open(50, 5), Commented(Mid(55, 10)), Remarked(Last(57, 15)), Last(60, 20)>>,
  <<Commented(Open(50, 5)), Opt("interval", 65535)>>,
  <<Open(50, 5), Mid(55, 10), Last(255, 100), Open(56, 0), Last(57, 0)>>,
  <<Open(50, 5), Last(60, 20), Open(56, 10), Last(57, 101)>>,
  <<Open(50, 5), Open(56, 10), Last(57, 11)>>,
  <<Open(256, 5), Last(60, 20)>>,
  <<Open(50, 5), Last(60, 20), Opt("hysteresis", 256)>>,
  <<Opt("aggressive_throttle", -1), Open(50, 5), Last(60, 20)>>,
  <<Opt("speed", 1), Open(50, 5), Last(60, 20)>>,
  <<Open(50, 5), Last(60, 20), Mid(65, 30)>>,
  <<L("junk", <<>>, "none")>>}

\* Leftovers of the stack: nothing, speeds that are no percentages, too many rows.
Leftover(rows, speed) ==
  [matrix |-> [i \in 0 .. 2 * MAX_TEMP_THRESHOLDS - 1 |-> IF i % 2 = 0 THEN 51 ELSE speed],
   matrix_rows |-> rows, hysteresis |-> 1, throttle |-> TRUE, interval |-> 7]
MCGarbage == {Leftover(0, 0), Leftover(2, 200), Leftover(5, 40)}

MCReadings == {-1, 53999, 57000}
=============================================================================
