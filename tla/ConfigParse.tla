----------------------------- MODULE ConfigParse -----------------------------
(***************************************************************************)
(* The parser of the configuration file, src/fand/config.c, as operators   *)
(* that take a parser from one line to the next.                           *)
(*                                                                         *)
(* A line is a record: what it holds (kind and arg) and where on it a      *)
(* comment begins, if any.  The kinds are                                  *)
(*   "blank"   white space only                                            *)
(*   "option"  key = value, for a key other than matrix; arg is <<key,     *)
(*             value>>, where true is 1, false is 0 and text is -1         *)
(*   "open"    matrix = ('t::s'                 arg is <<t, s>>            *)
(*   "row"     't::s', whatever comes before    arg is <<t, s>>            *)
(*   "last"    't::s'), whatever comes before   arg is <<t, s>>            *)
(*   "junk"    anything else.                                              *)
(* A comment is "none", "before" (all of this is commented out) or         *)
(* "after".  The buffers are taken to be long enough for every line.       *)
(***************************************************************************)
EXTENDS Integers, Sequences

CONSTANT MAX_TEMP_THRESHOLDS

RowKinds == {"open", "row", "last"}
Line == [kind : {"blank", "junk"}, arg : {<<>>}, comment : {"none", "before", "after"}]
        \cup [kind : {"option"}, arg : STRING \X Int, comment : {"none", "before", "after"}]
        \cup [kind : RowKinds, arg : Nat \X Nat, comment : {"none", "before", "after"}]

\* A parser: what config_parse is to return so far, the structure it fills, whether
\* it is among the rows of a matrix, and the segments of the matrix read so far.
Parser(data) == [status |-> 0, data |-> data, mode |-> "keys", segs |-> <<>>]

Error(s) == [s EXCEPT !.status = -1]

------------------------------------------------------------------------------
(* The handlers of config_map. *)

\* config_set_interval, config_set_hysteresis and config_set_throttle, or the end of
\* the map: an unknown key.
Limit(key) == CASE key = "interval"            -> 65535
                [] key = "hysteresis"          -> 255
                [] key = "aggressive_throttle" -> 1
                [] OTHER                       -> -1

SetOption(s, key, value) ==
  IF value \notin 0 .. Limit(key) THEN Error(s)
  ELSE CASE key = "interval"            -> [s EXCEPT !.data.interval = value]
         [] key = "hysteresis"          -> [s EXCEPT !.data.hysteresis = value]
         [] key = "aggressive_throttle" -> [s EXCEPT !.data.throttle = (value = 1)]

\* What a line that is no row leaves between two separators.
Empty == <<>>

\* The row read for segment k: the regular expression is not anchored, so that it
\* finds the first row at or after the segment.
RowAt(segs, k) ==
  segs[CHOOSE j \in k .. Len(segs) :
         segs[j] # Empty /\ \A i \in k .. j - 1 : segs[i] = Empty]

\* Slips: three digits are a temperature, any byte is a percentage.
RowInRangeThreeDigits(row) == row[1] <= 999 /\ row[2] <= 100
RowInRangeAnyByte(row) == row[1] <= 255 /\ row[2] <= 255

\* strsncpy into a buffer of three digits, then strstoul_range.
RowInRange(row) == row[1] <= 255 /\ row[2] <= 100

\* The segments whose rows are read before the loop ends: all, or as many as the
\* matrix has room for, or those before the first that is out of range.
RowsRead(segs) == {k \in 1 .. Len(segs) : /\ k <= MAX_TEMP_THRESHOLDS
                                          /\ \A j \in 1 .. k : RowInRange(RowAt(segs, j))}

\* A slip: the rows are counted from one.
WithRowsShifted(matrix, segs) ==
  [i \in DOMAIN matrix |-> IF i \div 2 \in RowsRead(segs)
                           THEN RowAt(segs, i \div 2)[(i % 2) + 1] ELSE matrix[i]]

\* The matrix with these rows written over its beginning.
WithRows(matrix, segs) ==
  [i \in DOMAIN matrix |-> IF (i \div 2) + 1 \in RowsRead(segs)
                           THEN RowAt(segs, (i \div 2) + 1)[(i % 2) + 1] ELSE matrix[i]]

\* A slip: one row fewer than there is room for.
MatrixFitsLess(segs) == RowsRead(segs) = 1 .. Len(segs) /\ Len(segs) < MAX_TEMP_THRESHOLDS - 1

\* The test after the loop: no room may be used up, not even exactly.
MatrixFits(segs) == RowsRead(segs) = 1 .. Len(segs) /\ Len(segs) < MAX_TEMP_THRESHOLDS

\* config_set_matrix.  What it wrote before it failed stays written.
config_set_matrix(s, segs) ==
  IF MatrixFits(segs)
  THEN [s EXCEPT !.data.matrix = WithRows(@, segs), !.data.matrix_rows = Len(segs)]
  ELSE [s EXCEPT !.data.matrix = WithRows(@, segs), !.status = -1]

------------------------------------------------------------------------------
(* Lines *)

\* One line of config_append_matrix_rows: up to the end of the line only a row
\* matches, but what comes before it does not matter, a comment sign or the opening
\* of a matrix included.  Everything else is passed over as an empty segment.
Segment(line) == IF line.kind \in RowKinds /\ line.comment # "after" THEN line.arg
                 ELSE Empty
Closes(line) == line.kind = "last" /\ line.comment # "after"

config_append_matrix_rows(s, line) ==
  IF Len(s.segs) > MAX_TEMP_THRESHOLDS THEN Error(s)
  ELSE IF Closes(line)
  THEN config_set_matrix([s EXCEPT !.mode = "keys", !.segs = <<>>],
                         Append(s.segs, Segment(line)))
  ELSE [s EXCEPT !.segs = Append(@, Segment(line))]

\* One line of config_parse outside of a matrix, where comments are cut off first.
KeyLine(s, line) ==
  CASE line.kind = "blank" \/ line.comment = "before" -> s
    [] line.kind = "option" /\ line.comment # "before" ->
         SetOption(s, line.arg[1], line.arg[2])
    [] line.kind = "open" /\ line.comment # "before" ->
         [s EXCEPT !.mode = "matrix", !.segs = <<line.arg>>]
    [] line.kind \in {"row", "last", "junk"} /\ line.comment # "before" -> Error(s)

ParseLine(s, line) == IF s.mode = "matrix" THEN config_append_matrix_rows(s, line)
                      ELSE KeyLine(s, line)

\* The file is at its end: an unterminated matrix, none at all, or well.
EndOfFile(s) == IF s.mode = "matrix" \/ s.data.matrix_rows = 0 THEN Error(s) ELSE s

=============================================================================
