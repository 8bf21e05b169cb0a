----------------------- MODULE ConfiguredFiles_proofs -----------------------
(***************************************************************************)
(* The rows in use are the rows of the file, and a file is accepted        *)
(* exactly if it is within the limits, for files of any length.            *)
(*                                                                         *)
(* ConfiguredInv says what the parser holds is well formed; it does not    *)
(* say where it is from.  FileInv ties the parser to the lines read so     *)
(* far: the segments collected are the last lines read, what was taken     *)
(* over is written above them, of a plain file the lines judged are within *)
(* the limits as long as the parser goes on, and a failure means that one  *)
(* of them is not.  None of this needs induction over the file: each step  *)
(* of the parser extends it by one line.                                   *)
(***************************************************************************)
EXTENDS Configured_proofs, SequenceTheorems

------------------------------------------------------------------------------
(* Which lines make up a matrix. *)

RowsOf(d) == [i \in 0 .. d.matrix_rows - 1 |-> <<d.matrix[2 * i], d.matrix[2 * i + 1]>>]
RowsInUse == [i \in UsedRows |-> InUse(i)]

\* The rows are written in the file, in its order.
Listed(R, f) ==
  \A i, j \in DOMAIN R : i <= j =>
    \E k, l \in DOMAIN f : k <= l /\ Writes(f[k], R[i]) /\ Writes(f[l], R[j])

\* Of the first n lines, o to c are those of the last matrix.
Spans(f, o, c, n) == /\ o \in 1 .. c /\ c \in 1 .. n /\ f[o].kind = "open" /\ f[c].kind = "last"
                     /\ \A i \in o + 1 .. c : f[i].kind # "open"
                     /\ \A i \in c + 1 .. n : f[i].kind # "last"

\* The rows are those of the last matrix of the first n lines.
LastMatrix(R, f, n) == \E o, c \in 1 .. n : /\ Spans(f, o, c, n) /\ DOMAIN R = 0 .. c - o
                                            /\ \A i \in DOMAIN R : Writes(f[o + i], R[i])

FromFile(R, f) == Listed(R, f) /\ (Plain(f) => LastMatrix(R, f, Len(f)))

\* The opening line of a matrix is the last one before its end.
LEMMA OpeningIs ==
  ASSUME NEW f, NEW i \in Nat, NEW o \in 1 .. i, f[o].kind = "open",
         \A j \in o + 1 .. i : f[j].kind # "open"
  PROVE  Opening(f, i) = o
<1> DEFINE P(x) == f[x].kind = "open" /\ \A j \in x + 1 .. i : f[j].kind # "open"
<1>1. P(o)
  OBVIOUS
<1>2. ASSUME NEW x \in 1 .. i, P(x) PROVE x = o
  <2>1. ~(x < o)
    BY <1>2
  <2>2. ~(o < x)
    BY <1>2
  <2> QED BY <2>1, <2>2
<1> HIDE DEF P
<1>3. (CHOOSE x \in 1 .. i : P(x)) = o
  BY <1>1, <1>2
<1> QED BY <1>3 DEF Opening, P

\* What FinalMatrix and its first line are.
LEMMA FinalMatrixIs ==
  ASSUME NEW f \in Seq(Line), NEW o, NEW c, Spans(f, o, c, Len(f))
  PROVE  /\ FinalMatrix(f) = o .. c
         /\ (CHOOSE k \in o .. c : f[k].kind = "open") = o
<1>1. /\ Len(f) \in Nat /\ c \in 1 .. Len(f) /\ o \in 1 .. c /\ c \in Nat /\ o \in Nat
      /\ f[o].kind = "open" /\ f[c].kind = "last"
      /\ \A i \in o + 1 .. c : f[i].kind # "open"
      /\ \A i \in c + 1 .. Len(f) : f[i].kind # "last"
  BY DEF Spans
<1> DEFINE P(x) == f[x].kind = "last" /\ \A j \in x + 1 .. Len(f) : f[j].kind # "last"
           last == CHOOSE x \in DOMAIN f : P(x)
<1>2. DOMAIN f = 1 .. Len(f)
  OBVIOUS
<1>3. last = c
  <2>1. c \in DOMAIN f /\ P(c)
    BY <1>1, <1>2
  <2>2. ASSUME NEW x \in DOMAIN f, P(x) PROVE x = c
    <3>1. x \in 1 .. Len(f)
      BY <1>2
    <3>2. ~(x < c)
      BY <1>1, <2>2, <3>1
    <3>3. ~(c < x)
      BY <1>1, <2>2, <3>1
    <3> QED BY <1>1, <3>1, <3>2, <3>3
  <2> HIDE DEF P
  <2> QED BY <2>1, <2>2
<1>4. FinalMatrix(f) = Opening(f, last) .. last
  BY Zenon DEF FinalMatrix
<1> HIDE DEF last
<1>5. Opening(f, c) = o
  BY <1>1, OpeningIs
<1>6. (CHOOSE k \in o .. c : f[k].kind = "open") = o
  <2> DEFINE Q(k) == f[k].kind = "open"
  <2>1. o \in o .. c /\ Q(o)
    BY <1>1
  <2>2. ASSUME NEW k \in o .. c, Q(k) PROVE k = o
    BY <1>1, <2>2
  <2> HIDE DEF Q
  <2>3. (CHOOSE k \in o .. c : Q(k)) = o
    BY <2>1, <2>2
  <2> QED BY <2>3 DEF Q
<1> QED BY <1>3, <1>4, <1>5, <1>6

\* An open matrix of a plain file is closed after nothing but rows.
LEMMA MatrixCloses ==
  ASSUME NEW f \in Seq(Line), Plain(f), NEW n \in DOMAIN f, f[n].kind \in {"open", "row"}
  PROVE  \E c \in n + 1 .. Len(f) : /\ f[c].kind = "last"
                                    /\ \A i \in n + 1 .. c - 1 : f[i].kind = "row"
<1>1. Len(f) \in Nat /\ DOMAIN f = 1 .. Len(f) /\ n \in 1 .. Len(f)
  OBVIOUS
<1> DEFINE S == {j \in n + 1 .. Len(f) : f[j].kind # "row"}
<1>2. n < Len(f)
  BY DEF Plain
<1>3. Len(f) \in S
  <2>1. Len(f) \in DOMAIN f
    BY <1>1
  <2>2. f[Len(f)].kind # "row"
    BY <1>1, <2>1 DEF Plain
  <2> QED BY <1>1, <1>2, <2>2
<1>4. S \subseteq Nat
  BY <1>1
<1>5. PICK c \in S : \A j \in S : c <= j
  <2> HIDE DEF S
  <2> QED BY <1>3, <1>4, LeastElement
<1>6. c \in n + 1 .. Len(f) /\ f[c].kind # "row" /\ \A i \in n + 1 .. c - 1 : f[i].kind = "row"
  BY <1>1, <1>5
<1>7. f[c - 1].kind \in {"open", "row"} /\ c - 1 \in DOMAIN f
  BY <1>1, <1>6
<1>8. f[c - 1 + 1].kind \in {"row", "last"}
  BY <1>7 DEF Plain
<1>9. c - 1 + 1 = c
  BY <1>1, <1>6
<1> QED BY <1>6, <1>8, <1>9

\* Rows that are read later are found later.
LEMMA RowAtOrder ==
  ASSUME NEW segs \in Segs, segs # <<>>, segs[Len(segs)] \in Cells,
         NEW a \in 1 .. Len(segs), NEW b \in 1 .. Len(segs), a <= b
  PROVE  \E k, l \in 1 .. Len(segs) :
           /\ k <= l /\ segs[k] \in Cells /\ segs[l] \in Cells
           /\ RowAt(segs, a) = segs[k] /\ RowAt(segs, b) = segs[l]
<1>1. Len(segs) \in Nat
  BY DEF Segs
<1>2. PICK k \in a .. Len(segs) : /\ segs[k] \in Cells /\ RowAt(segs, a) = segs[k]
                                  /\ \A i \in a .. k - 1 : segs[i] = Empty
  BY RowAtFirst
<1>3. PICK l \in b .. Len(segs) : /\ segs[l] \in Cells /\ RowAt(segs, b) = segs[l]
                                  /\ \A i \in b .. l - 1 : segs[i] = Empty
  BY RowAtFirst
<1>4. k \in 1 .. Len(segs) /\ l \in 1 .. Len(segs)
  BY <1>1
<1>5. ASSUME ~(k <= l) PROVE FALSE
  <2>1. l \in a .. k - 1
    BY <1>1, <1>5
  <2>2. segs[l] = Empty
    BY <1>2, <2>1
  <2> QED BY <1>3, <2>2, CellFacts
<1> QED BY <1>2, <1>3, <1>4, <1>5

\* A row that is there is the one that is read.
LEMMA RowAtItself ==
  ASSUME NEW segs \in Segs, segs # <<>>, segs[Len(segs)] \in Cells,
         NEW k \in 1 .. Len(segs), segs[k] \in Cells
  PROVE  RowAt(segs, k) = segs[k]
<1>1. Len(segs) \in Nat
  BY DEF Segs
<1>2. PICK j \in k .. Len(segs) : /\ RowAt(segs, k) = segs[j]
                                  /\ \A i \in k .. j - 1 : segs[i] = Empty
  BY RowAtFirst
<1>3. ASSUME j # k PROVE FALSE
  <2>1. k \in k .. j - 1
    BY <1>1, <1>3
  <2>2. segs[k] = Empty
    BY <1>2, <2>1
  <2> QED BY <2>2, CellFacts
<1> QED BY <1>2, <1>3

\* The rows of a matrix that config_set_matrix takes over.
RowsFound(segs) == [i \in 0 .. Len(segs) - 1 |-> RowAt(segs, i + 1)]

\* config_set_matrix takes over the rows that are found, one for each segment.
LEMMA SetMatrixRows ==
  ASSUME NEW s \in ParserType, s.status = 0, NEW segs \in Segs, segs # <<>>,
         segs[Len(segs)] \in Cells, MatrixFits(segs)
  PROVE  LET r == config_set_matrix(s, segs)
         IN  r.status = 0 /\ r.mode = s.mode /\ RowsOf(r.data) = RowsFound(segs)
<1> DEFINE W == WithRows(s.data.matrix, segs)
           r == config_set_matrix(s, segs)
           n == Len(segs)
           d == [s.data EXCEPT !.matrix = W, !.matrix_rows = n]
<1>1. s.data \in FandConfig
  BY DEF ParserType
<1>2. s.data.matrix \in [0 .. 2 * MAX_TEMP_THRESHOLDS - 1 -> UCHAR]
  BY <1>1, ConfigFields
<1>3. n \in Nat /\ n >= 1 /\ RowsRead(segs) = 1 .. n /\ n < MAX_TEMP_THRESHOLDS
  BY DEF Segs, MatrixFits
<1>4. r = [s EXCEPT !.data = d]
  BY <1>1 DEF config_set_matrix, ParserType, FandConfig
<1>5. d.matrix = W /\ d.matrix_rows = n
  <2> HIDE DEF W, n
  <2> QED BY <1>1 DEF FandConfig
<1>6. r.data = d /\ r.status = 0 /\ r.mode = s.mode
  <2> HIDE DEF d, r
  <2> QED BY <1>4 DEF ParserType
<1>7. ASSUME NEW i \in 0 .. n - 1
      PROVE  <<W[2 * i], W[2 * i + 1]>> = RowAt(segs, i + 1)
  <2>1. /\ 2 * i \in 0 .. 2 * MAX_TEMP_THRESHOLDS - 1
        /\ 2 * i + 1 \in 0 .. 2 * MAX_TEMP_THRESHOLDS - 1
        /\ (2 * i) \div 2 = i /\ (2 * i) % 2 = 0
        /\ (2 * i + 1) \div 2 = i /\ (2 * i + 1) % 2 = 1
        /\ i + 1 \in RowsRead(segs) /\ i + 1 \in 1 .. Len(segs)
    BY <1>3, ThresholdsAssumption
  <2>2. DOMAIN s.data.matrix = 0 .. 2 * MAX_TEMP_THRESHOLDS - 1
    BY <1>2
  <2>3. W[2 * i] = RowAt(segs, i + 1)[0 + 1] /\ W[2 * i + 1] = RowAt(segs, i + 1)[1 + 1]
    BY <2>1, <2>2 DEF WithRows
  <2>4. RowAt(segs, i + 1) \in Cells
    BY <2>1, RowAtIsCell
  <2> DEFINE x == RowAt(segs, i + 1)
             u == W[2 * i]
             v == W[2 * i + 1]
  <2>5. x \in Cells /\ u = x[1] /\ v = x[2]
    BY <2>3, <2>4
  <2> HIDE DEF x, u, v
  <2>6. <<u, v>> = x
    BY <2>5 DEF Cells
  <2> QED BY <2>6 DEF x, u, v
<1>8. RowsOf(d) = RowsFound(segs)
  <2>1. RowsOf(d) = [i \in 0 .. n - 1 |-> <<W[2 * i], W[2 * i + 1]>>]
    <3> HIDE DEF d, W, n
    <3> QED BY <1>5 DEF RowsOf
  <2> HIDE DEF W, d
  <2> QED BY <1>7, <2>1 DEF RowsFound
<1> QED BY <1>6, <1>8

------------------------------------------------------------------------------
(* What a line does. *)

Full(s, line) == Append(s.segs, Segment(line))

\* One segment more.
LEMMA FullFacts ==
  ASSUME NEW s, ParserInv(s), NEW line \in Line
  PROVE  /\ Full(s, line) \in Segs /\ Full(s, line) # <<>>
         /\ Len(s.segs) \in Nat /\ Len(Full(s, line)) = Len(s.segs) + 1
         /\ \A p \in 1 .. Len(s.segs) : Full(s, line)[p] = s.segs[p]
         /\ Full(s, line)[Len(s.segs) + 1] = Segment(line)
         /\ Closes(line) => Segment(line) = line.arg /\ line.arg \in Cells
<1>1. s.segs \in Segs
  BY DEF ParserInv, ParserType, Segs, Cells
<1>2. Segment(line) \in Cells \cup {Empty}
  BY LineFacts DEF Segment
<1>3. Closes(line) => Segment(line) = line.arg /\ line.arg \in Cells
  BY LineFacts DEF Closes, Segment, RowKinds
<1> QED BY <1>1, <1>2, <1>3 DEF Full, Segs

\* A line among the rows: it goes on, closes the matrix, or fails.
LEMMA AppendCases ==
  ASSUME NEW s, ParserInv(s), s.status = 0, s.mode = "matrix", NEW line \in Line
  PROVE  LET r == config_append_matrix_rows(s, line)
         IN  \/ r.status # 0 /\ Len(s.segs) > MAX_TEMP_THRESHOLDS
             \/ r.status # 0 /\ Closes(line) /\ ~MatrixFits(Full(s, line))
             \/ /\ r.status = 0 /\ r.mode = "keys" /\ Closes(line)
                /\ MatrixFits(Full(s, line)) /\ RowsOf(r.data) = RowsFound(Full(s, line))
             \/ /\ r.status = 0 /\ r.mode = "matrix" /\ ~Closes(line)
                /\ r.segs = Full(s, line) /\ r.data = s.data
<1> DEFINE r == config_append_matrix_rows(s, line)
           full == Full(s, line)
           q == [s EXCEPT !.mode = "keys", !.segs = <<>>]
<1>1. /\ full \in Segs /\ full # <<>> /\ Len(full) = Len(s.segs) + 1
      /\ full[Len(s.segs) + 1] = Segment(line)
      /\ Closes(line) => Segment(line) \in Cells
  BY FullFacts
<1>2. CASE Len(s.segs) > MAX_TEMP_THRESHOLDS
  BY <1>2, ErrorFacts DEF config_append_matrix_rows
<1>3. CASE ~(Len(s.segs) > MAX_TEMP_THRESHOLDS) /\ Closes(line)
  <2>1. q \in ParserType /\ q.status = 0 /\ q.mode = "keys"
    <3>1. <<>> \in Seq((Nat \X Nat) \cup {Empty})
      OBVIOUS
    <3> QED BY <3>1 DEF ParserInv, ParserType
  <2>2. r = config_set_matrix(q, full)
    BY <1>3 DEF config_append_matrix_rows, Full
  <2> HIDE DEF q, full, r
  <2>3. full[Len(full)] \in Cells
    BY <1>1, <1>3
  <2>4. MatrixFits(full) => /\ r.status = 0 /\ r.mode = "keys"
                            /\ RowsOf(r.data) = RowsFound(full)
    BY <1>1, <2>1, <2>2, <2>3, SetMatrixRows
  <2>5. ~MatrixFits(full) => r.status = -1
    <3> DEFINE e == q.data
    <3>1. ~MatrixFits(full) => r = [q EXCEPT !.data.matrix = WithRows(@, full), !.status = -1]
      BY <2>2 DEF config_set_matrix
    <3> QED BY <2>1, <3>1 DEF ParserType
  <2> QED BY <1>3, <2>4, <2>5 DEF r, full
<1>4. CASE ~(Len(s.segs) > MAX_TEMP_THRESHOLDS) /\ ~Closes(line)
  <2>1. r = [s EXCEPT !.segs = full]
    BY <1>4 DEF config_append_matrix_rows, ParserInv, ParserType, Full
  <2>2. r.mode = "matrix" /\ r.data = s.data /\ r.segs = full /\ r.status = 0
    <3> HIDE DEF full, r
    <3> QED BY <2>1 DEF ParserInv, ParserType
  <2> QED BY <1>4, <2>2
<1> QED BY <1>2, <1>3, <1>4

\* A line outside of a matrix: it is passed over, sets an option, opens a matrix, or fails.
LEMMA KeyCases ==
  ASSUME NEW s, ParserInv(s), s.status = 0, s.mode = "keys", NEW line \in Line
  PROVE  LET r == KeyLine(s, line)
         IN  /\ RowsOf(r.data) = RowsOf(s.data)
             /\ \/ r.status = 0 /\ r.mode = "keys" /\ (line.kind = "blank" \/ line.comment = "before")
                \/ /\ r.status = 0 /\ r.mode = "keys" /\ line.kind = "option"
                   /\ line.arg[2] \in 0 .. Limit(line.arg[1])
                \/ /\ r.status = 0 /\ r.mode = "matrix" /\ line.kind = "open"
                   /\ line.comment # "before" /\ r.segs = <<line.arg>>
                \/ /\ r.status # 0 /\ line.comment # "before" /\ line.kind = "option"
                   /\ line.arg[2] \notin 0 .. Limit(line.arg[1])
                \/ r.status # 0 /\ line.comment # "before" /\ line.kind \in {"row", "last", "junk"}
<1> DEFINE r == KeyLine(s, line)
<1>1. s \in ParserType /\ s.data \in FandConfig
  BY DEF ParserInv, ParserType
<1>2. RowsOf(r.data) = RowsOf(s.data)
  BY KeyLineFacts DEF RowsOf
<1>3. CASE line.kind = "blank" \/ line.comment = "before"
  BY <1>2, <1>3 DEF KeyLine
<1>4. CASE line.kind = "option" /\ line.comment # "before"
  <2> DEFINE key == line.arg[1]
             v == line.arg[2]
  <2>1. r = SetOption(s, key, v) /\ v \in Int
    BY <1>4, LineFacts DEF KeyLine
  <2>2. v \notin 0 .. Limit(key) => r.status # 0
    <3> HIDE DEF key, v, r
    <3> QED BY <2>1, ErrorFacts DEF SetOption
  <2>3. v \in 0 .. Limit(key) => r.status = 0 /\ r.mode = "keys"
    <3> HIDE DEF key, v, r
    <3>1. v \in 0 .. Limit(key) => key \in {"interval", "hysteresis", "aggressive_throttle"}
      BY <2>1 DEF Limit
    <3> QED BY <1>1, <2>1, <3>1 DEF SetOption, ParserType
  <2> HIDE DEF r
  <2> QED BY <1>2, <1>4, <2>2, <2>3 DEF r
<1>5. CASE line.kind = "open" /\ line.comment # "before"
  <2>1. r = [s EXCEPT !.mode = "matrix", !.segs = <<line.arg>>]
    BY <1>5 DEF KeyLine
  <2>2. r.status = 0 /\ r.mode = "matrix" /\ r.segs = <<line.arg>>
    BY <1>1, <2>1 DEF ParserType
  <2> QED BY <1>2, <1>5, <2>2
<1>6. CASE line.kind \in {"row", "last", "junk"} /\ line.comment # "before"
  <2>1. r = Error(s)
    BY <1>6 DEF KeyLine
  <2> QED BY <1>2, <1>6, <2>1, ErrorFacts
<1> QED BY <1>3, <1>4, <1>5, <1>6, LineFacts DEF RowKinds

------------------------------------------------------------------------------
(* The parser after n lines of a file. *)

\* The segments of an open matrix are the rows of the last lines.
SegsAt(s, f, n) ==
  s.mode = "matrix" =>
    /\ Len(s.segs) <= n
    /\ \A p \in 1 .. Len(s.segs) : s.segs[p] # Empty => Writes(f[n - Len(s.segs) + p], s.segs[p])

\* What the code requires of one line: that of WithinLimits, with one row less.
LineOK(f, i) ==
  f[i].comment # "before" =>
    /\ f[i].kind # "junk"
    /\ f[i].kind = "option" => f[i].arg[2] \in 0 .. Limit(f[i].arg[1])
    /\ f[i].kind \in RowKinds => f[i].arg[1] <= 255 /\ f[i].arg[2] <= 100
    /\ f[i].kind = "last" => Rows(f, i) < MAX_TEMP_THRESHOLDS

\* What the code requires of a file (config.c:148).
Fits(f) == \A i \in DOMAIN f : LineOK(f, i)

\* How many lines are done with: those of an open matrix are not.
Judged(s, n) == IF s.mode = "matrix" THEN n - Len(s.segs) ELSE n

\* Of a plain file: an open matrix has no lines but its own, the matrix taken over, if any,
\* is the last one, and the lines done with are within the limits.
PlainAt(s, f, n, taken) ==
  /\ s.mode = "keys" /\ n > 0 => f[n].kind \notin {"open", "row"}
  /\ s.mode = "matrix" =>
       /\ f[Judged(s, n) + 1].kind = "open"
       /\ \A i \in Judged(s, n) + 2 .. n : f[i].kind = "row"
       /\ \A p \in 1 .. Len(s.segs) : s.segs[p] = f[Judged(s, n) + p].arg
  /\ ~taken => \A i \in 1 .. n : f[i].kind # "last"
  /\ taken => LastMatrix(RowsOf(s.data), f, n)
  /\ \A i \in 1 .. Judged(s, n) : LineOK(f, i)

TakenNow(s, r) == s.mode = "matrix" /\ r.mode = "keys"

\* The segments follow the lines, whatever they hold.
LEMMA SegsNext ==
  ASSUME NEW s, ParserInv(s), s.status = 0, NEW f \in Seq(Line), NEW n \in 0 .. Len(f) - 1,
         SegsAt(s, f, n), NEW r, r = ParseLine(s, f[n + 1]), r.status = 0
  PROVE  SegsAt(r, f, n + 1)
<1>1. Len(f) \in Nat /\ f[n + 1] \in Line /\ n \in Nat
  OBVIOUS
<1> DEFINE line == f[n + 1]
<1> SUFFICES ASSUME r.mode = "matrix" PROVE SegsAt(r, f, n + 1)
  BY DEF SegsAt
<1>2. CASE s.mode = "matrix"
  <2> DEFINE full == Full(s, line)
             m == Len(s.segs)
  <2>1. r = config_append_matrix_rows(s, line)
    BY <1>2 DEF ParseLine
  <2>2. ~Closes(line) /\ r.segs = full
    BY <1>1, <1>2, <2>1, AppendCases
  <2>3. /\ m \in Nat /\ Len(full) = m + 1 /\ full[m + 1] = Segment(line)
        /\ \A p \in 1 .. m : full[p] = s.segs[p]
    BY <1>1, FullFacts
  <2>4. /\ m <= n
        /\ \A p \in 1 .. m : s.segs[p] # Empty => Writes(f[n - m + p], s.segs[p])
    BY <1>2 DEF SegsAt
  <2>5. Segment(line) # Empty => Writes(line, Segment(line))
    BY DEF Segment, Writes
  <2> HIDE DEF full, m
  <2>6. ASSUME NEW p \in 1 .. m + 1, full[p] # Empty
        PROVE  Writes(f[(n + 1) - (m + 1) + p], full[p])
    <3>1. (n + 1) - (m + 1) + p = n - m + p
      BY <1>1, <2>3
    <3>2. CASE p = m + 1
      <4>1. n - m + p = n + 1
        BY <1>1, <2>3, <3>2
      <4> QED BY <2>3, <2>5, <2>6, <3>1, <3>2, <4>1
    <3>3. CASE p # m + 1
      <4>1. p \in 1 .. m
        BY <2>3, <3>3
      <4> QED BY <2>3, <2>4, <2>6, <3>1, <4>1
    <3> QED BY <3>2, <3>3
  <2>7. m + 1 <= n + 1
    BY <1>1, <2>3, <2>4
  <2> QED BY <2>2, <2>3, <2>6, <2>7 DEF SegsAt
<1>3. CASE s.mode = "keys"
  <2>1. r = KeyLine(s, line)
    BY <1>3 DEF ParseLine
  <2>2. line.kind = "open" /\ r.segs = <<line.arg>>
    BY <1>1, <1>3, <2>1, KeyCases
  <2>3. Len(r.segs) = 1 /\ r.segs[1] = line.arg
    BY <2>2
  <2>4. Writes(line, line.arg)
    BY <2>2 DEF Writes, RowKinds
  <2>5. 1 <= n + 1 /\ (n + 1) - 1 + 1 = n + 1 /\ \A p \in 1 .. 1 : p = 1
    BY <1>1
  <2> QED BY <2>3, <2>4, <2>5 DEF SegsAt
<1> QED BY <1>2, <1>3 DEF ParserInv, ParserType

\* A matrix that is taken over is one whose rows are listed; until then the rows stay.
LEMMA ListedNext ==
  ASSUME NEW s, ParserInv(s), s.status = 0, NEW f \in Seq(Line), NEW n \in 0 .. Len(f) - 1,
         SegsAt(s, f, n), NEW r, r = ParseLine(s, f[n + 1]), r.status = 0
  PROVE  IF TakenNow(s, r) THEN Listed(RowsOf(r.data), f) ELSE RowsOf(r.data) = RowsOf(s.data)
<1>1. Len(f) \in Nat /\ f[n + 1] \in Line /\ n \in Nat /\ DOMAIN f = 1 .. Len(f)
  OBVIOUS
<1> DEFINE line == f[n + 1]
<1>2. CASE s.mode = "keys"
  BY <1>1, <1>2, KeyCases DEF ParseLine, TakenNow
<1>3. CASE s.mode = "matrix"
  <2> DEFINE full == Full(s, line)
             m == Len(s.segs)
             R == RowsOf(r.data)
  <2>1. r = config_append_matrix_rows(s, line)
    BY <1>3 DEF ParseLine
  <2>2. CASE r.mode = "matrix"
    BY <1>1, <1>3, <2>1, <2>2, AppendCases DEF TakenNow
  <2>3. CASE r.mode # "matrix"
    <3>1. Closes(line) /\ R = RowsFound(full) /\ r.mode = "keys"
      BY <1>1, <1>3, <2>1, <2>3, AppendCases
    <3>2. /\ m \in Nat /\ full \in Segs /\ full # <<>> /\ Len(full) = m + 1
          /\ full[m + 1] = line.arg /\ line.arg \in Cells
          /\ \A p \in 1 .. m : full[p] = s.segs[p]
      BY <1>1, <3>1, FullFacts
    <3>3. /\ m <= n
          /\ \A p \in 1 .. m : s.segs[p] # Empty => Writes(f[n - m + p], s.segs[p])
      BY <1>3 DEF SegsAt
    <3>4. Writes(line, line.arg)
      BY <3>1 DEF Writes, Closes, RowKinds
    <3> HIDE DEF full, m, R
    <3>5. ASSUME NEW p \in 1 .. m + 1, full[p] \in Cells
          PROVE  n - m + p \in DOMAIN f /\ Writes(f[n - m + p], full[p])
      <4>1. n - m + p \in DOMAIN f
        BY <1>1, <3>2, <3>3
      <4>2. full[p] # Empty
        BY <3>5, CellFacts
      <4>3. CASE p = m + 1
        <5>1. n - m + p = n + 1
          BY <1>1, <3>2, <4>3
        <5> QED BY <3>2, <3>4, <4>1, <4>3, <5>1
      <4>4. CASE p # m + 1
        <5>1. p \in 1 .. m
          BY <3>2, <4>4
        <5> QED BY <3>2, <3>3, <4>1, <4>2, <5>1
      <4> QED BY <4>3, <4>4
    <3>6. ASSUME NEW i \in DOMAIN R, NEW j \in DOMAIN R, i <= j
          PROVE  \E k, l \in DOMAIN f : k <= l /\ Writes(f[k], R[i]) /\ Writes(f[l], R[j])
      <4>1. /\ i + 1 \in 1 .. Len(full) /\ j + 1 \in 1 .. Len(full) /\ i + 1 <= j + 1
            /\ R[i] = RowAt(full, i + 1) /\ R[j] = RowAt(full, j + 1)
        BY <3>1, <3>2, <3>6 DEF RowsFound
      <4>2. PICK k, l \in 1 .. Len(full) :
              /\ k <= l /\ full[k] \in Cells /\ full[l] \in Cells
              /\ RowAt(full, i + 1) = full[k] /\ RowAt(full, j + 1) = full[l]
        <5>1. full[Len(full)] \in Cells
          BY <3>2
        <5> QED BY <3>2, <4>1, <5>1, RowAtOrder, ZenonT(60)
      <4>3. n - m + k <= n - m + l
        BY <1>1, <3>2, <4>2
      <4> QED BY <3>2, <3>5, <4>1, <4>2, <4>3
    <3> QED BY <1>3, <3>1, <3>6 DEF Listed, TakenNow, R
  <2> QED BY <2>2, <2>3
<1> QED BY <1>2, <1>3 DEF ParserInv, ParserType

\* The last matrix stays the last one until another is closed.
LEMMA LastMatrixStays ==
  ASSUME NEW R, NEW f, NEW n \in Nat, LastMatrix(R, f, n), f[n + 1].kind # "last"
  PROVE  LastMatrix(R, f, n + 1)
<1>1. PICK o, c \in 1 .. n : /\ Spans(f, o, c, n) /\ DOMAIN R = 0 .. c - o
                             /\ \A i \in DOMAIN R : Writes(f[o + i], R[i])
  BY DEF LastMatrix
<1>2. Spans(f, o, c, n + 1)
  BY <1>1 DEF Spans
<1>3. o \in 1 .. n + 1 /\ c \in 1 .. n + 1
  OBVIOUS
<1> QED BY <1>1, <1>2, <1>3 DEF LastMatrix

\* Where the lines of a matrix of m segments are that ends at line n.
LEMMA SpanFacts ==
  ASSUME NEW n \in Nat, NEW m \in Nat, m >= 1, m <= n
  PROVE  /\ m \in 1 .. n /\ n - m + 1 \in 1 .. n + 1
         /\ m # 1 => n \in n - m + 2 .. n
         /\ \A i \in n - m + 1 .. n : i \in 1 .. n /\ (i = n - m + 1 \/ i \in n - m + 2 .. n)
         /\ \A j \in (n - m + 1) + 1 .. n + 1 : j \in n - m + 2 .. n \/ j = n + 1
         /\ n - m + (m + 1) = n + 1
         /\ \A p \in 1 .. m + 1 : /\ n - m + p \in 1 .. n + 1
                                  /\ p # m + 1 => p \in 1 .. m /\ n - m + p \in n - m + 1 .. n
OBVIOUS

\* The m lines up to n are those of an open matrix, and the next one is a row or the last.
OpenLines(segs, f, n, m) ==
  /\ m \in Nat /\ m >= 1 /\ m <= n /\ n \in DOMAIN f
  /\ f[n - m + 1].kind = "open" /\ f[n].kind \in {"open", "row"}
  /\ \A i \in n - m + 2 .. n : f[i].kind = "row"
  /\ \A i \in n - m + 1 .. n : f[i].comment # "before"
  /\ \A p \in 1 .. m : segs[p] = f[n - m + p].arg
  /\ f[n + 1].kind \in {"row", "last"} /\ f[n + 1].comment = "none"

\* The last line read of an open matrix opens it or is a row.
LEMMA OpenLast ==
  ASSUME NEW s, ParserInv(s), s.mode = "matrix", NEW f \in Seq(Line), NEW n \in 0 .. Len(f),
         SegsAt(s, f, n), NEW taken, PlainAt(s, f, n, taken), NEW m, m = Len(s.segs)
  PROVE  /\ m \in Nat /\ m >= 1 /\ m <= n /\ n \in DOMAIN f
         /\ f[n].kind \in {"open", "row"}
<1>1. Len(f) \in Nat /\ n \in Nat /\ DOMAIN f = 1 .. Len(f)
  OBVIOUS
<1>2. m \in Nat /\ m >= 1 /\ m <= n
  BY DEF ParserInv, ParserType, SegsAt
<1>2a. n \in DOMAIN f
  BY <1>1, <1>2
<1>3. f[n - m + 1].kind = "open" /\ \A i \in n - m + 2 .. n : f[i].kind = "row"
  BY DEF PlainAt, Judged
<1>4. CASE m = 1
  <2>1. n - m + 1 = n
    BY <1>1, <1>4
  <2> QED BY <1>2, <1>2a, <1>3, <2>1, Zenon
<1>5. CASE m # 1
  <2>1. n \in n - m + 2 .. n
    BY <1>1, <1>2, <1>5, SpanFacts
  <2> QED BY <1>2, <1>2a, <1>3, <2>1, Zenon
<1> QED BY <1>4, <1>5

\* So it is in a plain file.
LEMMA OpenMatrix ==
  ASSUME NEW s, ParserInv(s), s.status = 0, s.mode = "matrix", NEW f \in Seq(Line), Plain(f),
         NEW n \in 0 .. Len(f) - 1, SegsAt(s, f, n), NEW taken, PlainAt(s, f, n, taken),
         NEW m, m = Len(s.segs)
  PROVE  OpenLines(s.segs, f, n, m)
<1>1. Len(f) \in Nat /\ n \in Nat /\ DOMAIN f = 1 .. Len(f)
  OBVIOUS
<1>2. m \in Nat /\ m >= 1 /\ m <= n
  BY DEF ParserInv, ParserType, SegsAt
<1>3. /\ f[n - m + 1].kind = "open"
      /\ \A i \in n - m + 2 .. n : f[i].kind = "row"
      /\ \A p \in 1 .. m : s.segs[p] = f[n - m + p].arg
  BY DEF PlainAt, Judged
<1>4. f[n].kind \in {"open", "row"}
  <2>1. n \in 0 .. Len(f)
    BY <1>1
  <2> QED BY <2>1, OpenLast, Zenon
<1>5. n \in DOMAIN f /\ n + 1 \in DOMAIN f
  BY <1>1, <1>2
<1>6. f[n + 1].kind \in {"row", "last"} /\ f[n + 1].comment = "none"
  BY <1>4, <1>5 DEF Plain
<1>7. ASSUME NEW i \in n - m + 1 .. n PROVE f[i].comment # "before"
  <2>1. i \in DOMAIN f
    BY <1>1, <1>2
  <2>2. i = n - m + 1 \/ i \in n - m + 2 .. n
    BY <1>1, <1>2
  <2>3. f[i].kind \in {"open", "row"}
    BY <1>3, <2>2
  <2> QED BY <2>1, <2>3 DEF Plain
<1> QED BY <1>1, <1>2, <1>3, <1>4, <1>5, <1>6, <1>7 DEF OpenLines

\* The segments are those of the m lines up to n and of the next one, which closes the matrix.
ClosedLines(full, f, n, m) ==
  /\ full \in Segs /\ Len(full) = m + 1 /\ Opening(f, n + 1) = n - m + 1
  /\ \A p \in 1 .. m + 1 : /\ RowAt(full, p) = f[n - m + p].arg
                           /\ f[n - m + p].kind \in RowKinds
                           /\ f[n - m + p].comment # "before"

\* So it is in a plain file.
LEMMA ClosingSegs ==
  ASSUME NEW s, ParserInv(s), s.status = 0, s.mode = "matrix", NEW f \in Seq(Line), Plain(f),
         NEW n \in 0 .. Len(f) - 1, SegsAt(s, f, n), NEW taken, PlainAt(s, f, n, taken),
         NEW m, m = Len(s.segs), NEW full, full = Full(s, f[n + 1]), f[n + 1].kind = "last"
  PROVE  ClosedLines(full, f, n, m)
<1>1. Len(f) \in Nat /\ n \in Nat /\ f[n + 1] \in Line /\ \A i \in 1 .. Len(f) : f[i] \in Line
  OBVIOUS
<1>2a. OpenLines(s.segs, f, n, m)
  BY OpenMatrix, Zenon
<1>2. /\ m \in Nat /\ m >= 1 /\ m <= n
      /\ f[n - m + 1].kind = "open"
      /\ \A i \in n - m + 2 .. n : f[i].kind = "row"
      /\ \A i \in n - m + 1 .. n : f[i].comment # "before"
      /\ \A p \in 1 .. m : s.segs[p] = f[n - m + p].arg
      /\ f[n + 1].comment = "none"
  BY <1>2a DEF OpenLines
<1>3. Closes(f[n + 1])
  BY <1>2 DEF Closes
<1>4. /\ full \in Segs /\ full # <<>> /\ Len(full) = m + 1 /\ full[m + 1] = f[n + 1].arg
      /\ \A p \in 1 .. m : full[p] = s.segs[p]
      /\ f[n + 1].arg \in Cells
  BY <1>1, <1>3, FullFacts
<1>5. ASSUME NEW p \in 1 .. m + 1
      PROVE  /\ full[p] = f[n - m + p].arg /\ f[n - m + p].kind \in RowKinds
             /\ f[n - m + p].comment # "before" /\ n - m + p \in 1 .. Len(f)
  <2>1. n - m + p \in 1 .. Len(f)
    <3>1. n - m + p \in 1 .. n + 1
      BY <1>1, <1>2, SpanFacts, Zenon
    <3>2. n + 1 <= Len(f)
      BY <1>1
    <3> QED BY <1>1, <3>1, <3>2
  <2>2. CASE p = m + 1
    <3>1. n - m + p = n + 1
      BY <1>1, <1>2, <2>2, SpanFacts
    <3> QED BY <1>2, <1>4, <2>1, <2>2, <3>1 DEF RowKinds
  <2>3. CASE p # m + 1
    <3>1. p \in 1 .. m /\ n - m + p \in n - m + 1 .. n
      BY <1>1, <1>2, <2>3, SpanFacts
    <3>2. n - m + p = n - m + 1 \/ n - m + p \in n - m + 2 .. n
      BY <1>1, <1>2, <3>1, SpanFacts
    <3> QED BY <1>2, <1>4, <2>1, <3>1, <3>2, ZenonT(40) DEF RowKinds
  <2> QED BY <2>2, <2>3
<1>6. ASSUME NEW p \in 1 .. m + 1 PROVE RowAt(full, p) = full[p]
  <2>1. full[p] \in Cells
    BY <1>1, <1>5, LineFacts
  <2> QED BY <1>4, <2>1, RowAtItself
<1>7. Opening(f, n + 1) = n - m + 1
  <2>1. n - m + 1 \in 1 .. n + 1
    BY <1>1, <1>2, SpanFacts, Zenon
  <2>2. n + 1 \in Nat
    BY <1>1
  <2>3. ASSUME NEW j \in (n - m + 1) + 1 .. n + 1 PROVE f[j].kind # "open"
    <3>1. j \in n - m + 2 .. n \/ j = n + 1
      BY <1>1, <1>2, SpanFacts
    <3> QED BY <1>2, <3>1
  <2> QED BY <1>2, <2>1, <2>2, <2>3, OpeningIs, ZenonT(40)
<1> QED BY <1>4, <1>5, <1>6, <1>7, ZenonT(40) DEF ClosedLines

\* In a plain file a row or a closing line is met among the rows of a matrix only.
LEMMA RowsInMatrix ==
  ASSUME NEW s, s.mode = "keys", NEW f \in Seq(Line), Plain(f), NEW n \in 0 .. Len(f) - 1,
         NEW taken, PlainAt(s, f, n, taken)
  PROVE  f[n + 1].kind \notin {"row", "last"}
<1> SUFFICES ASSUME f[n + 1].kind \in {"row", "last"} PROVE FALSE
  OBVIOUS
<1>1. n + 1 \in DOMAIN f /\ n \in Nat
  OBVIOUS
<1>2. n + 1 > 1 /\ f[(n + 1) - 1].kind \in {"open", "row"}
  BY <1>1 DEF Plain
<1>3. (n + 1) - 1 = n /\ n > 0
  BY <1>1, <1>2
<1> QED BY <1>2, <1>3 DEF PlainAt

\* Outside of a matrix.
LEMMA PlainKeys ==
  ASSUME NEW s, ParserInv(s), s.status = 0, s.mode = "keys", NEW f \in Seq(Line), Plain(f),
         NEW n \in 0 .. Len(f) - 1, NEW taken, PlainAt(s, f, n, taken),
         NEW r, r = ParseLine(s, f[n + 1])
  PROVE  IF r.status = 0 THEN PlainAt(r, f, n + 1, taken) ELSE ~LineOK(f, n + 1)
<1> DEFINE line == f[n + 1]
<1>1. /\ Len(f) \in Nat /\ n \in Nat /\ line \in Line /\ n + 1 \in DOMAIN f
      /\ \A i \in 1 .. n + 1 : i \in 1 .. n \/ i = n + 1
  OBVIOUS
<1>2. r = KeyLine(s, line)
  BY DEF ParseLine
<1>3. line.kind \notin {"row", "last"}
  BY RowsInMatrix
<1>4. /\ ~taken => \A i \in 1 .. n : f[i].kind # "last"
      /\ taken => LastMatrix(RowsOf(s.data), f, n)
      /\ \A i \in 1 .. n : LineOK(f, i)
  BY DEF PlainAt, Judged
<1>5. RowsOf(r.data) = RowsOf(s.data)
  BY <1>1, <1>2, KeyCases
<1>6. /\ ~taken => \A i \in 1 .. n + 1 : f[i].kind # "last"
      /\ taken => LastMatrix(RowsOf(r.data), f, n + 1)
  BY <1>1, <1>3, <1>4, <1>5, LastMatrixStays
<1>7. CASE /\ r.status = 0 /\ r.mode = "keys"
           /\ \/ line.kind = "blank" \/ line.comment = "before"
              \/ line.kind = "option" /\ line.arg[2] \in 0 .. Limit(line.arg[1])
  <2>1. line.kind \notin {"open", "row"}
    BY <1>1, <1>3, <1>7 DEF Plain
  <2>2. LineOK(f, n + 1)
    BY <1>3, <1>7, <2>1 DEF LineOK, RowKinds
  <2>3. \A i \in 1 .. n + 1 : LineOK(f, i)
    BY <1>1, <1>4, <2>2
  <2> QED BY <1>6, <1>7, <2>1, <2>3 DEF PlainAt, Judged
<1>8. CASE r.status = 0 /\ r.mode = "matrix" /\ line.kind = "open" /\ r.segs = <<line.arg>>
  <2>1. Len(r.segs) = 1 /\ r.segs[1] = line.arg
    BY <1>8
  <2>2. /\ n + 1 - 1 = n /\ (\A i \in n + 2 .. n + 1 : FALSE) /\ \A p \in 1 .. 1 : p = 1
    BY <1>1
  <2>3. Judged(r, n + 1) = n
    BY <1>8, <2>1, <2>2 DEF Judged
  <2> QED BY <1>4, <1>6, <1>8, <2>1, <2>2, <2>3 DEF PlainAt
<1>9. CASE /\ r.status # 0 /\ line.comment # "before"
           /\ \/ line.kind = "option" /\ line.arg[2] \notin 0 .. Limit(line.arg[1])
              \/ line.kind \in {"row", "last", "junk"}
  BY <1>3, <1>9 DEF LineOK
<1> QED BY <1>1, <1>2, <1>7, <1>8, <1>9, KeyCases

\* The lines of a matrix that is accepted are within the limits, and those of one that is
\* not are not.
LEMMA ClosedJudged ==
  ASSUME NEW full, NEW f \in Seq(Line), NEW n \in Nat, NEW m \in Nat, m >= 1, m <= n,
         ClosedLines(full, f, n, m), f[n + 1].kind = "last",
         \A i \in n - m + 1 .. n : f[i].kind # "last"
  PROVE  MatrixFits(full) <=> \A i \in n - m + 1 .. n + 1 : LineOK(f, i)
<1>1. /\ full \in Segs /\ Len(full) = m + 1 /\ Opening(f, n + 1) = n - m + 1
      /\ \A p \in 1 .. m + 1 : /\ RowAt(full, p) = f[n - m + p].arg
                               /\ f[n - m + p].kind \in RowKinds
                               /\ f[n - m + p].comment # "before"
  BY DEF ClosedLines
<1> DEFINE Good(p) == RowInRange(f[n - m + p].arg)
<1>2. MatrixFits(full) <=> m + 1 < MAX_TEMP_THRESHOLDS /\ \A p \in 1 .. m + 1 : Good(p)
  <2> DEFINE C(p) == p <= MAX_TEMP_THRESHOLDS /\ \A j \in 1 .. p : RowInRange(RowAt(full, j))
  <2>1. RowsRead(full) = {p \in 1 .. m + 1 : C(p)}
    BY <1>1 DEF RowsRead
  <2>2. \A p \in 1 .. m + 1 : RowInRange(RowAt(full, p)) <=> Good(p)
    BY <1>1
  <2>3. (RowsRead(full) = 1 .. m + 1) <=> \A p \in 1 .. m + 1 : C(p)
    <3> HIDE DEF C
    <3> QED BY <2>1
  <2> HIDE DEF Good
  <2>4. ASSUME m + 1 < MAX_TEMP_THRESHOLDS
        PROVE  (\A p \in 1 .. m + 1 : C(p)) <=> \A p \in 1 .. m + 1 : Good(p)
    <3>1. \A p \in 1 .. m + 1 : /\ p <= MAX_TEMP_THRESHOLDS /\ p \in 1 .. p
                                /\ \A j \in 1 .. p : j \in 1 .. m + 1
      BY <2>4, ThresholdsAssumption
    <3> QED BY <2>2, <3>1
  <2> HIDE DEF C
  <2> QED BY <1>1, <2>3, <2>4 DEF MatrixFits
<1>3. \A p \in 1 .. m + 1 : LineOK(f, n - m + p) <=>
                             Good(p) /\ (p = m + 1 => m + 1 < MAX_TEMP_THRESHOLDS)
  <2> SUFFICES ASSUME NEW p \in 1 .. m + 1
               PROVE  LineOK(f, n - m + p) <=>
                        Good(p) /\ (p = m + 1 => m + 1 < MAX_TEMP_THRESHOLDS)
    OBVIOUS
  <2> DEFINE i == n - m + p
  <2>1. f[i].kind \in RowKinds /\ f[i].comment # "before"
    BY <1>1
  <2>2. f[i].kind = "last" <=> p = m + 1
    <3>1. p = m + 1 => i = n + 1
      OBVIOUS
    <3>2. p # m + 1 => i \in n - m + 1 .. n
      OBVIOUS
    <3> QED BY <3>1, <3>2
  <2>3. p = m + 1 => i - Opening(f, i) + 1 = m + 1
    <3>1. p = m + 1 => i = n + 1 /\ (n + 1) - (n - m + 1) + 1 = m + 1
      OBVIOUS
    <3> QED BY <1>1, <3>1
  <2>4. Good(p) <=> f[i].arg[1] <= 255 /\ f[i].arg[2] <= 100
    BY DEF RowInRange
  <2> HIDE DEF i, Good
  <2>5. LineOK(f, i) <=> Good(p) /\ (p = m + 1 => m + 1 < MAX_TEMP_THRESHOLDS)
    BY <2>1, <2>2, <2>3, <2>4 DEF LineOK, Rows, RowKinds
  <2> QED BY <2>5 DEF i
<1>4. (\A i \in n - m + 1 .. n + 1 : LineOK(f, i)) <=> \A p \in 1 .. m + 1 : LineOK(f, n - m + p)
  <2>1. \A i \in n - m + 1 .. n + 1 : i - (n - m) \in 1 .. m + 1 /\ n - m + (i - (n - m)) = i
    OBVIOUS
  <2>2. \A p \in 1 .. m + 1 : n - m + p \in n - m + 1 .. n + 1
    OBVIOUS
  <2>3. ASSUME \A i \in n - m + 1 .. n + 1 : LineOK(f, i), NEW p \in 1 .. m + 1
        PROVE  LineOK(f, n - m + p)
    BY <2>2, <2>3
  <2>4. ASSUME \A p \in 1 .. m + 1 : LineOK(f, n - m + p), NEW i \in n - m + 1 .. n + 1
        PROVE  LineOK(f, i)
    <3> DEFINE p == i - (n - m)
    <3>1. p \in 1 .. m + 1 /\ n - m + p = i
      BY <2>1
    <3> HIDE DEF p
    <3> QED BY <2>4, <3>1
  <2> QED BY <2>3, <2>4
<1>5. m + 1 \in 1 .. m + 1
  OBVIOUS
<1> HIDE DEF Good
<1> QED BY <1>2, <1>3, <1>4, <1>5

\* The first n lines have been read, the last one a row: the matrix goes on, it has been
\* taken over, or the file is beyond a limit.
RowJudged(r, f, n, taken) ==
  IF r.status # 0 THEN ~Fits(f)
  ELSE IF r.mode = "keys" THEN PlainAt(r, f, n, TRUE) ELSE PlainAt(r, f, n, taken)

\* Among the rows of a matrix.
LEMMA PlainRows ==
  ASSUME NEW s, ParserInv(s), s.status = 0, s.mode = "matrix", NEW f \in Seq(Line), Plain(f),
         NEW n \in 0 .. Len(f) - 1, SegsAt(s, f, n), NEW taken, PlainAt(s, f, n, taken),
         NEW r, r = ParseLine(s, f[n + 1])
  PROVE  RowJudged(r, f, n + 1, taken)
<1> DEFINE line == f[n + 1]
           full == Full(s, line)
           m == Len(s.segs)
<1>1. Len(f) \in Nat /\ n \in Nat /\ line \in Line /\ DOMAIN f = 1 .. Len(f)
  OBVIOUS
<1>2. r = config_append_matrix_rows(s, line)
  BY DEF ParseLine
<1>3. OpenLines(s.segs, f, n, m)
  BY OpenMatrix, Zenon
<1>4. /\ m \in Nat /\ m >= 1 /\ m <= n /\ n \in DOMAIN f
      /\ f[n - m + 1].kind = "open" /\ f[n].kind \in {"open", "row"}
      /\ \A i \in n - m + 2 .. n : f[i].kind = "row"
      /\ \A p \in 1 .. m : s.segs[p] = f[n - m + p].arg
      /\ line.kind \in {"row", "last"} /\ line.comment = "none"
  BY <1>3 DEF OpenLines
<1>5. line.kind = "last" <=> Closes(line)
  BY <1>4 DEF Closes
<1>6. line.kind = "last" => ClosedLines(full, f, n, m)
  BY ClosingSegs, Zenon
<1>7. /\ ~taken => \A i \in 1 .. n : f[i].kind # "last"
      /\ taken => LastMatrix(RowsOf(s.data), f, n)
      /\ \A i \in 1 .. n - m : LineOK(f, i)
  BY DEF PlainAt, Judged
<1>8. \A i \in n - m + 1 .. n : f[i].kind # "last"
  BY <1>1, <1>4, SpanFacts
<1>9. line.kind = "last" => (MatrixFits(full) <=> \A i \in n - m + 1 .. n + 1 : LineOK(f, i))
  <2> HIDE DEF full, m
  <2> QED BY <1>1, <1>4, <1>6, <1>8, ClosedJudged
<1>10. CASE r.status # 0 /\ m > MAX_TEMP_THRESHOLDS
  <2>1. PICK c \in n + 1 .. Len(f) : /\ f[c].kind = "last"
                                     /\ \A i \in n + 1 .. c - 1 : f[i].kind = "row"
    BY <1>4, MatrixCloses
  <2>2. c \in Nat /\ c \in DOMAIN f /\ n - m + 1 \in 1 .. c /\ c - (n - m + 1) + 1 > m
    <3> HIDE DEF m
    <3> QED BY <1>1, <1>4, <2>1
  <2>3. ASSUME NEW j \in (n - m + 1) + 1 .. c PROVE f[j].kind # "open"
    <3>1. j \in n - m + 2 .. n \/ j \in n + 1 .. c - 1 \/ j = c
      <4> HIDE DEF m
      <4> QED BY <1>1, <1>4, <2>1
    <3> QED BY <1>4, <2>1, <3>1
  <2>4. Opening(f, c) = n - m + 1
    <3> HIDE DEF m
    <3> QED BY <1>4, <2>2, <2>3, OpeningIs
  <2>5. f[c].comment = "none"
    BY <2>1, <2>2 DEF Plain
  <2>6. ~(c - Opening(f, c) + 1 < MAX_TEMP_THRESHOLDS)
    <3> HIDE DEF m
    <3> QED BY <1>1, <1>4, <1>10, <2>2, <2>4, ThresholdsAssumption
  <2>7. ~LineOK(f, c)
    BY <2>1, <2>5, <2>6 DEF LineOK, Rows
  <2> QED BY <1>10, <2>2, <2>7 DEF RowJudged, Fits
<1>11. CASE r.status # 0 /\ Closes(line) /\ ~MatrixFits(full)
  <2>1. PICK i \in n - m + 1 .. n + 1 : ~LineOK(f, i)
    BY <1>5, <1>9, <1>11
  <2>2. i \in DOMAIN f
    <3> HIDE DEF m
    <3> QED BY <1>1, <1>4
  <2> QED BY <1>11, <2>1, <2>2 DEF RowJudged, Fits
<1>12. CASE /\ r.status = 0 /\ r.mode = "keys" /\ Closes(line) /\ MatrixFits(full)
            /\ RowsOf(r.data) = RowsFound(full)
  <2> DEFINE o == n - m + 1
             R == RowsOf(r.data)
  <2>1. \A i \in 1 .. n + 1 : LineOK(f, i)
    <3>1. \A i \in n - m + 1 .. n + 1 : LineOK(f, i)
      BY <1>5, <1>9, <1>12
    <3>2. \A i \in 1 .. n + 1 : i \in 1 .. n - m \/ i \in n - m + 1 .. n + 1
      <4> HIDE DEF m
      <4> QED BY <1>1, <1>4
    <3> QED BY <1>7, <3>1, <3>2
  <2>2. o \in 1 .. n + 1 /\ n + 1 \in 1 .. n + 1 /\ (n + 1) - o = m
    <3> HIDE DEF m
    <3> QED BY <1>1, <1>4
  <2>3. Spans(f, o, n + 1, n + 1)
    <3>1. ASSUME NEW j \in o + 1 .. n + 1 PROVE f[j].kind # "open"
      <4>1. j \in n - m + 2 .. n \/ j = n + 1
        <5> HIDE DEF m
        <5> QED BY <1>1, <1>4
      <4> QED BY <1>4, <4>1
    <3>2. \A i \in (n + 1) + 1 .. n + 1 : FALSE
      BY <1>1
    <3> QED BY <1>4, <1>5, <1>12, <2>2, <3>1, <3>2 DEF Spans
  <2>4. DOMAIN R = 0 .. (n + 1) - o /\ \A i \in 0 .. m : R[i] = RowAt(full, i + 1)
    <3>1. Len(full) - 1 = m
      <4>1. Len(full) = m + 1
        BY <1>5, <1>6, <1>12 DEF ClosedLines
      <4> HIDE DEF full, m
      <4> QED BY <1>4, <4>1
    <3> HIDE DEF full, m, o
    <3> QED BY <1>12, <2>2, <3>1 DEF RowsFound
  <2>5. ASSUME NEW i \in 0 .. m PROVE Writes(f[o + i], R[i])
    <3>1. i + 1 \in 1 .. m + 1 /\ n - m + (i + 1) = o + i
      <4> HIDE DEF m
      <4> QED BY <1>1, <1>4
    <3>2. RowAt(full, i + 1) = f[o + i].arg /\ f[o + i].kind \in RowKinds
      <4> HIDE DEF full, m, o
      <4> QED BY <1>5, <1>6, <1>12, <3>1 DEF ClosedLines
    <3> QED BY <2>4, <3>2 DEF Writes
  <2>6. LastMatrix(R, f, n + 1)
    <3> HIDE DEF R, o, m
    <3> QED BY <2>2, <2>3, <2>4, <2>5 DEF LastMatrix
  <2>7. f[n + 1].kind \notin {"open", "row"}
    BY <1>5, <1>12
  <2> QED BY <1>12, <2>1, <2>6, <2>7 DEF PlainAt, Judged, RowJudged
<1>13. CASE /\ r.status = 0 /\ r.mode = "matrix" /\ ~Closes(line)
            /\ r.segs = full /\ r.data = s.data
  <2>1. /\ Len(full) = m + 1 /\ full[m + 1] = Segment(line)
        /\ \A p \in 1 .. m : full[p] = s.segs[p]
    BY <1>1, FullFacts
  <2>2. line.kind = "row" /\ Segment(line) = line.arg
    BY <1>4, <1>5, <1>13 DEF Segment, RowKinds
  <2> HIDE DEF full, m
  <2>3. Judged(r, n + 1) = n - m
    BY <1>1, <1>4, <1>13, <2>1 DEF Judged
  <2>4. ASSUME NEW i \in n - m + 2 .. n + 1 PROVE f[i].kind = "row"
    <3>1. i \in n - m + 2 .. n \/ i = n + 1
      BY <1>1, <1>4
    <3> QED BY <1>4, <2>2, <3>1
  <2>5. ASSUME NEW p \in 1 .. m + 1 PROVE full[p] = f[n - m + p].arg
    <3>1. CASE p = m + 1
      <4>1. n - m + p = n + 1
        BY <1>1, <1>4, <3>1
      <4> QED BY <2>1, <2>2, <3>1, <4>1
    <3>2. CASE p # m + 1
      <4>1. p \in 1 .. m
        BY <1>4, <3>2
      <4> QED BY <1>4, <2>1, <4>1
    <3> QED BY <3>1, <3>2
  <2>6. ~taken => \A i \in 1 .. n + 1 : f[i].kind # "last"
    <3>1. \A i \in 1 .. n + 1 : i \in 1 .. n \/ i = n + 1
      BY <1>1
    <3> QED BY <1>7, <2>2, <3>1
  <2>7. taken => LastMatrix(RowsOf(r.data), f, n + 1)
    BY <1>1, <1>7, <1>13, <2>2, LastMatrixStays
  <2> QED BY <1>4, <1>7, <1>13, <2>1, <2>3, <2>4, <2>5, <2>6, <2>7 DEF PlainAt, RowJudged
<1> HIDE DEF full, m
<1> QED BY <1>1, <1>2, <1>10, <1>11, <1>12, <1>13, AppendCases DEF full, m

------------------------------------------------------------------------------
(* The controller and the lines of its files. *)

Read == Len(file) - Len(left)

\* What is left to read is the rest of the file.
LeftInv == call \in Parsing =>
             Len(left) <= Len(file) /\ \A i \in 1 .. Len(left) : left[i] = file[Read + i]

\* The parser is where the lines read have taken it.
ProgressInv ==
  call \in Parsing /\ parser.status = 0 =>
    /\ SegsAt(parser, file, Read)
    /\ seen => Listed(RowsOf(parser.data), file)
    /\ Plain(file) => PlainAt(parser, file, Read, seen)

\* It does not fail on a good file.
FailureInv == call \in Parsing /\ parser.status # 0 /\ file # None /\ Plain(file) =>
                ~Fits(file)

\* The matrix in use is the one the daemon keeps, and a restart begins with that one.
UseInv ==
  source # None /\ call # "down" =>
    /\ RowsInUse = RowsOf(data) /\ FromFile(RowsOf(data), source)
    /\ call = "restart" /\ ~seen /\ parser.status = 0 => RowsOf(parser.data) = RowsOf(data)

\* A plain file with a matrix is judged by what the code requires.
PlainJudged ==
  /\ call \in {"up", "down"} /\ file # None /\ Plain(file)
  /\ \E i \in DOMAIN file : file[i].kind = "last"
  => (parser.status = 0 <=> Fits(file))

\* The inductive invariant, together with ConfiguredInv.
FileInv == LeftInv /\ ProgressInv /\ FailureInv /\ UseInv /\ PlainJudged

\* Nothing has been read at first.
LEMMA InitFile == ConfiguredInit => FileInv
BY DEF ConfiguredInit, FileInv, LeftInv, ProgressInv, FailureInv, UseInv, PlainJudged,
       Parsing, None

\* A call of config_parse begins with the first line.
LEMMA OpenFileLines ==
  ASSUME ConfiguredInv, FileInv, NEW f \in Files, NEW c \in Parsing, NEW d \in FandConfig,
         OpenFile(c, d, f), c = "restart" => d = data, call # "down"
  PROVE  FileInv'
<1>1. call' = c /\ UNCHANGED <<data, source, matrix>> /\ seen' = FALSE
  BY DEF OpenFile, vars, control
<1>2. call' \in Parsing /\ call' # "down" /\ call' # "up"
  BY <1>1 DEF Parsing
<1>3. Parser(d).mode = "keys" /\ Parser(d).status = 0 /\ Parser(d).data = d
      /\ Error(Parser(d)).status = -1
  BY DEF Parser, Error
<1>4. parser'.data = d
  BY DEF OpenFile, Parser, Error
<1>5. f \in Seq(Line)
  BY FilesAssumption
<1>6. \/ left' = file' /\ file' = f /\ parser' = Parser(d)
      \/ left' = <<>> /\ file' = <<>> /\ parser'.status = -1
  BY <1>3 DEF OpenFile, None
<1>7. Len(file') \in Nat /\ Len(left') = Len(file') /\ Read' = 0 /\ left' = file'
  <2>1. CASE left' = file' /\ file' = f
    BY <1>5, <2>1 DEF Read
  <2>2. CASE left' = <<>> /\ file' = <<>>
    BY <2>2 DEF Read
  <2> QED BY <1>6, <2>1, <2>2
<1>8. LeftInv'
  <2>1. \A i \in 1 .. Len(left') : 0 + i = i
    BY <1>7
  <2> QED BY <1>7, <2>1 DEF LeftInv
<1>9. ProgressInv'
  <2> SUFFICES ASSUME parser'.status = 0 PROVE ProgressInv'
    BY DEF ProgressInv
  <2>1. parser'.mode = "keys"
    BY <1>3, <1>6
  <2>2. SegsAt(parser', file', Read')
    BY <2>1 DEF SegsAt
  <2>3. PlainAt(parser', file', Read', FALSE)
    BY <1>7, <2>1 DEF PlainAt, Judged
  <2> QED BY <1>1, <2>2, <2>3 DEF ProgressInv
<1>10. FailureInv'
  BY <1>3, <1>6 DEF FailureInv, None
<1>11. UseInv'
  <2>1. RowsInUse' = RowsInUse
    BY <1>1 DEF RowsInUse, UsedRows, InUse
  <2> QED BY <1>1, <1>4, <2>1 DEF FileInv, UseInv
<1>12. PlainJudged'
  BY <1>2 DEF PlainJudged, Parsing
<1> QED BY <1>8, <1>9, <1>10, <1>11, <1>12 DEF FileInv

\* One line is read.
LEMMA ReadLineLines ==
  ASSUME ConfiguredInv, FileInv, ReadLine
  PROVE  FileInv'
<1> DEFINE n == Read
           line == file[n + 1]
<1>1. /\ call \in Parsing /\ call' = call /\ parser.status = 0 /\ left # <<>>
      /\ parser' = ParseLine(parser, Head(left)) /\ left' = Tail(left)
      /\ seen' = (seen \/ TakenNow(parser, parser'))
      /\ UNCHANGED <<data, source, matrix, file>>
  BY DEF ReadLine, vars, control, TakenNow
<1>2. ParserInv(parser) /\ file \in Seq(Line) /\ left \in Seq(Line)
  BY DEF ConfiguredInv, ConfiguredTypeOK, SeenInv
<1>3. /\ Len(left) <= Len(file) /\ \A i \in 1 .. Len(left) : left[i] = file[n + i]
      /\ SegsAt(parser, file, n)
      /\ seen => Listed(RowsOf(parser.data), file)
      /\ Plain(file) => PlainAt(parser, file, n, seen)
  BY <1>1 DEF FileInv, LeftInv, ProgressInv
<1>4. Len(file) \in Nat /\ Len(left) \in Nat /\ Len(left) >= 1
  BY <1>1, <1>2
<1>5. n \in 0 .. Len(file) - 1 /\ n \in Nat
  BY <1>3, <1>4 DEF Read
<1>6. /\ Head(left) = left[1] /\ Len(left') = Len(left) - 1
      /\ \A i \in 1 .. Len(left') : left'[i] = left[i + 1]
  BY <1>1, <1>2
<1>7. Read' = n + 1 /\ Head(left) = line
  <2>1. Len(file) - (Len(left) - 1) = Len(file) - Len(left) + 1
    BY <1>4
  <2>2. 1 \in 1 .. Len(left)
    BY <1>4
  <2> QED BY <1>1, <1>3, <1>6, <2>1, <2>2 DEF Read
<1>8. parser' = ParseLine(parser, line)
  BY <1>1, <1>7
<1> HIDE DEF n, line
<1>9. LeftInv'
  <2>1. ASSUME NEW i \in 1 .. Len(left') PROVE left'[i] = file[(n + 1) + i]
    <3>1. i + 1 \in 1 .. Len(left) /\ n + (i + 1) = (n + 1) + i
      BY <1>4, <1>5, <1>6
    <3> QED BY <1>3, <1>6, <3>1
  <2>2. Len(left') <= Len(file)
    BY <1>3, <1>4, <1>6
  <2> QED BY <1>1, <1>7, <2>1, <2>2 DEF LeftInv
<1>10. parser'.status = 0 =>
         /\ SegsAt(parser', file, n + 1)
         /\ IF TakenNow(parser, parser') THEN Listed(RowsOf(parser'.data), file)
            ELSE RowsOf(parser'.data) = RowsOf(parser.data)
  BY <1>1, <1>2, <1>3, <1>5, <1>8, SegsNext, ListedNext DEF line
<1>11. Plain(file) => IF parser'.status = 0 THEN PlainAt(parser', file, n + 1, seen')
                      ELSE ~Fits(file)
  <2> SUFFICES ASSUME Plain(file)
               PROVE  IF parser'.status = 0 THEN PlainAt(parser', file, n + 1, seen')
                      ELSE ~Fits(file)
    OBVIOUS
  <2>1. n + 1 \in DOMAIN file
    BY <1>2, <1>4, <1>5
  <2>2. CASE parser.mode = "keys"
    <3>1. seen' = seen
      BY <1>1, <2>2 DEF TakenNow, ConfiguredInv, ConfiguredTypeOK
    <3>2. IF parser'.status = 0 THEN PlainAt(parser', file, n + 1, seen) ELSE ~LineOK(file, n + 1)
      BY <1>1, <1>2, <1>3, <1>5, <1>8, <2>2, PlainKeys, Zenon DEF line
    <3> QED BY <2>1, <3>1, <3>2 DEF Fits
  <2>3. CASE parser.mode = "matrix"
    <3>1. seen' = (seen \/ parser'.mode = "keys")
      BY <1>1, <2>3 DEF TakenNow
    <3>2. RowJudged(parser', file, n + 1, seen)
      BY <1>1, <1>2, <1>3, <1>5, <1>8, <2>3, PlainRows, Zenon DEF line
    <3>3. CASE parser'.mode = "keys"
      <4>1. seen' = TRUE
        BY <3>1, <3>3, Zenon
      <4> QED BY <3>2, <3>3, <4>1, Zenon DEF RowJudged
    <3>4. CASE parser'.mode # "keys"
      <4>1. seen' = seen
        BY <3>1, <3>4 DEF ConfiguredInv, ConfiguredTypeOK
      <4> QED BY <3>2, <3>4, <4>1, Zenon DEF RowJudged
    <3> QED BY <3>3, <3>4
  <2> QED BY <1>2, <2>2, <2>3 DEF ParserInv, ParserType
<1>12. ProgressInv'
  <2> SUFFICES ASSUME parser'.status = 0 PROVE ProgressInv'
    BY DEF ProgressInv
  <2>1. seen' => Listed(RowsOf(parser'.data), file)
    BY <1>1, <1>3, <1>10
  <2> QED BY <1>1, <1>7, <1>10, <1>11, <2>1 DEF ProgressInv
<1>13. FailureInv'
  BY <1>1, <1>11 DEF FailureInv
<1>14. UseInv'
  <2>1. RowsInUse' = RowsInUse
    BY <1>1 DEF RowsInUse, UsedRows, InUse
  <2> QED BY <1>1, <1>10, <2>1 DEF FileInv, UseInv
<1>15. PlainJudged'
  BY <1>1 DEF PlainJudged, Parsing
<1> QED BY <1>9, <1>12, <1>13, <1>14, <1>15 DEF FileInv

\* Everything has been read.
LEMMA AllRead ==
  ASSUME ConfiguredInv, FileInv, call \in Parsing, parser.status = 0, left = <<>>
  PROVE  /\ Read = Len(file) /\ file \in Seq(Line) /\ Len(file) \in Nat
         /\ SegsAt(parser, file, Len(file))
         /\ seen => Listed(RowsOf(parser.data), file)
         /\ Plain(file) => /\ PlainAt(parser, file, Len(file), seen)
                           /\ parser.mode = "keys"
                           /\ \A i \in DOMAIN file : LineOK(file, i)
<1>1. /\ ParserInv(parser) /\ file \in Seq(Line)
  BY DEF ConfiguredInv, ConfiguredTypeOK, SeenInv
<1>2. Len(left) = 0 /\ Len(file) \in Nat /\ DOMAIN file = 1 .. Len(file)
  BY <1>1
<1>3. Read = Len(file)
  BY <1>2 DEF Read
<1>4. /\ SegsAt(parser, file, Len(file))
      /\ seen => Listed(RowsOf(parser.data), file)
      /\ Plain(file) => PlainAt(parser, file, Len(file), seen)
  BY <1>3 DEF FileInv, ProgressInv
<1>5. ASSUME Plain(file) PROVE parser.mode = "keys"
  <2> SUFFICES ASSUME parser.mode = "matrix" PROVE FALSE
    BY <1>1 DEF ParserInv, ParserType
  <2>1. Len(file) \in 0 .. Len(file) /\ PlainAt(parser, file, Len(file), seen)
    BY <1>2, <1>4, <1>5
  <2>2. Len(file) \in DOMAIN file /\ file[Len(file)].kind \in {"open", "row"}
    BY <1>1, <1>4, <2>1, OpenLast, Zenon
  <2>3. Len(file) < Len(file)
    BY <1>5, <2>2 DEF Plain
  <2> QED BY <1>2, <2>3
<1>6. ASSUME Plain(file) PROVE \A i \in DOMAIN file : LineOK(file, i)
  BY <1>2, <1>4, <1>5, <1>6 DEF PlainAt, Judged
<1> QED BY <1>1, <1>2, <1>3, <1>4, <1>5, <1>6

\* A file is refused.
LEMMA RefusedLines ==
  ASSUME ConfiguredInv, FileInv, Refused
  PROVE  FileInv'
<1>1. parser'.status = -1 /\ file' = file
  BY LeaveFacts DEF Refused
<1>2. /\ UNCHANGED <<matrix, source>> /\ call \in Parsing /\ call' \in {"up", "down"}
      /\ call' = "up" => data' = data
  BY DEF Refused, vars, control, Parsing
<1>3. call' \notin Parsing
  BY <1>2 DEF Parsing
<1>4. LeftInv' /\ ProgressInv' /\ FailureInv'
  BY <1>3 DEF LeftInv, ProgressInv, FailureInv
<1>5. UseInv'
  <2>1. RowsInUse' = RowsInUse
    BY <1>2 DEF RowsInUse, UsedRows, InUse
  <2> QED BY <1>2, <2>1 DEF FileInv, UseInv, Parsing
<1>6. PlainJudged'
  <2> SUFFICES ASSUME file # None, Plain(file), NEW i \in DOMAIN file, file[i].kind = "last",
                      Fits(file)
               PROVE  FALSE
    BY <1>1 DEF PlainJudged
  <2>1. parser.status = 0
    BY <1>2 DEF FileInv, FailureInv
  <2>2. left = <<>> /\ EndOfFile(parser).status # 0
    BY <2>1 DEF Refused
  <2>3. /\ parser.mode = "keys" /\ PlainAt(parser, file, Len(file), seen)
        /\ file \in Seq(Line)
    BY <1>2, <2>1, <2>2, AllRead
  <2>4. parser.data.matrix_rows = 0
    BY <2>1, <2>2, <2>3 DEF EndOfFile
  <2>5. seen
    <3>1. i \in 1 .. Len(file)
      BY <2>3
    <3> QED BY <2>3, <3>1 DEF PlainAt
  <2>6. Usable(parser.data)
    BY <2>1, <2>5 DEF ConfiguredInv, SeenInv
  <2> QED BY <2>4, <2>6, ThresholdsAssumption DEF Usable
<1> QED BY <1>4, <1>5, <1>6 DEF FileInv

\* fanctrl_configure puts the rows of a usable matrix to use.
LEMMA UsableInUse ==
  ASSUME NEW d \in FandConfig, Usable(d), TypeOK, Configure(d)
  PROVE  RowsInUse' = RowsOf(d)
<1>1. d.matrix_rows \in 1 .. MAX_TEMP_THRESHOLDS - 1
  BY DEF Usable
<1>2. ~(d.matrix_rows > MAX_TEMP_THRESHOLDS)
  BY <1>1, ThresholdsAssumption
<1>3. /\ matrix'.rows = d.matrix_rows
      /\ matrix'.temps = [i \in Row |-> IF i < d.matrix_rows THEN d.matrix[2 * i]
                                        ELSE matrix.temps[i]]
      /\ matrix'.speeds = [i \in Row |-> IF i < d.matrix_rows THEN d.matrix[2 * i + 1]
                                         ELSE matrix.speeds[i]]
  BY <1>2 DEF Configure, SetMatrix
<1>4. \A i \in 0 .. d.matrix_rows - 1 : i \in Row /\ i < d.matrix_rows
  BY <1>1, ThresholdsAssumption DEF Row
<1>5. \A i \in 0 .. d.matrix_rows - 1 :
        <<matrix'.temps[i], matrix'.speeds[i]>> = <<d.matrix[2 * i], d.matrix[2 * i + 1]>>
  BY <1>3, <1>4
<1> QED BY <1>3, <1>5 DEF RowsInUse, RowsOf, UsedRows, InUse

\* A file is accepted and given to fanctrl_configure.
LEMMA AcceptedLines ==
  ASSUME ConfiguredInv, FileInv, Accepted
  PROVE  FileInv'
<1>1. parser.data \in FandConfig /\ Configure(parser.data) /\ TypeOK
  BY DEF Accepted, ConfiguredInv, ConfiguredTypeOK, ParserType
<1>2. /\ call \in Parsing /\ parser.status = 0 /\ left = <<>>
      /\ call' \in {"up", "down"} /\ data' = parser.data
      /\ source' = IF seen THEN file ELSE IF call = "reload" THEN None ELSE source
  BY DEF Accepted
<1>3. parser'.status = 0 /\ file' = file
  BY LeaveFacts DEF Accepted
<1>4. call' \notin Parsing
  BY <1>2 DEF Parsing
<1>5. LeftInv' /\ ProgressInv' /\ FailureInv'
  BY <1>4 DEF LeftInv, ProgressInv, FailureInv
<1>6. PlainJudged'
  <2>1. Plain(file) => Fits(file)
    BY <1>2, AllRead DEF Fits
  <2> QED BY <1>3, <2>1 DEF PlainJudged
<1>7. UseInv'
  <2> SUFFICES ASSUME source' # None PROVE UseInv'
    BY DEF UseInv
  <2>1. Usable(parser.data) /\ FromFile(RowsOf(parser.data), source')
    <3>1. CASE seen
      <4>1. Usable(parser.data)
        BY <1>2, <3>1 DEF ConfiguredInv, SeenInv
      <4>2. /\ Listed(RowsOf(parser.data), file)
            /\ Plain(file) => LastMatrix(RowsOf(parser.data), file, Len(file))
        BY <1>2, <3>1, AllRead DEF PlainAt
      <4> QED BY <1>2, <3>1, <4>1, <4>2 DEF FromFile
    <3>2. CASE ~seen
      <4>1. call # "reload" /\ source' = source /\ source # None
        BY <1>2, <3>2
      <4>2. call = "restart"
        BY <1>2, <4>1 DEF ConfiguredInv, SeenInv, Parsing
      <4>3. Usable(parser.data)
        BY <1>2, <4>1, <4>2 DEF ConfiguredInv, SourceInv
      <4> QED BY <1>2, <3>2, <4>1, <4>2, <4>3 DEF FileInv, UseInv
    <3> QED BY <3>1, <3>2
  <2>2. RowsInUse' = RowsOf(parser.data)
    BY <1>1, <2>1, UsableInUse
  <2> QED BY <1>2, <2>1, <2>2 DEF UseInv
<1> QED BY <1>5, <1>6, <1>7 DEF FileInv

\* daemon_adjust_fanspeed reads no file and leaves the matrix as it is.
LEMMA AdjustLines ==
  ASSUME FileInv, NEW raw \in SensorReadings, AdjustFanspeed(raw)
  PROVE  FileInv'
<1>1. /\ call = "up" /\ call' \in {"up", "down"}
      /\ UNCHANGED <<data, parser, left, file, seen, source>>
  BY DEF AdjustFanspeed, parsing
<1>2. matrix' = matrix
  BY DEF AdjustFanspeed, Adjust, AdjustEmpty, AdjustUnread, AdjustSpeed, control
<1>3. RowsInUse' = RowsInUse
  BY <1>2 DEF RowsInUse, UsedRows, InUse
<1>4. LeftInv' /\ ProgressInv' /\ FailureInv'
  BY <1>1 DEF LeftInv, ProgressInv, FailureInv, Parsing
<1>5. UseInv' /\ PlainJudged'
  BY <1>1, <1>3 DEF FileInv, UseInv, PlainJudged
<1> QED BY <1>4, <1>5 DEF FileInv

\* Between the steps nothing moves.
LEMMA StutterLines ==
  ASSUME FileInv, UNCHANGED configured
  PROVE  FileInv'
<1>1. UNCHANGED <<call, data, parser, left, file, seen, source, matrix>>
  BY DEF configured, parsing, vars, control
<1>2. RowsInUse' = RowsInUse /\ Read' = Read
  BY <1>1 DEF RowsInUse, UsedRows, InUse, Read
<1>3. LeftInv' /\ ProgressInv'
  BY <1>1, <1>2 DEF FileInv, LeftInv, ProgressInv
<1>4. FailureInv' /\ UseInv' /\ PlainJudged'
  BY <1>1, <1>2 DEF FileInv, FailureInv, UseInv, PlainJudged
<1> QED BY <1>3, <1>4 DEF FileInv

\* Wherever config_parse is in whatever file, what it has collected and taken over is
\* what the lines it has read say (config.c:111-154, 160-244), and what the controller
\* uses is what was taken over last (daemon.c:147, 164, 206).
THEOREM FilesInvariance == ConfiguredSpec => []FileInv
<1>1. ConfiguredInv /\ FileInv /\ [ConfiguredNext]_configured => FileInv'
  <2> SUFFICES ASSUME ConfiguredInv, FileInv, [ConfiguredNext]_configured PROVE FileInv'
    OBVIOUS
  <2>1. ASSUME NEW f \in Files, Start(f) \/ Restart(f) PROVE FileInv'
    <3>1. data \in FandConfig /\ call # "down"
      BY <2>1 DEF Start, Restart, ConfiguredInv, ConfiguredTypeOK
    <3> QED BY <2>1, <3>1, OpenFileLines DEF Start, Restart, Parsing
  <2>2. ASSUME NEW f \in Files, Reload(f) PROVE FileInv'
    <3>1. PICK d \in Garbage : OpenFile("reload", d, f)
      BY <2>2 DEF Reload
    <3>2. d \in FandConfig /\ call # "down" /\ "reload" \in Parsing
      BY <2>2, GarbageAssumption DEF Reload, Parsing
    <3> QED BY <3>1, <3>2, OpenFileLines
  <2>3. CASE ReadLine
    BY <2>3, ReadLineLines
  <2>4. CASE Refused
    BY <2>4, RefusedLines
  <2>5. CASE Accepted
    BY <2>5, AcceptedLines
  <2>6. ASSUME NEW raw \in SensorReadings, AdjustFanspeed(raw) PROVE FileInv'
    BY <2>6, AdjustLines
  <2>7. CASE UNCHANGED configured
    BY <2>7, StutterLines
  <2> QED BY <2>1, <2>2, <2>3, <2>4, <2>5, <2>6, <2>7 DEF ConfiguredNext
<1> QED BY <1>1, InitFile, ConfiguredInvariance, PTL DEF ConfiguredSpec

\* The rows in use are those of the last matrix of a plain file.
LEMMA LastMatrixInUse ==
  ASSUME NEW f \in Seq(Line), LastMatrix(RowsInUse, f, Len(f))
  PROVE  LET lines == FinalMatrix(f)
             first == CHOOSE k \in lines : f[k].kind = "open"
         IN  {first + i : i \in UsedRows} = lines
             /\ \A i \in UsedRows : Writes(f[first + i], InUse(i))
<1>1. PICK o \in 1 .. Len(f), c \in 1 .. Len(f) :
        /\ Spans(f, o, c, Len(f)) /\ DOMAIN RowsInUse = 0 .. c - o
        /\ \A i \in DOMAIN RowsInUse : Writes(f[o + i], RowsInUse[i])
  BY DEF LastMatrix
<1>2. /\ UsedRows = 0 .. c - o /\ o \in Nat /\ c \in Nat /\ o <= c
      /\ \A i \in UsedRows : Writes(f[o + i], InUse(i))
  BY <1>1 DEF RowsInUse, Spans
<1>3. FinalMatrix(f) = o .. c /\ (CHOOSE k \in o .. c : f[k].kind = "open") = o
  BY <1>1, FinalMatrixIs
<1>4. {o + i : i \in UsedRows} = o .. c
  <2>1. ASSUME NEW k \in o .. c PROVE k - o \in 0 .. c - o /\ o + (k - o) = k
    BY <1>2
  <2>2. ASSUME NEW i \in 0 .. c - o PROVE o + i \in o .. c
    BY <1>2
  <2> QED BY <1>2, <2>1, <2>2
<1> QED BY <1>2, <1>3, <1>4

\* Every row in use is written in the file the matrix is from, in the order of the file,
\* and of a plain file the rows of the last matrix are in use, each of them once.  This
\* holds for every file, every number of rows and every order of starts, restarts,
\* reloads and failures (config.c:111-154, 211-244).
THEOREM RowsWritten == ConfiguredSpec => []RowsFromFile
<1>1. ConfiguredInv /\ FileInv => RowsFromFile
  <2> SUFFICES ASSUME ConfiguredInv, FileInv, call = "up", source # None
               PROVE  RowsFromFile
    BY DEF RowsFromFile
  <2>1. source \in Seq(Line) /\ FromFile(RowsInUse, source)
    BY DEF ConfiguredInv, ConfiguredTypeOK, FileInv, UseInv
  <2>2. DOMAIN RowsInUse = UsedRows /\ \A i \in UsedRows : RowsInUse[i] = InUse(i)
    BY DEF RowsInUse
  <2>3. \A i, j \in UsedRows : i <= j =>
          \E k, l \in DOMAIN source :
            k <= l /\ Writes(source[k], InUse(i)) /\ Writes(source[l], InUse(j))
    BY <2>1, <2>2 DEF FromFile, Listed
  <2>4. Plain(source) =>
          LET lines == FinalMatrix(source)
              first == CHOOSE k \in lines : source[k].kind = "open"
          IN  {first + i : i \in UsedRows} = lines
              /\ \A i \in UsedRows : Writes(source[first + i], InUse(i))
    BY <2>1, LastMatrixInUse DEF FromFile
  <2> QED BY <2>3, <2>4, Zenon DEF RowsFromFile
<1> QED BY <1>1, ConfiguredInvariance, FilesInvariance, PTL

\* In a plain file every closed matrix has been opened, and its length is a number.
LEMMA MatrixOpens ==
  ASSUME NEW f \in Seq(Line), Plain(f), NEW n \in DOMAIN f, f[n].kind = "last"
  PROVE  Rows(f, n) \in Nat
<1>1. n \in Nat /\ n > 1 /\ DOMAIN f = 1 .. Len(f) /\ Len(f) \in Nat
  BY DEF Plain
<1> DEFINE D == {d \in 1 .. n - 1 : f[n - d].kind # "row"}
<1>2. n - 1 \in D
  <2>1. n - (n - 1) = 1 /\ 1 \in DOMAIN f /\ n - 1 \in 1 .. n - 1
    BY <1>1
  <2>2. f[1].kind # "row"
    BY <2>1 DEF Plain
  <2> QED BY <2>1, <2>2
<1>3. PICK d \in D : \A e \in D : d <= e
  <2>1. D \subseteq Nat
    BY <1>1
  <2> HIDE DEF D
  <2> QED BY <1>2, <2>1, LeastElement
<1> DEFINE o == n - d
<1>4. o \in 1 .. n - 1 /\ o \in Nat /\ f[o].kind # "row" /\ o + 1 \in DOMAIN f /\ o + 1 > 1 /\ o + 1 - 1 = o
  BY <1>1, <1>3
<1>5. ASSUME NEW j \in o + 1 .. n - 1 PROVE f[j].kind = "row"
  <2>1. n - j \in 1 .. n - 1 /\ n - j < d /\ n - (n - j) = j
    BY <1>1, <1>3, <1>5
  <2> QED BY <1>3, <2>1
<1> HIDE DEF o
<1>6. \A j \in o + 1 .. n : f[j].kind \in {"row", "last"}
  <2>1. \A j \in o + 1 .. n : j \in o + 1 .. n - 1 \/ j = n
    BY <1>1, <1>4
  <2> QED BY <1>5, <2>1
<1>7. f[o].kind = "open"
  <2>1. f[o + 1].kind \in {"row", "last"}
    BY <1>1, <1>4, <1>6
  <2> QED BY <1>4, <2>1 DEF Plain
<1>8. Opening(f, n) = o
  <2>1. \A j \in o + 1 .. n : f[j].kind # "open"
    BY <1>6
  <2> QED BY <1>1, <1>4, <1>7, <2>1, OpeningIs
<1> QED BY <1>1, <1>4, <1>8 DEF Rows

\* Without a matrix that takes exactly the room there is, the limits of the code are
\* those of README.md.
LEMMA LimitsAgree ==
  ASSUME NEW f \in Seq(Line), Plain(f),
         \A i \in DOMAIN f : f[i].kind = "last" => Rows(f, i) # MAX_TEMP_THRESHOLDS
  PROVE  Fits(f) <=> WithinLimits(f)
<1>1. ASSUME NEW i \in DOMAIN f, f[i].kind = "last"
      PROVE  Rows(f, i) < MAX_TEMP_THRESHOLDS <=> Rows(f, i) <= MAX_TEMP_THRESHOLDS
  <2>1. Rows(f, i) \in Nat /\ Rows(f, i) # MAX_TEMP_THRESHOLDS
    BY <1>1, MatrixOpens
  <2> QED BY <2>1, ThresholdsAssumption
<1>2. ASSUME NEW i \in DOMAIN f
      PROVE  LineOK(f, i) <=>
               (f[i].comment # "before" =>
                 /\ f[i].kind # "junk"
                 /\ f[i].kind = "option" => f[i].arg[2] \in 0 .. Limit(f[i].arg[1])
                 /\ f[i].kind \in RowKinds => f[i].arg[1] <= 255 /\ f[i].arg[2] <= 100
                 /\ f[i].kind = "last" => Rows(f, i) <= MAX_TEMP_THRESHOLDS)
  BY <1>1, <1>2, Zenon DEF LineOK
<1> QED BY <1>2, Zenon DEF Fits, WithinLimits

\* A plain file with a matrix is accepted exactly if every number in it is within its
\* limit, every key is known and no matrix has more rows than README.md:74 allows,
\* whatever options, comments and matrices it holds and in whatever order.  Files with a
\* matrix that takes exactly the room there is are left out (config.c:148-149).
THEOREM PlainFilesRight == ConfiguredSpec => []PlainFilesJudged
<1>1. ConfiguredInv /\ FileInv => PlainFilesJudged
  <2> SUFFICES ASSUME ConfiguredInv, PlainJudged, file # None PROVE PlainFilesJudged
    BY DEF FileInv, PlainFilesJudged
  <2>1. file \in Seq(Line)
    BY DEF ConfiguredInv, ConfiguredTypeOK
  <2> QED BY <2>1, LimitsAgree DEF PlainJudged, PlainFilesJudged
<1> QED BY <1>1, ConfiguredInvariance, FilesInvariance, PTL
=============================================================================
