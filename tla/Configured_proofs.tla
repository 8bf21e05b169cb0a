-------------------------- MODULE Configured_proofs --------------------------
(***************************************************************************)
(* Proofs about Configured, for every capacity of the matrix, every set of *)
(* files, every content of the uninitialized structure and every sensor.   *)
(***************************************************************************)
EXTENDS Configured, FanControl_proofs

------------------------------------------------------------------------------
(* The operators of the parser. *)

Cells == Nat \X Nat
Segs == Seq(Cells \cup {Empty})

\* The kinds of lines and what each holds.
LEMMA LineFacts ==
  ASSUME NEW line \in Line
  PROVE  /\ line.kind \in {"blank", "junk", "option"} \cup RowKinds
         /\ line.kind \in RowKinds => line.arg \in Cells
         /\ line.kind = "option" => line.arg[2] \in Int
BY DEF Line, RowKinds, Cells

\* A row is never the empty segment.
LEMMA CellFacts ==
  ASSUME NEW c \in Cells
  PROVE  c # Empty /\ c[1] \in Nat /\ c[2] \in Nat
BY DEF Cells, Empty

\* When the last segment is a row, every segment finds the first row at or after it.
LEMMA RowAtFirst ==
  ASSUME NEW segs \in Segs, segs # <<>>, segs[Len(segs)] \in Cells, NEW k \in 1 .. Len(segs)
  PROVE  \E j \in k .. Len(segs) : /\ segs[j] \in Cells /\ RowAt(segs, k) = segs[j]
                                   /\ \A i \in k .. j - 1 : segs[i] = Empty
<1> DEFINE S == {j \in k .. Len(segs) : segs[j] # Empty}
<1>1. /\ Len(segs) \in Nat /\ Len(segs) >= 1 /\ k \in Nat /\ k >= 1 /\ k <= Len(segs)
      /\ \A j \in 1 .. Len(segs) : segs[j] \in Cells \cup {Empty}
  BY DEF Segs
<1>2. Len(segs) \in S /\ S \subseteq Nat
  BY <1>1, CellFacts
<1>3. PICK m \in S : \A j \in S : m <= j
  <2> HIDE DEF S
  <2> QED BY <1>2, LeastElement
<1>4. /\ m \in k .. Len(segs) /\ segs[m] # Empty
      /\ \A i \in k .. m - 1 : segs[i] = Empty
  BY <1>1, <1>3
<1> DEFINE P(j) == segs[j] # Empty /\ \A i \in k .. j - 1 : segs[i] = Empty
           j0 == CHOOSE j \in k .. Len(segs) : P(j)
<1>5. j0 \in k .. Len(segs) /\ P(j0)
  <2>1. \E j \in k .. Len(segs) : P(j)
    BY <1>4
  <2> HIDE DEF P
  <2> QED BY <2>1
<1>6. RowAt(segs, k) = segs[j0]
  BY DEF RowAt
<1> HIDE DEF j0
<1> QED BY <1>1, <1>5, <1>6

\* So every row that is read is one.
LEMMA RowAtIsCell ==
  ASSUME NEW segs \in Segs, segs # <<>>, segs[Len(segs)] \in Cells, NEW k \in 1 .. Len(segs)
  PROVE  RowAt(segs, k) \in Cells
BY RowAtFirst

\* Only rows within the limits are read.
LEMMA RowsReadFacts ==
  ASSUME NEW segs \in Segs, segs # <<>>, segs[Len(segs)] \in Cells,
         NEW k \in RowsRead(segs)
  PROVE  /\ RowAt(segs, k)[1] \in Nat /\ RowAt(segs, k)[1] <= 255
         /\ RowAt(segs, k)[2] \in Nat /\ RowAt(segs, k)[2] <= 100
<1>1. k \in 1 .. Len(segs) /\ RowInRange(RowAt(segs, k))
  <2>1. Len(segs) \in Nat
    BY DEF Segs
  <2> QED BY <2>1 DEF RowsRead
<1>2. RowAt(segs, k) \in Cells
  BY <1>1, RowAtIsCell
<1> DEFINE r == RowAt(segs, k)
<1>3. r[1] \in Nat /\ r[2] \in Nat /\ r[1] <= 255 /\ r[2] <= 100
  <2>1. r \in Cells /\ RowInRange(r)
    BY <1>1, <1>2
  <2> HIDE DEF r
  <2>2. r[1] \in Nat /\ r[2] \in Nat
    BY <2>1, CellFacts
  <2> QED BY <2>1, <2>2 DEF RowInRange
<1> QED BY <1>3

\* The matrix stays an array of bytes.
LEMMA WithRowsType ==
  ASSUME NEW segs \in Segs, segs # <<>>, segs[Len(segs)] \in Cells,
         NEW mat \in [0 .. 2 * MAX_TEMP_THRESHOLDS - 1 -> UCHAR]
  PROVE  WithRows(mat, segs) \in [0 .. 2 * MAX_TEMP_THRESHOLDS - 1 -> UCHAR]
<1> SUFFICES ASSUME NEW i \in 0 .. 2 * MAX_TEMP_THRESHOLDS - 1,
                    (i \div 2) + 1 \in RowsRead(segs)
             PROVE  RowAt(segs, (i \div 2) + 1)[(i % 2) + 1] \in UCHAR
  BY DEF WithRows
<1>1. /\ RowAt(segs, (i \div 2) + 1)[1] \in UCHAR
      /\ RowAt(segs, (i \div 2) + 1)[2] \in UCHAR
  <2> DEFINE k == (i \div 2) + 1
  <2>1. k \in RowsRead(segs)
    OBVIOUS
  <2> HIDE DEF k
  <2>2. \A n \in Nat : n <= 255 => n \in UCHAR
    BY DEF UCHAR
  <2>3. \A n \in Nat : n <= 100 => n \in UCHAR
    BY DEF UCHAR
  <2>4. RowAt(segs, k)[1] \in UCHAR /\ RowAt(segs, k)[2] \in UCHAR
    <3> DEFINE a == RowAt(segs, k)[1]
               b == RowAt(segs, k)[2]
    <3>1. a \in Nat /\ a <= 255 /\ b \in Nat /\ b <= 100
      BY <2>1, RowsReadFacts
    <3> HIDE DEF a, b
    <3>2. a \in UCHAR /\ b \in UCHAR
      BY <2>2, <2>3, <3>1
    <3> QED BY <3>2 DEF a, b
  <2> QED BY <2>4 DEF k
<1>2. i \in Int /\ (i % 2 = 0 \/ i % 2 = 1)
  BY ThresholdsAssumption
<1> QED BY <1>1, <1>2

\* A matrix that fanctrl_set_matrix accepts and hwmon_write_pwm never refuses.
Usable(d) == /\ d.matrix_rows \in 1 .. MAX_TEMP_THRESHOLDS - 1
             /\ \A i \in 0 .. d.matrix_rows - 1 : d.matrix[2 * i + 1] <= 100

\* config_set_matrix keeps the structure well typed, and what it accepts is usable.
LEMMA SetMatrixFacts ==
  ASSUME NEW s \in ParserType, s.status = 0, NEW segs \in Segs, segs # <<>>,
         segs[Len(segs)] \in Cells
  PROVE  LET r == config_set_matrix(s, segs)
         IN  /\ r \in ParserType
             /\ r.segs = s.segs /\ r.mode = s.mode
             /\ r.status = 0 => Usable(r.data)
<1> DEFINE W == WithRows(s.data.matrix, segs)
           r == config_set_matrix(s, segs)
<1>1. s.data \in FandConfig
  BY DEF ParserType
<1>2. /\ s.data.matrix \in [0 .. 2 * MAX_TEMP_THRESHOLDS - 1 -> UCHAR]
      /\ s.data.matrix_rows \in UCHAR /\ s.data.hysteresis \in UCHAR
      /\ s.data.throttle \in BOOLEAN /\ s.data.interval \in USHRT
  BY <1>1, ConfigFields
<1>3. W \in [0 .. 2 * MAX_TEMP_THRESHOLDS - 1 -> UCHAR]
  BY <1>2, WithRowsType
<1>4. Len(segs) \in Nat /\ Len(segs) >= 1
  BY DEF Segs
<1>5. CASE MatrixFits(segs)
  <2>1. RowsRead(segs) = 1 .. Len(segs) /\ Len(segs) < MAX_TEMP_THRESHOLDS
    BY <1>5 DEF MatrixFits
  <2>2. r = [s EXCEPT !.data = [s.data EXCEPT !.matrix = W, !.matrix_rows = Len(segs)]]
    BY <1>1, <1>5 DEF config_set_matrix, ParserType, FandConfig
  <2> DEFINE n == Len(segs)
             d == [s.data EXCEPT !.matrix = W, !.matrix_rows = n]
  <2>3. n \in UCHAR
    <3>1. n \in Nat /\ n < MAX_TEMP_THRESHOLDS
      BY <1>4, <2>1
    <3> HIDE DEF n
    <3> QED BY <3>1, ThresholdsAssumption DEF UCHAR
  <2>4a. d \in FandConfig /\ d.matrix = W /\ d.matrix_rows = n
    <3> HIDE DEF n, W
    <3> QED BY <1>1, <1>3, <2>3 DEF FandConfig
  <2>4. r.data = d /\ r.data \in FandConfig
    <3>1. r = [s EXCEPT !.data = d]
      BY <2>2
    <3> HIDE DEF d, r
    <3> QED BY <2>4a, <3>1 DEF ParserType
  <2>5. /\ r \in ParserType /\ r.segs = s.segs /\ r.mode = s.mode
    BY <2>2, <2>4 DEF ParserType
  <2>6. r.data.matrix = W /\ r.data.matrix_rows = Len(segs)
    BY <2>4, <2>4a
  <2>7. ASSUME NEW i \in 0 .. Len(segs) - 1 PROVE W[2 * i + 1] <= 100
    <3>1. /\ 2 * i + 1 \in 0 .. 2 * MAX_TEMP_THRESHOLDS - 1
          /\ (2 * i + 1) \div 2 = i /\ (2 * i + 1) % 2 = 1
          /\ i + 1 \in RowsRead(segs)
      BY <1>4, <2>1, ThresholdsAssumption
    <3>2. DOMAIN s.data.matrix = 0 .. 2 * MAX_TEMP_THRESHOLDS - 1
      BY <1>2
    <3>3. W[2 * i + 1] = RowAt(segs, i + 1)[1 + 1]
      BY <3>1, <3>2 DEF WithRows
    <3>4. RowAt(segs, i + 1)[2] <= 100
      BY <3>1, RowsReadFacts
    <3> QED BY <3>3, <3>4
  <2>8. Usable(r.data)
    BY <1>4, <2>1, <2>6, <2>7, ThresholdsAssumption DEF Usable
  <2> QED BY <2>5, <2>8
<1>6. CASE ~MatrixFits(segs)
  <2>1. r = [s EXCEPT !.data = [s.data EXCEPT !.matrix = W], !.status = -1]
    BY <1>1, <1>6 DEF config_set_matrix, ParserType, FandConfig
  <2>2. r.data \in FandConfig
    BY <1>1, <1>3, <2>1 DEF FandConfig, ParserType
  <2>3. r \in ParserType /\ r.segs = s.segs /\ r.mode = s.mode /\ r.status = -1
    BY <2>1, <2>2 DEF ParserType
  <2> QED BY <2>3
<1> QED BY <1>5, <1>6

\* What every line leaves of the parser.
ParserInv(s) == /\ s \in ParserType
                /\ Len(s.segs) <= MAX_TEMP_THRESHOLDS + 1
                /\ s.mode = "matrix" => s.segs # <<>>

LEMMA ErrorFacts ==
  ASSUME NEW s, ParserInv(s)
  PROVE  ParserInv(Error(s)) /\ Error(s).status = -1 /\ Error(s).data = s.data
BY DEF ParserInv, Error, ParserType

\* A line among the rows of a matrix: it fails, or the matrix goes on with the data
\* untouched, or it is closed and what was taken over is usable.
LEMMA AppendFacts ==
  ASSUME NEW s, ParserInv(s), s.status = 0, s.mode = "matrix", NEW line \in Line
  PROVE  LET r == config_append_matrix_rows(s, line)
         IN  /\ ParserInv(r)
             /\ r.status = 0 => \/ r.mode = "matrix" /\ r.data = s.data
                                \/ r.mode = "keys" /\ Usable(r.data)
<1> DEFINE r == config_append_matrix_rows(s, line)
           segs == Append(s.segs, Segment(line))
<1>1. /\ s.segs \in Segs /\ s.segs # <<>> /\ Len(s.segs) \in Nat
      /\ s.data \in FandConfig
  BY DEF ParserInv, ParserType, Segs, Cells
<1>2. Segment(line) \in Cells \cup {Empty}
  BY LineFacts DEF Segment
<1>3. segs \in Segs /\ segs # <<>> /\ Len(segs) = Len(s.segs) + 1
      /\ segs[Len(segs)] = Segment(line)
  BY <1>1, <1>2 DEF Segs
<1>4. CASE Len(s.segs) > MAX_TEMP_THRESHOLDS
  <2>1. r = Error(s)
    BY <1>4 DEF config_append_matrix_rows
  <2> QED BY <2>1, ErrorFacts
<1>5. CASE ~(Len(s.segs) > MAX_TEMP_THRESHOLDS) /\ Closes(line)
  <2> DEFINE q == [s EXCEPT !.mode = "keys", !.segs = <<>>]
  <2>1. q \in ParserType /\ q.status = 0 /\ q.mode = "keys" /\ q.segs = <<>>
    <3>1. <<>> \in Seq((Nat \X Nat) \cup {Empty})
      OBVIOUS
    <3> QED BY <3>1 DEF ParserInv, ParserType
  <2>2. r = config_set_matrix(q, segs)
    BY <1>5 DEF config_append_matrix_rows
  <2>3. segs[Len(segs)] \in Cells
    BY <1>3, <1>5, LineFacts DEF Closes, Segment, RowKinds
  <2> HIDE DEF q, segs, r
  <2>4. /\ r \in ParserType /\ r.segs = q.segs /\ r.mode = q.mode
        /\ r.status = 0 => Usable(r.data)
    BY <1>3, <2>1, <2>2, <2>3, SetMatrixFacts
  <2>5. Len(r.segs) = 0
    BY <2>1, <2>4
  <2>6. ParserInv(r)
    BY <2>1, <2>4, <2>5, ThresholdsAssumption DEF ParserInv
  <2> QED BY <2>1, <2>4, <2>6 DEF r
<1>6. CASE ~(Len(s.segs) > MAX_TEMP_THRESHOLDS) /\ ~Closes(line)
  <2>1. r = [s EXCEPT !.segs = segs]
    BY <1>6 DEF config_append_matrix_rows, ParserInv, ParserType
  <2>2. r.mode = "matrix" /\ r.data = s.data /\ r.segs = segs /\ r \in ParserType
    <3> HIDE DEF segs, r
    <3> QED BY <1>3, <2>1 DEF ParserInv, ParserType, Segs, Cells
  <2>3. Len(segs) <= MAX_TEMP_THRESHOLDS + 1
    BY <1>1, <1>3, <1>6, ThresholdsAssumption
  <2>4. ParserInv(r)
    <3> HIDE DEF segs, r
    <3> QED BY <1>3, <2>2, <2>3 DEF ParserInv
  <2> QED BY <2>2, <2>4
<1> QED BY <1>4, <1>5, <1>6

\* A line outside of a matrix leaves the matrix as it is.
LEMMA KeyLineFacts ==
  ASSUME NEW s, ParserInv(s), s.status = 0, s.mode = "keys", NEW line \in Line
  PROVE  LET r == KeyLine(s, line)
         IN  /\ ParserInv(r)
             /\ r.data.matrix = s.data.matrix /\ r.data.matrix_rows = s.data.matrix_rows
<1> DEFINE r == KeyLine(s, line)
<1>1. s \in ParserType /\ s.data \in FandConfig
  BY DEF ParserInv, ParserType
<1>2. CASE line.kind = "blank" \/ line.comment = "before"
  BY <1>2 DEF KeyLine
<1>3. CASE line.kind = "option" /\ line.comment # "before"
  <2> DEFINE key == line.arg[1]
             v == line.arg[2]
  <2>1. r = SetOption(s, key, v) /\ v \in Int
    BY <1>3, LineFacts DEF KeyLine
  <2> HIDE DEF key, v, r
  <2>2. CASE v \notin 0 .. Limit(key)
    BY <2>1, <2>2, ErrorFacts DEF SetOption, r
  <2>3. CASE v \in 0 .. Limit(key) /\ key = "interval"
    <3>1. r = [s EXCEPT !.data = [s.data EXCEPT !.interval = v]]
      BY <1>1, <2>1, <2>3 DEF SetOption, ParserType, FandConfig
    <3>1a. v \in USHRT
      <4>1. 0 .. Limit(key) = USHRT
        <5>1. Limit(key) = USHRT_MAX
          BY <2>3 DEF Limit, USHRT_MAX
        <5> QED BY <5>1, Zenon DEF USHRT
      <4> QED BY <2>3, <4>1, Zenon
    <3>2. [s.data EXCEPT !.interval = v] \in FandConfig
      BY <1>1, <3>1a DEF FandConfig
    <3> QED BY <1>1, <3>1, <3>2 DEF ParserInv, ParserType, FandConfig, r
  <2>4. CASE v \in 0 .. Limit(key) /\ key = "hysteresis"
    <3>1. r = [s EXCEPT !.data = [s.data EXCEPT !.hysteresis = v]]
      BY <1>1, <2>1, <2>4 DEF SetOption, ParserType, FandConfig
    <3>1a. v \in UCHAR
      BY <2>4 DEF Limit, UCHAR
    <3>2. [s.data EXCEPT !.hysteresis = v] \in FandConfig
      BY <1>1, <3>1a DEF FandConfig
    <3> QED BY <1>1, <3>1, <3>2 DEF ParserInv, ParserType, FandConfig, r
  <2>5. CASE v \in 0 .. Limit(key) /\ key = "aggressive_throttle"
    <3>1. r = [s EXCEPT !.data = [s.data EXCEPT !.throttle = (v = 1)]]
      BY <1>1, <2>1, <2>5 DEF SetOption, ParserType, FandConfig
    <3>2. [s.data EXCEPT !.throttle = (v = 1)] \in FandConfig
      BY <1>1, <3>1 DEF FandConfig
    <3> QED BY <1>1, <3>1, <3>2 DEF ParserInv, ParserType, FandConfig, r
  <2>6. v \in 0 .. Limit(key) => key \in {"interval", "hysteresis", "aggressive_throttle"}
    BY <2>1 DEF Limit
  <2> QED BY <2>2, <2>3, <2>4, <2>5, <2>6
<1>4. CASE line.kind = "open" /\ line.comment # "before"
  <2>1. r = [s EXCEPT !.mode = "matrix", !.segs = <<line.arg>>]
    BY <1>4 DEF KeyLine
  <2>2. line.arg \in Cells
    BY <1>4, LineFacts DEF RowKinds
  <2>3. <<line.arg>> \in Segs /\ Len(<<line.arg>>) = 1 /\ <<line.arg>> # <<>>
    BY <2>2 DEF Segs
  <2> DEFINE one == <<line.arg>>
  <2> HIDE DEF one
  <2>4. r = [s EXCEPT !.mode = "matrix", !.segs = one] /\ one \in Segs /\ Len(one) = 1
        /\ one # <<>>
    BY <2>1, <2>3 DEF one
  <2>5. r \in ParserType /\ r.segs = one /\ r.data = s.data
    BY <1>1, <2>4 DEF ParserType, Segs, Cells
  <2>6. ParserInv(r)
    <3> HIDE DEF r
    <3>1. Len(r.segs) <= MAX_TEMP_THRESHOLDS + 1
      <4>1. Len(r.segs) = 1
        BY <2>4, <2>5, Zenon
      <4>2. 1 <= MAX_TEMP_THRESHOLDS + 1
        BY ThresholdsAssumption
      <4> QED BY <4>1, <4>2, Zenon
    <3> QED BY <2>4, <2>5, <3>1 DEF ParserInv
  <2> QED BY <2>5, <2>6
<1>5. CASE line.kind \in {"row", "last", "junk"} /\ line.comment # "before"
  <2>1. r = Error(s)
    BY <1>5 DEF KeyLine
  <2> QED BY <2>1, ErrorFacts
<1> QED BY <1>2, <1>3, <1>4, <1>5, LineFacts DEF RowKinds

\* A line keeps the parser well formed; a matrix that it closes is usable, and one that
\* was usable before stays so unless the parser fails.
LEMMA ParseLineFacts ==
  ASSUME NEW s, ParserInv(s), s.status = 0, NEW line \in Line
  PROVE  LET r == ParseLine(s, line)
         IN  /\ ParserInv(r)
             /\ r.status = 0 /\ s.mode = "matrix" /\ r.mode = "keys" => Usable(r.data)
             /\ r.status = 0 /\ Usable(s.data) => Usable(r.data)
<1>1. CASE s.mode = "matrix"
  BY <1>1, AppendFacts DEF ParseLine
<1>2. CASE s.mode = "keys"
  BY <1>2, KeyLineFacts DEF ParseLine, Usable
<1> QED BY <1>1, <1>2 DEF ParserInv, ParserType

------------------------------------------------------------------------------
(* The controller and its files. *)

\* What FilesNeverFatal needs to be inductive: the matrix in use is a usable one, and so
\* is the one that the daemon keeps for the next restart, until a file is refused.
SourceInv ==
  source # None =>
    /\ FilesNeverFatal
    /\ matrix.rows > 0 /\ \A i \in UsedRows : matrix.speeds[i] <= 100
    /\ call # "down" => Usable(data)
    /\ call = "restart" /\ parser.status = 0 => Usable(parser.data)

\* A matrix that was taken over is usable, and nothing is in use before the first start.
SeenInv ==
  /\ ParserInv(parser)
  /\ seen /\ parser.status = 0 => Usable(parser.data)
  /\ call \in {"boot", "init"} => source = None

\* The inductive invariant.
ConfiguredInv == ConfiguredTypeOK /\ SafetyInv /\ SeenInv /\ SourceInv

\* A cleared structure is a configuration, and a new parser is well formed.
LEMMA ParserFacts ==
  /\ Zero \in FandConfig
  /\ \A d \in FandConfig : ParserInv(Parser(d)) /\ Parser(d).status = 0 /\ Parser(d).data = d
<1>1. Zero \in FandConfig
  BY ThresholdsAssumption DEF Zero, FandConfig, UCHAR, USHRT, USHRT_MAX
<1>2. ASSUME NEW d \in FandConfig
      PROVE  ParserInv(Parser(d)) /\ Parser(d).status = 0 /\ Parser(d).data = d
  BY ThresholdsAssumption DEF ParserInv, Parser, ParserType
<1> QED BY <1>1, <1>2

\* fanctrl_configure takes a usable matrix over as it is.
LEMMA UsableTaken ==
  ASSUME NEW d \in FandConfig, Usable(d), TypeOK, Configure(d)
  PROVE  /\ status' = 0
         /\ matrix'.rows > 0
         /\ \A i \in 0 .. matrix'.rows - 1 : matrix'.speeds[i] <= 100
<1>1. d.matrix_rows \in 1 .. MAX_TEMP_THRESHOLDS - 1
      /\ \A i \in 0 .. d.matrix_rows - 1 : d.matrix[2 * i + 1] <= 100
  BY DEF Usable
<1>2. ~(d.matrix_rows > MAX_TEMP_THRESHOLDS)
  BY <1>1, ThresholdsAssumption
<1>3. /\ status' = 0
      /\ matrix'.rows = d.matrix_rows
      /\ matrix'.speeds = [i \in Row |-> IF i < d.matrix_rows THEN d.matrix[2 * i + 1]
                                         ELSE matrix.speeds[i]]
  BY <1>2 DEF Configure, SetMatrix
<1>4. \A i \in 0 .. d.matrix_rows - 1 : i \in Row
  BY <1>1, ThresholdsAssumption DEF Row
<1> QED BY <1>1, <1>3, <1>4, ThresholdsAssumption

\* It holds before the first start.
LEMMA ConfiguredInitInv == ConfiguredInit => ConfiguredInv
<1> SUFFICES ASSUME ConfiguredInit PROVE ConfiguredInv
  OBVIOUS
<1> USE DEF ConfiguredInit
<1>1. SafetyInv
  BY InitSafe
<1>2. ParserInv(parser)
  BY ParserFacts
<1>3. ConfiguredTypeOK
  <2>1. TypeOK
    BY <1>1 DEF SafetyInv
  <2>2. data \in FandConfig
    BY ParserFacts
  <2>3. left \in Seq(Line) /\ file \in Seq(Line) /\ source \in Seq(Line)
    BY DEF None
  <2>4. parser \in ParserType /\ Len(parser.segs) <= MAX_TEMP_THRESHOLDS + 1
    BY <1>2 DEF ParserInv
  <2>5. call = "boot" /\ loads = 0 /\ seen = FALSE
    OBVIOUS
  <2>6. loads \in 0 .. MaxLoads
    BY <2>5, LoadsAssumption
  <2> QED BY <2>1, <2>2, <2>3, <2>4, <2>5, <2>6, Zenon DEF ConfiguredTypeOK
<1> QED BY <1>1, <1>2, <1>3 DEF ConfiguredInv, SeenInv, SourceInv, None

\* A call of config_parse begins.
LEMMA OpenFileInv ==
  ASSUME ConfiguredInv, NEW f \in Files, NEW c \in Parsing, NEW d \in FandConfig,
         OpenFile(c, d, f),
         \/ c = "init" /\ call = "boot"
         \/ c = "restart" /\ call = "up" /\ d = data
         \/ c = "reload" /\ call = "up"
  PROVE  ConfiguredInv'
<1>1. SafetyInv'
  BY StutterSafe DEF ConfiguredInv, OpenFile
<1>2. /\ ParserInv(parser')
      /\ parser'.data = d
      /\ left' \in Seq(Line) /\ file' \in Seq(Line)
  <2>1. ParserInv(Parser(d)) /\ Parser(d).data = d
    BY ParserFacts
  <2>2. ParserInv(Error(Parser(d))) /\ Error(Parser(d)).data = d
    BY <2>1, ErrorFacts
  <2>3. f \in Seq(Line) /\ <<>> \in Seq(Line)
    BY FilesAssumption
  <2> QED BY <2>1, <2>2, <2>3, Zenon DEF OpenFile, None
<1>3. ConfiguredTypeOK'
  <2>1. TypeOK'
    BY <1>1 DEF SafetyInv
  <2>2. parser' \in ParserType /\ Len(parser'.segs) <= MAX_TEMP_THRESHOLDS + 1
    BY <1>2 DEF ParserInv
  <2>3. loads' \in 0 .. MaxLoads
    BY LoadsAssumption DEF OpenFile, ConfiguredInv, ConfiguredTypeOK
  <2>4. call' = c /\ seen' = FALSE /\ UNCHANGED <<data, source>>
    BY DEF OpenFile
  <2>5. data \in FandConfig /\ source \in Seq(Line)
    BY DEF ConfiguredInv, ConfiguredTypeOK
  <2> QED BY <1>2, <2>1, <2>2, <2>3, <2>4, <2>5, Zenon DEF ConfiguredTypeOK
<1>4. SeenInv'
  BY <1>2 DEF OpenFile, ConfiguredInv, SeenInv, Parsing
<1>5. UNCHANGED <<matrix, status, data, source>> /\ call' = c /\ seen' = FALSE
  BY DEF OpenFile, vars, control
<1>6. SourceInv'
  BY <1>2, <1>5 DEF ConfiguredInv, SeenInv, SourceInv, FilesNeverFatal, UsedRows, Parsing
<1> QED BY <1>1, <1>3, <1>4, <1>6 DEF ConfiguredInv

\* One line is read.
LEMMA ReadLineInv ==
  ASSUME ConfiguredInv, ReadLine
  PROVE  ConfiguredInv'
<1>1. SafetyInv'
  BY StutterSafe DEF ConfiguredInv, ReadLine
<1>2. Head(left) \in Line /\ left' \in Seq(Line)
  BY DEF ConfiguredInv, ConfiguredTypeOK, ReadLine
<1>3. ParserInv(parser) /\ parser.status = 0 /\ parser' = ParseLine(parser, Head(left))
  BY DEF ConfiguredInv, SeenInv, ReadLine
<1>4. /\ ParserInv(parser')
      /\ parser'.status = 0 /\ parser.mode = "matrix" /\ parser'.mode = "keys"
           => Usable(parser'.data)
      /\ parser'.status = 0 /\ Usable(parser.data) => Usable(parser'.data)
  BY <1>2, <1>3, ParseLineFacts
<1>5. ConfiguredTypeOK'
  BY <1>1, <1>2, <1>4 DEF ReadLine, ConfiguredInv, ConfiguredTypeOK, SafetyInv, ParserInv
<1>6. SeenInv'
  BY <1>3, <1>4 DEF ReadLine, ConfiguredInv, SeenInv
<1>7. UNCHANGED <<matrix, status, data, source, call>> /\ call \in Parsing
  BY DEF ReadLine, vars, control
<1>8. SourceInv'
  BY <1>3, <1>4, <1>7 DEF ConfiguredInv, SourceInv, FilesNeverFatal, UsedRows, Parsing
<1> QED BY <1>1, <1>5, <1>6, <1>8 DEF ConfiguredInv

\* What is left of the parser when config_parse has returned.
LEMMA LeaveFacts ==
  ASSUME NEW v \in {0, -1}, Leave(v)
  PROVE  ParserInv(parser') /\ parser'.status = v /\ left' = <<>> /\ seen' = FALSE
         /\ UNCHANGED <<loads, file>>
<1>1. ParserInv(Parser(Zero))
  BY ParserFacts
<1> QED BY <1>1 DEF Leave, ParserInv, ParserType

\* A file is refused.
LEMMA RefusedInv ==
  ASSUME ConfiguredInv, Refused
  PROVE  ConfiguredInv'
<1>1. SafetyInv'
  BY StutterSafe DEF ConfiguredInv, Refused
<1>2. ParserInv(parser') /\ parser'.status = -1 /\ left' = <<>> /\ seen' = FALSE
      /\ UNCHANGED <<loads, file>>
  BY LeaveFacts DEF Refused
<1>3. UNCHANGED <<matrix, status, source>> /\ call \in Parsing /\ call' \in {"up", "down"}
      /\ (call' = "up" => data' = data)
  BY DEF Refused, vars, control, Parsing
<1>4. data' \in FandConfig
  BY DEF Refused, ConfiguredInv, ConfiguredTypeOK, ParserType
<1>5. ConfiguredTypeOK'
  <2>1. TypeOK'
    BY <1>1 DEF SafetyInv
  <2>2. parser' \in ParserType /\ Len(parser'.segs) <= MAX_TEMP_THRESHOLDS + 1
    BY <1>2 DEF ParserInv
  <2>3. file \in Seq(Line) /\ source \in Seq(Line) /\ loads \in 0 .. MaxLoads
    BY DEF ConfiguredInv, ConfiguredTypeOK
  <2>4. <<>> \in Seq(Line)
    OBVIOUS
  <2> QED BY <1>2, <1>3, <1>4, <2>1, <2>2, <2>3, <2>4, Zenon DEF ConfiguredTypeOK
<1>6. SeenInv'
  BY <1>2, <1>3 DEF SeenInv
<1>7. SourceInv'
  BY <1>2, <1>3 DEF ConfiguredInv, SourceInv, FilesNeverFatal, UsedRows, Parsing
<1> QED BY <1>1, <1>5, <1>6, <1>7 DEF ConfiguredInv

\* A file is accepted and given to fanctrl_configure.
LEMMA AcceptedInv ==
  ASSUME ConfiguredInv, Accepted
  PROVE  ConfiguredInv'
<1>1. parser.data \in FandConfig /\ Configure(parser.data) /\ TypeOK
  BY DEF Accepted, ConfiguredInv, ConfiguredTypeOK, ParserType
<1>2. SafetyInv'
  BY <1>1, ConfigureSafe DEF ConfiguredInv
<1>3. ParserInv(parser') /\ parser'.status = 0 /\ left' = <<>> /\ seen' = FALSE
      /\ UNCHANGED <<loads, file>>
  BY LeaveFacts DEF Accepted
<1>4. call' \in {"up", "down"} /\ data' = parser.data
      /\ source' \in {None, file, source}
  BY DEF Accepted
<1>5. ConfiguredTypeOK'
  <2>1. TypeOK'
    BY <1>2 DEF SafetyInv
  <2>2. parser' \in ParserType /\ Len(parser'.segs) <= MAX_TEMP_THRESHOLDS + 1
    BY <1>3 DEF ParserInv
  <2>3. file \in Seq(Line) /\ source \in Seq(Line) /\ loads \in 0 .. MaxLoads
    BY DEF ConfiguredInv, ConfiguredTypeOK
  <2>4. <<>> \in Seq(Line)
    OBVIOUS
  <2>5. source' \in Seq(Line)
    BY <1>4, <2>3, <2>4 DEF None
  <2> QED BY <1>1, <1>3, <1>4, <2>1, <2>2, <2>3, <2>4, <2>5, Zenon DEF ConfiguredTypeOK
<1>6. SeenInv'
  BY <1>3, <1>4 DEF SeenInv
<1>7. SourceInv'
  <2> SUFFICES ASSUME source' # None PROVE SourceInv'
    BY DEF SourceInv
  <2>1. Usable(parser.data)
    <3>1. CASE seen
      BY <3>1 DEF Accepted, ConfiguredInv, SeenInv
    <3>2. CASE ~seen
      <4>1. call # "reload" /\ source' = source /\ source # None /\ call \in Parsing
        BY <3>2 DEF Accepted
      <4>2. call = "restart"
        BY <4>1 DEF ConfiguredInv, SeenInv, Parsing
      <4> QED BY <4>1, <4>2 DEF Accepted, ConfiguredInv, SourceInv
    <3> QED BY <3>1, <3>2
  <2>2. status' = 0 /\ matrix'.rows > 0
        /\ \A i \in 0 .. matrix'.rows - 1 : matrix'.speeds[i] <= 100
    BY <1>1, <2>1, UsableTaken
  <2>3. call' = "up"
    BY <2>2 DEF Accepted
  <2> QED BY <1>4, <2>1, <2>2, <2>3 DEF SourceInv, FilesNeverFatal, UsedRows, FAND_FATAL_ERR
<1> QED BY <1>2, <1>5, <1>6, <1>7 DEF ConfiguredInv

\* The speed is adjusted.
LEMMA AdjustFanspeedInv ==
  ASSUME ConfiguredInv, NEW raw \in SensorReadings, AdjustFanspeed(raw)
  PROVE  ConfiguredInv'
<1>1. SafetyInv'
  BY AdjustSafe DEF ConfiguredInv, AdjustFanspeed
<1>2. UNCHANGED <<data, parser, left, loads, file, seen, source>> /\ call = "up"
      /\ call' = (IF status' = FAND_FATAL_ERR THEN "down" ELSE "up")
  BY DEF AdjustFanspeed, parsing
<1>3. matrix' = matrix
  BY DEF AdjustFanspeed, Adjust, AdjustEmpty, AdjustUnread, AdjustSpeed, control
<1>4. ConfiguredTypeOK'
  BY <1>1, <1>2 DEF ConfiguredInv, ConfiguredTypeOK, SafetyInv
<1>5. SeenInv'
  BY <1>2 DEF ConfiguredInv, SeenInv
<1>6. SourceInv'
  <2> SUFFICES ASSUME source # None PROVE SourceInv'
    BY <1>2 DEF SourceInv
  <2>1. /\ matrix.rows > 0 /\ \A i \in UsedRows : matrix.speeds[i] <= 100
        /\ Usable(data)
    BY <1>2 DEF ConfiguredInv, SourceInv
  <2>2. matrix.rows \in Nat /\ \A i \in UsedRows : matrix.speeds[i] \in Nat
    BY RowTypes DEF ConfiguredInv, SafetyInv, UsedRows
  <2>3. status' # FAND_FATAL_ERR
    BY <1>1, <1>3, <2>1, <2>2 DEF SafetyInv, FatalOnlyWhenUnusable, UsedRows
  <2> QED BY <1>2, <1>3, <2>1, <2>3 DEF SourceInv, FilesNeverFatal, UsedRows
<1> QED BY <1>1, <1>4, <1>5, <1>6 DEF ConfiguredInv

\* Whatever the files hold and in whatever order they are loaded, the invariant holds.
THEOREM ConfiguredInvariance == ConfiguredSpec => []ConfiguredInv
<1>1. ConfiguredInv /\ [ConfiguredNext]_configured => ConfiguredInv'
  <2> SUFFICES ASSUME ConfiguredInv, [ConfiguredNext]_configured PROVE ConfiguredInv'
    OBVIOUS
  <2>1. ASSUME NEW f \in Files, Start(f) \/ Restart(f) PROVE ConfiguredInv'
    BY <2>1, OpenFileInv DEF Start, Restart, ConfiguredInv, ConfiguredTypeOK, Parsing
  <2>2. ASSUME NEW f \in Files, Reload(f) PROVE ConfiguredInv'
    BY <2>2, OpenFileInv, GarbageAssumption DEF Reload, Parsing
  <2>3. CASE ReadLine
    BY <2>3, ReadLineInv
  <2>4. CASE Refused
    BY <2>4, RefusedInv
  <2>5. CASE Accepted
    BY <2>5, AcceptedInv
  <2>6. ASSUME NEW raw \in SensorReadings, AdjustFanspeed(raw) PROVE ConfiguredInv'
    BY <2>6, AdjustFanspeedInv
  <2>7. CASE UNCHANGED configured
    <3>1. UNCHANGED vars
          /\ UNCHANGED <<call, data, parser, left, loads, file, seen, source, matrix, status>>
      BY <2>7 DEF configured, parsing, vars, control
    <3>2. SafetyInv'
      BY <3>1, StutterSafe DEF ConfiguredInv
    <3> QED BY <3>1, <3>2 DEF ConfiguredInv, ConfiguredTypeOK, SafetyInv, SeenInv, SourceInv,
                              FilesNeverFatal, UsedRows
  <2> QED BY <2>1, <2>2, <2>3, <2>4, <2>5, <2>6, <2>7 DEF ConfiguredNext
<1> QED BY <1>1, ConfiguredInitInv, PTL DEF ConfiguredSpec

\* The structures keep their types whatever the file holds, so that config_set_matrix
\* (config.c:98-158) writes no number that its byte cannot hold and no row that the
\* array has no room for.
THEOREM ConfiguredTypes == ConfiguredSpec => []ConfiguredTypeOK
BY ConfiguredInvariance, PTL DEF ConfiguredInv

\* As long as the matrix in use came from a file, neither fanctrl_configure nor
\* fanctrl_adjust ends the daemon (daemon.c:147-150, 164-167, 206-209).
THEOREM NoFileIsFatal == ConfiguredSpec => []FilesNeverFatal
<1>1. ConfiguredInv => FilesNeverFatal
  BY DEF ConfiguredInv, SourceInv, FilesNeverFatal
<1> QED BY <1>1, ConfiguredInvariance, PTL

\* Whatever file was loaded last, in whatever order files came, the rows of a rising
\* matrix are honoured at once when the temperature reaches them (fanctrl.c:102-132).
THEOREM RowsOfFilesHonoured == ConfiguredSpec => []RowsHonoured
BY ConfiguredInvariance, PTL DEF ConfiguredInv, SafetyInv
=============================================================================
