-------------------------- MODULE FanControl_proofs --------------------------
(***************************************************************************)
(* Proofs about FanControl, for every size of the matrix, every set of     *)
(* configurations and every set of sensor readings.                        *)
(***************************************************************************)
EXTENDS FanControl, WellFoundedInduction, TLAPS

\* The least number principle, which the search loop for a bracket rests on.
LEMMA LeastElement ==
  ASSUME NEW S, S \subseteq Nat, S # {}
  PROVE  \E m \in S : \A j \in S : m <= j
<1>1. PICK m \in S : \A j \in S : ~(<<j, m>> \in OpToRel(<, Nat))
  BY NatLessThanWellFounded, WFMin, Zenon
<1>2. \A j \in S : ~(j < m)
  BY <1>1 DEF OpToRel
<1> QED
  BY <1>2

------------------------------------------------------------------------------
(* The operators of the controller. *)

\* The types of the rows in use.
LEMMA RowTypes ==
  ASSUME TypeOK
  PROVE  /\ matrix.rows \in Nat
         /\ matrix.rows <= MAX_TEMP_THRESHOLDS
         /\ \A i \in 0 .. matrix.rows - 1 :
              /\ matrix.temps[i] \in Nat /\ matrix.speeds[i] \in Nat
              /\ matrix.speeds[i] <= 255
<1>1. /\ matrix.rows \in 0 .. MAX_TEMP_THRESHOLDS
      /\ matrix.temps \in [Row -> UCHAR]
      /\ matrix.speeds \in [Row -> UCHAR]
  BY DEF TypeOK
<1>2. matrix.rows \in Nat /\ matrix.rows <= MAX_TEMP_THRESHOLDS
  BY <1>1, ThresholdsAssumption
<1>3. ASSUME NEW i \in 0 .. matrix.rows - 1
      PROVE  /\ matrix.temps[i] \in Nat /\ matrix.speeds[i] \in Nat
             /\ matrix.speeds[i] <= 255
  <2>1. i \in Row
    BY <1>2, <1>3, ThresholdsAssumption DEF Row
  <2>2. matrix.temps[i] \in UCHAR /\ matrix.speeds[i] \in UCHAR
    BY <1>1, <2>1
  <2> QED BY <2>2 DEF UCHAR
<1> QED
  BY <1>2, <1>3

\* The loop of fanctrl_adjust stops at a row the temperature lies above while it
\* does not lie above the next one.
LEMMA FirstBracketIsBracket ==
  ASSUME TypeOK, NEW t \in Nat, Brackets(t) # {}
  PROVE  FirstBracket(t) \in Brackets(t)
<1>1. Brackets(t) \subseteq Nat
  BY RowTypes DEF Brackets
<1>2. PICK m \in Brackets(t) : \A j \in Brackets(t) : m <= j
  BY <1>1, LeastElement
<1> QED
  BY <1>2 DEF FirstBracket

\* The loop always stops: a temperature above the first and not above the last
\* row lies between two rows, whatever the order of the rows.
LEMMA BracketExists ==
  ASSUME TypeOK, matrix.rows > 0, NEW t \in Nat, AboveLow(t), ~AboveHigh(t)
  PROVE  Brackets(t) # {}
<1> DEFINE S == {i \in Nat : i <= matrix.rows - 1 /\ matrix.temps[i] >= t}
<1>1. matrix.rows \in Nat /\ matrix.rows <= MAX_TEMP_THRESHOLDS
  BY RowTypes
<1>2. \A i \in 0 .. matrix.rows - 1 : matrix.temps[i] \in Nat
  BY RowTypes
<1>3. matrix.rows - 1 \in S
  BY <1>1, <1>2 DEF AboveLow, AboveHigh
<1>4. PICK m \in S : \A j \in S : m <= j
  <2> HIDE DEF S
  <2>1. S \subseteq Nat
    BY DEF S
  <2> QED BY <1>3, <2>1, LeastElement
<1>5. m # 0
  BY <1>1, <1>2, <1>4 DEF AboveLow
<1>6. m - 1 \in Nat /\ m - 1 <= matrix.rows - 2
  BY <1>1, <1>4, <1>5
<1>7. m - 1 \notin S
  BY <1>4, <1>6
<1>8. matrix.temps[m - 1] < t
  BY <1>1, <1>2, <1>6, <1>7
<1>9. matrix.temps[(m - 1) + 1] >= t
  BY <1>4, <1>6
<1> QED
  BY <1>1, <1>6, <1>8, <1>9 DEF Brackets

\* What Threshold computes: the last row the temperature exceeds, -1 if none.
LEMMA ThresholdFacts ==
  ASSUME TypeOK, matrix.rows > 0, NEW t \in Nat
  PROVE  /\ Threshold(t) \in -1 .. matrix.rows - 1
         /\ Threshold(t) > -1 => matrix.temps[Threshold(t)] < t
         /\ Rising => \A i \in UsedRows : matrix.temps[i] < t <=> i <= Threshold(t)
<1>1. /\ matrix.rows \in Nat /\ UsedRows = 0 .. matrix.rows - 1
      /\ \A i \in UsedRows : matrix.temps[i] \in Nat
  BY RowTypes DEF UsedRows
<1>2. CASE Between(t)
  <2>1. FirstBracket(t) \in Brackets(t)
    BY <1>2, FirstBracketIsBracket DEF Between
  <2>2. Threshold(t) = FirstBracket(t)
    BY <1>2 DEF Threshold
  <2>3. /\ Threshold(t) \in 0 .. matrix.rows - 2
        /\ matrix.temps[Threshold(t)] < t
        /\ matrix.temps[Threshold(t) + 1] >= t
    BY <2>1, <2>2 DEF Brackets
  <2>4. ASSUME Rising, NEW i \in UsedRows
        PROVE  matrix.temps[i] < t <=> i <= Threshold(t)
    <3> DEFINE b == Threshold(t)
    <3>1. /\ b \in 0 .. matrix.rows - 2 /\ b \in UsedRows /\ b + 1 \in UsedRows
          /\ matrix.temps[b] < t /\ matrix.temps[b + 1] >= t
          /\ matrix.temps[b] \in Nat /\ matrix.temps[b + 1] \in Nat
          /\ matrix.temps[i] \in Nat /\ i \in Int
      BY <1>1, <2>3
    <3> HIDE DEF b
    <3>2. CASE i <= b
      <4>1. matrix.temps[i] <= matrix.temps[b]
        BY <2>4, <3>1, <3>2 DEF Rising
      <4> QED BY <3>1, <3>2, <4>1 DEF b
    <3>3. CASE ~(i <= b)
      <4>1. b + 1 <= i
        BY <3>1, <3>3
      <4>2. matrix.temps[b + 1] <= matrix.temps[i]
        BY <2>4, <3>1, <4>1 DEF Rising
      <4> QED BY <3>1, <3>3, <4>2 DEF b
    <3> QED BY <3>2, <3>3
  <2> QED BY <1>1, <2>3, <2>4
<1>3. CASE AboveHigh(t)
  <2>1. Threshold(t) = matrix.rows - 1
    BY <1>3 DEF Threshold, Between
  <2>2. matrix.temps[matrix.rows - 1] < t
    BY <1>1, <1>3 DEF AboveHigh
  <2>3. ASSUME Rising, NEW i \in UsedRows
        PROVE  matrix.temps[i] < t
    BY <1>1, <2>2, <2>3 DEF Rising
  <2> QED BY <1>1, <2>1, <2>2, <2>3
<1>4. CASE ~Between(t) /\ ~AboveHigh(t)
  <2>1. Threshold(t) = -1
    BY <1>4 DEF Threshold
  <2>2. ~AboveLow(t)
    BY <1>4, BracketExists DEF Between
  <2>3. ASSUME Rising, NEW i \in UsedRows
        PROVE  ~(matrix.temps[i] < t)
    BY <1>1, <2>2, <2>3 DEF Rising, AboveLow
  <2> QED BY <1>1, <2>1, <2>3
<1> QED BY <1>2, <1>3, <1>4

\* lerp stays between its end points, or is 0 when they are in falling order.
LEMMA LerpBounds ==
  ASSUME NEW a \in Nat, NEW b \in Nat, NEW x, NEW r \in Lerp(a, b, x)
  PROVE  r \in Nat /\ r <= (IF a <= b THEN b ELSE 0) /\ (a <= b => a <= r)
BY DEF Lerp

\* The speed before hysteresis lies between the speeds of the rows around the
\* temperature, and is a percentage if the rows' speeds are.
LEMMA CurveFacts ==
  ASSUME TypeOK, matrix.rows > 0, NEW t \in Nat, NEW s \in CurveSpeeds(t)
  PROVE  /\ s \in Nat
         /\ (\A i \in UsedRows : matrix.speeds[i] <= 100) => s <= 100
         /\ Rising => \A i \in UsedRows :
              /\ i <= Threshold(t) => matrix.speeds[i] <= s
              /\ i > Threshold(t) => s <= matrix.speeds[i]
<1>1. /\ matrix.rows \in Nat /\ UsedRows = 0 .. matrix.rows - 1
      /\ \A i \in UsedRows : matrix.speeds[i] \in Nat
  BY RowTypes DEF UsedRows
<1>2. CASE ~AboveLow(t)
  <2>1. Threshold(t) = -1
    BY <1>2 DEF Threshold, Between, AboveHigh
  <2>2. s = 0 \/ s = matrix.speeds[0]
    BY <1>2 DEF CurveSpeeds
  <2> QED BY <1>1, <2>1, <2>2 DEF Rising
<1>3. CASE Between(t)
  <2> DEFINE b == FirstBracket(t)
  <2>1. Threshold(t) = b /\ b \in 0 .. matrix.rows - 2
    BY <1>3, FirstBracketIsBracket DEF Threshold, Between, Brackets
  <2>2. s \in Lerp(matrix.speeds[b], matrix.speeds[b + 1],
                   LerpInverse(matrix.temps[b], matrix.temps[b + 1], t))
    BY <1>3 DEF CurveSpeeds, Between
  <2> HIDE DEF b
  <2>3. matrix.speeds[b] \in Nat /\ matrix.speeds[b + 1] \in Nat
    BY <1>1, <2>1
  <2>4. /\ s \in Nat
        /\ s <= matrix.speeds[b + 1]
        /\ matrix.speeds[b] <= matrix.speeds[b + 1] => matrix.speeds[b] <= s
    BY <2>2, <2>3, LerpBounds
  <2>5. b \in UsedRows /\ b + 1 \in UsedRows
    BY <1>1, <2>1
  <2>6. ASSUME Rising, NEW i \in UsedRows
        PROVE  /\ i <= b => matrix.speeds[i] <= s
               /\ i > b => s <= matrix.speeds[i]
    <3>1. i \in Int /\ b \in Int /\ matrix.speeds[i] \in Nat
      BY <1>1, <2>1
    <3>2. matrix.speeds[b] <= matrix.speeds[b + 1]
      BY <2>1, <2>5, <2>6 DEF Rising
    <3>3. ASSUME i <= b PROVE matrix.speeds[i] <= s
      <4>1. matrix.speeds[i] <= matrix.speeds[b]
        BY <2>5, <2>6, <3>3 DEF Rising
      <4> QED BY <2>3, <2>4, <3>1, <3>2, <4>1
    <3>4. ASSUME i > b PROVE s <= matrix.speeds[i]
      <4>1. b + 1 <= i
        BY <3>1, <3>4
      <4>2. matrix.speeds[b + 1] <= matrix.speeds[i]
        BY <2>5, <2>6, <4>1 DEF Rising
      <4> QED BY <2>3, <2>4, <3>1, <4>2
    <3> QED BY <3>3, <3>4
  <2>7. (\A i \in UsedRows : matrix.speeds[i] <= 100) => s <= 100
    BY <2>3, <2>4, <2>5
  <2> QED BY <2>1, <2>4, <2>6, <2>7
<1>4. CASE AboveLow(t) /\ ~Between(t)
  <2>1. AboveHigh(t)
    BY <1>4, BracketExists DEF Between
  <2>2. s = matrix.speeds[matrix.rows - 1] /\ Threshold(t) = matrix.rows - 1
    BY <1>4, <2>1 DEF CurveSpeeds, Threshold
  <2> QED BY <1>1, <2>2 DEF Rising
<1> QED BY <1>2, <1>3, <1>4

\* Faster in percent is not slower in pwm; percentages fit the pwm range.
LEMMA PwmFacts ==
  ASSUME NEW p \in Nat, NEW q \in Nat
  PROVE  /\ PercentageToPwm(p) \in Nat
         /\ p <= q => PercentageToPwm(p) <= PercentageToPwm(q)
         /\ p <= 100 => PercentageToPwm(p) <= PWM_MAX
BY DEF PercentageToPwm, PWM_MAX
------------------------------------------------------------------------------
(* Invariants. *)

\* Facts about a speed that fanctrl_adjust may choose at temperature t, hysteresis
\* included.
LEMMA TargetFacts ==
  ASSUME TypeOK, ThresholdNamesRow, matrix.rows > 0, NEW t \in Nat,
         NEW s \in TargetSpeeds(t)
  PROVE  /\ s \in Nat
         /\ (\A i \in UsedRows : matrix.speeds[i] <= 100) => s <= 100
         /\ Rising => \A i \in UsedRows :
              /\ matrix.temps[i] < t => matrix.speeds[i] <= s
              /\ t + hysteresis <= matrix.temps[i] => s <= matrix.speeds[i]
         /\ Rising /\ Held(t) => \A i \in UsedRows :
              i <= current_threshold => matrix.speeds[i] <= s
<1>1. /\ matrix.rows \in Nat /\ UsedRows = 0 .. matrix.rows - 1
      /\ \A i \in UsedRows : matrix.speeds[i] \in Nat /\ matrix.temps[i] \in Nat
      /\ hysteresis \in Nat /\ current_threshold \in Int
  BY RowTypes, ThresholdsAssumption DEF UsedRows, TypeOK, UCHAR
<1>2. /\ Threshold(t) \in -1 .. matrix.rows - 1
      /\ Rising => \A i \in UsedRows : matrix.temps[i] < t <=> i <= Threshold(t)
  BY ThresholdFacts
<1>3. CASE Held(t)
  <2> DEFINE c == current_threshold
  <2>1. /\ s = matrix.speeds[c] /\ c \in UsedRows /\ Threshold(t) < c
        /\ t + hysteresis > matrix.temps[c]
    BY <1>1, <1>3 DEF TargetSpeeds, Held, ThresholdNamesRow
  <2> HIDE DEF c
  <2>2. ASSUME Rising, NEW i \in UsedRows
        PROVE  /\ i <= c => matrix.speeds[i] <= s
               /\ matrix.temps[i] < t => i <= c
               /\ t + hysteresis <= matrix.temps[i] => c <= i
    <3>1. i \in Int /\ c \in Int /\ matrix.temps[i] \in Nat /\ matrix.temps[c] \in Nat
      BY <1>1, <2>1
    <3>2. i <= c => matrix.speeds[i] <= s
      BY <2>1, <2>2 DEF Rising
    <3>3. matrix.temps[i] < t => i <= c
      BY <1>1, <1>2, <2>1, <2>2, <3>1
    <3>4. i <= c => matrix.temps[i] <= matrix.temps[c]
      BY <2>1, <2>2 DEF Rising
    <3>5. t + hysteresis <= matrix.temps[i] => c <= i
      BY <1>1, <2>1, <3>1, <3>4
    <3> QED BY <3>2, <3>3, <3>5
  <2>3. ASSUME Rising, NEW i \in UsedRows, c <= i PROVE s <= matrix.speeds[i]
    BY <2>1, <2>3 DEF Rising
  <2>4. s \in Nat /\ ((\A i \in UsedRows : matrix.speeds[i] <= 100) => s <= 100)
    BY <1>1, <2>1
  <2> QED BY <2>2, <2>3, <2>4 DEF c
<1>4. CASE ~Held(t)
  <2>1. s \in CurveSpeeds(t)
    BY <1>4 DEF TargetSpeeds
  <2>2. /\ s \in Nat
        /\ (\A i \in UsedRows : matrix.speeds[i] <= 100) => s <= 100
        /\ Rising => \A i \in UsedRows :
             /\ i <= Threshold(t) => matrix.speeds[i] <= s
             /\ i > Threshold(t) => s <= matrix.speeds[i]
    BY <2>1, CurveFacts
  <2>3. ASSUME Rising, NEW i \in UsedRows
        PROVE  /\ matrix.temps[i] < t => matrix.speeds[i] <= s
               /\ t + hysteresis <= matrix.temps[i] => s <= matrix.speeds[i]
    <3>1. matrix.temps[i] < t <=> i <= Threshold(t)
      BY <1>2, <2>3
    <3>2. t + hysteresis <= matrix.temps[i] => ~(matrix.temps[i] < t)
      BY <1>1, <2>3
    <3>3. i \in Int /\ Threshold(t) \in Int
      BY <1>1, <1>2
    <3> QED BY <2>2, <2>3, <3>1, <3>2, <3>3
  <2> QED BY <1>4, <2>2, <2>3
<1> QED BY <1>3, <1>4

\* At the end of an interval the interpolation gives the speed of its upper row.
LEMMA LerpAtEnd ==
  ASSUME NEW a \in Nat, NEW b \in Nat, a <= b, NEW d \in Nat \ {0},
         NEW r \in Lerp(a, b, [num |-> d, den |-> d])
  PROVE  b <= r
<1>1. r \in Int /\ 2 * (a * d + (b - a) * d) <= 2 * r * d + d
  BY DEF Lerp
<1>2. a * d + (b - a) * d = b * d
  OBVIOUS
<1>3. ASSUME r + 1 <= b PROVE FALSE
  <2>1. (b - (r + 1)) * d >= 0
    BY <1>1, <1>3
  <2>2. (b - (r + 1)) * d = b * d - r * d - d
    BY <1>1
  <2>3. 2 * r * d = 2 * (r * d)
    BY <1>1
  <2>4. b * d \in Int /\ r * d \in Int
    BY <1>1
  <2> QED BY <1>1, <1>2, <2>1, <2>2, <2>3, <2>4
<1> QED BY <1>1, <1>3

\* At exactly the temperature of a row its speed is already due.
LEMMA AtRow ==
  ASSUME TypeOK, ThresholdNamesRow, matrix.rows > 0, Rising, NEW t \in Nat,
         NEW s \in TargetSpeeds(t), NEW i \in UsedRows,
         t = matrix.temps[i], i > 0 \/ ~throttle,
         \A j \in 0 .. i - 1 : matrix.temps[j] < t
  PROVE  matrix.speeds[i] <= s
<1>1. /\ matrix.rows \in Nat /\ UsedRows = 0 .. matrix.rows - 1 /\ i \in Nat
      /\ \A j \in UsedRows : matrix.speeds[j] \in Nat /\ matrix.temps[j] \in Nat
      /\ current_threshold \in Int
  BY RowTypes, ThresholdsAssumption DEF UsedRows, TypeOK
<1>2. Threshold(t) = i - 1
  <2>1. /\ Threshold(t) \in -1 .. matrix.rows - 1
        /\ \A j \in UsedRows : matrix.temps[j] < t <=> j <= Threshold(t)
    BY ThresholdFacts
  <2>2. ~(i <= Threshold(t))
    BY <1>1, <2>1
  <2>3. i > 0 => i - 1 <= Threshold(t)
    BY <1>1, <2>1
  <2> QED BY <1>1, <2>1, <2>2, <2>3
<1>3. CASE Held(t)
  <2>1. /\ s = matrix.speeds[current_threshold] /\ current_threshold \in UsedRows
        /\ i <= current_threshold
    BY <1>1, <1>2, <1>3 DEF TargetSpeeds, Held, ThresholdNamesRow
  <2> QED BY <2>1 DEF Rising
<1>4. CASE ~Held(t) /\ i = 0
  <2>1. ~AboveLow(t) /\ ~throttle
    BY <1>1, <1>4 DEF AboveLow
  <2>2. s = matrix.speeds[0]
    BY <1>4, <2>1 DEF TargetSpeeds, CurveSpeeds
  <2> QED BY <1>1, <1>4, <2>2
<1>5. CASE ~Held(t) /\ i > 0
  <2>1. AboveLow(t)
    BY <1>1, <1>5 DEF AboveLow
  <2>2. ~AboveHigh(t)
    BY <1>1, <1>2, <1>5 DEF Threshold, Between
  <2>3. Between(t)
    BY <2>1, <2>2, BracketExists DEF Between
  <2>4. FirstBracket(t) = i - 1
    BY <1>2, <2>3 DEF Threshold
  <2>5. s \in Lerp(matrix.speeds[i - 1], matrix.speeds[(i - 1) + 1],
                   LerpInverse(matrix.temps[i - 1], matrix.temps[(i - 1) + 1], t))
    BY <1>5, <2>1, <2>3, <2>4 DEF TargetSpeeds, CurveSpeeds
  <2>6. i - 1 \in UsedRows /\ (i - 1) + 1 = i /\ i - 1 \in 0 .. i - 1
    BY <1>1, <1>5
  <2>7. /\ matrix.speeds[i - 1] \in Nat /\ matrix.speeds[i] \in Nat
        /\ matrix.speeds[i - 1] <= matrix.speeds[i]
        /\ matrix.temps[i - 1] \in Nat /\ matrix.temps[i - 1] < t
    BY <1>1, <2>6 DEF Rising
  <2> DEFINE d == t - matrix.temps[i - 1]
  <2>8. d \in Nat \ {0}
    BY <2>7
  <2>9. LerpInverse(matrix.temps[i - 1], matrix.temps[i], t) = [num |-> d, den |-> d]
    BY DEF LerpInverse
  <2> HIDE DEF d
  <2>10. s \in Lerp(matrix.speeds[i - 1], matrix.speeds[i], [num |-> d, den |-> d])
    BY <2>5, <2>6, <2>9
  <2> QED BY <2>7, <2>8, <2>10, LerpAtEnd
<1> QED BY <1>1, <1>3, <1>4, <1>5

\* The static variables start out well typed.
LEMMA InitTypeOK == Init => TypeOK
<1> SUFFICES ASSUME Init PROVE TypeOK
  OBVIOUS
<1>1. 0 \in UCHAR /\ 0 \in 0 .. MAX_TEMP_THRESHOLDS /\ 0 \in -1 .. MAX_TEMP_THRESHOLDS - 1
  BY ThresholdsAssumption DEF UCHAR
<1>2. matrix \in [rows : 0 .. MAX_TEMP_THRESHOLDS,
                 temps : [Row -> UCHAR], speeds : [Row -> UCHAR]]
  BY <1>1 DEF Init
<1>3. /\ hysteresis \in UCHAR /\ current_threshold \in -1 .. MAX_TEMP_THRESHOLDS - 1
      /\ pwm \in -1 .. PWM_MAX /\ status \in Int /\ temp \in Int /\ temp >= -1
  BY <1>1 DEF Init, PWM_MAX
<1>4. /\ throttle \in BOOLEAN /\ fresh \in BOOLEAN /\ gradual \in BOOLEAN
      /\ armed \subseteq Row
  BY Zenon DEF Init
<1> QED
  BY <1>2, <1>3, <1>4 DEF TypeOK

\* The fields of a struct fand_config.
LEMMA ConfigFields ==
  ASSUME NEW c \in FandConfig
  PROVE  /\ c.matrix \in [0 .. 2 * MAX_TEMP_THRESHOLDS - 1 -> UCHAR]
         /\ c.matrix_rows \in UCHAR /\ c.hysteresis \in UCHAR
         /\ c.throttle \in BOOLEAN /\ c.interval \in USHRT
BY DEF FandConfig

\* fanctrl_configure keeps every variable in its type: a matrix with too many rows
\* leaves the old one in place.
LEMMA ConfigureTypeOK ==
  ASSUME TypeOK, NEW c \in FandConfig, Configure(c)
  PROVE  TypeOK'
<1>2. /\ c.hysteresis \in UCHAR /\ c.throttle \in BOOLEAN
      /\ c.matrix_rows \in UCHAR
      /\ c.matrix \in [0 .. 2 * MAX_TEMP_THRESHOLDS - 1 -> UCHAR]
  BY ConfigFields
<1>2a. c.matrix_rows \in Nat
  <2>1. \A n \in UCHAR : n \in Nat
    BY DEF UCHAR
  <2> QED BY <1>2, <2>1
<1>3. /\ matrix' \in [rows : 0 .. MAX_TEMP_THRESHOLDS,
                      temps : [Row -> UCHAR], speeds : [Row -> UCHAR]]
      /\ status' \in Int
  <2>1. CASE c.matrix_rows > MAX_TEMP_THRESHOLDS
    BY <2>1 DEF Configure, SetMatrix, TypeOK
  <2>2. CASE ~(c.matrix_rows > MAX_TEMP_THRESHOLDS)
    <3> DEFINE T == [i \in Row |-> IF i < c.matrix_rows THEN c.matrix[2 * i] ELSE matrix.temps[i]]
               S == [i \in Row |-> IF i < c.matrix_rows THEN c.matrix[2 * i + 1]
                                   ELSE matrix.speeds[i]]
    <3>1. \A i \in Row : c.matrix[2 * i] \in UCHAR /\ c.matrix[2 * i + 1] \in UCHAR
      BY <1>2, ThresholdsAssumption DEF Row
    <3>2. matrix.temps \in [Row -> UCHAR] /\ matrix.speeds \in [Row -> UCHAR]
      BY DEF TypeOK
    <3>3. T \in [Row -> UCHAR] /\ S \in [Row -> UCHAR]
      BY <3>1, <3>2
    <3>4. c.matrix_rows \in 0 .. MAX_TEMP_THRESHOLDS
      BY <1>2a, <2>2, ThresholdsAssumption
    <3>5. /\ matrix' = [rows |-> c.matrix_rows, temps |-> T, speeds |-> S]
          /\ status' = 0
      BY <2>2 DEF Configure, SetMatrix
    <3> HIDE DEF T, S
    <3> QED BY <3>3, <3>4, <3>5
  <2> QED BY <2>1, <2>2
<1>4. current_threshold' \in -1 .. MAX_TEMP_THRESHOLDS - 1 /\ temp' \in Int /\ temp' >= -1
  BY ThresholdsAssumption DEF Configure
<1>5. hysteresis' \in UCHAR /\ throttle' \in BOOLEAN /\ pwm' \in -1 .. PWM_MAX
  BY <1>2 DEF Configure, TypeOK
<1>6. fresh' \in BOOLEAN /\ gradual' \in BOOLEAN /\ armed' \subseteq Row
  BY Zenon DEF Configure
<1> QED
  BY <1>3, <1>4, <1>5, <1>6 DEF TypeOK

\* A sensor reading in degrees.
LEMMA DegreesAreNat ==
  ASSUME NEW raw \in SensorReadings, raw >= 0
  PROVE  raw \div MILLIDEGC_ADJUST \in Nat
BY ReadingsAssumption DEF MILLIDEGC_ADJUST

\* fanctrl_adjust keeps every variable in its type and remembers a row in use.
LEMMA AdjustTypeOK ==
  ASSUME TypeOK, ThresholdNamesRow, NEW raw \in SensorReadings, AdjustSpeed(raw)
  PROVE  TypeOK' /\ ThresholdNamesRow'
<1> DEFINE t == raw \div MILLIDEGC_ADJUST
<1>1. t \in Nat /\ matrix.rows > 0
  BY DegreesAreNat DEF AdjustSpeed
<1>2. /\ UNCHANGED <<matrix, hysteresis, throttle>>
      /\ current_threshold' = IF Held(t) THEN current_threshold ELSE Threshold(t)
      /\ Record(t)
  BY DEF AdjustSpeed, control
<1>3. PICK s \in TargetSpeeds(t) : WritePwm(PercentageToPwm(s))
  BY DEF AdjustSpeed
<1> HIDE DEF t
<1>4. Threshold(t) \in -1 .. matrix.rows - 1
  BY <1>1, ThresholdFacts
<1>5. matrix.rows \in Nat /\ matrix.rows <= MAX_TEMP_THRESHOLDS
  BY RowTypes
<1>6. current_threshold' \in -1 .. MAX_TEMP_THRESHOLDS - 1 /\ current_threshold' < matrix.rows
  BY <1>1, <1>2, <1>4, <1>5, ThresholdsAssumption DEF TypeOK, ThresholdNamesRow
<1>7. PercentageToPwm(s) \in Nat
  BY <1>1, <1>3, TargetFacts, PwmFacts
<1>8. pwm' \in -1 .. PWM_MAX /\ status' \in Int /\ fresh' \in BOOLEAN
  <2>1. pwm' \in -1 .. PWM_MAX /\ status' \in Int
    BY <1>3, <1>7 DEF WritePwm, TypeOK, PWM_MAX, FAND_FATAL_ERR
  <2>2. fresh' \in BOOLEAN
    BY <1>3, Zenon DEF WritePwm
  <2> QED BY <2>1, <2>2
<1>9. armed' \subseteq Row /\ gradual' \in BOOLEAN /\ temp' \in Int /\ temp' >= -1
  <2>1. armed' \subseteq Row
    BY <1>2, <1>5, ThresholdsAssumption DEF Record, Row
  <2>2. temp' \in Int /\ temp' >= -1
    BY <1>1, <1>2 DEF Record
  <2>3. gradual' \in BOOLEAN
    BY <1>2, Zenon DEF Record
  <2> QED BY <2>1, <2>2, <2>3
<1> QED
  BY <1>2, <1>6, <1>8, <1>9 DEF TypeOK, ThresholdNamesRow

\* What an adjustment that reached the pwm file establishes.
LEMMA AdjustSpeeds ==
  ASSUME TypeOK, ThresholdNamesRow, NEW raw \in SensorReadings, AdjustSpeed(raw)
  PROVE  RowsHonoured' /\ SlowsOnceCool' /\ FatalOnlyWhenUnusable'
<1> DEFINE t == raw \div MILLIDEGC_ADJUST
<1>1. t \in Nat /\ matrix.rows > 0
  BY DegreesAreNat DEF AdjustSpeed
<1>2. UNCHANGED <<matrix, hysteresis, throttle>> /\ temp' = t
  BY DEF AdjustSpeed, Record, control
<1>3. PICK s \in TargetSpeeds(t) : WritePwm(PercentageToPwm(s))
  BY DEF AdjustSpeed
<1> HIDE DEF t
<1>4. /\ s \in Nat
      /\ (\A i \in UsedRows : matrix.speeds[i] <= 100) => s <= 100
      /\ Rising => \A i \in UsedRows :
           /\ matrix.temps[i] < t => matrix.speeds[i] <= s
           /\ t + hysteresis <= matrix.temps[i] => s <= matrix.speeds[i]
  BY <1>1, <1>3, TargetFacts
<1>5. \A i \in UsedRows : matrix.speeds[i] \in Nat /\ matrix.temps[i] \in Nat
  BY RowTypes DEF UsedRows
<1>6. UsedRows' = UsedRows /\ (Rising' <=> Rising)
  BY <1>2 DEF UsedRows, Rising
<1>7. fresh' => pwm' = PercentageToPwm(s)
  BY <1>3 DEF WritePwm
<1>8. RowsHonoured'
  <2> SUFFICES ASSUME fresh', Rising, NEW i \in UsedRows, Reached(i, t)
               PROVE  pwm' >= PercentageToPwm(matrix.speeds[i])
    BY <1>2, <1>6 DEF RowsHonoured, Reached
  <2>1. matrix.speeds[i] <= s
    <3>1. CASE t > matrix.temps[i]
      BY <1>1, <1>4, <1>5, <3>1
    <3>2. CASE ~(t > matrix.temps[i])
      BY <1>1, <1>3, <3>2, AtRow DEF Reached
    <3> QED BY <3>1, <3>2
  <2> QED BY <1>4, <1>5, <1>7, <2>1, PwmFacts
<1>9. SlowsOnceCool'
  <2> SUFFICES ASSUME fresh', Rising, NEW i \in UsedRows,
                      t + hysteresis <= matrix.temps[i]
               PROVE  pwm' <= PercentageToPwm(matrix.speeds[i])
    BY <1>2, <1>6 DEF SlowsOnceCool
  <2>1. s <= matrix.speeds[i]
    BY <1>4
  <2> QED BY <1>4, <1>5, <1>7, <2>1, PwmFacts
<1>10. FatalOnlyWhenUnusable'
  <2> SUFFICES ASSUME status' = FAND_FATAL_ERR, \A i \in UsedRows : ~(matrix.speeds[i] > 100)
               PROVE  FALSE
    BY <1>2, <1>6 DEF FatalOnlyWhenUnusable
  <2>1. s <= 100
    BY <1>4, <1>5
  <2>2. PercentageToPwm(s) <= PWM_MAX /\ PercentageToPwm(s) \in Nat
    BY <1>4, <2>1, PwmFacts
  <2> QED BY <1>3, <2>2 DEF WritePwm, FAND_FATAL_ERR, PWM_MAX
<1> QED BY <1>8, <1>9, <1>10

\* The inductive invariant of the controller.
SafetyInv == /\ TypeOK
             /\ ThresholdNamesRow
             /\ RowsHonoured
             /\ SlowsOnceCool
             /\ FatalOnlyWhenUnusable

\* It holds before the first call.
LEMMA InitSafe == Init => SafetyInv
<1> SUFFICES ASSUME Init PROVE SafetyInv
  OBVIOUS
<1>1. TypeOK
  BY InitTypeOK
<1> QED
  BY <1>1 DEF Init, SafetyInv, ThresholdNamesRow, RowsHonoured, SlowsOnceCool,
              FatalOnlyWhenUnusable, FAND_FATAL_ERR

\* fanctrl_configure keeps it, whatever structure it is given.
LEMMA ConfigureSafe ==
  ASSUME SafetyInv, NEW c \in FandConfig, Configure(c)
  PROVE  SafetyInv'
<1>1. TypeOK'
  BY ConfigureTypeOK DEF SafetyInv
<1>2. current_threshold' = -1 /\ fresh' = FALSE /\ status' \in {0, -1}
  BY DEF Configure, SetMatrix
<1>3. matrix'.rows \in Nat
  BY <1>1, ThresholdsAssumption DEF TypeOK
<1> QED
  BY <1>1, <1>2, <1>3 DEF SafetyInv, ThresholdNamesRow, RowsHonoured, SlowsOnceCool,
                          FatalOnlyWhenUnusable, FAND_FATAL_ERR

\* fanctrl_adjust keeps it.
LEMMA AdjustSafe ==
  ASSUME SafetyInv, NEW raw \in SensorReadings, Adjust(raw)
  PROVE  SafetyInv'
<1> USE DEF SafetyInv
<1>1. CASE AdjustEmpty
  <2>1. UNCHANGED <<matrix, hysteresis, throttle, current_threshold, pwm, temp, fresh,
                    armed, gradual>> /\ status' = FAND_FATAL_ERR /\ matrix.rows = 0
    BY <1>1 DEF AdjustEmpty, control, history
  <2> QED
    BY <2>1 DEF TypeOK, ThresholdNamesRow, RowsHonoured, Reached, SlowsOnceCool, Rising,
                UsedRows, FatalOnlyWhenUnusable, FAND_FATAL_ERR
<1>2. CASE AdjustUnread(raw)
  <2>1. UNCHANGED <<matrix, hysteresis, throttle, current_threshold, pwm, temp, fresh,
                    armed, gradual>> /\ status' = raw
    BY <1>2 DEF AdjustUnread, control, history
  <2>2. status' \in Int /\ status' # FAND_FATAL_ERR
    BY <2>1, ReadingsAssumption
  <2> QED
    BY <2>1, <2>2 DEF TypeOK, ThresholdNamesRow, RowsHonoured, Reached, SlowsOnceCool,
                      Rising, UsedRows, FatalOnlyWhenUnusable
<1>3. CASE AdjustSpeed(raw)
  BY <1>3, AdjustTypeOK, AdjustSpeeds
<1> QED BY <1>1, <1>2, <1>3 DEF Adjust

\* So does a step that leaves the controller alone.
LEMMA StutterSafe ==
  ASSUME SafetyInv, UNCHANGED vars
  PROVE  SafetyInv'
<1>1. UNCHANGED <<matrix, hysteresis, throttle, current_threshold, pwm, status, temp,
                  fresh, armed, gradual>>
  BY DEF vars, control, history
<1> QED
  BY <1>1 DEF SafetyInv, TypeOK, ThresholdNamesRow, RowsHonoured, Reached, SlowsOnceCool,
              Rising, UsedRows, FatalOnlyWhenUnusable

\* Every call of fanctrl_configure and fanctrl_adjust keeps it.
THEOREM SafetyInvariant == Spec => []SafetyInv
<1>1. SafetyInv /\ [Next]_vars => SafetyInv'
  <2> SUFFICES ASSUME SafetyInv, [Next]_vars PROVE SafetyInv'
    OBVIOUS
  <2>1. ASSUME NEW c \in Configs, Configure(c) PROVE SafetyInv'
    BY <2>1, ConfigureSafe, ConfigsAssumption
  <2>2. ASSUME NEW raw \in SensorReadings, Adjust(raw) PROVE SafetyInv'
    BY <2>2, AdjustSafe
  <2>3. CASE UNCHANGED vars
    BY <2>3, StutterSafe
  <2> QED BY <2>1, <2>2, <2>3 DEF Next
<1> QED BY <1>1, InitSafe, PTL DEF Spec

\* What GradualCoolingHolds needs to be inductive: nothing is armed before the first
\* evaluation, the remembered row lies less than the hysteresis above the last
\* temperature, and no armed row lies beyond the remembered one.
HoldInv ==
  /\ matrix.rows > 0 /\ temp = -1 => armed = {} /\ current_threshold = -1
  /\ matrix.rows > 0 /\ temp # -1 /\ current_threshold > -1 =>
       temp + hysteresis > matrix.temps[current_threshold]
  /\ Rising /\ WideRows /\ gradual =>
       \A i \in armed : i \in UsedRows /\ i <= current_threshold
  /\ GradualCoolingHolds

\* An adjustment never forgets an armed row while the temperature falls gradually.
LEMMA AdjustHolds ==
  ASSUME TypeOK, ThresholdNamesRow, HoldInv, NEW raw \in SensorReadings, AdjustSpeed(raw)
  PROVE  HoldInv'
<1> DEFINE t == raw \div MILLIDEGC_ADJUST
           c == current_threshold
<1>1. t \in Nat /\ matrix.rows > 0
  BY DegreesAreNat DEF AdjustSpeed
<1>2. /\ UNCHANGED <<matrix, hysteresis, throttle>>
      /\ current_threshold' = IF Held(t) THEN c ELSE Threshold(t)
      /\ temp' = t
      /\ gradual' => gradual /\ (temp = -1 \/ temp - t <= 1)
      /\ \A i \in armed' : /\ i \in UsedRows
                           /\ \/ t > matrix.temps[i]
                              \/ i \in armed /\ t + hysteresis > matrix.temps[i]
  BY DEF AdjustSpeed, control, Record, UsedRows
<1>3. PICK s \in TargetSpeeds(t) : WritePwm(PercentageToPwm(s))
  BY DEF AdjustSpeed
<1>3a. armed' \subseteq UsedRows
  BY DEF AdjustSpeed, Record, UsedRows
<1> HIDE DEF t
<1>4. /\ matrix.rows \in Nat /\ UsedRows = 0 .. matrix.rows - 1
      /\ \A i \in UsedRows : matrix.speeds[i] \in Nat /\ matrix.temps[i] \in Nat
      /\ hysteresis \in Nat /\ c \in Int /\ temp \in Int
  BY RowTypes, ThresholdsAssumption DEF UsedRows, TypeOK, UCHAR
<1>5. /\ Threshold(t) \in -1 .. matrix.rows - 1
      /\ Threshold(t) > -1 => matrix.temps[Threshold(t)] < t
      /\ Rising => \A i \in UsedRows : matrix.temps[i] < t <=> i <= Threshold(t)
  BY <1>1, ThresholdFacts
<1>6. UsedRows' = UsedRows /\ (Rising' <=> Rising) /\ (WideRows' <=> WideRows)
  BY <1>2 DEF UsedRows, Rising, WideRows
<1>7. current_threshold' > -1 => t + hysteresis > matrix.temps[current_threshold']
  <2>1. CASE Held(t)
    BY <1>2, <2>1 DEF Held
  <2>2. CASE ~Held(t)
    <3>1. Threshold(t) > -1 => Threshold(t) \in UsedRows
      BY <1>4, <1>5
    <3> QED BY <1>1, <1>2, <1>4, <1>5, <2>2, <3>1
  <2> QED BY <2>1, <2>2
<1>8. ASSUME Rising, WideRows, gradual', NEW i \in armed'
      PROVE  i \in UsedRows /\ i <= current_threshold'
  <2>1. i \in UsedRows /\ i \in Int /\ matrix.temps[i] \in Nat
    <3>1. i \in UsedRows
      BY <1>3a
    <3>2. i \in Int
      BY <1>4, <3>1
    <3> QED BY <1>4, <3>1, <3>2
  <2>2. CASE matrix.temps[i] < t
    <3>1. i <= Threshold(t)
      BY <1>5, <1>8, <2>1, <2>2
    <3>2. Held(t) => Threshold(t) < c
      BY DEF Held
    <3> QED BY <1>2, <1>4, <1>5, <2>1, <3>1, <3>2
  <2>3. CASE ~(matrix.temps[i] < t)
    <3>1. i \in armed /\ t + hysteresis > matrix.temps[i]
      BY <1>1, <1>2, <1>8, <2>1, <2>3
    <3>2. i <= c
      BY <1>2, <1>8, <3>1 DEF HoldInv
    <3>3. CASE Held(t)
      BY <1>2, <2>1, <3>2, <3>3
    <3>4. CASE ~Held(t) /\ Threshold(t) >= c
      BY <1>2, <1>4, <1>5, <2>1, <3>2, <3>4
    <3>5. CASE ~Held(t) /\ Threshold(t) < c
      <4>1. c > -1 /\ temp # -1 /\ c \in UsedRows /\ matrix.temps[c] \in Nat
        <5>1. c > -1
          BY <1>4, <2>1, <3>2
        <5>2. temp # -1
          BY <1>1, <3>1 DEF HoldInv
        <5>3. c \in UsedRows
          BY <1>1, <1>4, <5>1 DEF ThresholdNamesRow
        <5> QED BY <1>4, <5>1, <5>2, <5>3
      <4>2. t + hysteresis <= matrix.temps[c]
        BY <1>1, <1>4, <3>5, <4>1 DEF Held
      <4>3. temp + hysteresis > matrix.temps[c]
        BY <1>1, <4>1 DEF HoldInv
      <4>4. temp - t <= 1
        BY <1>2, <1>8, <4>1
      <4>5. t + hysteresis = matrix.temps[c]
        <5> DEFINE Tc == matrix.temps[c]
        <5>1. /\ t \in Int /\ temp \in Int /\ hysteresis \in Int /\ Tc \in Int
              /\ t + hysteresis <= Tc /\ temp + hysteresis > Tc /\ temp - t <= 1
          BY <1>1, <1>4, <4>1, <4>2, <4>3, <4>4
        <5> HIDE DEF Tc
        <5>2. t + hysteresis = Tc
          BY <5>1
        <5> QED BY <5>2 DEF Tc
      <4>6. i # c
        BY <1>1, <1>4, <3>1, <4>1, <4>5
      <4>7. i < c
        BY <1>4, <2>1, <3>2, <4>6
      <4>8. matrix.temps[i] + hysteresis < matrix.temps[c]
        BY <1>8, <2>1, <4>1, <4>7 DEF WideRows
      <4> QED BY <1>1, <1>4, <2>1, <2>3, <4>5, <4>8
    <3> QED BY <1>4, <1>5, <3>3, <3>4, <3>5
  <2> QED BY <2>2, <2>3
<1>9. ASSUME Rising, WideRows, gradual', fresh', NEW i \in armed'
      PROVE  pwm' >= PercentageToPwm(matrix.speeds[i])
  <2>1. i \in UsedRows /\ i <= current_threshold' /\ i \in Int /\ matrix.speeds[i] \in Nat
    BY <1>4, <1>8, <1>9
  <2>2. s \in Nat /\ matrix.speeds[i] <= s
    <3>1. CASE Held(t)
      BY <1>1, <1>2, <1>3, <1>9, <2>1, <3>1, TargetFacts
    <3>2. CASE ~Held(t)
      <4>1. matrix.temps[i] < t
        BY <1>2, <1>5, <1>9, <2>1, <3>2
      <4> QED BY <1>1, <1>3, <1>9, <2>1, <4>1, TargetFacts
    <3> QED BY <3>1, <3>2
  <2>3. pwm' = PercentageToPwm(s)
    BY <1>3, <1>9 DEF WritePwm
  <2> QED BY <2>1, <2>2, <2>3, PwmFacts
<1>10. GradualCoolingHolds'
  BY <1>2, <1>6, <1>9 DEF GradualCoolingHolds, ArmedRowsHeld
<1>11. temp' # -1
  BY <1>1, <1>2
<1> QED BY <1>2, <1>6, <1>7, <1>8, <1>10, <1>11 DEF HoldInv

\* fanctrl.c:124-130: with rows further apart than the hysteresis and a temperature
\* that falls by at most a degree per evaluation, remembering one threshold keeps
\* every armed row's speed, on every matrix.
THEOREM GradualHold == Spec => []GradualCoolingHolds
<1>1. Init => HoldInv
  BY DEF Init, HoldInv, GradualCoolingHolds
<1>2. SafetyInv /\ HoldInv /\ [Next]_vars => HoldInv'
  <2> SUFFICES ASSUME SafetyInv, HoldInv, [Next]_vars PROVE HoldInv'
    OBVIOUS
  <2>1. ASSUME NEW c \in Configs, Configure(c) PROVE HoldInv'
    BY <2>1 DEF Configure, HoldInv, GradualCoolingHolds
  <2>2. ASSUME UNCHANGED <<matrix, hysteresis, current_threshold, pwm, temp, fresh, armed, gradual>>
        PROVE  HoldInv'
    BY <2>2 DEF HoldInv, GradualCoolingHolds, ArmedRowsHeld, Rising, WideRows, UsedRows
  <2>3. ASSUME NEW raw \in SensorReadings, AdjustSpeed(raw) PROVE HoldInv'
    BY <2>3, AdjustHolds DEF SafetyInv
  <2>4. CASE AdjustEmpty
    BY <2>2, <2>4 DEF AdjustEmpty, control, history
  <2>5. ASSUME NEW raw \in SensorReadings, AdjustUnread(raw) PROVE HoldInv'
    BY <2>2, <2>5 DEF AdjustUnread, control, history
  <2>6. CASE UNCHANGED vars
    BY <2>2, <2>6 DEF vars, control, history
  <2> QED BY <2>1, <2>3, <2>4, <2>5, <2>6 DEF Next, Adjust
<1>3. HoldInv => GradualCoolingHolds
  BY DEF HoldInv
<1> QED BY <1>1, <1>2, <1>3, SafetyInvariant, PTL DEF Spec

\* fanctrl_get_speed against fanctrl_percentage_to_pwm: the speed reported for a
\* percentage that was set is that percentage or one less.
THEOREM ReportedSpeed ==
  ASSUME NEW p \in 0 .. 100
  PROVE  GetSpeed(PercentageToPwm(p)) \in {p - 1, p}
BY DEF GetSpeed, PercentageToPwm, PWM_MAX

\* The named consequences of the inductive invariant.

\* The static variables of fanctrl.c keep their types.
THEOREM TypeCorrect == Spec => []TypeOK
BY SafetyInvariant, PTL DEF SafetyInv

\* The remembered threshold is a row of the matrix in use, whatever is configured in
\* between (fanctrl.c:79, 124-126).
THEOREM ThresholdInMatrix == Spec => []ThresholdNamesRow
BY SafetyInvariant, PTL DEF SafetyInv

\* On every rising matrix the card is cooled at least as the rows it is hotter than
\* say (fanctrl.c:102-132).
THEOREM RowsAlwaysHonoured == Spec => []RowsHonoured
BY SafetyInvariant, PTL DEF SafetyInv

\* On every rising matrix the fan slows down once the temperature is the hysteresis
\* below a row (fanctrl.c:124-130).
THEOREM AlwaysSlowsOnceCool == Spec => []SlowsOnceCool
BY SafetyInvariant, PTL DEF SafetyInv

\* A matrix of percentages never makes the daemon give up (hwmon.c:209-212).
THEOREM FatalOnlyOnUnusableMatrix == Spec => []FatalOnlyWhenUnusable
BY SafetyInvariant, PTL DEF SafetyInv
=============================================================================
