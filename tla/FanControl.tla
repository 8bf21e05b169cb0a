----------------------------- MODULE FanControl -----------------------------
(***************************************************************************)
(* The fan controller of amdgpu-fand: src/fand/fanctrl.c, with the         *)
(* interpolation of src/fand/interpolation.c and the pwm output of         *)
(* src/fand/hwmon.c.  fanctrl_configure loads a temperature-speed matrix,  *)
(* fanctrl_adjust reads the sensor once per interval, picks the speed the  *)
(* matrix asks for, delays reductions by the hysteresis and writes the     *)
(* pwm.  The sensor, the configurations and the outcome of each sysfs      *)
(* write are the environment.                                              *)
(***************************************************************************)
EXTENDS Integers

CONSTANTS MAX_TEMP_THRESHOLDS,  \* rows the matrix has room for (16 in fandcfg.h)
          Configs,              \* the struct fand_config values that are applied
          SensorReadings        \* what the sensor returns: millidegrees, < 0 on failure

PWM_MAX == 255
FAND_FATAL_ERR == -32
MILLIDEGC_ADJUST == 1000
UCHAR == 0 .. 255
USHRT_MAX == 65535
USHRT == 0 .. USHRT_MAX
Row == 0 .. MAX_TEMP_THRESHOLDS - 1

\* struct fand_config.  The matrix is the flat array <temp, speed, temp, speed, ...>;
\* nothing bounds matrix_rows here.
FandConfig == [matrix      : [0 .. 2 * MAX_TEMP_THRESHOLDS - 1 -> UCHAR],
               matrix_rows : UCHAR,
               hysteresis  : UCHAR,
               throttle    : BOOLEAN,
               interval    : USHRT]

ASSUME ThresholdsAssumption ==
  /\ MAX_TEMP_THRESHOLDS \in Nat \ {0}
  /\ MAX_TEMP_THRESHOLDS <= 255
ASSUME ConfigsAssumption == Configs \subseteq FandConfig
\* A failed read returns -1.  A sensor below zero would be taken for a failure
\* too, and one at -0.032 degrees for the fatal error, which is ruled out.
ASSUME ReadingsAssumption == SensorReadings \subseteq Int \ {FAND_FATAL_ERR}

VARIABLES
  matrix,             \* struct fanctrl_matrix
  hysteresis, throttle, current_threshold,
  pwm,                \* the duty cycle in effect; -1 while none was written
  status,             \* what the last call returned
  (* History, read by the properties only. *)
  temp,               \* degrees last evaluated since the last configure; -1 if none
  fresh,              \* the last evaluation reached the pwm file
  armed,              \* rows exceeded since the temperature was last a hysteresis below
  gradual             \* no two consecutive evaluations fell by more than a degree

control == <<matrix, hysteresis, throttle>>
history == <<temp, fresh, armed, gradual>>
vars == <<control, current_threshold, pwm, status, history>>

------------------------------------------------------------------------------
(* interpolation.c *)

\* lerp_inverse: the position of x in a .. b, as the exact fraction num / den.
LerpInverse(a, b, x) == [num |-> x - a, den |-> b - a]

\* lerp rounds a + (b - a) * x to the nearest integer.  At a tie the rounding of
\* the single precision factor decides which of the two neighbours comes out.
\* With b < a the unsigned difference wraps to about 2^64; scaled by a single
\* precision fraction it is a multiple of 2^32, which is 0 as an int.
Lerp(a, b, x) ==
  IF b < a THEN {0}
  ELSE {r \in a .. b : LET exact == 2 * (a * x.den + (b - a) * x.num)
                       IN  /\ 2 * r * x.den - x.den <= exact
                           /\ exact <= 2 * r * x.den + x.den}

------------------------------------------------------------------------------
(* fanctrl.c *)

\* fanctrl_percentage_to_pwm: 2.55 * percentage, halves rounded up.
PercentageToPwm(percentage) == (510 * percentage + 100) \div 200

\* fanctrl_get_speed: the percentage reported for a pwm, truncated.
GetSpeed(w) == (100 * w) \div PWM_MAX

\* The rows between which the search loop may stop at temperature t.
Brackets(t) == {i \in 0 .. matrix.rows - 2 :
                  matrix.temps[i] < t /\ matrix.temps[i + 1] >= t}
FirstBracket(t) == CHOOSE i \in Brackets(t) : \A j \in Brackets(t) : i <= j

AboveLow(t) == t > matrix.temps[0]
AboveHigh(t) == AboveLow(t) /\ t > matrix.temps[matrix.rows - 1]
Between(t) == AboveLow(t) /\ ~AboveHigh(t) /\ Brackets(t) # {}

\* The threshold and the speeds that the matrix gives at temperature t.
Threshold(t) == IF Between(t) THEN FirstBracket(t)
                ELSE IF AboveHigh(t) THEN matrix.rows - 1
                ELSE -1

CurveSpeeds(t) ==
  IF ~AboveLow(t) THEN {IF throttle THEN 0 ELSE matrix.speeds[0]}
  ELSE IF Between(t)
       THEN LET i == FirstBracket(t)
            IN  Lerp(matrix.speeds[i], matrix.speeds[i + 1],
                     LerpInverse(matrix.temps[i], matrix.temps[i + 1], t))
       ELSE {matrix.speeds[matrix.rows - 1]}

\* Slips the properties must notice: holding against a rising temperature, holding
\* for good, letting go one degree early.
HeldWhileRising(t) == /\ current_threshold > -1
                      /\ t + hysteresis > matrix.temps[current_threshold]
HeldForGood(t) == current_threshold > -1 /\ Threshold(t) < current_threshold
HeldOneLess(t) == /\ current_threshold > -1
                  /\ Threshold(t) < current_threshold
                  /\ t + hysteresis > matrix.temps[current_threshold] + 1

\* Hysteresis not yet surpassed.
Held(t) == /\ current_threshold > -1
           /\ Threshold(t) < current_threshold
           /\ t + hysteresis > matrix.temps[current_threshold]

TargetSpeeds(t) == IF Held(t) THEN {matrix.speeds[current_threshold]}
                   ELSE CurveSpeeds(t)

Init ==
  /\ matrix = [rows |-> 0, temps |-> [i \in Row |-> 0], speeds |-> [i \in Row |-> 0]]
  /\ hysteresis = 0 /\ throttle = FALSE /\ current_threshold = 0
  /\ pwm = -1 /\ status = 0
  /\ temp = -1 /\ fresh = FALSE /\ armed = {} /\ gradual = TRUE

\* A slip: the check for too many rows forgotten.
SetMatrixUnchecked(mat, nrows) ==
  /\ matrix' = [matrix EXCEPT !.rows = nrows]
  /\ status' = 0

\* fanctrl_set_matrix: the rows beyond nrows keep what they held.
SetMatrix(mat, nrows) ==
  IF nrows > MAX_TEMP_THRESHOLDS
  THEN status' = -1 /\ UNCHANGED matrix
  ELSE /\ matrix' = [rows   |-> nrows,
                     temps  |-> [i \in Row |-> IF i < nrows THEN mat[2 * i]
                                               ELSE matrix.temps[i]],
                     speeds |-> [i \in Row |-> IF i < nrows THEN mat[2 * i + 1]
                                               ELSE matrix.speeds[i]]]
       /\ status' = 0

\* A slip: the remembered threshold survives the new matrix.
ConfigureKeepingThreshold(c) ==
  /\ hysteresis' = c.hysteresis
  /\ throttle' = c.throttle
  /\ SetMatrix(c.matrix, c.matrix_rows)
  /\ temp' = -1 /\ fresh' = FALSE /\ armed' = {} /\ gradual' = TRUE
  /\ UNCHANGED <<current_threshold, pwm>>

\* fanctrl_configure.
Configure(c) ==
  /\ current_threshold' = -1
  /\ hysteresis' = c.hysteresis
  /\ throttle' = c.throttle
  /\ SetMatrix(c.matrix, c.matrix_rows)
  /\ temp' = -1 /\ fresh' = FALSE /\ armed' = {} /\ gradual' = TRUE
  /\ UNCHANGED pwm

\* A slip: the highest duty cycle refused.
WritePwmBelowMax(w) ==
  \/ w >= PWM_MAX /\ status' = FAND_FATAL_ERR /\ fresh' = FALSE /\ UNCHANGED pwm
  \/ w < PWM_MAX /\ status' = 0 /\ fresh' = TRUE /\ pwm' = w

\* hwmon_write_pwm.
WritePwm(w) ==
  \/ w > PWM_MAX /\ status' = FAND_FATAL_ERR /\ fresh' = FALSE /\ UNCHANGED pwm
  \/ w <= PWM_MAX /\ status' = 0 /\ fresh' = TRUE /\ pwm' = w
  \/ w <= PWM_MAX /\ status' = -1 /\ fresh' = FALSE /\ UNCHANGED pwm

\* What the history records of an evaluation at temperature t.
Record(t) ==
  /\ temp' = t
  /\ gradual' = (gradual /\ (temp = -1 \/ temp - t <= 1))
  /\ armed' = {i \in 0 .. matrix.rows - 1 :
                 \/ t > matrix.temps[i]
                 \/ i \in armed /\ t + hysteresis > matrix.temps[i]}

\* fanctrl_adjust.  The three ways through it: no matrix, no reading, a speed.
AdjustEmpty ==
  /\ matrix.rows = 0
  /\ status' = FAND_FATAL_ERR
  /\ UNCHANGED <<control, current_threshold, pwm, history>>

AdjustUnread(raw) ==
  /\ matrix.rows > 0 /\ raw < 0
  /\ status' = raw
  /\ UNCHANGED <<control, current_threshold, pwm, history>>

AdjustSpeed(raw) ==
  LET t == raw \div MILLIDEGC_ADJUST
  IN  /\ matrix.rows > 0 /\ raw >= 0
      /\ current_threshold' = IF Held(t) THEN current_threshold ELSE Threshold(t)
      /\ \E speed \in TargetSpeeds(t) : WritePwm(PercentageToPwm(speed))
      /\ Record(t)
      /\ UNCHANGED control

Adjust(raw) == AdjustEmpty \/ AdjustUnread(raw) \/ AdjustSpeed(raw)

Next == \/ \E c \in Configs : Configure(c)
        \/ \E raw \in SensorReadings : Adjust(raw)

Spec == Init /\ [][Next]_vars

------------------------------------------------------------------------------
(* Properties *)

UsedRows == 0 .. matrix.rows - 1

\* The curve never falls: temperatures and speeds are non-decreasing, speeds are
\* percentages.
Rising == \A i, j \in UsedRows :
            i <= j => /\ matrix.temps[i] <= matrix.temps[j]
                      /\ matrix.speeds[i] <= matrix.speeds[j]
                      /\ matrix.speeds[j] <= 100

\* Neighbouring thresholds lie further apart than the hysteresis.
WideRows == \A i, j \in UsedRows :
              i < j => matrix.temps[i] + hysteresis < matrix.temps[j]

\* Every variable keeps the type of the object it stands for.
TypeOK ==
  /\ matrix \in [rows : 0 .. MAX_TEMP_THRESHOLDS,
                 temps : [Row -> UCHAR], speeds : [Row -> UCHAR]]
  /\ hysteresis \in UCHAR /\ throttle \in BOOLEAN
  /\ current_threshold \in -1 .. MAX_TEMP_THRESHOLDS - 1
  /\ pwm \in -1 .. PWM_MAX /\ status \in Int
  /\ temp \in Int /\ temp >= -1
  /\ fresh \in BOOLEAN /\ gradual \in BOOLEAN
  /\ armed \subseteq Row

\* The remembered threshold is a row of the matrix in use.  fanctrl_adjust indexes
\* matrix.temps and matrix.speeds with it (fanctrl.c:124-126), so after a reload
\* with a shorter matrix it must not still name a row of the old one.
ThresholdNamesRow == matrix.rows > 0 => current_threshold < matrix.rows

\* The temperature has reached row i: it lies above the row, or exactly at it, which
\* at the lowest row counts only without throttle and among rows of one temperature
\* only for the first.
Reached(i, t) == \/ t > matrix.temps[i]
                 \/ /\ t = matrix.temps[i]
                    /\ i > 0 \/ ~throttle
                    /\ \A j \in 0 .. i - 1 : matrix.temps[j] < t

\* However the temperature moved and whatever the hysteresis holds, once it reaches a
\* row of a rising curve the card is cooled at least as that row says, at once
\* (fanctrl.c:102-132; README.md:58-59).  The comparisons with <= and the last point
\* of an interpolation meet here: at the temperature of a row the index is one lower.
RowsHonoured ==
  fresh /\ Rising => \A i \in UsedRows :
    Reached(i, temp) => pwm >= PercentageToPwm(matrix.speeds[i])

\* The hysteresis delays a reduction, it never prevents it: once the temperature
\* has fallen the hysteresis below a row, the fan is no faster than that row
\* says (fanctrl.c:124-130).
SlowsOnceCool ==
  fresh /\ Rising => \A i \in UsedRows :
    temp + hysteresis <= matrix.temps[i] => pwm <= PercentageToPwm(matrix.speeds[i])

\* The speed promised for the rows that are armed: exceeded, and the temperature
\* has not been a hysteresis below them since.
ArmedRowsHeld == \A i \in armed : pwm >= PercentageToPwm(matrix.speeds[i])

\* fanctrl_adjust remembers one threshold only.  That is enough to keep every armed
\* row's speed as long as the rows lie further apart than the hysteresis and no
\* two evaluations fall by more than a degree (fanctrl.c:124-130).
GradualCoolingHolds == fresh /\ Rising /\ WideRows /\ gradual => ArmedRowsHeld

\* What README.md:58-60 promises without those conditions: the daemon keeps the
\* speed of a threshold until the temperature has fallen the hysteresis below it.
HysteresisPromise == fresh /\ Rising => ArmedRowsHeld

\* The status that makes the daemon give up (daemon.c:206-209) comes only of an
\* empty matrix or of one holding a speed that is no percentage: interpolation
\* never leads out of the range hwmon_write_pwm accepts (hwmon.c:209-212).
FatalOnlyWhenUnusable ==
  status = FAND_FATAL_ERR =>
    matrix.rows = 0 \/ \E i \in UsedRows : matrix.speeds[i] > 100

\* Between two rows the speed lies between the speeds of these rows, the relation
\* README.md:74 says the matrix defines, whether the curve rises or falls.  (No
\* hysteresis is involved: it is 0 in the states this speaks of.)
SpeedBetweenRows ==
  fresh /\ hysteresis = 0 => \A i \in 0 .. matrix.rows - 2 :
    matrix.temps[i] < temp /\ temp <= matrix.temps[i + 1] =>
      \E s \in UCHAR :
        /\ pwm = PercentageToPwm(s)
        /\ \/ matrix.speeds[i] <= s /\ s <= matrix.speeds[i + 1]
           \/ matrix.speeds[i + 1] <= s /\ s <= matrix.speeds[i]
=============================================================================
