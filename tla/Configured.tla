----------------------------- MODULE Configured -----------------------------
(***************************************************************************)
(* The fan controller together with the configuration file it is given:    *)
(* the calls of config_parse and of fanctrl_configure in daemon_init,      *)
(* daemon_restart and daemon_reload of src/fand/daemon.c, in one process   *)
(* from its start to its end.  Between two calls the file may come to hold *)
(* anything in Files.  A start and a restart parse into the structure that *)
(* the daemon keeps, a reload into one on the stack that nobody cleared.   *)
(***************************************************************************)
EXTENDS FanControl, Sequences

INSTANCE ConfigParse

CONSTANTS Files,    \* what the file may hold: sequences of lines
          Garbage,  \* what the uninitialized structure may hold
          MaxLoads  \* bound: how often the file is read

ASSUME FilesAssumption == \A f \in Files : f \in Seq(Line)
ASSUME GarbageAssumption == Garbage \subseteq FandConfig
ASSUME LoadsAssumption == MaxLoads \in Nat

VARIABLES
  call,     \* which call of config_parse is under way, or "boot", "up", "down"
  data,     \* the daemon's struct fand_config
  parser, left,   \* the parser and the lines it has yet to read
  loads,    \* how often the file has been read
  (* History, read by the properties only. *)
  file,     \* what the last call of config_parse read; <<>> if nothing
  seen,     \* it took over a matrix from it
  source    \* the file the matrix in use is from, or None if from no file

None == <<>>
parsing == <<data, parser, left, loads, file, seen, source>>
configured == <<vars, call, parsing>>

Parsing == {"init", "restart", "reload"}

Zero == [matrix |-> [i \in 0 .. 2 * MAX_TEMP_THRESHOLDS - 1 |-> 0], matrix_rows |-> 0,
         hysteresis |-> 0, throttle |-> FALSE, interval |-> 0]

ConfiguredInit ==
  /\ Init
  /\ call = "boot" /\ data = Zero
  /\ parser = Parser(Zero) /\ left = <<>> /\ loads = 0
  /\ file = None /\ seen = FALSE /\ source = None

\* The beginning of config_parse, for one of its callers.  The file may be unreadable.
OpenFile(c, d, f) ==
  /\ loads < MaxLoads /\ loads' = loads + 1
  /\ call' = c
  /\ \/ parser' = Parser(d) /\ left' = f /\ file' = f
     \/ parser' = Error(Parser(d)) /\ left' = <<>> /\ file' = None
  /\ seen' = FALSE
  /\ UNCHANGED <<vars, data, source>>

Start(f) == call = "boot" /\ OpenFile("init", data, f)
Restart(f) == call = "up" /\ OpenFile("restart", data, f)
Reload(f) == call = "up" /\ \E d \in Garbage : OpenFile("reload", d, f)

\* One more line.
ReadLine ==
  /\ call \in Parsing /\ parser.status = 0 /\ left # <<>>
  /\ parser' = ParseLine(parser, Head(left))
  /\ left' = Tail(left)
  /\ seen' = (seen \/ (parser.mode = "matrix" /\ parser'.mode = "keys"))
  /\ UNCHANGED <<vars, call, data, loads, file, source>>

\* config_parse has returned; of the parser only the verdict is left.
Leave(verdict) == /\ parser' = [Parser(Zero) EXCEPT !.status = verdict]
                  /\ left' = <<>> /\ seen' = FALSE
                  /\ UNCHANGED <<loads, file>>

\* config_parse returns an error.  A reload leaves everything as it is, the other
\* callers give up.
Refused ==
  /\ call \in Parsing
  /\ parser.status # 0 \/ (left = <<>> /\ EndOfFile(parser).status # 0)
  /\ Leave(-1)
  /\ \/ call = "reload" /\ call' = "up" /\ UNCHANGED data
     \/ call # "reload" /\ call' = "down" /\ data' = parser.data
  /\ UNCHANGED <<vars, source>>

\* config_parse returns 0, and fanctrl_configure is given the result.
Accepted ==
  /\ call \in Parsing /\ parser.status = 0 /\ left = <<>>
  /\ EndOfFile(parser).status = 0 /\ Leave(0)
  /\ data' = parser.data
  /\ Configure(parser.data)
  /\ call' = IF status' = 0 THEN "up" ELSE "down"
  /\ source' = IF seen THEN file ELSE IF call = "reload" THEN None ELSE source

\* daemon_adjust_fanspeed: a fatal error ends the daemon.
AdjustFanspeed(raw) ==
  /\ call = "up" /\ Adjust(raw)
  /\ call' = IF status' = FAND_FATAL_ERR THEN "down" ELSE "up"
  /\ UNCHANGED parsing

ConfiguredNext ==
  \/ \E f \in Files : Start(f) \/ Restart(f) \/ Reload(f)
  \/ ReadLine \/ Refused \/ Accepted
  \/ \E raw \in SensorReadings : AdjustFanspeed(raw)

ConfiguredSpec == ConfiguredInit /\ [][ConfiguredNext]_configured

------------------------------------------------------------------------------
(* Properties *)

ParserType == [status : {0, -1}, data : FandConfig, mode : {"keys", "matrix"},
               segs : Seq((Nat \X Nat) \cup {Empty})]

\* The structures keep their types, whatever numbers the file holds, and no more
\* lines of a matrix are collected than there may be.
ConfiguredTypeOK ==
  /\ TypeOK
  /\ call \in Parsing \cup {"boot", "up", "down"}
  /\ data \in FandConfig
  /\ parser \in ParserType /\ Len(parser.segs) <= MAX_TEMP_THRESHOLDS + 1
  /\ left \in Seq(Line) /\ file \in Seq(Line) /\ source \in Seq(Line)
  /\ loads \in 0 .. MaxLoads /\ seen \in BOOLEAN

\* As long as the matrix in use came from a file, the daemon meets no fatal error
\* and goes down only over a file that is refused: what config_set_matrix lets
\* through (config.c:124-150) is short enough for fanctrl_set_matrix, is not empty,
\* and holds percentages only, so that no interpolation leads to a pwm that
\* hwmon_write_pwm refuses.
FilesNeverFatal ==
  source # None => status # FAND_FATAL_ERR /\ (call = "down" => parser.status # 0)

InUse(i) == <<matrix.temps[i], matrix.speeds[i]>>
Writes(line, row) == line.kind \in RowKinds /\ line.arg = row

\* The matrix as README.md:74-77 describes it: an opening row, rows, a closing row,
\* with nothing in between.
Plain(f) ==
  \A i \in DOMAIN f :
    /\ f[i].kind \in {"row", "last"} =>
         /\ f[i].comment = "none"
         /\ i > 1 /\ f[i - 1].kind \in {"open", "row"}
    /\ f[i].kind \in {"open", "row"} =>
         /\ f[i].comment # "before"
         /\ i < Len(f) /\ f[i + 1].kind \in {"row", "last"}

\* The lines of the matrix that line i closes.
Opening(f, i) == CHOOSE o \in 1 .. i : /\ f[o].kind = "open"
                                       /\ \A j \in o + 1 .. i : f[j].kind # "open"
FinalMatrix(f) == LET last == CHOOSE i \in DOMAIN f :
                                /\ f[i].kind = "last"
                                /\ \A j \in i + 1 .. Len(f) : f[j].kind # "last"
                  IN  Opening(f, last) .. last

\* Every row in use is written in the file, in the order of the file, and of a plain
\* file the rows of the last matrix are in use, each of them once: neither the
\* comments and lines passed over nor an earlier, longer matrix, nor what the
\* structure held before add anything to it (config.c:111-154, 211-244).
RowsFromFile ==
  call = "up" /\ source # None =>
    /\ \A i, j \in UsedRows : i <= j =>
         \E k, l \in DOMAIN source :
           k <= l /\ Writes(source[k], InUse(i)) /\ Writes(source[l], InUse(j))
    /\ Plain(source) =>
         LET lines == FinalMatrix(source)
             first == CHOOSE k \in lines : source[k].kind = "open"
         IN  {first + i : i \in UsedRows} = lines
             /\ \A i \in UsedRows : Writes(source[first + i], InUse(i))

\* The rows of the matrix that line i closes.
Rows(f, i) == i - Opening(f, i) + 1

\* Every number is in the range README.md states, every key is known, and no matrix
\* has more rows than README.md:74 allows.
WithinLimits(f) ==
  \A i \in DOMAIN f : f[i].comment # "before" =>
    /\ f[i].kind # "junk"
    /\ f[i].kind = "option" => f[i].arg[2] \in 0 .. Limit(f[i].arg[1])
    /\ f[i].kind \in RowKinds => f[i].arg[1] <= 255 /\ f[i].arg[2] <= 100
    /\ f[i].kind = "last" => Rows(f, i) <= MAX_TEMP_THRESHOLDS

\* A plain file with a matrix is accepted exactly if it is within the limits: no
\* order of options, comments and matrices makes a good file fail or lets a bad
\* one through (config.c:111-154, 160-244).  Nothing is said of a matrix that takes exactly
\* the room there is: README.md:74 and the message of config.c:149 allow it, the test
\* before that message (config.c:148) refuses it.
PlainFilesJudged ==
  /\ call \in {"up", "down"} /\ file # None /\ Plain(file)
  /\ \E i \in DOMAIN file : file[i].kind = "last"
  /\ \A i \in DOMAIN file : file[i].kind = "last" => Rows(file, i) # MAX_TEMP_THRESHOLDS
  => (parser.status = 0 <=> WithinLimits(file))
=============================================================================
