# amdgpu-fand: a TLA+ model

`amdgpu-fand` is a daemon that controls the fans of an AMD graphics card: it reads the temperature
at an interval, looks up a speed in a configured matrix and writes it to the card's pwm file.
`amdgpu-fanctl` queries it, or ends it, over a Unix socket. This directory holds TLA+ modules that
model both, TLC configurations that check small instances of them, and proofs, checked by
TLAPS, for instances of every size. Paths such as `daemon.c` are those under `src/fand/` of the
repository, `README.md` is the repository's.

## The system

| part | state | operations | what makes it correct |
|---|---|---|---|
| fan controller (`fanctrl.c`, `interpolation.c`) | matrix, hysteresis, throttle, remembered threshold | configure, adjust | hot rows are honoured, the fan slows down once cool, the hysteresis holds, no index outside the matrix, fatal errors only for an unusable matrix |
| life cycle (`daemon.c`, `pidfile.c`, part of `hwmon.c`, `file.c`, `server.c`) | working directory, pid file, socket, locked descriptor, pwm mode | init, free, restart | one controller at a time, the fans handed back, no files left behind, a killed daemon can be started again |
| main loop (`daemon.c`, `sigutil.c`) | three flags that the signal handler sets | adjust, watch, reload, restart, poll | no signal lost that reaches the daemon, no child left a zombie, no stop without a reason |
| configuration watch (`filesystem.c`) | inotify queue | init, event, clear | a queued modification is read |
| control server (`server.c`) | listening socket, children, each with a copy of the configuration | poll, receive and respond | an exit request is passed on, only root may send one, answers are current |
| configuration parser (`config.c`) | the structure it fills, which may hold an earlier configuration | parse | what is in use is what the file says, a file within the limits is accepted and no other, none is fatal |
| card and cache (`hwmon.c`, `cache.c`, `drm.c`) | sysfs paths and index of the card, in memory and in the cache file | detect, load, validate, write, open | a torn or stale cache is noticed, fans and sensor are of one card |
| protocol and client (`src/common/serialize.c`, `src/common/ipc.h`, `src/fanctl/`) | none between requests | pack, unpack, request | what is packed is what is unpacked; a client never waits for ever, and takes no error for a success |

The loop calls the fan controller once per iteration, then reads one batch of inotify events,
reloads if a SIGHUP or an event asks for it, restarts if a SIGPIPE came, and waits in `server_poll`
for a connection, for which it forks a child. A child tells its parent of an exit request by its
exit code, which the SIGCHLD handler collects. What is hard here: the handler runs between any two
instructions; signals of one kind merge; children, editors and other instances of the daemon act at
any time; each step of `daemon_init` may fail with the earlier ones done; a restart goes through the
whole of `daemon_free` and `daemon_init` with the same flags. `PROJECT.json` lists these hazards at
their lines.

## The modules

### FanControl

`fanctrl_configure` and `fanctrl_adjust` as actions on `matrix`, `hysteresis`, `throttle` and
`current_threshold`, with the pwm in effect and the status returned. `Adjust(raw)` is one call of
`fanctrl_adjust`; its three alternatives are its three ways out (no matrix, no reading, a speed).
Readings are in millidegrees, as the sensor gives them; a negative one is a failed read.
`WritePwm` may fail without effect. The module leaves out nothing of the control flow; of the
floating point arithmetic it keeps what it computes:

* `LerpInverse` is the exact fraction. `Lerp` is the set of the integers nearest to the exact value:
  one, or two at a tie, where the rounding of the single precision factor decides. This was compared
  with the compiled C for all arguments within 0 .. 255. With `b < a` the unsigned subtraction wraps
  and the result, as an `int`, is 0.
* `PercentageToPwm` and `GetSpeed` are exact for all arguments that occur.

`RowsHonoured` speaks of the rows that are reached, not only of those exceeded: exactly at a row, the
code takes the last point of the interpolation below it (`Reached` has the two exceptions, the lowest
row with throttle and rows of equal temperature).

`temp`, `fresh`, `armed` and `gradual` are history, read by the properties only: the temperature of
the last evaluation, whether its speed reached the card, the rows that were exceeded and have not
been left by the hysteresis since, and whether the temperature fell by at most a degree between
evaluations.

### Lifecycle

Instances of the daemon (`Procs`) start, go through `daemon_init` one observable system call at a
time (`Mkdir`, `PidfileWrite`, `Chdir`, `Bind`, `Listen`, `HwmonOpen`, `Flock`, `SetManual`,
`DrmOpen`), run, are stopped or restarted, and go through `daemon_free` (`ServerKill`,
`PidfileUnlink`, `Rmdir`, `Release`, `Unlock`). A failure at any point leads to `daemon_free`, as
both callers of `daemon_init` have it, whatever was done before: `daemon_free` does not know which
files are its own, and the model has it remove what is there. Every call named in `Faults` may fail
for a reason outside the model; `Crash` kills an instance between two calls, which closes its
descriptors, but a child of the server that inherited the locked one may keep the lock (`Orphan`).
Failures of `unlink` and `rmdir` other than for a missing or non-empty entry are left out.
`litter`, `flockFailed` and `abandoned` are history: the exceptions that the properties state.

`FanOwnership` is what all this promises about the fans, without files, sockets, locks and stages: an
owner is the only one as long as the kernel's locks work, only an owner writes the mode, and nobody
leaves while the fans are in manual mode, unless somebody else owns them or the mode could not be
written. `Lifecycle` implements it (`OrderlyOwnership`) under the mapping of owners to the instances
that control the card, of `lost` to `abandoned` and of `trusted` to `~flockFailed`.

### ConfigParse and Configured

`ConfigParse` is `config_parse` as operators that take a parser from one line to the next. A line is
what the regular expressions find on it (an option, the opening, a row or the closing row of a matrix,
a blank, something else) and where a comment begins. What the code does to such lines is kept: outside
of a matrix comments are cut off first, inside they are not, and since the expressions for rows are not
anchored, a row behind a comment sign counts while one in front of a comment does not; a line that is no
row leaves an empty segment, for which `config_set_matrix` finds the next row (`RowAt`), so that this one
is read twice; rows are written before the next is judged, and stay when that one is refused.

`Configured` composes it with FanControl, through the three callers of `config_parse`: a start and a
restart fill the structure the daemon keeps, a reload one on the stack that holds anything in `Garbage`.
`Accepted` hands the result to `fanctrl_configure`. The other ways in which `daemon_init` fails are in
Lifecycle. `file`, `seen` and `source` are history: the file read last, whether a matrix was taken from
it, and the file the matrix in use came from, if any. `Plain` files are those whose matrices look as
README.md describes them; of these `RowsFromFile` and `PlainFilesJudged` say exactly what comes out, of
the others that no row is made up or moved.

The repository disagrees with itself about a matrix of exactly `MAX_TEMP_THRESHOLDS` (16) rows: README.md:74
and the message of `config.c:149` say that so many may be supplied, the condition of `config.c:148` refuses
them and accepts 15 at most. `MatrixFits` is the condition, as the code has it. `PlainFilesJudged` holds the
code to the documented limit and leaves out the files in which a matrix has exactly that many rows.

### Card

`Card` extends Lifecycle and works out the two steps in which the card may or may not be found.
`hwmon_open` is `CacheLoad`, `Detect`, `CacheWrite` and `OpenEnable`; `OpenSensor` is `drm_open`. The
cache file has five fields (three paths, the index, the checksum); a path is the hwmon directory that it
leads to, which is what `realpath` makes of it. The checksum is an injective function of the fields.
Cards are numbered anew while no daemon runs (`Change`): `card` and `render` say which card is at an
index of `/sys/class/drm` and behind a render node, `hwmon` which number a card's directory has. The file
is not truncated before it is written, so that a failed write or a loss of power leaves any number of new
fields in front of old ones. Only the cache decides whether a start finds the card, so that `AlwaysUpAgain`
is here: the daemon comes up again after kills, torn files and renumberings. A card without a
hwmon directory yet leaves the buffer for its path uninitialized; this is taken to be no path of `/sys`.
`places` is history.

What is not promised, and why the two properties state exceptions: the paths are checked against `/sys`
but the index is not, so that with a card that has changed its index the cached one may name another
card's render node, or none, in which case every start fails until the file is removed.

### EventLoop

The loop of `daemon_main` with everything that happens to it asynchronously. The thread is a program
counter over the calls of the loop body: `Adjust`, `WatchEvent`, `CheckReload`, `Reload`,
`HandleSignals`, `PollReturn` or `PollAccept`; testing the reload flag and reading the file are
separate steps, since a signal may come in between. `InitFork`, `InitConfig`, `InitSetup` and `InitLock` are
the steps of `daemon_init` that matter here; the first execution and the one in `daemon_restart` differ in where
they return to and in the flag cleared afterwards. `DaemonFree` is what both ends of the loop, `Leave` and
a restart (`HandleSignals`), do to the socket and the watch.

`InitFork` is `daemon_init` up to `config_parse`. In the background it forks: children of the old process
are orphans of the new one, and the old one is there until it exits (`old`, `OldExit`; the two forks of
`daemon_fork` are one). Whoever sends a signal meanwhile may still have the old number: the handler runs
in the old process, which exits with what it has noted (`SendOld`), so that the signal is lost to the daemon
(`lost`). Signals that are pending when the fork begins are delivered first: `daemon_free` makes system
calls, and a signal is delivered at the end of each. `InitLock` is `fanctrl_init` with its `flock`, which
waits as long as somebody else has the lock (`held`: another instance or the orphaned child of one,
`Hold` and `LetGo`) and is resumed after a signal, since the handlers are set with `SA_RESTART`. That `flock`
itself fails is in Lifecycle.

`Deliver(s)` is the handler of SIGTERM (and SIGINT, which it treats alike), SIGHUP and SIGPIPE: one
assignment, at any time. The SIGCHLD handler takes several steps (`DeliverChld`, one `Reap` per
child, `HandlerReturn`) in which the thread stands still but other signals are delivered and
children go on exiting; pending signals form a set, so that those of one kind merge. Its variable
`status` is uninitialized: if nothing was reaped, the comparison may come out either way.

The configuration file is only "full", "partial" (well-formed, no matrix) or "broken". `Reload`
parses into an uninitialized structure: for a partial file the number of rows is arbitrary, and it is
rejected, accepted as "garbage", or fatal. Modifications in place queue an inotify event
(consecutive equal ones merge, as inotify has it), renames queue none, and other files of the
directory queue events too. A batch of `fsys_watch_event` (512 bytes) is `Batch` events.
`parsed`, `lost`, `hup`, `noticed`, `exitReaped`, `unset` and `failed` are history.

What is not promised: a SIGTERM or SIGHUP that goes to the old process between its fork (daemon.c:63) and
its exit (daemon.c:70) has no effect, and a daemon that restarts and is kept waiting for the lock does not
stop, reload or notice an edit until it gets the lock. `TermStops` and `HupHonoured` speak of signals
that reached the daemon (`Told`, `hup`), and these two and `EditNoticed` of behaviours in which the daemon
waits for the lock only for a while (`<>[]~Blocked`).

### Serialize and Ipc

`Serialize` holds the encoding as operators: the automaton that recognises conversions such as `hhu`
(`Edges`, `dfa_simulate`), `packf` and `unpackf` on directives, and the functions built on them for
each kind of answer. A buffer is a sequence of bytes and a negative result is the code's. The format
strings are constants of the code, so a directive is a record and not parsed from characters; both
loops, which stop at the first directive that is not valid or does not fit, are the one function
`Taken`, and `Take` is one turn of them. The loops are recursive functions over the directives of a
format, of which there are at most four.

`Ipc` is a request from end to end. A run of `fanctl` goes through `Start`, `Connect`, `SendRequest`
and `Recv`, twice if `--exit` follows `--get`; `CallFails` is what becomes of it when a call returns
an error. `request_process_exit` ignores that error and reads the verdict from a buffer that was
never written: either outcome is possible. Strangers are other programs, which send any byte or
nothing, stay or leave. The daemon accepts a connection and forks (`PollAccept`); a fork that fails
leaves the connection open with nobody to answer it (`"leaked"`). The child has a copy of the matrix
as of the fork, reads the card itself, and takes three steps: `Receive` (up to the packed answer),
`Respond` (the `send`) and `ChildExit`. `Stop` ends the daemon at any time and `Change` stands for a
reload and for the card. Of the socket the model keeps what the code meets: a first-in first-out
backlog that `connect` waits for when it is full (Linux lets one more in than `listen` was given),
connections that are dropped with the daemon, which is an error to who receives and a SIGPIPE to who
sends, and a receive timeout that may race a late answer. The variables of a connection are those of
the client's current call: a child that has answered and has only to exit with 0 is forgotten when the
same client connects again. `Packing` is the packed form of an answer and `Unpacking` what a client makes
of the bytes it got; `Packed` and `Unpacked` are the sets of all answers and all messages there are, each
with its packed or unpacked form.
`seen`, `confirmed` and `told` are history. `socket`, `setsockopt`, `getsockopt` and `close` are taken
to succeed, and answers, which are shorter than 48 bytes, to be received in one piece.

How `told` ends the daemon is in EventLoop, from whose side a child has only an exit code.

## Runs

| run | checks | bounds |
|---|---|---|
| `fan_control` | `TypeOK`, `ThresholdNamesRow`, `RowsHonoured`, `SlowsOnceCool`, `GradualCoolingHolds`, `FatalOnlyWhenUnusable` | three rows; eight configurations: rows further apart than the hysteresis and closer, a single row, a falling curve, none, too many, speeds that are no percentages; readings 46 to 62 degrees, on and around every row |
| `fan_hysteresis_promise` | `HysteresisPromise` is violated | the same |
| `fan_falling_curve` | `SpeedBetweenRows` is violated | the same |
| `lifecycle` | `TypeOK`, `AtMostOneController`, `RunningIsManual`, `FansHandedBack`, `LastOneOutCleansUp`, `OrderlyOwnership` | three interchangeable instances, every call may fail, one kill |
| `card` | `CardTypeOK`, `FansOfOneCard`, `SensorOfSameCard`, `AlwaysUpAgain` | one instance, one kill, two cards in six numberings, changed three times, two failed writes of the cache |
| `config` | `ConfiguredTypeOK`, `RowsFromFile`, `FilesNeverFatal`, `PlainFilesJudged` | room for four rows, 19 files, three calls of `config_parse`, three leftovers on the stack |
| `lifecycle_second_instance` | `RunningIsReachable` is violated | two instances, no failures and no kill |
| `event_loop` | `HupHonoured`, `EditNoticed` | in the background; SIGHUP and SIGPIPE once, two edits of any kind and one of another file, batches of two, the lock held once by somebody else |
| `event_loop_children` | `TypeOK`, `StopsForAReason`, `ZombiesReaped`, `TermStops` | two clients, SIGTERM and SIGPIPE once, in the background and in the foreground, the lock held once by somebody else |
| `event_loop_exit_request` | `ExitRequestStops` is violated | two clients |
| `event_loop_reload` | `MatrixFromFile` is violated | one edit |
| `ipc` | `TypeOK`, `OnlyRootStops`, `ConfirmedExit`, `AnswersCurrent`, `AnswersUnderstood`, `ExitServed`, `EveryCallEnds` | one `fanctl` with four command lines (one, two, no and an unknown request) and one stranger who sends an exit request, an invalid one or none, each as root or not; a backlog of one; matrices of one row and of 16; readings that work and fail; one change |

Three rows are the fewest with a row that has neighbours on both sides, and the readings include
each side of each comparison. Three instances let one run, one fail and one wait for the lock. Two
children are the fewest whose signals merge and whose statuses overwrite each other; two edits let
one be read while the other is queued behind an event of another file. A backlog of one is full as
soon as either client is queued, so that both orders and the wait occur; matrices of 1 and 16 rows
are the ends of what the structure holds (the parser lets 15 through, a leftover may count 16); one change falls before, during or after each step of
a call. Three renumberings let a cache be written, become stale and be overwritten in part; the six
have a card at either index, both in either order, one without its directory and render nodes that are
counted differently. Room for four rows has matrices that leave some, use all and exceed it; three calls
let a file be started with, replaced and replaced again, with each kind of caller. All of these runs are
exhaustive within their bounds.

What the violated properties show:

* The hysteresis remembers one threshold. When the temperature falls past two rows between two
  evaluations, or rows are closer than the hysteresis, the fan slows down earlier than README.md:58-60
  says. `GradualCoolingHolds` is the part of the promise that is kept, and it is proved.
* Where the speed of a row is lower than the one before, the fan stops between the two rows.
* A second instance that fails to start removes the running daemon's socket, pid file and directory.
* An exit request is lost if another child is reaped after the one that served it in the same run of
  the handler.
* A reload of a file without a matrix may put uninitialized bytes in use.

### Fairness

Safety properties need none. `Card!FairCardSpec`: an instance that was started goes on
(every call returns; the one that may wait, `flock`, is only obliged to return once the lock is free),
whoever wants the daemon running starts it again when it is gone (the operator: the service file has
no `Restart=`), and the clients of an orphaned child hang up in the end. `EventLoop!FairSpec`: the
thread and the SIGCHLD handler go on, since `poll` has a timeout, and pending signals are delivered; `flock`
is only obliged to return while nobody else has the lock, and nobody is obliged to let go of it.
`Ipc!FairSpec`: `fanctl` and the children go on, and the daemon polls while it is up.
Nobody else is obliged to connect, to answer, to send a signal or to edit.

## Proofs

All but the lemmas, `ReportedSpeed`, `RoundTrip`, `AnswersFit`, `OwnershipImplemented` and
`CardLivesLifecycle` are of the form `Spec => []P`, for every value of the constants; the assumptions are
the named `ASSUME`s of the modules, which TLC evaluates in the runs. Every invariant that a run checks is
the `P` of one of them.

* `FanControl_proofs`. `SafetyInv` is the conjunction of `TypeOK`, `ThresholdNamesRow`,
  `RowsHonoured`, `SlowsOnceCool` and `FatalOnlyWhenUnusable`, and it is inductive: an evaluation
  computes its speed from the matrix, the remembered threshold and the reading alone, so that of the
  state before it only the types and `ThresholdNamesRow` matter. `GradualCoolingHolds` speaks of
  earlier evaluations and is not inductive; `HoldInv` adds that the remembered threshold is one the
  temperature has not left by the hysteresis and that, on a rising curve with rows further apart than
  the hysteresis and gradual cooling, no armed row lies above it. The lemmas about `FirstBracket`,
  `Lerp` and `PercentageToPwm` state what these helpers return: a bracket, a value between its bounds
  on a rising curve, a monotone duty cycle within 0 .. 255. `ReportedSpeed`: the control interface
  reports the percentage that was set or one less.
* `Lifecycle_proofs`. The inductive invariant has, besides types, three parts. `LockInv`: an instance
  that controls the fans has the descriptor open and holds the lock. `ModeInv`: the mode is manual
  between setting it and writing the automatic one back, which happens before the lock is dropped,
  and is manual only if there is such an instance. `FilesInv`: every file belongs to an instance that
  has yet to remove it. Each implies one or two of the properties. `OwnershipImplemented` is the
  refinement: under the invariant, `Flock` is a `Take`, `SetManual` a `SetManual`, `Release` a
  `HandBack` or a `FailBack`, `Unlock` a `Leave`, `Crash` a `Kill`, and every other step, like the
  failures on the way, a stutter.
* `Configured_proofs`. `FilesNeverFatal` is about the controller and the file together: `SourceInv` adds
  that a matrix from a file has a row, percentages only and no more rows than there is room for, and that
  the same holds of the structure which the next restart starts from; `SeenInv` that a parser which has
  taken over a matrix holds such a one. The lemmas say what one line does to the parser. The
  invariant of FanControl is part of it, so that `RowsHonoured` holds for all sequences of files.
* `ConfiguredFiles_proofs`. `RowsFromFile` and `PlainFilesJudged` relate what comes out to the lines of
  the file, of which `ConfiguredInv` knows nothing. `FileInv` adds: what is left to read is the rest of
  the file (`LeftInv`); the segments collected are the last lines read, the rows taken over are written
  in the file in this order, and of a plain file those are the rows of its last closed matrix and every
  line before the open one is within its limit (`ProgressInv`); a parser that has failed on a plain file
  has met a line that is not (`FailureInv`); and the matrix in use is the one that the daemon keeps and
  that a restart starts from, which is why a file without a matrix leaves the old one in use after a
  restart (`UseInv`). The last is needed since a call that takes over nothing is accepted all the same.
  Files are of any length, but there is no induction over them: a step of the parser is one line.
  The lemmas state what config_set_matrix makes of collected segments (`SetMatrixRows`, `RowAtOrder`: rows
  are found in the order of the file, a gap is filled with the next row), and that in a plain file the
  collected segments are exactly the lines of the open matrix (`OpenMatrix`), so that the test of its
  length is about their number. `FileInv` judges a plain file by the condition of the code (`Fits`);
  `LimitsAgree` shows that this is `WithinLimits` where no matrix takes exactly the room there is.
* `Card_proofs`. Every step of `Card` is one of Lifecycle or leaves its variables alone
  (`CardLivesLifecycle`). The heart of the rest is `SumInv`: the checksum in the file, whatever has
  become of the fields before it, was taken over fields of one card and an index that this card has had.
  A file whose fields agree with its checksum therefore holds such fields, `MemoryInv` carries this to
  the instance that loaded it, and the check against `/sys` adds that the card is there.
* `EventLoop_proofs`. `StopsForAReason` becomes inductive with the origin of what clears
  `daemon_alive`: a pending SIGTERM was sent to the daemon and not to the process it forked from, and a status of "exit" was reaped from such a child;
  the type invariant needs that socket and watch are down while `daemon_init` sets them up.
* `Serialize_proofs`. `RoundTrip`: each reading of up to 255, each matrix of up to 16 rows and each
  errno is unpacked as what was packed, and an answer of no bytes is never a positive one. The
  recursive functions in `dfa_simulate`, `Taken` and `packf` have a fixed number of steps for each
  format, so that they are unrolled with an explicit function as witness; the numbers of a matrix are
  covered for every length at once, since a directive with `*` copies its values in one piece.
* `Ipc_proofs`. `OnlyRootStops` is about a child that is gone; `RootInv` follows its exit code back
  to the request. `CodeInv`: while a child has the code that ends the daemon, its client is root and
  what it sent is an exit request. `LastInv`: an exit request is the last call of a `fanctl`, so that
  the connection of a client that was told of is never used again. `OrOneCodes` is the fact that
  `| 1` after a failed `send` neither makes nor destroys that code. For `ConfirmedExit`,
  `AnswersCurrent` and `AnswersUnderstood`, which speak of the end of a call, `CallInv` says at each of
  its stages what is under way: what the child copied and read was in effect since the call began
  (`SeenInv`), and what it packed and what the connection holds is an answer to this request by those
  values, which for an exit request is positive only together with the exit code (`ReplyInv`).
  `AnswersFit` and `RoundTrip` then take the packed bytes to what `fanctl` prints.

Only model-checked: the liveness properties (`AlwaysUpAgain`, `TermStops`, `HupHonoured`,
`EditNoticed`, `ZombiesReaped`, `ExitServed`, `EveryCallEnds`), since fairness and `ENABLED` are out of
the prover's reach, and the violations. What `packf` and `unpackf` do with formats that the program does
not contain is not covered, since it would need induction over the directives.

## Not modelled

Formatting of the client's output, logging, argument parsing, the build-time probe, mocks, tests and fuzz
targets. The SHA-1 digest is a standard function, taken to tell different fields apart. Of the
configuration file characters, upper and lower case and the lengths of the internal buffers are left out.
A missing directory that makes `opendir` fail (`hwmon.c:81`, `drm.c:43`) is not modelled, since what
`readdir` does with a null pointer is not defined; neither are cards that vanish while the daemon runs,
descriptor numbers that are reused after a restart, and the cleaning of `/run` by a reboot. Ipc's
`MatricesAssumption` has at most 16 rows: when a reload has accepted a leftover with more and
`fanctrl_configure` has refused it, one last `server_poll` follows before the loop ends, and a child forked
there reads beyond the matrix to pack it, which is undefined and left out. Time: an interval is a step.

## Plan

Done: FanControl, Lifecycle, EventLoop, and Ipc with Serialize, in this order because the fans of a hot
card depend on the first, on who may touch them the second, on the loop everything else, and on the last
what a user sees of it; then ConfigParse and Configured, FanOwnership, and Card, each with its proofs.
Left:

1. An abstract specification of the control interface (a request, then one answer that belongs to it
   or an error) that Ipc refines, proved from `CallInv`.
2. The safety part of EventLoop's liveness properties as proved action properties: a set flag is only
   cleared by the step that acts on it, a queued modification only by the batch that reads it.
