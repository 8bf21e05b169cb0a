------------------------------ MODULE Serialize ------------------------------
(***************************************************************************)
(* The encoding of answers (src/common/serialize.c): packf and unpackf,    *)
(* driven by printf-like directives that a small automaton recognises, and *)
(* the functions that pack and unpack each kind of answer.  A buffer is a  *)
(* sequence of bytes, the first one at index 1.                            *)
(***************************************************************************)
EXTENDS Integers, Sequences, SequencesExt

IPC_MAX_MSG_LENGTH == 48
ipc_rsp_ok == 0
ipc_rsp_err == 1

\* errno values on the daemon's platform.
E2BIG == 7
EAGAIN == 11
EACCES == 13
EINVAL == 22

------------------------------------------------------------------------------
(* The automaton for the conversions hhd .. lld and hhu .. llu. *)

Edges == [start |-> [h |-> "h0", l |-> "l0", d |-> "d", u |-> "u"],
          h0    |-> [h |-> "h1", d |-> "d", u |-> "u"],
          h1    |-> [d |-> "d", u |-> "u"],
          l0    |-> [l |-> "l1", d |-> "d", u |-> "u"],
          l1    |-> [d |-> "d", u |-> "u"]]

\* What the flag of each state adds to the format type.
Weight == [start |-> 0, h0 |-> -1, h1 |-> -1, l0 |-> 1, l1 |-> 1, d |-> 2, u |-> 7, reject |-> 0]

\* One more character: the state it leads to, and the sum of the flags so far.
Follow(at, c) ==
  LET To(state) == [state |-> state, type |-> at.type + Weight[state]] IN
  IF at.state \notin DOMAIN Edges THEN at
  ELSE To(IF c \in DOMAIN Edges[at.state] THEN Edges[at.state][c] ELSE "reject")

\* The format type, 0 for hhd to 9 for llu, that the states passed through add up to;
\* -1 unless the last one accepts.
dfa_simulate(conversion) ==
  LET at[i \in 0 .. Len(conversion)] ==
        IF i = 0 THEN [state |-> "start", type |-> 0] ELSE Follow(at[i - 1], conversion[i])
      end == at[Len(conversion)]
  IN  IF end.state \in {"d", "u"} THEN end.type ELSE -1

\* The type of every conversion of up to three characters.
Conversions == UNION {[1 .. n -> {"h", "l", "d", "u", "other"}] : n \in 1 .. 3}
FmtType == [conversion \in Conversions |-> dfa_simulate(conversion)]

dfa_valsize(fmttype) == <<1, 2, 4, 8, 8>>[(fmttype % 5) + 1]
dfa_fmtlen(fmttype) == <<3, 2, 1, 2, 3>>[(fmttype % 5) + 1]

------------------------------------------------------------------------------
(* packf and unpackf.  A directive has its conversion, the number of times it   *)
(* applies ("%*", any other applies once) and, when packing, the values for it. *)

HHU == <<"h", "h", "u">>
D == <<"d">>

Directive(star, conversion, nrepeat, vals) ==
  [star |-> star, conversion |-> conversion, nrepeat |-> nrepeat, vals |-> vals]
One(conversion, v) == Directive(FALSE, conversion, 1, <<v>>)
Many(conversion, vals) == Directive(TRUE, conversion, Len(vals), vals)
Reads(conversion) == Directive(FALSE, conversion, 1, <<>>)
ReadsMany(conversion, n) == Directive(TRUE, conversion, n, <<>>)

Size(directive) == dfa_valsize(FmtType[directive.conversion])

\* There is something to repeat, and the conversion is known and ends where the next
\* directive begins.
Valid(directive) ==
  LET Ends(fmttype) == fmttype >= 0 /\ dfa_fmtlen(fmttype) = Len(directive.conversion)
  IN  (directive.star => directive.nrepeat > 0) /\ Ends(FmtType[directive.conversion])

\* One more directive after n bytes, or after an error.
Take(n, directive, bufsize) ==
  LET Fit(m) == IF m > bufsize THEN -E2BIG ELSE m IN
  IF n < 0 THEN n
  ELSE IF Valid(directive) THEN Fit(n + directive.nrepeat * Size(directive)) ELSE -1

\* What both loops return: the number of bytes taken, or the error at the first
\* directive that is not valid or does not fit.
Taken(directives, bufsize) ==
  LET taken[i \in 0 .. Len(directives)] ==
        IF i = 0 THEN 0 ELSE Take(taken[i - 1], directives[i], bufsize)
  IN  taken[Len(directives)]

\* Values of the given size one after the other, little endian, none of them negative.
Bytes(vals, size) ==
  [i \in 1 .. size * Len(vals) |->
     (vals[((i - 1) \div size) + 1] \div 256 ^ ((i - 1) % size)) % 256]

\* The value of the given size after the first from bytes.
Number(bytes, from, size) ==
  LET value[i \in 0 .. size] ==
        IF i = 0 THEN 0 ELSE value[i - 1] + 256 ^ (i - 1) * bytes[from + i]
  IN  value[size]

\* n of them, one after the other.
Numbers(bytes, from, n, size) == [k \in 1 .. n |-> Number(bytes, from + (k - 1) * size, size)]

\* n is the number of bytes written, or negative.
packf(bufsize, directives) ==
  [n |-> Taken(directives, bufsize),
   bytes |-> FlattenSeq([i \in DOMAIN directives |->
                           Bytes(directives[i].vals, Size(directives[i]))])]

\* n is the number of bytes read, or negative; vals are the values read.
unpackf(buffer, directives) ==
  LET From(i) == Taken(SubSeq(directives, 1, i - 1), Len(buffer))
      Read(i) == Numbers(buffer, From(i), directives[i].nrepeat, Size(directives[i]))
      Result(n) == [n |-> n, vals |-> IF n < 0 THEN <<>>
                                      ELSE FlattenSeq([i \in DOMAIN directives |-> Read(i)])]
  IN  Result(Taken(directives, Len(buffer)))

------------------------------------------------------------------------------
(* The answers: length, verdict, and a value or an errno. *)

pack_error(error) ==
  packf(IPC_MAX_MSG_LENGTH, <<One(HHU, 1 + 1 + 4), One(HHU, ipc_rsp_err), One(D, error)>>)

\* pack_speed and pack_temp.
pack_int(v) ==
  packf(IPC_MAX_MSG_LENGTH, <<One(HHU, 1 + 1 + 4), One(HHU, ipc_rsp_ok), One(D, v)>>)

\* A slip: the byte for the number of rows is not counted.
pack_matrix_short(mat) ==
  LET nrows == Len(mat) \div 2 IN
  packf(IPC_MAX_MSG_LENGTH,
        <<One(HHU, (1 + nrows * 2 + 1) % 256), One(HHU, ipc_rsp_ok), One(HHU, nrows),
          Many(HHU, mat)>>)

pack_matrix(mat) ==
  LET nrows == Len(mat) \div 2 IN
  packf(IPC_MAX_MSG_LENGTH,
        <<One(HHU, (1 + nrows * 2 + 2) % 256), One(HHU, ipc_rsp_ok), One(HHU, nrows),
          Many(HHU, mat)>>)

pack_exit_rsp == packf(IPC_MAX_MSG_LENGTH, <<One(HHU, 1 + 1), One(HHU, ipc_rsp_ok)>>)

\* A verdict is returned as an ipc_response, that is an unsigned char.
Verdict(rsp, vals) == [rsp |-> rsp % 256, vals |-> vals]

\* What follows the header.
Rest(buffer) == SubSeq(buffer, 3, Len(buffer))

\* The part common to all: the header, then what is read after a positive verdict, or
\* an errno after a negative one.  Of the negative results only the sign matters.
Unpack(buffer, positive) ==
  LET Body(head) == IF head.vals[2] = ipc_rsp_ok THEN positive
                    ELSE unpackf(Rest(buffer), <<Reads(D)>>)
      Judge(head, body) == IF head.n + body.n # head.vals[1] THEN Verdict(-1, <<>>)
                           ELSE Verdict(head.vals[2], body.vals)
      Result(head) == IF head.n < 0 THEN Verdict(head.n, <<>>) ELSE Judge(head, Body(head))
  IN  Result(unpackf(buffer, <<Reads(HHU), Reads(HHU)>>))

\* unpack_speed and unpack_temp.
unpack_int(buffer) == Unpack(buffer, unpackf(Rest(buffer), <<Reads(D)>>))

\* The number of rows, then two bytes for each.  A negative result of either read is
\* added to the bytes read before it.
unpack_matrix(buffer) ==
  LET Cells(rows) == unpackf(Tail(Rest(buffer)), <<ReadsMany(HHU, 2 * rows.vals[1])>>)
      Both(rows, cells) == [n |-> rows.n + cells.n, vals |-> rows.vals \o cells.vals]
      Body(rows) == IF rows.n < 0 THEN rows ELSE Both(rows, Cells(rows))
  IN  Unpack(buffer, Body(unpackf(Rest(buffer), <<Reads(HHU)>>)))

\* A slip: the length is checked, the verdict is not returned.
unpack_exit_rsp_lenient(buffer) ==
  LET verdict == Unpack(buffer, [n |-> 0, vals |-> <<>>]) IN
  IF verdict.rsp = ipc_rsp_err THEN Verdict(ipc_rsp_ok, <<>>) ELSE verdict

unpack_exit_rsp(buffer) == Unpack(buffer, [n |-> 0, vals |-> <<>>])
=============================================================================
