--------------------------- MODULE Serialize_proofs ---------------------------
(***************************************************************************)
(* What is packed is what is unpacked, for every value and every matrix.   *)
(* Formats have at most four directives, so that the recursive functions   *)
(* over them are unrolled rather than reasoned about by induction.         *)
(***************************************************************************)
EXTENDS Serialize, SequenceTheorems, TLAPS

\* The automaton recognises %hhu, an unsigned byte (serialize.c:85-169).
LEMMA FmtTypeHHU == FmtType[HHU] = 5
<1> DEFINE F(f) == [i \in 0 .. Len(HHU) |->
                      IF i = 0 THEN [state |-> "start", type |-> 0] ELSE Follow(f[i - 1], HHU[i])]
           At(s, t) == [state |-> s, type |-> t]
           w == [i \in 0 .. 3 |-> IF i = 0 THEN At("start", 0) ELSE IF i = 1 THEN At("h0", -1)
                                  ELSE IF i = 2 THEN At("h1", -2) ELSE At("u", 5)]
<1>1. HHU \in Conversions
  BY DEF HHU, Conversions
<1>2. /\ Follow(At("start", 0), "h") = At("h0", -1)
      /\ Follow(At("h0", -1), "h") = At("h1", -2)
      /\ Follow(At("h1", -2), "u") = At("u", 5)
  BY DEF Follow, Edges, Weight
<1>3. Len(HHU) = 3 /\ HHU[1] = "h" /\ HHU[2] = "h" /\ HHU[3] = "u"
  BY DEF HHU
<1>4. w = F(w)
  <2> SUFFICES ASSUME NEW i \in 0 .. 3 PROVE w[i] = F(w)[i]
    BY <1>3
  <2> QED
    BY <1>2, <1>3
<1> DEFINE at == CHOOSE f : f = F(f)
<1>5. at = F(at)
  BY <1>4
<1> HIDE DEF at
<1>6. at[0] = At("start", 0) /\ at[1] = Follow(at[0], "h") /\ at[2] = Follow(at[1], "h")
      /\ at[3] = Follow(at[2], "u")
  BY <1>5, <1>3
<1>7. at[3] = At("u", 5)
  BY <1>6, <1>2
<1>8. dfa_simulate(HHU) = 5
  BY <1>7, <1>3 DEF dfa_simulate, at
<1> QED
  BY <1>1, <1>8 DEF FmtType

\* And %d, an int.
LEMMA FmtTypeD == FmtType[D] = 2
<1> DEFINE F(f) == [i \in 0 .. Len(D) |->
                      IF i = 0 THEN [state |-> "start", type |-> 0] ELSE Follow(f[i - 1], D[i])]
           At(s, t) == [state |-> s, type |-> t]
           w == [i \in 0 .. 1 |-> IF i = 0 THEN At("start", 0) ELSE At("d", 2)]
<1>1. D \in Conversions
  BY DEF D, Conversions
<1>2. Follow(At("start", 0), "d") = At("d", 2)
  BY DEF Follow, Edges, Weight
<1>3. Len(D) = 1 /\ D[1] = "d"
  BY DEF D
<1>4. w = F(w)
  <2> SUFFICES ASSUME NEW i \in 0 .. 1 PROVE w[i] = F(w)[i]
    BY <1>3
  <2> QED
    BY <1>2, <1>3
<1> DEFINE at == CHOOSE f : f = F(f)
<1>5. at = F(at)
  BY <1>4
<1> HIDE DEF at
<1>6. at[0] = At("start", 0) /\ at[1] = Follow(at[0], "d")
  BY <1>5, <1>3
<1>7. at[1] = At("d", 2)
  BY <1>6, <1>2
<1>8. dfa_simulate(D) = 2
  BY <1>7, <1>3 DEF dfa_simulate, at
<1> QED
  BY <1>1, <1>8 DEF FmtType

\* Both conversions that the answers use are known; only an empty repetition is refused
\* (serialize.c:85-169, 336-352).
LEMMA Conversion ==
  ASSUME NEW x
  PROVE  /\ x.conversion = HHU => Size(x) = 1
         /\ x.conversion = D => Size(x) = 4
         /\ x.conversion \in {HHU, D} => (Valid(x) <=> (x.star => x.nrepeat > 0))
<1>1. Len(HHU) = 3 /\ Len(D) = 1
  BY DEF HHU, D
<1>2. dfa_valsize(5) = 1 /\ dfa_valsize(2) = 4 /\ dfa_fmtlen(5) = 3 /\ dfa_fmtlen(2) = 1
  BY DEF dfa_valsize, dfa_fmtlen
<1>3. x.conversion = HHU => Size(x) = 1
  BY <1>2, FmtTypeHHU DEF Size
<1>4. x.conversion = D => Size(x) = 4
  BY <1>2, FmtTypeD DEF Size
<1>5. ASSUME x.conversion \in {HHU, D} PROVE Valid(x) <=> (x.star => x.nrepeat > 0)
  <2> DEFINE t == FmtType[x.conversion]
  <2>1. t >= 0 /\ dfa_fmtlen(t) = Len(x.conversion)
    <3>1. CASE x.conversion = HHU
      BY <1>1, <1>2, <3>1, FmtTypeHHU
    <3>2. CASE x.conversion = D
      BY <1>1, <1>2, <3>2, FmtTypeD
    <3> QED
      BY <1>5, <3>1, <3>2
  <2> QED
    BY <2>1, Zenon DEF Valid
<1> QED
  BY <1>3, <1>4, <1>5

\* The loop over the directives, unrolled: no format of the program has more than four
\* (serialize.c:336-384, 442-543).
LEMMA TakenUpTo4 ==
  ASSUME NEW b, NEW ds, Len(ds) \in 0 .. 4
  PROVE  /\ Len(ds) = 0 => Taken(ds, b) = 0
         /\ Len(ds) = 1 => Taken(ds, b) = Take(0, ds[1], b)
         /\ Len(ds) = 2 => Taken(ds, b) = Take(Take(0, ds[1], b), ds[2], b)
         /\ Len(ds) = 3 => Taken(ds, b) = Take(Take(Take(0, ds[1], b), ds[2], b), ds[3], b)
         /\ Len(ds) = 4 => Taken(ds, b) =
              Take(Take(Take(Take(0, ds[1], b), ds[2], b), ds[3], b), ds[4], b)
<1> DEFINE F(f) == [i \in 0 .. Len(ds) |-> IF i = 0 THEN 0 ELSE Take(f[i - 1], ds[i], b)]
           t1 == Take(0, ds[1], b)
           t2 == Take(t1, ds[2], b)
           t3 == Take(t2, ds[3], b)
           t4 == Take(t3, ds[4], b)
           w == [i \in 0 .. Len(ds) |-> IF i = 0 THEN 0 ELSE IF i = 1 THEN t1
                                   ELSE IF i = 2 THEN t2 ELSE IF i = 3 THEN t3 ELSE t4]
<1>1. w = F(w)
  <2> SUFFICES ASSUME NEW i \in 0 .. Len(ds) PROVE w[i] = F(w)[i]
    OBVIOUS
  <2> QED
    OBVIOUS
<1> DEFINE taken == CHOOSE f : f = F(f)
<1>2. taken = F(taken)
  BY <1>1
<1> HIDE DEF taken
<1>3. /\ taken[0] = 0
      /\ Len(ds) > 0 => taken[1] = Take(taken[0], ds[1], b)
      /\ Len(ds) > 1 => taken[2] = Take(taken[1], ds[2], b)
      /\ Len(ds) > 2 => taken[3] = Take(taken[2], ds[3], b)
      /\ Len(ds) > 3 => taken[4] = Take(taken[3], ds[4], b)
  BY <1>2
<1> QED
  BY <1>3 DEF Taken, taken

\* The bytes of up to four directives, one after the other.
LEMMA FlattenUpTo4 ==
  ASSUME NEW ss, Len(ss) \in 1 .. 4
  PROVE  /\ Len(ss) = 1 => FlattenSeq(ss) = ss[1]
         /\ Len(ss) = 2 => FlattenSeq(ss) = ss[1] \o ss[2]
         /\ Len(ss) = 3 => FlattenSeq(ss) = (ss[1] \o ss[2]) \o ss[3]
         /\ Len(ss) = 4 => FlattenSeq(ss) = ((ss[1] \o ss[2]) \o ss[3]) \o ss[4]
<1> DEFINE Cat(x, y) == x \o y
           F(f) == [i \in 1 .. Len(ss) |-> IF i = 1 THEN ss[i] ELSE Cat(f[i - 1], ss[i])]
           w == [i \in 1 .. Len(ss) |-> IF i = 1 THEN ss[1] ELSE IF i = 2 THEN Cat(ss[1], ss[2])
                   ELSE IF i = 3 THEN Cat(Cat(ss[1], ss[2]), ss[3])
                   ELSE Cat(Cat(Cat(ss[1], ss[2]), ss[3]), ss[4])]
           flatten == CHOOSE f : f = F(f)
<1>0. Len(ss) # 0
  OBVIOUS
<1>1. FlattenSeq(ss) = flatten[Len(ss)]
  BY <1>0, Zenon DEF FlattenSeq
<1> HIDE DEF Cat
<1>2. w = F(w)
  <2> SUFFICES ASSUME NEW i \in 1 .. Len(ss) PROVE w[i] = F(w)[i]
    OBVIOUS
  <2> QED
    OBVIOUS
<1>3. flatten = F(flatten)
  BY <1>2
<1> HIDE DEF flatten
<1>4. /\ flatten[1] = ss[1]
      /\ Len(ss) > 1 => flatten[2] = Cat(flatten[1], ss[2])
      /\ Len(ss) > 2 => flatten[3] = Cat(flatten[2], ss[3])
      /\ Len(ss) > 3 => flatten[4] = Cat(flatten[3], ss[4])
  BY <1>3
<1>5. flatten[1] = ss[1]
  BY <1>4
<1>6. Len(ss) > 1 => flatten[2] = Cat(ss[1], ss[2])
  BY <1>4, <1>5
<1>7. Len(ss) > 2 => flatten[3] = Cat(Cat(ss[1], ss[2]), ss[3])
  BY <1>4, <1>6
<1>8. Len(ss) > 3 => flatten[4] = Cat(Cat(Cat(ss[1], ss[2]), ss[3]), ss[4])
  BY <1>4, <1>7
<1>9. /\ Len(ss) = 2 => Len(ss) > 1
      /\ Len(ss) = 3 => Len(ss) > 2
      /\ Len(ss) = 4 => Len(ss) > 3
  OBVIOUS
<1> QED
  BY <1>1, <1>5, <1>6, <1>7, <1>8, <1>9, Zenon DEF Cat

\* A byte is read as it is.
LEMMA NumberOf1 ==
  ASSUME NEW bytes, NEW from \in Nat, bytes[from + 1] \in Int
  PROVE  Number(bytes, from, 1) = bytes[from + 1]
<1> DEFINE F(f) == [i \in 0 .. 1 |-> IF i = 0 THEN 0 ELSE f[i - 1] + 256 ^ (i - 1) * bytes[from + i]]
           w == [i \in 0 .. 1 |-> IF i = 0 THEN 0 ELSE bytes[from + 1]]
           value == CHOOSE f : f = F(f)
<1>1. 256 ^ 0 = 1
  OBVIOUS
<1>2. w = F(w)
  <2> SUFFICES ASSUME NEW i \in 0 .. 1 PROVE w[i] = F(w)[i]
    OBVIOUS
  <2>1. F(w)[1] = w[0] + 256 ^ 0 * bytes[from + 1] /\ F(w)[0] = 0
    OBVIOUS
  <2> HIDE DEF F
  <2>2. 256 ^ 0 * bytes[from + 1] = bytes[from + 1]
    BY <1>1
  <2> QED
    BY <2>1, <2>2
<1>3. value = F(value)
  BY <1>2
<1> HIDE DEF value
<1>4. value[0] = 0 /\ value[1] = value[0] + 256 ^ 0 * bytes[from + 1]
  BY <1>3
<1> QED
  BY <1>1, <1>4 DEF Number, value

\* Four bytes are read as a little endian int.
LEMMA NumberOf4 ==
  ASSUME NEW bytes, NEW from \in Nat, \A i \in 1 .. 4 : bytes[from + i] \in Int
  PROVE  Number(bytes, from, 4) = bytes[from + 1] + 256 * bytes[from + 2]
                + 65536 * bytes[from + 3] + 16777216 * bytes[from + 4]
<1> DEFINE P(i) == 256 ^ (i - 1) * bytes[from + i]
           F(f) == [i \in 0 .. 4 |-> IF i = 0 THEN 0 ELSE f[i - 1] + 256 ^ (i - 1) * bytes[from + i]]
           w == [i \in 0 .. 4 |-> IF i = 0 THEN 0 ELSE IF i = 1 THEN P(1)
                 ELSE IF i = 2 THEN P(1) + P(2) ELSE IF i = 3 THEN P(1) + P(2) + P(3)
                 ELSE P(1) + P(2) + P(3) + P(4)]
           value == CHOOSE f : f = F(f)
<1>1. 256 ^ 0 = 1 /\ 256 ^ 1 = 256 /\ 256 ^ 2 = 65536 /\ 256 ^ 3 = 16777216
  OBVIOUS
<1>2. /\ P(1) = bytes[from + 1] /\ P(2) = 256 * bytes[from + 2] /\ P(3) = 65536 * bytes[from + 3]
      /\ P(4) = 16777216 * bytes[from + 4]
  BY <1>1
<1> HIDE DEF P
<1>3. P(1) \in Int /\ P(2) \in Int /\ P(3) \in Int /\ P(4) \in Int
  BY <1>2
<1>4. w = F(w)
  <2> SUFFICES ASSUME NEW i \in 0 .. 4 PROVE w[i] = F(w)[i]
    OBVIOUS
  <2>1. \A k \in 1 .. 4 : F(w)[k] = w[k - 1] + P(k)
    BY DEF P
  <2>2. F(w)[0] = 0
    OBVIOUS
  <2> HIDE DEF F
  <2> QED
    BY <1>3, <2>1, <2>2
<1>5. value = F(value)
  BY <1>4
<1> HIDE DEF value
<1>6. /\ value[0] = 0 /\ value[1] = value[0] + P(1) /\ value[2] = value[1] + P(2)
      /\ value[3] = value[2] + P(3) /\ value[4] = value[3] + P(4)
  BY <1>5 DEF P
<1>7. Number(bytes, from, 4) = value[4]
  BY DEF Number, value
<1> QED
  BY <1>2, <1>3, <1>6, <1>7

\* Bytes are written as they are.
LEMMA BytesOf1 ==
  ASSUME NEW vals \in Seq(0 .. 255)
  PROVE  Bytes(vals, 1) = vals
<1>1. 256 ^ 0 = 1
  OBVIOUS
<1>2. ASSUME NEW i \in 1 .. Len(vals)
      PROVE  ((i - 1) \div 1) + 1 = i /\ (i - 1) % 1 = 0
  OBVIOUS
<1>3. ASSUME NEW i \in 1 .. Len(vals)
      PROVE  (vals[((i - 1) \div 1) + 1] \div 256 ^ ((i - 1) % 1)) % 256 = vals[i]
  <2>1. (vals[((i - 1) \div 1) + 1] \div 256 ^ ((i - 1) % 1)) % 256 = (vals[i] \div 1) % 256
    BY <1>1, <1>2
  <2>2. vals[i] \in 0 .. 255
    BY ElementOfSeq
  <2>3. ASSUME NEW x \in 0 .. 255 PROVE (x \div 1) % 256 = x
    OBVIOUS
  <2> QED
    BY <2>1, <2>2, <2>3
<1>4. 1 * Len(vals) = Len(vals)
  OBVIOUS
<1>5. Bytes(vals, 1) = [i \in 1 .. Len(vals) |-> vals[i]]
  BY <1>3, <1>4 DEF Bytes
<1> QED
  BY <1>5

\* An int below 256 is written as its low byte and three zeros.
LEMMA BytesOf4 ==
  ASSUME NEW v \in 0 .. 255
  PROVE  Bytes(<<v>>, 4) = <<v, 0, 0, 0>>
<1>1. 256 ^ 0 = 1 /\ 256 ^ 1 = 256 /\ 256 ^ 2 = 65536 /\ 256 ^ 3 = 16777216
  OBVIOUS
<1> DEFINE B(i) == (<<v>>[((i - 1) \div 4) + 1] \div 256 ^ ((i - 1) % 4)) % 256
<1>2. ASSUME NEW i \in 1 .. 4 PROVE B(i) = (v \div 256 ^ (i - 1)) % 256
  <2>1. (i - 1) \div 4 = 0 /\ (i - 1) % 4 = i - 1
    OBVIOUS
  <2>2. <<v>>[0 + 1] = v
    OBVIOUS
  <2> QED
    BY <2>1, <2>2, Zenon
<1> HIDE DEF B
<1>3. B(1) = v /\ B(2) = 0 /\ B(3) = 0 /\ B(4) = 0
  <2>1. (v \div 1) % 256 = v /\ (v \div 256) % 256 = 0 /\ (v \div 65536) % 256 = 0
        /\ (v \div 16777216) % 256 = 0
    OBVIOUS
  <2>2. B(1) = (v \div 256 ^ 0) % 256 /\ B(2) = (v \div 256 ^ 1) % 256
        /\ B(3) = (v \div 256 ^ 2) % 256 /\ B(4) = (v \div 256 ^ 3) % 256
    BY <1>2
  <2> QED
    BY <1>1, <2>1, <2>2
<1>4. Bytes(<<v>>, 4) = [i \in 1 .. 4 |-> B(i)]
  BY DEF Bytes, B
<1> QED
  BY <1>3, <1>4

\* A directive that has something to repeat is taken if it fits.
LEMMA TakeBytes ==
  ASSUME NEW x, x.conversion = HHU, NEW k \in Nat \ {0}, x.nrepeat = k, NEW n \in Nat, NEW b \in Nat
  PROVE  Take(n, x, b) = IF n + k > b THEN -7 ELSE n + k
<1>1. Size(x) = 1 /\ Valid(x)
  BY Conversion
<1> QED
  BY <1>1 DEF Take, E2BIG

\* %hhu takes one byte, if it fits.
LEMMA TakeByte ==
  ASSUME NEW x, x.conversion = HHU, x.nrepeat = 1, NEW n \in Nat, NEW b \in Nat
  PROVE  Take(n, x, b) = IF n + 1 > b THEN -7 ELSE n + 1
  BY TakeBytes

\* %d takes four bytes, if they fit.
LEMMA TakeInt ==
  ASSUME NEW x, x.conversion = D, x.nrepeat = 1, NEW n \in Nat, NEW b \in Nat
  PROVE  Take(n, x, b) = IF n + 4 > b THEN -7 ELSE n + 4
<1>1. Size(x) = 4 /\ Valid(x)
  BY Conversion
<1> QED
  BY <1>1 DEF Take, E2BIG

\* Bytes one after the other.
LEMMA ConcatTwo ==
  ASSUME NEW a, NEW b
  PROVE  <<a>> \o <<b>> = <<a, b>>
<1> DEFINE S == {a, b}
           t == <<a>> \o <<b>>
<1>1. <<a>> \in Seq(S) /\ <<b>> \in Seq(S)
  OBVIOUS
<1>2. /\ t \in Seq(S) /\ Len(t) = 2
      /\ t[1] = a /\ t[2] = b
  BY <1>1, ConcatProperties
<1> HIDE DEF t
<1>3. t = [i \in 1 .. 2 |-> t[i]]
  BY <1>2
<1>4. [i \in 1 .. 2 |-> t[i]] = <<a, b>>
  BY <1>2
<1> QED
  BY <1>3, <1>4 DEF t

\* The same for three.
LEMMA ConcatThree ==
  ASSUME NEW a, NEW b, NEW c
  PROVE  <<a, b>> \o <<c>> = <<a, b, c>>
<1> DEFINE S == {a, b, c}
           t == <<a, b>> \o <<c>>
<1>1. <<a, b>> \in Seq(S) /\ <<c>> \in Seq(S)
  OBVIOUS
<1>2. /\ t \in Seq(S) /\ Len(t) = 3
      /\ t[1] = a /\ t[2] = b /\ t[3] = c
  BY <1>1, ConcatProperties
<1> HIDE DEF t
<1>3. t = [i \in 1 .. 3 |-> t[i]]
  BY <1>2
<1>4. [i \in 1 .. 3 |-> t[i]] = <<a, b, c>>
  BY <1>2
<1> QED
  BY <1>3, <1>4 DEF t

\* The same for a header and an int.
LEMMA ConcatInt ==
  ASSUME NEW a \in Int, NEW b \in Int, NEW c \in Int
  PROVE  <<a, b>> \o <<c, 0, 0, 0>> = <<a, b, c, 0, 0, 0>>
<1> DEFINE t == <<a, b>> \o <<c, 0, 0, 0>>
<1>1. <<a, b>> \in Seq(Int) /\ <<c, 0, 0, 0>> \in Seq(Int)
  OBVIOUS
<1>2. /\ t \in Seq(Int) /\ Len(t) = 6
      /\ t[1] = a /\ t[2] = b /\ t[3] = c /\ t[4] = 0 /\ t[5] = 0 /\ t[6] = 0
  BY <1>1, ConcatProperties
<1> HIDE DEF t
<1>3. t = [i \in 1 .. 6 |-> t[i]]
  BY <1>2
<1>4. [i \in 1 .. 6 |-> t[i]] = <<a, b, c, 0, 0, 0>>
  BY <1>2
<1> QED
  BY <1>3, <1>4 DEF t

\* A single byte, a single int, and a number of bytes.
LEMMA Directives ==
  ASSUME NEW v, NEW n, NEW vals
  PROVE  /\ One(HHU, v).conversion = HHU /\ One(HHU, v).nrepeat = 1 /\ One(HHU, v).vals = <<v>>
         /\ One(D, v).conversion = D /\ One(D, v).nrepeat = 1 /\ One(D, v).vals = <<v>>
         /\ Many(HHU, vals).conversion = HHU /\ Many(HHU, vals).nrepeat = Len(vals)
         /\ Many(HHU, vals).vals = vals
         /\ Reads(HHU).conversion = HHU /\ Reads(HHU).nrepeat = 1
         /\ Reads(D).conversion = D /\ Reads(D).nrepeat = 1
         /\ ReadsMany(HHU, n).conversion = HHU /\ ReadsMany(HHU, n).nrepeat = n
  BY DEF One, Many, Reads, ReadsMany, Directive

\* Two bytes and an int: errors and readings.
LEMMA PackHeaderInt ==
  ASSUME NEW rsp \in 0 .. 255, NEW v \in 0 .. 255
  PROVE  packf(IPC_MAX_MSG_LENGTH, <<One(HHU, 1 + 1 + 4), One(HHU, rsp), One(D, v)>>) =
           [n |-> 6, bytes |-> <<6, rsp, v, 0, 0, 0>>]
<1> DEFINE x == One(HHU, 1 + 1 + 4)
           y == One(HHU, rsp)
           z == One(D, v)
           ds == <<x, y, z>>
<1>1. /\ x.conversion = HHU /\ x.nrepeat = 1 /\ x.vals = <<6>>
      /\ y.conversion = HHU /\ y.nrepeat = 1 /\ y.vals = <<rsp>>
      /\ z.conversion = D /\ z.nrepeat = 1 /\ z.vals = <<v>>
  <2>1. x = One(HHU, 6)
    OBVIOUS
  <2> HIDE DEF x
  <2> QED
    BY <2>1, Directives
<1>2. Size(x) = 1 /\ Size(y) = 1 /\ Size(z) = 4
  BY <1>1, Conversion
<1> HIDE DEF x, y, z
<1>3. /\ Take(0, x, 48) = 1 /\ Take(1, y, 48) = 2 /\ Take(2, z, 48) = 6
  <2>1. Take(0, x, 48) = 1
    BY <1>1, TakeByte, TakeInt
  <2>2. Take(1, y, 48) = 2
    BY <1>1, TakeByte, TakeInt
  <2>3. Take(2, z, 48) = 6
    BY <1>1, TakeByte, TakeInt
  <2> QED
    BY <2>1, <2>2, <2>3
<1>4. Len(ds) = 3 /\ ds[1] = x /\ ds[2] = y /\ ds[3] = z /\ DOMAIN ds = 1 .. 3
  OBVIOUS
<1>5. Taken(ds, 48) = 6
  <2>1. Taken(ds, 48) = Take(Take(Take(0, ds[1], 48), ds[2], 48), ds[3], 48)
    <3> HIDE DEF ds
    <3> QED
      BY <1>4, TakenUpTo4
  <2> QED
    BY <1>3, <1>4, <2>1
<1> DEFINE ss == [i \in DOMAIN ds |-> Bytes(ds[i].vals, Size(ds[i]))]
<1>6. Bytes(<<6>>, 1) = <<6>> /\ Bytes(<<rsp>>, 1) = <<rsp>> /\ Bytes(<<v>>, 4) = <<v, 0, 0, 0>>
  <2>1. <<6>> \in Seq(0 .. 255) /\ <<rsp>> \in Seq(0 .. 255)
    OBVIOUS
  <2> QED
    BY <2>1, BytesOf1, BytesOf4
<1>7. Len(ss) = 3 /\ ss[1] = <<6>> /\ ss[2] = <<rsp>> /\ ss[3] = <<v, 0, 0, 0>>
  BY <1>1, <1>2, <1>4, <1>6
<1> HIDE DEF ss
<1>8. FlattenSeq(ss) = (ss[1] \o ss[2]) \o ss[3]
  <2>1. Len(ss) \in 1 .. 4
    BY <1>7
  <2> QED
    BY <1>7, <2>1, FlattenUpTo4, Zenon
<1>9. (<<6>> \o <<rsp>>) \o <<v, 0, 0, 0>> = <<6, rsp, v, 0, 0, 0>>
  <2>1. <<6>> \o <<rsp>> = <<6, rsp>>
    BY ConcatTwo, Zenon
  <2>2. <<6, rsp>> \o <<v, 0, 0, 0>> = <<6, rsp, v, 0, 0, 0>>
    <3>1. 6 \in Int /\ rsp \in Int /\ v \in Int
      OBVIOUS
    <3> QED
      BY <3>1, ConcatInt, Zenon
  <2> QED
    BY <2>1, <2>2
<1> QED
  BY <1>5, <1>7, <1>8, <1>9 DEF packf, ss, IPC_MAX_MSG_LENGTH, x, y, z

\* The answer to an exit request (serialize.c:521-523).
LEMMA PackExit == pack_exit_rsp = [n |-> 2, bytes |-> <<2, 0>>]
<1> DEFINE x == One(HHU, 1 + 1)
           y == One(HHU, ipc_rsp_ok)
           ds == <<x, y>>
<1>1. /\ x.conversion = HHU /\ x.nrepeat = 1 /\ x.vals = <<2>>
      /\ y.conversion = HHU /\ y.nrepeat = 1 /\ y.vals = <<0>>
  BY Directives DEF ipc_rsp_ok
<1>2. Size(x) = 1 /\ Size(y) = 1
  BY <1>1, Conversion
<1>3. Take(0, x, 48) = 1 /\ Take(1, y, 48) = 2
  BY <1>1, TakeByte, TakeInt
<1> HIDE DEF x, y
<1>4. Len(ds) = 2 /\ ds[1] = x /\ ds[2] = y /\ DOMAIN ds = 1 .. 2
  OBVIOUS
<1>5. Taken(ds, 48) = 2
  <2>1. Taken(ds, 48) = Take(Take(0, ds[1], 48), ds[2], 48)
    <3> HIDE DEF ds
    <3> QED
      BY <1>4, TakenUpTo4
  <2> QED
    BY <1>3, <1>4, <2>1
<1> DEFINE ss == [i \in DOMAIN ds |-> Bytes(ds[i].vals, Size(ds[i]))]
<1>6. Bytes(<<2>>, 1) = <<2>> /\ Bytes(<<0>>, 1) = <<0>>
  <2>1. <<2>> \in Seq(0 .. 255) /\ <<0>> \in Seq(0 .. 255)
    OBVIOUS
  <2> QED
    BY <2>1, BytesOf1
<1>7. Len(ss) = 2 /\ ss[1] = <<2>> /\ ss[2] = <<0>>
  BY <1>1, <1>2, <1>4, <1>6
<1> HIDE DEF ss
<1>8. FlattenSeq(ss) = ss[1] \o ss[2]
  <2>1. Len(ss) \in 1 .. 4
    BY <1>7
  <2> QED
    BY <1>7, <2>1, FlattenUpTo4, Zenon
<1>9. <<2>> \o <<0>> = <<2, 0>>
  BY ConcatTwo, Zenon
<1> QED
  BY <1>5, <1>7, <1>8, <1>9 DEF pack_exit_rsp, packf, ss, IPC_MAX_MSG_LENGTH, x, y

\* What the daemon packs is never longer than a message, and is what it means to send.
LEMMA PackMatrix ==
  ASSUME NEW n \in 1 .. 16, NEW m \in [1 .. 2 * n -> 0 .. 255]
  PROVE  pack_matrix(m) = [n |-> 3 + 2 * n, bytes |-> <<3 + 2 * n, 0, n>> \o m]
<1>1. m \in Seq(0 .. 255) /\ Len(m) = 2 * n
  OBVIOUS
<1>2. Len(m) \div 2 = n
  BY <1>1
<1> DEFINE x == One(HHU, 3 + 2 * n)
           y == One(HHU, 0)
           z == One(HHU, n)
           u == Many(HHU, m)
           ds == <<x, y, z, u>>
<1>3. pack_matrix(m) = packf(48, ds)
  <2>1. (1 + n * 2 + 2) % 256 = 3 + 2 * n
    OBVIOUS
  <2> QED
    BY <1>2, <2>1 DEF pack_matrix, IPC_MAX_MSG_LENGTH, ipc_rsp_ok
<1>4. /\ x.conversion = HHU /\ x.nrepeat = 1 /\ x.vals = <<3 + 2 * n>>
      /\ y.conversion = HHU /\ y.nrepeat = 1 /\ y.vals = <<0>>
      /\ z.conversion = HHU /\ z.nrepeat = 1 /\ z.vals = <<n>>
      /\ u.conversion = HHU /\ u.nrepeat = 2 * n /\ u.vals = m
  BY <1>1, Directives
<1> HIDE DEF x, y, z, u
<1>5. Size(x) = 1 /\ Size(y) = 1 /\ Size(z) = 1 /\ Size(u) = 1
  BY <1>4, Conversion
<1>6. Take(0, x, 48) = 1 /\ Take(1, y, 48) = 2 /\ Take(2, z, 48) = 3
  <2>1. \A d \in {x, y, z} : d.conversion = HHU /\ d.nrepeat = 1
    BY <1>4, Zenon
  <2>2. ASSUME NEW d \in {x, y, z}, NEW k \in 0 .. 2 PROVE Take(k, d, 48) = k + 1
    <3>1. d.conversion = HHU /\ d.nrepeat = 1 /\ k \in Nat /\ 48 \in Nat
      BY <2>1
    <3>2. Take(k, d, 48) = IF k + 1 > 48 THEN -7 ELSE k + 1
      BY <3>1, TakeByte, Zenon
    <3> QED
      BY <3>2
  <2> QED
    BY <2>2
<1>7. Take(3, u, 48) = 3 + 2 * n
  <2>1. 2 * n \in Nat \ {0} /\ ~(3 + 2 * n > 48)
    OBVIOUS
  <2> QED
    BY <1>4, <2>1, TakeBytes
<1>8. Len(ds) = 4 /\ ds[1] = x /\ ds[2] = y /\ ds[3] = z /\ ds[4] = u /\ DOMAIN ds = 1 .. 4
  OBVIOUS
<1>9. Taken(ds, 48) = 3 + 2 * n
  <2>1. Taken(ds, 48) = Take(Take(Take(Take(0, ds[1], 48), ds[2], 48), ds[3], 48), ds[4], 48)
    <3> HIDE DEF ds
    <3> QED
      BY <1>8, TakenUpTo4
  <2> QED
    BY <1>6, <1>7, <1>8, <2>1
<1> DEFINE ss == [i \in DOMAIN ds |-> Bytes(ds[i].vals, Size(ds[i]))]
<1>10. /\ Bytes(<<3 + 2 * n>>, 1) = <<3 + 2 * n>> /\ Bytes(<<0>>, 1) = <<0>>
       /\ Bytes(<<n>>, 1) = <<n>> /\ Bytes(m, 1) = m
  <2>1. <<3 + 2 * n>> \in Seq(0 .. 255) /\ <<0>> \in Seq(0 .. 255) /\ <<n>> \in Seq(0 .. 255)
    OBVIOUS
  <2> QED
    BY <1>1, <2>1, BytesOf1
<1>11. Len(ss) = 4 /\ ss[1] = <<3 + 2 * n>> /\ ss[2] = <<0>> /\ ss[3] = <<n>> /\ ss[4] = m
  <2>1. /\ Len(ss) = 4 /\ ss[1] = Bytes(x.vals, Size(x)) /\ ss[2] = Bytes(y.vals, Size(y))
        /\ ss[3] = Bytes(z.vals, Size(z)) /\ ss[4] = Bytes(u.vals, Size(u))
    BY <1>8
  <2> QED
    BY <1>4, <1>5, <1>10, <2>1, Zenon
<1> HIDE DEF ss
<1>12. FlattenSeq(ss) = ((ss[1] \o ss[2]) \o ss[3]) \o ss[4]
  <2>1. Len(ss) \in 1 .. 4
    BY <1>11
  <2> QED
    BY <1>11, <2>1, FlattenUpTo4, Zenon
<1>13. (<<3 + 2 * n>> \o <<0>>) \o <<n>> = <<3 + 2 * n, 0, n>>
  <2>1. <<3 + 2 * n>> \o <<0>> = <<3 + 2 * n, 0>>
    BY ConcatTwo, Zenon
  <2>2. <<3 + 2 * n, 0>> \o <<n>> = <<3 + 2 * n, 0, n>>
    BY ConcatThree, Zenon
  <2> QED
    BY <2>1, <2>2
<1>14. FlattenSeq(ss) = <<3 + 2 * n, 0, n>> \o m
  BY <1>11, <1>12, <1>13, Zenon
<1> QED
  BY <1>3, <1>9, <1>14 DEF packf, ss

\* One directive is read from the beginning of the buffer.
LEMMA UnpackOne ==
  ASSUME NEW buffer, NEW x
  PROVE  unpackf(buffer, <<x>>) =
           [n |-> Take(0, x, Len(buffer)),
            vals |-> IF Take(0, x, Len(buffer)) < 0 THEN <<>>
                     ELSE Numbers(buffer, 0, x.nrepeat, Size(x))]
<1> DEFINE ds == <<x>>
           Read(i) == Numbers(buffer, Taken(SubSeq(ds, 1, i - 1), Len(buffer)), ds[i].nrepeat,
                              Size(ds[i]))
           ss == [i \in DOMAIN ds |-> Read(i)]
           len == Len(buffer)
<1>1. Len(ds) = 1 /\ ds[1] = x /\ DOMAIN ds = 1 .. 1 /\ Len(SubSeq(ds, 1, 0)) = 0
  OBVIOUS
<1>2. Taken(ds, len) = Take(0, x, len) /\ Taken(SubSeq(ds, 1, 0), len) = 0
  <2> DEFINE none == SubSeq(ds, 1, 0)
  <2>1. Len(none) = 0
    BY <1>1
  <2> HIDE DEF ds, len, none
  <2>2. Taken(ds, len) = Take(0, x, len)
    BY <1>1, TakenUpTo4
  <2>3. Taken(none, len) = 0
    BY <2>1, TakenUpTo4
  <2> QED
    BY <2>2, <2>3 DEF none
<1>3. Len(ss) = 1 /\ ss[1] = Numbers(buffer, 0, x.nrepeat, Size(x))
  <2>1. Len(ss) = 1 /\ ss[1] = Read(1)
    BY <1>1
  <2>2. Read(1) = Numbers(buffer, 0, x.nrepeat, Size(x))
    BY <1>1, <1>2
  <2> QED
    BY <2>1, <2>2
<1> HIDE DEF ss
<1>4. FlattenSeq(ss) = ss[1]
  <2>1. Len(ss) \in 1 .. 4
    BY <1>3
  <2> QED
    BY <1>3, <2>1, FlattenUpTo4, Zenon
<1> QED
  BY <1>2, <1>3, <1>4, Zenon DEF unpackf, ss

\* The header of an answer.
LEMMA UnpackHead ==
  ASSUME NEW buffer, Len(buffer) \in Nat
  PROVE  LET head == unpackf(buffer, <<Reads(HHU), Reads(HHU)>>) IN
         /\ Len(buffer) = 0 => head.n = -7
         /\ Len(buffer) > 1 /\ buffer[1] \in Int /\ buffer[2] \in Int =>
              head.n = 2 /\ head.vals = <<buffer[1], buffer[2]>>
<1> DEFINE x == Reads(HHU)
           ds == <<x, x>>
           len == Len(buffer)
           Read(i) == Numbers(buffer, Taken(SubSeq(ds, 1, i - 1), Len(buffer)), ds[i].nrepeat,
                              Size(ds[i]))
           ss == [i \in DOMAIN ds |-> Read(i)]
           head == unpackf(buffer, ds)
<1>1. x.conversion = HHU /\ x.nrepeat = 1 /\ Size(x) = 1
  BY Directives, Conversion
<1> HIDE DEF x
<1>2. /\ Len(ds) = 2 /\ ds[1] = x /\ ds[2] = x /\ DOMAIN ds = 1 .. 2
      /\ Len(SubSeq(ds, 1, 0)) = 0 /\ Len(SubSeq(ds, 1, 1)) = 1 /\ SubSeq(ds, 1, 1)[1] = x
  OBVIOUS
<1>3. /\ Taken(ds, len) = Take(Take(0, x, len), x, len)
      /\ Taken(SubSeq(ds, 1, 0), len) = 0 /\ Taken(SubSeq(ds, 1, 1), len) = Take(0, x, len)
  <2> DEFINE none == SubSeq(ds, 1, 0)
             one == SubSeq(ds, 1, 1)
  <2>1. Len(none) = 0 /\ Len(one) = 1 /\ one[1] = x
    BY <1>2
  <2> HIDE DEF ds, len, none, one
  <2>2. Taken(ds, len) = Take(Take(0, x, len), x, len)
    BY <1>2, TakenUpTo4
  <2>3. Taken(none, len) = 0
    BY <2>1, TakenUpTo4
  <2>4. Taken(one, len) = Take(0, x, len)
    BY <2>1, TakenUpTo4
  <2> QED
    BY <2>2, <2>3, <2>4 DEF none, one
<1>4. Len(buffer) = 0 => head.n = -7
  <2>1. SUFFICES ASSUME Len(buffer) = 0 PROVE Taken(ds, len) = -7
    BY DEF unpackf
  <2>2. Take(0, x, len) = -7
    BY <1>1, <2>1, TakeByte
  <2>3. Take(-7, x, len) = -7
    BY DEF Take
  <2> QED
    BY <1>3, <2>2, <2>3
<1>5. ASSUME Len(buffer) > 1, buffer[1] \in Int, buffer[2] \in Int
      PROVE  head.n = 2 /\ head.vals = <<buffer[1], buffer[2]>>
  <2>1. Take(0, x, len) = 1 /\ Take(1, x, len) = 2
    <3>1. Take(0, x, len) = 1
      BY <1>1, <1>5, TakeByte
    <3>2. Take(1, x, len) = 2
      BY <1>1, <1>5, TakeByte
    <3> QED
      BY <3>1, <3>2
  <2>2. Number(buffer, 0, 1) = buffer[1] /\ Number(buffer, 1, 1) = buffer[2]
    BY <1>5, NumberOf1
  <2>3. Read(1) = Numbers(buffer, 0, 1, 1) /\ Read(2) = Numbers(buffer, 1, 1, 1)
    BY <1>1, <1>2, <1>3, <2>1
  <2>4. Read(1) = <<buffer[1]>> /\ Read(2) = <<buffer[2]>>
    <3>1. Numbers(buffer, 0, 1, 1) = <<buffer[1]>>
      BY <2>2 DEF Numbers
    <3>2. Numbers(buffer, 1, 1, 1) = <<buffer[2]>>
      BY <2>2 DEF Numbers
    <3> QED
      BY <2>3, <3>1, <3>2
  <2>5. Len(ss) = 2 /\ ss[1] = <<buffer[1]>> /\ ss[2] = <<buffer[2]>>
    <3> HIDE DEF Read
    <3> QED
      BY <1>2, <2>4
  <2> HIDE DEF ss
  <2>6. FlattenSeq(ss) = ss[1] \o ss[2]
    <3>1. Len(ss) \in 1 .. 4
      BY <2>5
    <3> QED
      BY <2>5, <3>1, FlattenUpTo4, Zenon
  <2>7. ss[1] \o ss[2] = <<buffer[1], buffer[2]>>
    BY <2>5, ConcatTwo, Zenon
  <2>8. Taken(ds, len) = 2
    BY <1>3, <2>1
  <2>9. head = [n |-> 2, vals |-> FlattenSeq(ss)]
    <3>1. ~(2 < 0)
      OBVIOUS
    <3> QED
      BY <2>8, <3>1, Zenon DEF unpackf, ss
  <2> QED
    BY <2>6, <2>7, <2>9
<1> QED
  BY <1>4, <1>5 DEF x

\* An int, and a number of bytes.
IntOf(b) == b[1] + 256 * b[2] + 65536 * b[3] + 16777216 * b[4]

\* What an int is read as.
LEMMA UnpackInt ==
  ASSUME NEW buffer, Len(buffer) >= 4, Len(buffer) \in Nat, \A i \in 1 .. 4 : buffer[i] \in Int
  PROVE  unpackf(buffer, <<Reads(D)>>) =
           [n |-> 4, vals |-> <<IntOf(buffer)>>]
<1> DEFINE x == Reads(D)
           v == IntOf(buffer)
<1>1. x.conversion = D /\ x.nrepeat = 1 /\ Size(x) = 4
  BY Directives, Conversion
<1> HIDE DEF x
<1>2. Take(0, x, Len(buffer)) = 4
  BY <1>1, TakeInt
<1>3. Number(buffer, 0, 4) = v
  BY NumberOf4 DEF IntOf
<1>4. Numbers(buffer, 0, 1, 4) = <<v>>
  BY <1>3 DEF Numbers
<1> QED
  BY <1>1, <1>2, <1>4, UnpackOne DEF x

\* What a byte is read as.
LEMMA UnpackByte ==
  ASSUME NEW buffer, Len(buffer) >= 1, Len(buffer) \in Nat, buffer[1] \in Int
  PROVE  unpackf(buffer, <<Reads(HHU)>>) = [n |-> 1, vals |-> <<buffer[1]>>]
<1> DEFINE x == Reads(HHU)
<1>1. x.conversion = HHU /\ x.nrepeat = 1 /\ Size(x) = 1
  BY Directives, Conversion
<1> HIDE DEF x
<1>2. Take(0, x, Len(buffer)) = 1
  BY <1>1, TakeByte
<1>3. Number(buffer, 0, 1) = buffer[1]
  BY NumberOf1
<1>4. Numbers(buffer, 0, 1, 1) = <<buffer[1]>>
  BY <1>3 DEF Numbers
<1> QED
  BY <1>1, <1>2, <1>4, UnpackOne DEF x

\* What a row of bytes is read as.
LEMMA UnpackBytes ==
  ASSUME NEW x, x.conversion = HHU, NEW k \in Nat \ {0}, x.nrepeat = k, NEW buffer,
         Len(buffer) \in Nat, Len(buffer) >= k, \A i \in 1 .. k : buffer[i] \in Int
  PROVE  unpackf(buffer, <<x>>) = [n |-> k, vals |-> [i \in 1 .. k |-> buffer[i]]]
<1>1. Take(0, x, Len(buffer)) = k
  BY TakeBytes
<1>2. Size(x) = 1
  BY Conversion
<1>3. ASSUME NEW i \in 1 .. k PROVE Number(buffer, 0 + (i - 1) * 1, 1) = buffer[i]
  <2> DEFINE from == 0 + (i - 1) * 1
  <2>1. from \in Nat /\ from + 1 = i /\ buffer[from + 1] \in Int
    OBVIOUS
  <2>2. Number(buffer, from, 1) = buffer[from + 1]
    <3> HIDE DEF from
    <3> QED
      BY <2>1, NumberOf1
  <2> QED
    BY <2>1, <2>2
<1>4. Numbers(buffer, 0, k, 1) = [i \in 1 .. k |-> buffer[i]]
  BY <1>3 DEF Numbers
<1> QED
  BY <1>1, <1>2, <1>4, UnpackOne

\* The verdict on an answer: positive if the lengths agree, negative, or nothing at all.
LEMMA UnpackPositive ==
  ASSUME NEW buffer, Len(buffer) \in Nat, Len(buffer) > 1, buffer[1] \in Int, buffer[2] = 0,
         NEW positive, positive.n \in Nat, buffer[1] = 2 + positive.n
  PROVE  Unpack(buffer, positive) = [rsp |-> 0, vals |-> positive.vals]
<1> DEFINE head == unpackf(buffer, <<Reads(HHU), Reads(HHU)>>)
<1>1. head.n = 2 /\ head.vals = <<buffer[1], 0>>
  BY UnpackHead
<1> HIDE DEF head
<1>2. ~(head.n < 0) /\ head.vals[2] = ipc_rsp_ok /\ ~(head.n + positive.n # head.vals[1])
  BY <1>1 DEF ipc_rsp_ok
<1>3. Verdict(head.vals[2], positive.vals) = [rsp |-> 0, vals |-> positive.vals]
  BY <1>1 DEF Verdict
<1> QED
  BY <1>2, <1>3 DEF Unpack, head

\* Nothing received is never a positive verdict.
LEMMA UnpackNothing ==
  ASSUME NEW positive
  PROVE  Unpack(<<>>, positive).rsp # 0
<1> DEFINE head == unpackf(<<>>, <<Reads(HHU), Reads(HHU)>>)
<1>1. head.n = -7
  BY UnpackHead
<1> HIDE DEF head
<1>2. Verdict(-7, <<>>).rsp # 0
  <2>1. ASSUME NEW x \in Int, x = -7 PROVE x % 256 # 0
    BY <2>1
  <2> QED
    BY <2>1 DEF Verdict
<1> QED
  BY <1>1, <1>2 DEF Unpack, head

\* What follows the header of an int or an errno.
LEMMA RestOfSix ==
  ASSUME NEW rsp \in Int, NEW v \in Int
  PROVE  Rest(<<6, rsp, v, 0, 0, 0>>) = <<v, 0, 0, 0>>
<1> DEFINE t == <<6, rsp, v, 0, 0, 0>>
           u == SubSeq(t, 3, 6)
<1>1. t[3] = v /\ t[4] = 0 /\ t[5] = 0 /\ t[6] = 0 /\ Len(t) = 6
  OBVIOUS
<1> HIDE DEF t
<1>2. \A i \in 3 .. 6 : t[i] \in Int
  BY <1>1
<1>3. u \in Seq(Int) /\ Len(u) = 4 /\ \A i \in 1 .. 4 : u[i] = t[3 + i - 1]
  BY <1>2, SubSeqProperties
<1>4. u = Rest(t)
  BY <1>1 DEF Rest
<1> HIDE DEF u
<1>5. u[1] = v /\ u[2] = 0 /\ u[3] = 0 /\ u[4] = 0
  BY <1>1, <1>3
<1>6. u = [i \in 1 .. 4 |-> u[i]]
  BY <1>3
<1>7. [i \in 1 .. 4 |-> u[i]] = <<v, 0, 0, 0>>
  BY <1>5
<1> QED
  BY <1>4, <1>6, <1>7 DEF t

\* Such an int, read.
LEMMA UnpackFour ==
  ASSUME NEW v \in Int
  PROVE  unpackf(<<v, 0, 0, 0>>, <<Reads(D)>>) = [n |-> 4, vals |-> <<v>>]
<1> DEFINE b == <<v, 0, 0, 0>>
<1>1. b[1] = v /\ b[2] = 0 /\ b[3] = 0 /\ b[4] = 0 /\ Len(b) = 4
  OBVIOUS
<1> HIDE DEF b
<1>2. \A i \in 1 .. 4 : b[i] \in Int
  BY <1>1
<1>3. IntOf(b) = v
  BY <1>1 DEF IntOf
<1>4. unpackf(b, <<Reads(D)>>) = [n |-> 4, vals |-> <<v>>]
  <2>1. Len(b) >= 4 /\ Len(b) \in Nat
    BY <1>1
  <2>2. unpackf(b, <<Reads(D)>>) =
          [n |-> 4, vals |-> <<IntOf(b)>>]
    BY <1>2, <2>1, UnpackInt, Zenon
  <2> QED
    BY <1>3, <2>2
<1> QED
  BY <1>4 DEF b

\* An errno after a negative verdict, whatever a positive one would be followed by.
LEMMA UnpackNegative ==
  ASSUME NEW e \in Int, NEW positive
  PROVE  Unpack(<<6, 1, e, 0, 0, 0>>, positive) = [rsp |-> 1, vals |-> <<e>>]
<1> DEFINE b == <<6, 1, e, 0, 0, 0>>
           head == unpackf(b, <<Reads(HHU), Reads(HHU)>>)
           body == unpackf(Rest(b), <<Reads(D)>>)
<1>1. Len(b) = 6 /\ b[1] = 6 /\ b[2] = 1
  OBVIOUS
<1>2. body = [n |-> 4, vals |-> <<e>>]
  BY RestOfSix, UnpackFour
<1> HIDE DEF b
<1>3. head.n = 2 /\ head.vals = <<6, 1>>
  BY <1>1, UnpackHead, SMTT(30)
<1> HIDE DEF head, body
<1>4. ~(head.n < 0) /\ head.vals[2] # ipc_rsp_ok /\ ~(head.n + body.n # head.vals[1])
  BY <1>2, <1>3 DEF ipc_rsp_ok
<1>5. Verdict(head.vals[2], body.vals) = [rsp |-> 1, vals |-> <<e>>]
  BY <1>2, <1>3 DEF Verdict
<1> QED
  BY <1>4, <1>5, Zenon DEF Unpack, head, body, b

\* What is read after the header of a matrix.
LEMMA RestOfMatrix ==
  ASSUME NEW n \in 1 .. 16, NEW m \in [1 .. 2 * n -> 0 .. 255], NEW b,
         b = <<3 + 2 * n, 0, n>> \o m
  PROVE  /\ Len(b) = 3 + 2 * n /\ b[1] = 3 + 2 * n /\ b[2] = 0
         /\ Rest(b) \in Seq(Int) /\ Len(Rest(b)) = 1 + 2 * n /\ Rest(b)[1] = n
         /\ Tail(Rest(b)) = m
<1>1. m \in Seq(Int) /\ Len(m) = 2 * n /\ <<3 + 2 * n, 0, n>> \in Seq(Int)
  <2>1. m = [i \in 1 .. 2 * n |-> m[i]]
    OBVIOUS
  <2>2. ASSUME NEW i \in 1 .. 2 * n PROVE m[i] \in Int
    <3>1. m[i] \in 0 .. 255
      OBVIOUS
    <3>2. 0 .. 255 \subseteq Int
      OBVIOUS
    <3> QED
      BY <3>1, <3>2, Zenon
  <2> QED
    BY <2>1, <2>2
<1>2. /\ b \in Seq(Int) /\ Len(b) = 3 + 2 * n /\ b[1] = 3 + 2 * n /\ b[2] = 0 /\ b[3] = n
      /\ \A i \in 1 .. 2 * n : b[i + 3] = m[i]
  BY <1>1, ConcatProperties
<1> DEFINE r == Rest(b)
           k == Len(b)
<1>3. /\ r \in Seq(Int) /\ Len(r) = 1 + 2 * n
      /\ \A i \in 1 .. 1 + 2 * n : r[i] = b[i + 2]
  <2>1. 3 \in Int /\ k \in Int /\ (\A i \in 3 .. k : b[i] \in Int)
    BY <1>2, ElementOfSeq
  <2>2. /\ r \in Seq(Int) /\ Len(r) = (IF 3 <= k THEN k - 3 + 1 ELSE 0)
        /\ \A i \in 1 .. k - 3 + 1 : r[i] = b[3 + i - 1]
    <3> HIDE DEF k
    <3> QED
      BY <2>1, SubSeqProperties DEF Rest, k
  <2>3. k - 3 + 1 = 1 + 2 * n /\ 3 <= k
    BY <1>2
  <2>4. \A i \in 1 .. 1 + 2 * n : 3 + i - 1 = i + 2
    OBVIOUS
  <2> QED
    BY <2>2, <2>3, <2>4
<1> HIDE DEF r
<1>4. /\ Tail(r) \in Seq(Int) /\ Len(Tail(r)) = 2 * n
      /\ \A i \in 1 .. 2 * n : Tail(r)[i] = r[i + 1]
  <2>1. r # <<>> /\ Len(r) - 1 = 2 * n
    BY <1>3
  <2> QED
    BY <1>3, <2>1, HeadTailProperties
<1>5. \A i \in 1 .. 2 * n : Tail(r)[i] = m[i]
  <2> SUFFICES ASSUME NEW i \in 1 .. 2 * n PROVE Tail(r)[i] = m[i]
    OBVIOUS
  <2>1. Tail(r)[i] = r[i + 1]
    BY <1>4
  <2>2. i + 1 \in 1 .. 1 + 2 * n /\ (i + 1) + 2 = i + 3
    OBVIOUS
  <2>3. r[i + 1] = b[i + 3]
    BY <1>3, <2>2
  <2> QED
    BY <1>2, <2>1, <2>3
<1>6. Tail(r) = m
  BY <1>1, <1>4, <1>5, SeqEqual
<1>7. r[1] = n
  BY <1>2, <1>3
<1> QED
  BY <1>2, <1>3, <1>6, <1>7 DEF r

\* The length and the verdict of a packed matrix.
LEMMA MatrixBytes ==
  ASSUME NEW n \in 1 .. 16, NEW m \in [1 .. 2 * n -> 0 .. 255]
  PROVE  LET b == <<3 + 2 * n, 0, n>> \o m IN Len(b) = 3 + 2 * n /\ b[2] = 0
<1> DEFINE b == <<3 + 2 * n, 0, n>> \o m
           r == Rest(b)
<1>1. /\ Len(b) = 3 + 2 * n /\ b[1] = 3 + 2 * n /\ b[2] = 0
      /\ r \in Seq(Int) /\ Len(r) = 1 + 2 * n /\ r[1] = n
      /\ Tail(r) = m
  BY RestOfMatrix, ZenonT(60)
<1> QED
  BY <1>1, Zenon

\* What fanctl makes of each answer.
LEMMA IntTrip ==
  ASSUME NEW v \in 0 .. 255
  PROVE  /\ pack_int(v) = [n |-> 6, bytes |-> <<6, 0, v, 0, 0, 0>>]
         /\ unpack_int(<<6, 0, v, 0, 0, 0>>) = [rsp |-> 0, vals |-> <<v>>]
<1>1. pack_int(v) = [n |-> 6, bytes |-> <<6, 0, v, 0, 0, 0>>]
  <2>1. 0 \in 0 .. 255
    OBVIOUS
  <2> QED
    BY <2>1, PackHeaderInt, Zenon DEF pack_int, ipc_rsp_ok
<1> DEFINE b == <<6, 0, v, 0, 0, 0>>
<1>2. Len(b) = 6 /\ b[1] = 2 + 4 /\ b[2] = 0
  OBVIOUS
<1>3. unpackf(Rest(b), <<Reads(D)>>) = [n |-> 4, vals |-> <<v>>]
  BY RestOfSix, UnpackFour
<1> HIDE DEF b
<1> DEFINE p == unpackf(Rest(b), <<Reads(D)>>)
<1>4. p.n = 4 /\ p.vals = <<v>>
  BY <1>3
<1> HIDE DEF p
<1>5. Unpack(b, p) = [rsp |-> 0, vals |-> <<v>>]
  <2>1. Len(b) \in Nat /\ Len(b) > 1 /\ b[1] \in Int /\ p.n \in Nat /\ b[1] = 2 + p.n
    BY <1>2, <1>4
  <2>2. Unpack(b, p) = [rsp |-> 0, vals |-> p.vals]
    BY <1>2, <2>1, UnpackPositive
  <2> QED
    BY <1>4, <2>2
<1> QED
  BY <1>1, <1>5 DEF unpack_int, b, p

\* An errno: whatever was asked for, it is taken for an error.
LEMMA ErrorTrip ==
  ASSUME NEW e \in 0 .. 255
  PROVE  /\ pack_error(e) = [n |-> 6, bytes |-> <<6, 1, e, 0, 0, 0>>]
         /\ unpack_int(<<6, 1, e, 0, 0, 0>>).rsp = 1
         /\ unpack_matrix(<<6, 1, e, 0, 0, 0>>).rsp = 1
         /\ unpack_exit_rsp(<<6, 1, e, 0, 0, 0>>).rsp = 1
<1>1. pack_error(e) = [n |-> 6, bytes |-> <<6, 1, e, 0, 0, 0>>]
  <2>1. 1 \in 0 .. 255
    OBVIOUS
  <2> QED
    BY <2>1, PackHeaderInt, Zenon DEF pack_error, ipc_rsp_err
<1> DEFINE b == <<6, 1, e, 0, 0, 0>>
<1>2. ASSUME NEW positive PROVE Unpack(b, positive).rsp = 1
  <2>1. e \in Int
    OBVIOUS
  <2>2. Unpack(b, positive) = [rsp |-> 1, vals |-> <<e>>]
    BY <2>1, UnpackNegative, Zenon
  <2> QED
    BY <2>2
<1> HIDE DEF b
<1>3. unpack_int(b).rsp = 1 /\ unpack_matrix(b).rsp = 1 /\ unpack_exit_rsp(b).rsp = 1
  <2>1. unpack_int(b).rsp = 1
    BY <1>2 DEF unpack_int
  <2>2. unpack_matrix(b).rsp = 1
    BY <1>2 DEF unpack_matrix
  <2>3. unpack_exit_rsp(b).rsp = 1
    BY <1>2 DEF unpack_exit_rsp
  <2> QED
    BY <2>1, <2>2, <2>3
<1> QED
  BY <1>1, <1>3 DEF b

\* A positive answer to an exit request is understood.
LEMMA ExitTrip == unpack_exit_rsp(<<2, 0>>).rsp = 0
<1> DEFINE b == <<2, 0>>
<1>1. Len(b) = 2 /\ b[1] = 2 + 0 /\ b[2] = 0
  OBVIOUS
<1> HIDE DEF b
<1> DEFINE p == [n |-> 0, vals |-> <<>>]
<1>2. p.n = 0
  OBVIOUS
<1> HIDE DEF p
<1>3. Unpack(b, p) = [rsp |-> 0, vals |-> p.vals]
  BY <1>1, <1>2, UnpackPositive
<1> QED
  BY <1>3 DEF unpack_exit_rsp, b, p

\* No request is granted by an empty answer (serialize.c:493-543).
LEMMA NothingTrip ==
  unpack_int(<<>>).rsp # 0 /\ unpack_matrix(<<>>).rsp # 0 /\ unpack_exit_rsp(<<>>).rsp # 0
  BY UnpackNothing, Zenon DEF unpack_int, unpack_matrix, unpack_exit_rsp

\* A packed matrix is understood, whatever the number of its rows.
LEMMA MatrixTrip ==
  ASSUME NEW n \in 1 .. 16, NEW m \in [1 .. 2 * n -> 0 .. 255]
  PROVE  unpack_matrix(<<3 + 2 * n, 0, n>> \o m) = [rsp |-> 0, vals |-> <<n>> \o m]
<1> DEFINE b == <<3 + 2 * n, 0, n>> \o m
           r == Rest(b)
           rows == unpackf(r, <<Reads(HHU)>>)
           x == ReadsMany(HHU, 2 * n)
           cells == unpackf(Tail(r), <<x>>)
<1>1. /\ Len(b) = 3 + 2 * n /\ b[1] = 3 + 2 * n /\ b[2] = 0
      /\ r \in Seq(Int) /\ Len(r) = 1 + 2 * n /\ r[1] = n
      /\ Tail(r) = m
  BY RestOfMatrix, ZenonT(60)
<1> HIDE DEF b, r
<1>2. rows = [n |-> 1, vals |-> <<n>>]
  <2>1. Len(r) \in Nat /\ Len(r) >= 1 /\ r[1] \in Int
    BY <1>1
  <2> QED
    BY <1>1, <2>1, UnpackByte
<1>3. cells = [n |-> 2 * n, vals |-> m]
  <2>1. x.conversion = HHU /\ x.nrepeat = 2 * n
    BY Directives
  <2>2. m \in Seq(0 .. 255) /\ Len(m) = 2 * n /\ 2 * n \in Nat \ {0}
    OBVIOUS
  <2>3. \A i \in 1 .. 2 * n : m[i] \in Int
    <3>1. \A i \in 1 .. 2 * n : m[i] \in 0 .. 255
      OBVIOUS
    <3>2. 0 .. 255 \subseteq Int
      OBVIOUS
    <3> QED
      BY <3>1, <3>2, Zenon
  <2> HIDE DEF x
  <2>4. unpackf(m, <<x>>) = [n |-> 2 * n, vals |-> [i \in 1 .. 2 * n |-> m[i]]]
    BY <2>1, <2>2, <2>3, UnpackBytes
  <2>5. [i \in 1 .. 2 * n |-> m[i]] = m
    OBVIOUS
  <2> QED
    BY <1>1, <2>4, <2>5
<1> DEFINE Cells(h) == unpackf(Tail(Rest(b)), <<ReadsMany(HHU, 2 * h.vals[1])>>)
           Both(h, t) == [n |-> h.n + t.n, vals |-> h.vals \o t.vals]
           body == IF rows.n < 0 THEN rows ELSE Both(rows, Cells(rows))
<1>4. Cells(rows) = cells
  <2>1. rows.vals[1] = n
    BY <1>2
  <2> QED
    BY <2>1 DEF r
<1>5. unpack_matrix(b) = Unpack(b, body)
  BY Zenon DEF unpack_matrix, r
<1>6. body.n = 1 + 2 * n /\ body.vals = <<n>> \o m
  <2> HIDE DEF Cells, rows, cells
  <2>1. rows.n = 1 /\ rows.vals = <<n>> /\ cells.n = 2 * n /\ cells.vals = m /\ ~(rows.n < 0)
    BY <1>2, <1>3
  <2>2. body = [n |-> rows.n + cells.n, vals |-> rows.vals \o cells.vals]
    BY <1>4, <2>1, Zenon
  <2> HIDE DEF body
  <2>3. body.n = rows.n + cells.n /\ body.vals = rows.vals \o cells.vals
    BY <2>2
  <2> QED
    BY <2>1, <2>3, Zenon
<1> HIDE DEF body
<1>7. Unpack(b, body) = [rsp |-> 0, vals |-> body.vals]
  <2>1. Len(b) \in Nat /\ Len(b) > 1 /\ b[1] \in Int /\ body.n \in Nat /\ b[1] = 2 + body.n
    BY <1>1, <1>6
  <2> QED
    BY <1>1, <2>1, UnpackPositive
<1> QED
  BY <1>5, <1>6, <1>7, Zenon DEF b

\* What the daemon packs is what fanctl unpacks: every reading, every matrix that the
\* daemon can hold and the confirmation of an exit arrive as they were sent, an error as
\* an error, whatever was asked for, and nothing is not taken for an answer
\* (serialize.c:442-543).
THEOREM RoundTrip ==
  /\ \A v \in 0 .. 255 : unpack_int(pack_int(v).bytes) = Verdict(ipc_rsp_ok, <<v>>)
  /\ \A n \in 1 .. 16 : \A m \in [1 .. 2 * n -> 0 .. 255] :
       unpack_matrix(pack_matrix(m).bytes) = Verdict(ipc_rsp_ok, <<n>> \o m)
  /\ unpack_exit_rsp(pack_exit_rsp.bytes).rsp = ipc_rsp_ok
  /\ \A e \in 0 .. 255 : LET bytes == pack_error(e).bytes
                         IN  /\ unpack_int(bytes).rsp = ipc_rsp_err
                             /\ unpack_matrix(bytes).rsp = ipc_rsp_err
                             /\ unpack_exit_rsp(bytes).rsp = ipc_rsp_err
  /\ ipc_rsp_ok \notin {unpack_int(<<>>).rsp, unpack_matrix(<<>>).rsp, unpack_exit_rsp(<<>>).rsp}
<1>1. ASSUME NEW vals PROVE Verdict(ipc_rsp_ok, vals) = [rsp |-> 0, vals |-> vals]
  BY DEF Verdict, ipc_rsp_ok
<1>2. ASSUME NEW v \in 0 .. 255 PROVE unpack_int(pack_int(v).bytes) = Verdict(ipc_rsp_ok, <<v>>)
  <2>1. pack_int(v).bytes = <<6, 0, v, 0, 0, 0>>
    <3>1. pack_int(v) = [n |-> 6, bytes |-> <<6, 0, v, 0, 0, 0>>]
      BY IntTrip, Zenon
    <3> QED
      BY <3>1
  <2> QED
    BY <1>1, <2>1, IntTrip, ZenonT(30)
<1>3. ASSUME NEW n \in 1 .. 16, NEW m \in [1 .. 2 * n -> 0 .. 255]
      PROVE  unpack_matrix(pack_matrix(m).bytes) = Verdict(ipc_rsp_ok, <<n>> \o m)
  <2> DEFINE b == <<3 + 2 * n, 0, n>> \o m
  <2>1. pack_matrix(m) = [n |-> 3 + 2 * n, bytes |-> b]
    BY PackMatrix, ZenonT(30)
  <2>2. unpack_matrix(b) = [rsp |-> 0, vals |-> <<n>> \o m]
    BY MatrixTrip, ZenonT(30)
  <2> HIDE DEF b
  <2>3. pack_matrix(m).bytes = b
    BY <2>1
  <2> QED
    BY <1>1, <2>2, <2>3, ZenonT(30)
<1>4. unpack_exit_rsp(pack_exit_rsp.bytes).rsp = ipc_rsp_ok
  <2>1. pack_exit_rsp.bytes = <<2, 0>>
    BY PackExit
  <2> QED
    BY <2>1, ExitTrip DEF ipc_rsp_ok
<1>5. ASSUME NEW e \in 0 .. 255
      PROVE  /\ unpack_int(pack_error(e).bytes).rsp = ipc_rsp_err
             /\ unpack_matrix(pack_error(e).bytes).rsp = ipc_rsp_err
             /\ unpack_exit_rsp(pack_error(e).bytes).rsp = ipc_rsp_err
  <2>1. pack_error(e).bytes = <<6, 1, e, 0, 0, 0>>
    <3>1. pack_error(e) = [n |-> 6, bytes |-> <<6, 1, e, 0, 0, 0>>]
      BY ErrorTrip, Zenon
    <3> QED
      BY <3>1
  <2> QED
    BY <2>1, ErrorTrip, ZenonT(30) DEF ipc_rsp_err
<1> QED
  BY <1>2, <1>3, <1>4, <1>5, NothingTrip, ZenonT(30) DEF ipc_rsp_ok
=============================================================================
