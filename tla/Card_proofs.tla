----------------------------- MODULE Card_proofs -----------------------------
(***************************************************************************)
(* Proofs about Card, for any cards and numberings, any number of          *)
(* instances, and any number of changes, failed writes and crashes.        *)
(***************************************************************************)
EXTENDS Card, Lifecycle_proofs

------------------------------------------------------------------------------
(* The life cycle *)

\* Every step of Card is a step of Lifecycle, or one that Lifecycle does not see.
LEMMA CardNextIsNext ==
  ASSUME [CardNext]_allVars
  PROVE  [Next]_vars
<1>1. ASSUME NEW p \in Procs, CardStep(p) PROVE [Next]_vars
  <2>1. CASE CacheLoad(p)
    BY <2>1 DEF CacheLoad
  <2>2. CASE Detect(p)
    BY <2>2 DEF Detect, GivesUp, Next, Step
  <2>3. CASE CacheWrite(p)
    BY <2>3 DEF CacheWrite, GivesUp, Next, Step
  <2>4. CASE OpenEnable(p)
    BY <2>4 DEF OpenEnable, Next, Step
  <2>5. CASE OpenSensor(p)
    BY <2>5 DEF OpenSensor, Next, Step
  <2>6. CASE OtherStep(p)
    BY <2>6 DEF Next, Step
  <2> QED BY <1>1, <2>1, <2>2, <2>3, <2>4, <2>5, <2>6 DEF CardStep
<1>2. ASSUME NEW p \in Procs, NewProcess(p) \/ PowerOff(p) \/ Stop(p) \/ Restart(p)
      PROVE  [Next]_vars
  BY <1>2 DEF NewProcess, PowerOff, Next
<1>3. ASSUME NEW m \in Machines, Change(m) PROVE [Next]_vars
  BY <1>3 DEF Change
<1>4. CASE UNCHANGED allVars
  BY <1>4 DEF allVars
<1> QED BY <1>1, <1>2, <1>3, <1>4 DEF CardNext, Next

\* The daemon with its cache lives the life that Lifecycle describes: whatever is
\* proved there holds here (daemon.c:104-153, 174-201).
THEOREM CardLivesLifecycle == CardSpec => Spec
<1>1. CardInit => Init
  BY DEF CardInit
<1> QED BY <1>1, CardNextIsNext, PTL DEF CardSpec, Spec

------------------------------------------------------------------------------
(* The invariant *)

\* Paths into one directory, and an index that its card has had.
SoundFields(f) == /\ f[1] = f[2] /\ f[3] = f[2]
                  /\ f[2] # Nowhere => f[2][1] \in Cards /\ f[4] \in places[f[2][1]]

\* hwmon_open is under way only in its stage.
StepInv == \A p \in Procs : step[p] # "load" => pc[p] = "open"

\* The checksum in the file was taken over sound fields, whatever has become of these.
SumInv == cache[5] # None => SoundFields(cache[5])

\* Fields that were detected, or loaded and validated, are sound; the directory of a
\* card in use is there.
MemoryInv ==
  /\ DOMAIN memory = Procs
  /\ \A p \in Procs : step[p] \in {"write", "open"} => SoundFields(memory[p])
  /\ \A p \in Procs : HasCard(p) => SoundFields(memory[p]) /\ Exists(memory[p][2])

\* A card that is there has had the index it has.
PlacesInv == \A c \in Cards : IndicesOf(machine, c) \subseteq places[c]

\* The inductive invariant.
CardInv == IInv /\ CardTypeOK /\ StepInv /\ SumInv /\ MemoryInv /\ PlacesInv

\* What the other steps of the life cycle have to do with the card: nobody comes to
\* use it and nobody is in hwmon_open.
LEMMA QuietSteps ==
  ASSUME IInv, NEW p \in Procs, OtherStep(p) \/ DrmOpen(p) \/ Stop(p) \/ Restart(p)
  PROVE  /\ pc[p] # "open" /\ \A q \in Procs : q # p => pc'[q] = pc[q]
         /\ \A q \in Procs : HasCard(q)' => HasCard(q)
<1> USE DEF IInv, TypeOK, LockInv, HasCard, At, Goto, Fail, MayFail, files, card, rest,
            Stages, InitStages, FreeStages
<1>1. CASE Mkdir(p)
  BY <1>1 DEF Mkdir
<1>2. CASE PidfileWrite(p)
  BY <1>2 DEF PidfileWrite
<1>3. CASE Chdir(p)
  BY <1>3 DEF Chdir
<1>4. CASE Bind(p)
  BY <1>4 DEF Bind
<1>5. CASE Listen(p)
  BY <1>5 DEF Listen
<1>6. CASE Flock(p)
  BY <1>6 DEF Flock
<1>7. CASE SetManual(p)
  BY <1>7 DEF SetManual
<1>8. CASE DrmOpen(p)
  BY <1>8 DEF DrmOpen
<1>9. CASE ServerKill(p)
  BY <1>9 DEF ServerKill
<1>10. CASE PidfileUnlink(p)
  BY <1>10 DEF PidfileUnlink
<1>11. CASE Rmdir(p)
  BY <1>11 DEF Rmdir
<1>12. CASE Release(p)
  BY <1>12 DEF Release
<1>13. CASE Unlock(p)
  BY <1>13 DEF Unlock, Return
<1>14. CASE Stop(p)
  BY <1>14 DEF Stop
<1>15. CASE Restart(p)
  BY <1>15 DEF Restart
<1> QED BY <1>1, <1>2, <1>3, <1>4, <1>5, <1>6, <1>7, <1>8,
           <1>9, <1>10, <1>11, <1>12, <1>13, <1>14, <1>15 DEF OtherStep

\* A step that leaves the card's variables alone keeps the invariant.
LEMMA QuietKeeps ==
  ASSUME CardInv, IInv', UNCHANGED cardVars,
         \A q \in Procs : step[q] # "load" => pc'[q] = "open",
         \A q \in Procs : HasCard(q)' => HasCard(q)
  PROVE  CardInv'
<1>1. UNCHANGED <<machine, cache, memory, step, changes, tears, places>>
  BY DEF cardVars
<1>2. TypeOK'
  BY DEF IInv
<1>3. CardTypeOK'
  BY <1>1, <1>2 DEF CardInv, CardTypeOK
<1>4. StepInv' /\ PlacesInv' /\ SumInv'
  BY <1>1 DEF CardInv, StepInv, SumInv, PlacesInv, SoundFields, IndicesOf
<1>5. MemoryInv'
  <2>1. ASSUME NEW q \in Procs, HasCard(q)'
        PROVE  SoundFields(memory[q])' /\ Exists(memory[q][2])'
    BY <1>1, <2>1 DEF CardInv, MemoryInv, SoundFields, Exists, IndicesOf
  <2> QED BY <1>1, <2>1 DEF CardInv, MemoryInv, SoundFields
<1> QED BY <1>3, <1>4, <1>5 DEF CardInv

\* What a checksum that is right says of the fields.
LEMMA ValidIsSound ==
  ASSUME SumInv, Whole(cache), Valid(cache)
  PROVE  SoundFields(cache) /\ Exists(cache[2])
<1>1. cache[5] = <<cache[1], cache[2], cache[3], cache[4]>> /\ cache[5] # None
      /\ Exists(cache[2])
  BY DEF Whole, Valid, Digest, Field
<1>2. SoundFields(cache[5])
  BY <1>1 DEF SumInv
<1> QED BY <1>1, <1>2 DEF SoundFields

\* hwmon_open gives up: nobody comes to use the card.
LEMMA GivesUpFacts ==
  ASSUME IInv, NEW p \in Procs, GivesUp(p)
  PROVE  /\ pc[p] = "open" /\ pc' = [pc EXCEPT ![p] = "server_kill"]
         /\ step' = [step EXCEPT ![p] = "load"]
         /\ \A q \in Procs : HasCard(q)' => HasCard(q) /\ q # p
<1>1. /\ pc[p] = "open" /\ pc' = [pc EXCEPT ![p] = "server_kill"] /\ fd' = fd /\ p \notin fd
      /\ step' = [step EXCEPT ![p] = "load"]
  BY DEF GivesUp, Then, HwmonOpen, At, Goto, MayFail, Fail
<1> QED BY <1>1 DEF HasCard, FreeStages, IInv, TypeOK

\* The cache is read.
LEMMA CacheLoadKeeps ==
  ASSUME CardInv, IInv', NEW p \in Procs, CacheLoad(p)
  PROVE  CardInv'
<1>1. /\ pc[p] = "open" /\ UNCHANGED <<pc, fd, machine, cache, changes, tears, places>>
      /\ step' = [step EXCEPT ![p] = IF Whole(cache) /\ Valid(cache) THEN "open" ELSE "detect"]
      /\ memory' = IF Whole(cache) THEN [memory EXCEPT ![p] = cache] ELSE memory
  BY DEF CacheLoad, Going, At, Then, vars, card
<1>2. /\ DOMAIN memory = Procs /\ DOMAIN memory' = Procs
      /\ step \in [Procs -> {"load", "detect", "write", "open"}]
      /\ \A q \in Procs : q # p => memory'[q] = memory[q] /\ step'[q] = step[q]
      /\ memory'[p] = IF Whole(cache) THEN cache ELSE memory[p]
      /\ step'[p] \in {"detect", "open"}
      /\ step'[p] = "open" => Whole(cache) /\ Valid(cache)
  BY <1>1 DEF CardInv, MemoryInv, CardTypeOK
<1>3. CardTypeOK'
  <2>1. /\ memory'[p][4] \in Idx /\ \A i \in 1 .. 3 : memory'[p][i] \in Dirs \cup {Nowhere}
    BY <1>2 DEF CardInv, CardTypeOK, Whole, Field
  <2>2. step' \in [Procs -> {"load", "detect", "write", "open"}]
    BY <1>1, <1>2
  <2> QED BY <1>1, <1>2, <2>1, <2>2 DEF CardInv, CardTypeOK, IInv
<1>4. StepInv' /\ SumInv' /\ PlacesInv'
  BY <1>1, <1>2 DEF CardInv, StepInv, SumInv, PlacesInv, SoundFields, IndicesOf
<1>5. \A q \in Procs : HasCard(q)' => HasCard(q) /\ q # p
  BY <1>1 DEF HasCard, FreeStages, CardInv, IInv, TypeOK
<1>6. \A q \in Procs : step'[q] \in {"write", "open"} => SoundFields(memory'[q])
  BY <1>2, ValidIsSound DEF CardInv, MemoryInv
<1>7. MemoryInv'
  BY <1>1, <1>2, <1>5, <1>6 DEF CardInv, MemoryInv, SoundFields, Exists, IndicesOf
<1> QED BY <1>3, <1>4, <1>7 DEF CardInv

\* What is written over the file.
LEMMA WrittenFacts ==
  ASSUME CardInv, NEW f, f[4] \in Idx, \A i \in 1 .. 3 : f[i] \in Dirs \cup {Nowhere},
         SoundFields(f), NEW n \in 0 .. 5
  PROVE  LET w == Written(Packed(f), n)
         IN  /\ w[4] \in Idx \cup {None} /\ \A i \in 1 .. 3 : w[i] \in Dirs \cup {Nowhere, None}
             /\ w[5] # None => SoundFields(w[5])
<1> DEFINE w == Written(Packed(f), n)
<1>1. /\ w[4] \in {f[4], cache[4]} /\ \A i \in 1 .. 3 : w[i] \in {f[i], cache[i]}
      /\ w[5] \in {<<f[1], f[2], f[3], f[4]>>, cache[5]}
  BY DEF Written, Packed, Digest, Field
<1>2. SoundFields(<<f[1], f[2], f[3], f[4]>>)
  BY DEF SoundFields
<1> HIDE DEF w
<1>3. w[4] \in Idx \cup {None} /\ \A i \in 1 .. 3 : w[i] \in Dirs \cup {Nowhere, None}
  BY <1>1 DEF CardInv, CardTypeOK
<1>4. w[5] # None => SoundFields(w[5])
  BY <1>1, <1>2 DEF CardInv, SumInv
<1> QED BY <1>3, <1>4 DEF w

\* The cache is written, in full or in part.
LEMMA CacheWriteKeeps ==
  ASSUME CardInv, IInv', NEW p \in Procs, CacheWrite(p)
  PROVE  CardInv'
<1>1. /\ pc[p] = "open" /\ step[p] = "write"
      /\ \E n \in 0 .. 5 : cache' = Written(Packed(memory[p]), n)
      /\ UNCHANGED <<machine, memory, changes, places>>
  BY DEF CacheWrite, Going, At
<1>2. /\ cache'[4] \in Idx \cup {None}
      /\ \A i \in 1 .. 3 : cache'[i] \in Dirs \cup {Nowhere, None}
      /\ cache'[5] # None => SoundFields(cache'[5])
  BY <1>1, WrittenFacts DEF CardInv, CardTypeOK, MemoryInv
<1>3. /\ \A q \in Procs : HasCard(q)' => HasCard(q)
      /\ \A q \in Procs : step'[q] # "load" => pc'[q] = "open"
      /\ step' \in [Procs -> {"load", "detect", "write", "open"}]
      /\ \A q \in Procs : step'[q] \in {"write", "open"} => step[q] \in {"write", "open"}
      /\ tears' \in 0 .. MaxTears
  <2>1. CASE Then(p, "open") /\ UNCHANGED <<vars, tears>>
    <3>1. UNCHANGED <<pc, fd, tears>> /\ step' = [step EXCEPT ![p] = "open"]
      BY <2>1 DEF vars, card, Then
    <3> QED BY <1>1, <3>1 DEF CardInv, CardTypeOK, StepInv, HasCard
  <2>2. CASE GivesUp(p) /\ tears < MaxTears /\ tears' = tears + 1
    <3>1. tears' \in 0 .. MaxTears
      BY <2>2, BoundsAssumption DEF CardInv, CardTypeOK
    <3>2. pc[p] = "open" /\ pc' = [pc EXCEPT ![p] = "server_kill"]
          /\ step' = [step EXCEPT ![p] = "load"]
          /\ \A q \in Procs : HasCard(q)' => HasCard(q)
      BY <2>2, GivesUpFacts DEF CardInv
    <3> QED BY <3>1, <3>2 DEF CardInv, CardTypeOK, IInv, TypeOK, StepInv
  <2> QED BY <2>1, <2>2 DEF CacheWrite
<1>4. CardTypeOK'
  BY <1>1, <1>2, <1>3 DEF CardInv, CardTypeOK, IInv
<1>5. StepInv' /\ SumInv' /\ PlacesInv'
  BY <1>1, <1>2, <1>3 DEF CardInv, StepInv, SumInv, PlacesInv, SoundFields, IndicesOf
<1>6. MemoryInv'
  BY <1>1, <1>3 DEF CardInv, MemoryInv, SoundFields, Exists, IndicesOf
<1> QED BY <1>4, <1>5, <1>6 DEF CardInv

\* The fields that are found are sound.
LEMMA FoundFacts ==
  ASSUME CardInv, NEW p \in Procs, NEW i \in Detected
  PROVE  LET f == Found(p, i)
         IN  SoundFields(f) /\ f[4] \in Idx /\ \A k \in 1 .. 3 : f[k] \in Dirs \cup {Nowhere}
<1> DEFINE f == Found(p, i)
           c == machine.card[i]
<1>1. i \in Idx /\ c \in Cards /\ i \in IndicesOf(machine, c)
      /\ machine.hwmon[c] \in Nat \cup {None}
  BY MachinesAssumption DEF CardInv, CardTypeOK, Detected, IndicesOf, Machine
<1>2. f[1] = IfaceDir(c) /\ f[2] = IfaceDir(c) /\ f[3] = IfaceDir(c) /\ f[4] = i
  BY DEF Found, Field
<1> HIDE DEF f, c
<1>3. IfaceDir(c) = Nowhere \/ (IfaceDir(c) = <<c, machine.hwmon[c]>> /\ machine.hwmon[c] \in Nat)
  BY <1>1 DEF IfaceDir
<1>4. i \in places[c]
  BY <1>1 DEF CardInv, PlacesInv
<1>5. IfaceDir(c) \in Dirs \cup {Nowhere} /\ (IfaceDir(c) # Nowhere => IfaceDir(c)[1] = c)
  BY <1>1, <1>3 DEF Dirs
<1>6. SoundFields(f)
  BY <1>1, <1>2, <1>4, <1>5 DEF SoundFields
<1>7. \A k \in 1 .. 3 : f[k] \in Dirs \cup {Nowhere}
  BY <1>2, <1>5
<1> QED BY <1>1, <1>2, <1>6, <1>7 DEF f

\* The card is looked for.
LEMMA DetectKeeps ==
  ASSUME CardInv, IInv', NEW p \in Procs, Detect(p)
  PROVE  CardInv'
<1>1. CASE Detected = {} /\ GivesUp(p) /\ UNCHANGED memory
  <2>1. /\ pc[p] = "open" /\ pc' = [pc EXCEPT ![p] = "server_kill"]
        /\ step' = [step EXCEPT ![p] = "load"]
        /\ \A q \in Procs : HasCard(q)' => HasCard(q)
    BY <1>1, GivesUpFacts DEF CardInv
  <2>2. UNCHANGED <<machine, cache, memory, changes, tears, places>>
    BY <1>1 DEF Detect
  <2>3. CardTypeOK'
    BY <2>1, <2>2 DEF CardInv, CardTypeOK, IInv
  <2>4. StepInv' /\ SumInv' /\ PlacesInv'
    BY <2>1, <2>2 DEF CardInv, IInv, TypeOK, StepInv, SumInv, PlacesInv, SoundFields,
                      IndicesOf, CardTypeOK
  <2>5. MemoryInv'
    BY <2>1, <2>2 DEF CardInv, CardTypeOK, MemoryInv, SoundFields, Exists, IndicesOf
  <2> QED BY <2>3, <2>4, <2>5 DEF CardInv
<1>2. CASE \E i \in Detected : memory' = [memory EXCEPT ![p] = Found(p, i)]
              /\ Then(p, "write") /\ UNCHANGED vars
  <2>1. PICK i \in Detected : memory' = [memory EXCEPT ![p] = Found(p, i)]
    BY <1>2
  <2>2. /\ pc[p] = "open" /\ UNCHANGED <<pc, fd, machine, cache, changes, tears, places>>
        /\ step' = [step EXCEPT ![p] = "write"]
    BY <1>2 DEF Detect, Going, At, Then, vars, card
  <2>3. /\ DOMAIN memory' = Procs
        /\ \A q \in Procs : q # p => memory'[q] = memory[q] /\ step'[q] = step[q]
        /\ memory'[p] = Found(p, i) /\ step'[p] = "write"
        /\ step' \in [Procs -> {"load", "detect", "write", "open"}]
    BY <2>1, <2>2 DEF CardInv, MemoryInv, CardTypeOK
  <2>4. /\ SoundFields(memory'[p]) /\ memory'[p][4] \in Idx
        /\ \A k \in 1 .. 3 : memory'[p][k] \in Dirs \cup {Nowhere}
    BY <2>3, FoundFacts
  <2>5. CardTypeOK'
    BY <2>2, <2>3, <2>4 DEF CardInv, CardTypeOK, IInv
  <2>6. StepInv' /\ SumInv' /\ PlacesInv'
    BY <2>2, <2>3 DEF CardInv, StepInv, SumInv, PlacesInv, SoundFields, IndicesOf
  <2>7. \A q \in Procs : HasCard(q)' => HasCard(q) /\ q # p
    BY <2>2 DEF HasCard, FreeStages, CardInv, IInv, TypeOK
  <2>8. MemoryInv'
    BY <2>2, <2>3, <2>4, <2>7 DEF CardInv, MemoryInv, SoundFields, Exists, IndicesOf
  <2> QED BY <2>5, <2>6, <2>8 DEF CardInv
<1> QED BY <1>1, <1>2 DEF Detect

\* The control file is opened.
LEMMA OpenEnableKeeps ==
  ASSUME CardInv, IInv', NEW p \in Procs, OpenEnable(p)
  PROVE  CardInv'
<1>1. /\ pc[p] = "open" /\ step[p] = "open" /\ step' = [step EXCEPT ![p] = "load"]
      /\ UNCHANGED <<machine, cache, memory, changes, tears, places>>
      /\ p \in fd' <=> Exists(memory[p][2])
  BY DEF OpenEnable, Going, At, Then
<1>2. \/ pc' = [pc EXCEPT ![p] = "flock"] /\ p \in fd' /\ fd' = fd \cup {p}
      \/ pc' = [pc EXCEPT ![p] = "server_kill"] /\ fd' = fd
  BY DEF OpenEnable, HwmonOpen, Goto, MayFail, Fail
<1>3. p \notin fd /\ pc \in [Procs -> Stages]
  BY <1>1 DEF CardInv, IInv, TypeOK, FreeStages
<1>4. \A q \in Procs : HasCard(q)' => HasCard(q) \/ (q = p /\ Exists(memory[p][2]))
  BY <1>1, <1>2, <1>3 DEF HasCard, FreeStages
<1>5. SoundFields(memory[p])
  BY <1>1 DEF CardInv, MemoryInv
<1>6. CardTypeOK'
  BY <1>1 DEF CardInv, CardTypeOK, IInv
<1>7. StepInv' /\ SumInv' /\ PlacesInv'
  BY <1>1, <1>2, <1>3 DEF CardInv, CardTypeOK, StepInv, SumInv, PlacesInv, SoundFields,
                          IndicesOf
<1>8. MemoryInv'
  BY <1>1, <1>4, <1>5 DEF CardInv, CardTypeOK, MemoryInv, SoundFields, Exists, IndicesOf
<1> QED BY <1>6, <1>7, <1>8 DEF CardInv

\* A process begins.
LEMMA NewProcessKeeps ==
  ASSUME CardInv, IInv', NEW p \in Procs, NewProcess(p)
  PROVE  CardInv'
<1>1. /\ pc[p] = "off" /\ pc' = [pc EXCEPT ![p] = "mkdir"]
      /\ memory' = [memory EXCEPT ![p] = Nothing]
      /\ UNCHANGED <<fd, machine, cache, step, changes, tears, places>>
  BY DEF NewProcess, Start, At, Goto, card
<1>2. /\ DOMAIN memory' = Procs /\ memory'[p] = Nothing /\ step[p] = "load"
      /\ \A q \in Procs : q # p => memory'[q] = memory[q]
  BY <1>1 DEF CardInv, MemoryInv, StepInv
<1>3. Nothing[4] \in Idx /\ \A k \in 1 .. 3 : Nothing[k] \in Dirs \cup {Nowhere}
  BY MachinesAssumption DEF Nothing, Field
<1>4. CardTypeOK'
  BY <1>1, <1>2, <1>3 DEF CardInv, CardTypeOK, IInv
<1>5. StepInv' /\ SumInv' /\ PlacesInv'
  BY <1>1, <1>2 DEF CardInv, IInv, TypeOK, StepInv, SumInv, PlacesInv, SoundFields, IndicesOf
<1>6. \A q \in Procs : HasCard(q)' => HasCard(q) /\ q # p
  BY <1>1 DEF HasCard, FreeStages, CardInv, IInv, TypeOK
<1>7. MemoryInv'
  BY <1>1, <1>2, <1>6 DEF CardInv, MemoryInv, SoundFields, Exists, IndicesOf
<1> QED BY <1>4, <1>5, <1>7 DEF CardInv

\* A process ends, maybe while it writes.
LEMMA PowerOffKeeps ==
  ASSUME CardInv, IInv', NEW p \in Procs, PowerOff(p)
  PROVE  CardInv'
<1>1. /\ pc' = [pc EXCEPT ![p] = "off"] /\ fd' = fd \ {p}
      /\ step' = [step EXCEPT ![p] = "load"]
      /\ UNCHANGED <<machine, memory, changes, tears, places>>
  BY DEF PowerOff, Crash, Then
<1>2. /\ cache'[4] \in Idx \cup {None}
      /\ \A i \in 1 .. 3 : cache'[i] \in Dirs \cup {Nowhere, None}
      /\ cache'[5] # None => SoundFields(cache'[5])
  <2>1. CASE UNCHANGED cache
    BY <2>1 DEF CardInv, CardTypeOK, SumInv
  <2>2. CASE Going(p, "write") /\ \E n \in 1 .. 5 : cache' = Written(Packed(memory[p]), n)
    <3>1. SoundFields(memory[p])
      BY <2>2 DEF Going, CardInv, MemoryInv
    <3> QED BY <2>2, <3>1, WrittenFacts DEF CardInv, CardTypeOK
  <2> QED BY <2>1, <2>2 DEF PowerOff
<1>3. pc \in [Procs -> Stages]
  BY DEF CardInv, IInv, TypeOK
<1>4. \A q \in Procs : HasCard(q)' => HasCard(q)
  BY <1>1, <1>3 DEF HasCard, FreeStages
<1>5. CardTypeOK'
  BY <1>1, <1>2 DEF CardInv, CardTypeOK, IInv
<1>6. StepInv' /\ SumInv' /\ PlacesInv'
  BY <1>1, <1>2, <1>3 DEF CardInv, CardTypeOK, StepInv, SumInv, PlacesInv, SoundFields,
                          IndicesOf
<1>7. MemoryInv'
  BY <1>1, <1>4 DEF CardInv, CardTypeOK, MemoryInv, SoundFields, Exists, IndicesOf
<1> QED BY <1>5, <1>6, <1>7 DEF CardInv

\* The cards change while no daemon is up.
LEMMA ChangeKeeps ==
  ASSUME CardInv, IInv', NEW m \in Machines, Change(m)
  PROVE  CardInv'
<1>1. /\ \A q \in Procs : pc[q] = "off"
      /\ machine' = m /\ changes < MaxChanges /\ changes' = changes + 1
      /\ places' = [c \in Cards |-> places[c] \cup IndicesOf(m, c)]
      /\ UNCHANGED <<pc, fd, cache, memory, step, tears>>
  BY DEF Change, At, vars, card
<1>2. changes' \in 0 .. MaxChanges
  BY <1>1, BoundsAssumption DEF CardInv, CardTypeOK
<1>3. places' \in [Cards -> SUBSET Idx]
  BY <1>1 DEF CardInv, CardTypeOK, IndicesOf
<1>4. CardTypeOK'
  BY <1>1, <1>2, <1>3 DEF CardInv, CardTypeOK, IInv
<1>5. StepInv' /\ PlacesInv'
  BY <1>1 DEF CardInv, StepInv, PlacesInv, IndicesOf
<1>6. \A q \in Procs : ~HasCard(q)' /\ step'[q] = "load"
  BY <1>1 DEF HasCard, FreeStages, CardInv, StepInv
<1>7. MemoryInv'
  BY <1>1, <1>6 DEF CardInv, MemoryInv
<1>8. SumInv'
  BY <1>1 DEF CardInv, SumInv, SoundFields
<1> QED BY <1>4, <1>5, <1>7, <1>8 DEF CardInv

\* The invariant holds through every step of hwmon_open, drm_open and the rest of the
\* life cycle, and through every change of the cards.
THEOREM CardInvariance == CardSpec => []CardInv
<1>1. CardInit => CardInv
  <2> SUFFICES ASSUME CardInit PROVE CardInv
    OBVIOUS
  <2>1. Init
    BY DEF CardInit
  <2>2. IInv
    BY <2>1, InitInv
  <2>3. Nothing[4] \in Idx /\ \A k \in 1 .. 3 : Nothing[k] \in Dirs \cup {Nowhere}
    BY MachinesAssumption DEF Nothing, Field
  <2>4. /\ machine \in Machines /\ changes = 0 /\ tears = 0
        /\ \A i \in 1 .. 5 : cache[i] = None
        /\ DOMAIN memory = Procs /\ \A p \in Procs : memory[p] = Nothing
        /\ step \in [Procs -> {"load"}]
        /\ places = [c \in Cards |-> IndicesOf(machine, c)]
    BY DEF CardInit, Field
  <2>5. places \in [Cards -> SUBSET Idx]
    BY <2>4 DEF IndicesOf
  <2>6. CardTypeOK
    BY <2>2, <2>3, <2>4, <2>5, BoundsAssumption DEF IInv, CardTypeOK
  <2>7. \A p \in Procs : ~HasCard(p)
    BY <2>1 DEF Init, HasCard, FreeStages
  <2> QED BY <2>2, <2>4, <2>6, <2>7 DEF CardInv, StepInv, SumInv, MemoryInv, PlacesInv
<1>2. CardInv /\ [CardNext]_allVars => CardInv'
  <2> SUFFICES ASSUME CardInv, [CardNext]_allVars PROVE CardInv'
    OBVIOUS
  <2>1. IInv'
    BY CardNextIsNext, TypeStep, LockStep, ModeStep, FilesStep DEF CardInv, IInv
  <2>2. ASSUME NEW p \in Procs, CacheLoad(p) \/ Detect(p) \/ CacheWrite(p) \/ OpenEnable(p)
        PROVE  CardInv'
    BY <2>1, <2>2, CacheLoadKeeps, DetectKeeps, CacheWriteKeeps, OpenEnableKeeps
  <2>3. ASSUME NEW p \in Procs, OtherStep(p) \/ DrmOpen(p) \/ Stop(p) \/ Restart(p),
               UNCHANGED cardVars
        PROVE  CardInv'
    <3>1. /\ pc[p] # "open" /\ \A q \in Procs : q # p => pc'[q] = pc[q]
          /\ \A q \in Procs : HasCard(q)' => HasCard(q)
      BY <2>3, QuietSteps DEF CardInv
    <3>2. \A q \in Procs : step[q] # "load" => pc'[q] = "open"
      BY <3>1 DEF CardInv, StepInv
    <3> QED BY <2>1, <2>3, <3>1, <3>2, QuietKeeps
  <2>4. ASSUME NEW p \in Procs, NewProcess(p) \/ PowerOff(p) PROVE CardInv'
    BY <2>1, <2>4, NewProcessKeeps, PowerOffKeeps
  <2>5. ASSUME NEW m \in Machines, Change(m) PROVE CardInv'
    BY <2>1, <2>5, ChangeKeeps
  <2>6. CASE (OrphanExit /\ UNCHANGED cardVars) \/ UNCHANGED allVars
    <3>1. UNCHANGED <<pc, fd>> /\ UNCHANGED cardVars
      BY <2>6 DEF OrphanExit, allVars, vars, card
    <3>2. \A q \in Procs : HasCard(q)' => HasCard(q)
      BY <3>1 DEF HasCard
    <3>3. \A q \in Procs : step[q] # "load" => pc'[q] = "open"
      BY <3>1 DEF CardInv, StepInv
    <3> QED BY <2>1, <3>1, <3>2, <3>3, QuietKeeps
  <2>7. ASSUME NEW p \in Procs, CardStep(p) PROVE CardInv'
    BY <2>2, <2>3, <2>7 DEF CardStep, OpenSensor
  <2> QED BY <2>3, <2>4, <2>5, <2>6, <2>7 DEF CardNext
<1> QED BY <1>1, <1>2, PTL DEF CardSpec

\* Type correctness: nothing that a torn or short cache file lacks gets into memory
\* (cache.c:152-155).
THEOREM CardTypes == CardSpec => []CardTypeOK
BY CardInvariance, PTL DEF CardInv

\* No instance ever writes to the files of two cards, or of a card that is not there,
\* whatever became of the cache (cache.c:48-81, hwmon.c:131-158).
THEOREM OneCard == CardSpec => []FansOfOneCard
<1>1. CardInv => FansOfOneCard
  BY DEF CardInv, MemoryInv, SoundFields, FansOfOneCard
<1> QED BY <1>1, CardInvariance, PTL

\* The sensor is that of the card whose fans are driven, under the two conditions on
\* how cards are numbered (cache.c:96-99, drm.c:55).
THEOREM OneSensor == CardSpec => []SensorOfSameCard
<1>1. CardInv => SensorOfSameCard
  <2> SUFFICES ASSUME CardInv, NEW p \in Procs, pc[p] = "run", Regular(machine), Settled
               PROVE  RenderNode(memory[p][4]) = memory[p][2][1]
    BY DEF SensorOfSameCard
  <2> DEFINE f == memory[p]
  <2>1. SoundFields(f) /\ Exists(f[2])
    BY DEF CardInv, MemoryInv, HasCard
  <2>2. PICK c \in Cards : /\ IndicesOf(machine, c) # {} /\ machine.hwmon[c] # None
                           /\ f[2] = <<c, machine.hwmon[c]>>
    BY <2>1 DEF Exists
  <2>3. f[2][1] = c /\ f[2] # Nowhere
    BY <2>2, MachinesAssumption DEF Nowhere
  <2>4. f[4] \in places[c]
    BY <2>1, <2>3 DEF SoundFields
  <2>5. PICK i \in Idx : machine.card[i] = c
    BY <2>2 DEF IndicesOf
  <2>6. i \in places[c]
    BY <2>5 DEF CardInv, PlacesInv, IndicesOf
  <2>7. f[4] = i
    BY <2>4, <2>6 DEF Settled
  <2>8. machine.render[i] = c
    BY <2>5, MachinesAssumption DEF Regular
  <2> QED BY <2>3, <2>5, <2>7, <2>8 DEF RenderNode
<1> QED BY <1>1, CardInvariance, PTL
==============================================================================
