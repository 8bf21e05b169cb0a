-------------------------------- MODULE Card --------------------------------
(***************************************************************************)
(* How the daemon finds its card: hwmon_open of src/fand/hwmon.c with the  *)
(* cache of src/fand/cache.c, and drm_open of src/fand/drm.c.  The life    *)
(* cycle of Lifecycle goes on as it is; the two steps in which it says     *)
(* that the card may or may not be found are worked out here.              *)
(*                                                                         *)
(* The cards may be numbered anew between two runs of the daemon.  The     *)
(* file is written without being truncated first, and a write that fails   *)
(* or a loss of power may leave any part of the old one behind the new.    *)
(***************************************************************************)
EXTENDS Lifecycle

CONSTANTS Cards,       \* the cards that amdgpu drives
          Foreign,     \* a card of another driver
          Idx,         \* the indices of cards in /sys/class/drm
          Machines,    \* how the cards may be numbered
          MaxChanges,  \* bound: how often they are numbered anew
          MaxTears     \* bound: how often the cache cannot be written

\* card: the amdgpu card with index i.  render: the card behind render node 128 + i.
\* hwmon: the number of the hwmon directory of a card, or None while there is none.
Machine == [card : [Idx -> Cards \cup {None}], render : [Idx -> Cards \cup {None, Foreign}],
            hwmon : [Cards -> Nat \cup {None}]]

ASSUME MachinesAssumption ==
  /\ Idx \subseteq Nat /\ 0 \in Idx
  /\ None \notin Cards /\ Foreign \notin Cards
  /\ Machines \subseteq Machine
  /\ \A m \in Machines : \A i, j \in Idx : m.card[i] = m.card[j] /\ m.card[i] # None => i = j
ASSUME BoundsAssumption == MaxChanges \in Nat /\ MaxTears \in Nat
\* In Lifecycle the two steps may fail; here it is said when they do.
ASSUME FaultsAssumption == {"open", "drm"} \subseteq Faults

VARIABLES
  machine,   \* the cards as they are numbered now
  cache,     \* the fields of the cache file, None beyond its end
  memory,    \* struct fand_cache of each instance
  step,      \* what hwmon_open does next
  changes, tears,
  (* History, read by the properties only. *)
  places     \* the indices each card has had

cardVars == <<machine, cache, memory, step, changes, tears, places>>
allVars == <<vars, cardVars>>

(* The fields: pwm, pwm_enable, temp_input, card_idx, checksum.  A path is the hwmon  *)
(* directory that it leads into: the card, which realpath names by its slot, and the  *)
(* number of the directory.                                                           *)
Field == 1 .. 5
Nowhere == <<None, 0>>   \* a path that leads to nothing in /sys
Dirs == Cards \X Nat

Nothing == [i \in Field |-> IF i <= 3 THEN Nowhere ELSE IF i = 4 THEN 0 ELSE <<>>]

IndicesOf(m, c) == {i \in Idx : m.card[i] = c}

CardInit ==
  /\ Init
  /\ machine \in Machines
  /\ cache = [i \in Field |-> None]
  /\ memory = [p \in Procs |-> Nothing] /\ step = [p \in Procs |-> "load"]
  /\ changes = 0 /\ tears = 0
  /\ places = [c \in Cards |-> IndicesOf(machine, c)]

------------------------------------------------------------------------------
(* cache.c *)

\* cache_file_exists_in_sysfs.
Exists(path) == \E c \in Cards : /\ IndicesOf(machine, c) # {} /\ machine.hwmon[c] # None
                                 /\ path = <<c, machine.hwmon[c]>>

\* A slip: the length of the paths only.
WholePaths(f) == \A i \in 1 .. 3 : f[i] # None

\* The file is as long as it should be.
Whole(f) == \A i \in Field : f[i] # None

\* A slip: the index is not part of what is summed.
DigestOfPaths(f) == <<f[1], f[2], f[3]>>

\* The checksum over the fields before it, taken to be different for different fields.
Digest(f) == <<f[1], f[2], f[3], f[4]>>

\* A slip: the checksum is not compared.
ValidPaths(f) == Exists(f[1]) /\ Exists(f[2]) /\ Exists(f[3])

\* cache_validate.  The three files are there, and the sum is the one in the cache.
Valid(f) == f[5] = Digest(f) /\ Exists(f[1]) /\ Exists(f[2]) /\ Exists(f[3])

\* cache_pack.
Packed(f) == [i \in Field |-> IF i = 5 THEN Digest(f) ELSE f[i]]

\* The file after n of its fields have been written.
Written(f, n) == [i \in Field |-> IF i <= n THEN f[i] ELSE cache[i]]

Going(p, s) == At(p, "open") /\ step[p] = s
Then(p, s) == step' = [step EXCEPT ![p] = s]

\* The end of hwmon_open, if the descriptor is not opened.
GivesUp(p) == HwmonOpen(p) /\ p \notin fd' /\ Then(p, "load")

\* cache_load.  A file of the right length is taken into memory before it is judged.
CacheLoad(p) ==
  /\ Going(p, "load")
  /\ memory' = IF Whole(cache) THEN [memory EXCEPT ![p] = cache] ELSE memory
  /\ Then(p, IF Whole(cache) /\ Valid(cache) THEN "open" ELSE "detect")
  /\ UNCHANGED <<vars, machine, cache, changes, tears, places>>

\* cache_write: all is written, or an error leaves a part, or all if it is in closing the file,
\* and fails hwmon_open.
CacheWrite(p) ==
  /\ Going(p, "write")
  /\ \/ cache' = Written(Packed(memory[p]), 5) /\ Then(p, "open") /\ UNCHANGED <<vars, tears>>
     \/ /\ tears < MaxTears /\ tears' = tears + 1
        /\ \E n \in 0 .. 5 : cache' = Written(Packed(memory[p]), n)
        /\ GivesUp(p)
  /\ UNCHANGED <<machine, memory, changes, places>>

------------------------------------------------------------------------------
(* hwmon.c and drm.c *)

\* hwmon_detect_card_index: the lowest index at which there is an amdgpu card.
Detected == {i \in Idx : machine.card[i] # None /\ \A j \in Idx : j < i => machine.card[j] = None}

\* hwmon_detect_iface_dir.  Without a directory the buffer stays uninitialized, which is
\* taken to be no path of /sys.
IfaceDir(c) == IF machine.hwmon[c] = None THEN Nowhere ELSE <<c, machine.hwmon[c]>>

\* hwmon_set_sysfs_paths: the fields for the card at index i.  The checksum in memory
\* is left as it is.
Found(p, i) == [f \in Field |-> CASE f <= 3 -> IfaceDir(machine.card[i])
                                 [] f = 4  -> i
                                 [] f = 5  -> memory[p][f]]
Detect(p) ==
  /\ Going(p, "detect")
  /\ \/ /\ \E i \in Detected : memory' = [memory EXCEPT ![p] = Found(p, i)]
        /\ Then(p, "write")
        /\ UNCHANGED vars
     \/ Detected = {} /\ GivesUp(p) /\ UNCHANGED memory
  /\ UNCHANGED <<machine, cache, changes, tears, places>>

\* The open of fdopen_excl for pwm1_enable.
OpenEnable(p) ==
  /\ Going(p, "open") /\ Then(p, "load")
  /\ HwmonOpen(p) /\ (p \in fd' <=> Exists(memory[p][2]))
  /\ UNCHANGED <<machine, cache, memory, changes, tears, places>>

\* drm_open: render node 128 + card_idx, if there is one.
RenderNode(i) == IF i \in Idx THEN machine.render[i] ELSE None
OpenSensor(p) ==
  /\ DrmOpen(p) /\ (pc'[p] = "run" <=> RenderNode(memory[p][4]) # None)
  /\ UNCHANGED cardVars

------------------------------------------------------------------------------
(* The rest of the life cycle and the environment *)

\* A new process has an empty struct fand_cache; daemon_restart keeps the old one.
NewProcess(p) ==
  /\ Start(p) /\ memory' = [memory EXCEPT ![p] = Nothing]
  /\ UNCHANGED <<machine, cache, step, changes, tears, places>>

\* The end of a process; with the power, part of what is being written may be lost.
PowerOff(p) ==
  /\ Crash(p) /\ Then(p, "load")
  /\ \/ UNCHANGED cache
     \/ Going(p, "write") /\ \E n \in 1 .. 5 : cache' = Written(Packed(memory[p]), n)
  /\ UNCHANGED <<machine, memory, changes, tears, places>>

\* While no daemon is up, cards are added, removed, numbered anew, or get their driver.
Change(m) ==
  /\ \A p \in Procs : At(p, "off")
  /\ lock = None
  /\ m # machine /\ machine' = m
  /\ changes < MaxChanges /\ changes' = changes + 1
  /\ places' = [c \in Cards |-> places[c] \cup IndicesOf(m, c)]
  /\ UNCHANGED <<vars, cache, memory, step, tears>>

CardStep(p) == \/ CacheLoad(p) \/ Detect(p) \/ CacheWrite(p) \/ OpenEnable(p) \/ OpenSensor(p)
               \/ OtherStep(p) /\ UNCHANGED cardVars

CardNext ==
  \/ \E p \in Procs : \/ NewProcess(p) \/ CardStep(p) \/ PowerOff(p)
                      \/ (Stop(p) \/ Restart(p)) /\ UNCHANGED cardVars
  \/ OrphanExit /\ UNCHANGED cardVars
  \/ \E m \in Machines : Change(m)

CardSpec == CardInit /\ [][CardNext]_allVars

\* An instance goes on with what it has begun, whoever wants the daemon running
\* starts it again when it is gone, and the clients of orphaned children hang up.
CardFairness == /\ \A p \in Procs : WF_allVars(CardStep(p)) /\ WF_allVars(NewProcess(p))
                /\ WF_allVars(OrphanExit /\ UNCHANGED cardVars)

FairCardSpec == CardSpec /\ CardFairness

------------------------------------------------------------------------------
(* Properties *)

\* The instance has opened the card's files, and may write to them.
HasCard(p) == pc[p] \in {"flock", "manual", "drm", "run"} \/ (pc[p] \in FreeStages /\ p \in fd)

\* Every variable keeps its type: what the cache holds is never taken for more than the
\* fields that were written.
CardTypeOK ==
  /\ TypeOK
  /\ machine \in Machines
  /\ cache[4] \in Idx \cup {None} /\ \A i \in 1 .. 3 : cache[i] \in Dirs \cup {Nowhere, None}
  /\ \A p \in Procs : /\ memory[p][4] \in Idx
                      /\ \A i \in 1 .. 3 : memory[p][i] \in Dirs \cup {Nowhere}
  /\ step \in [Procs -> {"load", "detect", "write", "open"}]
  /\ changes \in 0 .. MaxChanges /\ tears \in 0 .. MaxTears
  /\ places \in [Cards -> SUBSET Idx]

\* The mode, the pwm and the temperature that an instance uses are those of one card,
\* and of one that is there: whatever a failed write or a loss of power made of the
\* cache, however the cards were exchanged, no mixture of two cards gets past
\* cache_validate (cache.c:48-81).
FansOfOneCard ==
  \A p \in Procs : HasCard(p) =>
    /\ Exists(memory[p][2])
    /\ memory[p][1] = memory[p][2] /\ memory[p][3] = memory[p][2]

\* Render nodes are numbered as the cards are.
Regular(m) == \A i \in Idx : m.card[i] # None => m.render[i] = m.card[i]

\* No card has ever been found at two indices.
Settled == \A c \in Cards : \A i, j \in places[c] : i = j

\* The sensor that drives the fans is the one of the card whose fans they are, as long
\* as render nodes are numbered as cards are and no card changes its index.  The paths
\* are checked against /sys, the index next to them is not: what keeps the two together
\* is the checksum over both (cache.c:59, 96-99, drm.c:55).
SensorOfSameCard ==
  \A p \in Procs : pc[p] = "run" /\ Regular(machine) /\ Settled =>
    RenderNode(memory[p][4]) = memory[p][2][1]

\* There is a card that the daemon can be expected to find.
Dependable == /\ Regular(machine) /\ Settled /\ Detected # {}
              /\ \A i \in Detected : machine.hwmon[machine.card[i]] # None

\* A daemon that is killed leaves its files behind, so that the next start fails; but
\* that failure clears them, and a cache that is torn, stale or of a card that is gone is
\* replaced: the daemon is again and again up in the end, if there is a card
\* (daemon.c:116-119, 261-264; hwmon.c:162-171).
AlwaysUpAgain == []<>((\E p \in Procs : pc[p] = "run") \/ ~Dependable)
=============================================================================
