SPECIFICATION FairSpec
CONSTANTS
  Clients = {c1, c2}
  Modes = {TRUE, FALSE}
  Batch = 2
  MaxEdits = 0
  MaxOthers = 0
  MaxHolds = 1
  MaxSent <- NoReload
INVARIANTS
  TypeOK
  StopsForAReason
PROPERTIES
  ZombiesReaped
  TermStops
