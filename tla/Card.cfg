SPECIFICATION FairCardSpec
CONSTANTS
  Procs = {p1}
  None = None
  Orphan = Orphan
  Faults = {"open", "drm"}
  MaxCrashes = 1
  a = a
  b = b
  Cards = {a, b}
  Foreign = Foreign
  Idx <- MCIdx
  Machines <- MCMachines
  MaxChanges = 3
  MaxTears = 2
INVARIANTS
  CardTypeOK
  FansOfOneCard
  SensorOfSameCard
PROPERTY AlwaysUpAgain
