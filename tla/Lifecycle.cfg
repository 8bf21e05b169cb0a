SPECIFICATION Spec
CONSTANTS
  Procs = {p1, p2, p3}
  None = None
  Orphan = Orphan
  Faults <- AllFaults
  MaxCrashes = 1
SYMMETRY Symmetry
INVARIANTS
  TypeOK
  AtMostOneController
  RunningIsManual
  FansHandedBack
  LastOneOutCleansUp
PROPERTY OrderlyOwnership
