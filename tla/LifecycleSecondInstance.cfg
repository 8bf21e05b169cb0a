SPECIFICATION Spec
CONSTANTS
  Procs = {p1, p2}
  None = None
  Orphan = Orphan
  Faults = {}
  MaxCrashes = 0
INVARIANT RunningIsReachable
