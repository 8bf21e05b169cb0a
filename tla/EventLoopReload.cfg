SPECIFICATION Spec
CONSTANTS
  Clients = {}
  Modes = {TRUE}
  Batch = 2
  MaxEdits = 1
  MaxOthers = 0
  MaxHolds = 0
  MaxSent <- Once
INVARIANT MatrixFromFile
