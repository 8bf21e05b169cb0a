SPECIFICATION FairSpec
CONSTANTS
  Clients = {}
  Modes = {TRUE}
  Batch = 2
  MaxEdits = 2
  MaxOthers = 1
  MaxHolds = 1
  MaxSent <- NoTerm
PROPERTIES
  HupHonoured
  EditNoticed
