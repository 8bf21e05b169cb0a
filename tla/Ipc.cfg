SPECIFICATION FairSpec
CONSTANTS
  Fanctls = {f1}
  Strangers = {s1}
  Commands <- SomeCommands
  RawRequests <- SomeRequests
  SRVBACKLOG = 0
  Matrices <- SomeMatrices
  Sensors <- SomeSensors
  MaxChanges = 1
INVARIANTS
  TypeOK
  OnlyRootStops
  ConfirmedExit
PROPERTIES
  AnswersCurrent
  AnswersUnderstood
  ExitServed
  EveryCallEnds
