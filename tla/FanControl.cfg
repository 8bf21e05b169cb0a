SPECIFICATION Spec
CONSTANTS
  MAX_TEMP_THRESHOLDS = 3
  Configs <- MCConfigs
  SensorReadings <- MCReadings
INVARIANTS
  TypeOK
  ThresholdNamesRow
  RowsHonoured
  SlowsOnceCool
  GradualCoolingHolds
  FatalOnlyWhenUnusable
