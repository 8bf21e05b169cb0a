SPECIFICATION Spec
CONSTANTS
  MAX_TEMP_THRESHOLDS = 3
  Configs <- MCConfigs
  SensorReadings <- MCReadings
INVARIANT SpeedBetweenRows
