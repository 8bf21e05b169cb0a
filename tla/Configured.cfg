SPECIFICATION ConfiguredSpec
CONSTANTS
  MAX_TEMP_THRESHOLDS = 4
  Configs = {}
  SensorReadings <- MCReadings
  Files <- MCFiles
  Garbage <- MCGarbage
  MaxLoads = 3
INVARIANTS
  ConfiguredTypeOK
  RowsFromFile
  FilesNeverFatal
  PlainFilesJudged
CHECK_DEADLOCK FALSE
