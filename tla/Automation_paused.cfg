SPECIFICATION Spec
CONSTANTS
  Autos = {1}
  Jobs = {j1, j2}
  Scans = {s1}
  NoAuto = NoAuto
  NoJob = NoJob
  MaxRetries = 0
  RecoveryMax = 1
  MaxFaults = 0
  MaxTroubles = 2
  MaxEdits = 1
  MaxCrashes = 0
PROPERTIES
  PauseSticks
