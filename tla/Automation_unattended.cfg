SPECIFICATION FairSpec
CONSTANTS
  Autos = {1}
  Jobs = {j1, j2}
  Scans = {s1}
  NoAuto = NoAuto
  NoJob = NoJob
  MaxRetries = 1
  RecoveryMax = 1
  MaxFaults = 1
  MaxTroubles = 2
  MaxEdits = 1
  MaxCrashes = 2
INVARIANTS
  TypeOK
  LockExact
  ResumeBudget
  InterruptedRunIsTried
PROPERTIES
  RecordFinal
  DueIsRun
