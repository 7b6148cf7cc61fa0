SPECIFICATION Spec
CONSTANTS
  Calls = {c1}
  People = {p1, p2}
  CanSeeAll = {p1}
  HasCheckpointer = TRUE
  NoCall = NoCall
  MaxFaults = 0
  MaxCrashes = 0
INVARIANTS
  RejectedNeverRuns
