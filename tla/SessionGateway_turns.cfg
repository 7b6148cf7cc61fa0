SPECIFICATION Spec
CONSTANTS
  Requests = {r1, r2, r3}
  Sessions = {s1, s2}
  NoOne = NoOne
  MostTokens = 1
  UserMax = 1
  SessionMax = 1
  MaxFaults = 1
  MaxDeletes = 1
  MaxCrashes = 1
SYMMETRY Symmetry
INVARIANTS
  OneAtATime
  LockTableExact
  SessionBudget
  UserBudget
  AnswerFollowsQuestion
  HistoryIsPast
