SPECIFICATION Spec
CONSTANTS
  Calls = {c1, c2}
  People = {p1, p2}
  CanSeeAll = {p1}
  HasCheckpointer = TRUE
  NoCall = NoCall
  Runs = {r1, r2}
  NoRun = NoRun
  MaxCommits = 1
  Datasets = {d1}
  Evals = {e1}
  MaxCases = 2
  MaxEdits = 1
  Repeats = 2
  Iterations = {i1, i2}
  Default = Default
  NoRow = NoRow
  Edited = Edited
  KBs = {k1}
  Docs = {d1}
  Texts <- SomeTexts
  ChunkTarget = 4
  ChunkOverlap = 1
  NoKB = NoKB
  Learners = {u1}
  Sessions = {s1}
  Names = {n1}
  Bodies = {b1, b2}
  Scanners = {x1}
  MaxCands = 2
  NoOne = NoOne
  Absent = Absent
  Users = {u1, u2}
  Tenants = {t1}
  Requests = {q1, q2}
  Root = u1
  NoTenant = NoTenant
  NoUser = NoUser
  MaxRequests = 3
  MaxCredentials = 2
  Starters = {n1, n2}
  Servers = {w1, w2}
  Permissions = {g1}
  Ids = {i1, i2}
  Addresses = {a1, a2}
  Nothing = Nothing
  MaxChoices = 4
  MaxFaults = 1
  MaxCrashes = 1
INVARIANTS
  TypesOK
  AskedBeforeRun
  WorkKept
  DoneIsComplete
  RefusedIsUndone
  CountsRight
  LibraryChecked
  SecretsKept
PROPERTIES
  AccountsSound
  ChoicesKept
CHECK_DEADLOCK FALSE
