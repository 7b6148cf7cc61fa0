SPECIFICATION Spec
CONSTANTS
  Runs = {r1}
  Nodes = {n1, n2}
  Execs = {e1, e2}
  Clients = {c1, c2}
  NoNode = NoNode
  NoRun = NoRun
  NoExec = NoExec
  MaxAttempts = 2
  MaxCrashes = 3
  MaxCloses = 0
  MaxStalls = 0
  MaxFaults = 0
SYMMETRY Symmetry
INVARIANTS
  TypeOK
  SingleExecution
  OwnerExecutes
  RetryBudget
  CanceledWasAsked
PROPERTIES
  QueuedCancelIsClean
  ImplementsDispatch
