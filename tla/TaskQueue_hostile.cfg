SPECIFICATION Spec
CONSTANTS
  Runs = {r1}
  Nodes = {n1, n2}
  Execs = {e1, e2}
  Clients = {c1}
  NoNode = NoNode
  NoRun = NoRun
  NoExec = NoExec
  MaxAttempts = 1
  MaxCrashes = 0
  MaxCloses = 0
  MaxStalls = 1
  MaxFaults = 1
SYMMETRY Symmetry
INVARIANTS
  RowConsistent
  RegistryLive
  ReportedIsSettled
PROPERTIES
  TerminalIsFinal
