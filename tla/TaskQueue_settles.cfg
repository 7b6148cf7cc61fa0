SPECIFICATION BusySpec
CONSTANTS
  Runs = {r1, r2}
  Nodes = {n1, n2}
  Execs = {e1, e2}
  Clients = {}
  NoNode = NoNode
  NoRun = NoRun
  NoExec = NoExec
  MaxAttempts = 1
  MaxCrashes = 2
  MaxCloses = 0
  MaxStalls = 0
  MaxFaults = 0
PROPERTIES
  EveryRunSettles
