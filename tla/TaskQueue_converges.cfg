SPECIFICATION FairSpec
CONSTANTS
  Runs = {r1}
  Nodes = {n1, n2}
  Execs = {e1, e2}
  Clients = {c1}
  NoNode = NoNode
  NoRun = NoRun
  NoExec = NoExec
  MaxAttempts = 1
  MaxCrashes = 0
  MaxCloses = 1
  MaxStalls = 0
  MaxFaults = 1
PROPERTIES
  CancelConverges
