SPECIFICATION Spec
CONSTANTS
  Starters = {n1}
  Servers = {w1}
  Permissions = {g1}
  MaxCrashes = 1
INVARIANTS
  NamesUnique
