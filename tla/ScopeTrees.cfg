SPECIFICATION Spec
CONSTANTS
  p1 = p1
  p2 = p2
  t1 = t1
  t2 = t2
  t3 = t3
  x = x
  y = y
  Nobody = Nobody
  Processes <- MCProcesses
  Threads <- MCThreads
  ProcessOf <- MCProcessOf
  Scopes <- MCScopes
  Root = "root"
  Builtin = {"agent"}
  Below <- MCBelow
  MaxSaves = 2
SYMMETRY Symmetry
INVARIANTS
  OrphansOnlyToOverlap
PROPERTIES
  OnlyRemovalsRemove
CHECK_DEADLOCK FALSE
