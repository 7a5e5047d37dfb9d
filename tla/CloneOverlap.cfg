SPECIFICATION Spec
CONSTANTS
  p1 = p1
  p2 = p2
  c1 = c1
  c2 = c2
  c3 = c3
  c4 = c4
  Procs <- TwoProcs
  Callers <- TwoCallers
  Home <- TwoHome
  MaxCrashes = 0
CHECK_DEADLOCK FALSE
PROPERTY
  CompleteIsForever
