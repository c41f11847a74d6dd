SPECIFICATION ReviewSpec
CONSTANTS
  d1 = d1  d2 = d2  p1 = p1  p2 = p2
  MaxRuns = 1
  Defects = {d1, d2}
  Errors = {d1}
  LayerOf <- MCLayerOf
  Visits = {p1, p2}
  NoVisit = NoVisit
  MaxActors = 3
  MaxCalls = 1
  MaxFaults = 0
  FaultKinds = {}
PROPERTY WaiverShown
CHECK_DEADLOCK FALSE
