SPECIFICATION ReviewSpec
CONSTANTS
  d1 = d1  d2 = d2  p1 = p1  p2 = p2
  MaxRuns = 2
  Defects = {d1, d2}
  Errors = {d1}
  LayerOf <- MCLayerOf
  Visits = {p1, p2}
  NoVisit = NoVisit
  MaxActors = 3
  MaxCalls = 2
  MaxFaults = 1
  FaultKinds = {"save", "s3", "api", "lost", "read", "score"}
INVARIANT ReviewInv
INVARIANT UnwaivedCounts
INVARIANT ScoreExact
INVARIANT PageSettles
SYMMETRY MCSymmetry
CHECK_DEADLOCK FALSE
