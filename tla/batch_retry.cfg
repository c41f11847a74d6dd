SPECIFICATION Spec
CONSTANTS
  j1 = j1  j2 = j2  j3 = j3  s1 = s1  s2 = s2  b1 = b1
  w1 = w1  w2 = w2  h1 = h1  h2 = h2  h3 = h3
  None = None
  Jobs = {j1, j2, j3}
  Subs = {s1, s2}
  Batches = {b1}
  BatchOf <- MCBothInBatch
  Workers = {w1, w2}
  Requests = {h1, h2}
  Calls <- MCAnalyzeRetry
  MaxRuns = 3
  NumInserts = 1
  MaxFaults = 0
  MaxReceive = 1
  ChanCap = 1
  MaxCopies = 1
  FaultKinds = {}
INVARIANT CountersExact
CHECK_DEADLOCK FALSE
